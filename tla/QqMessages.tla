----------------------------- MODULE QqMessages ------------------------------
(***************************************************************************)
(* What a QQ message becomes (koi-infra/src/qq_source.rs): each dispatch   *)
(* of it has a task of its own, which finds out whether the bot was        *)
(* addressed, drops copies, and writes an input or executes a command.     *)
(*                                                                         *)
(* The platform dispatches a message in one or more forms: "direct" (to    *)
(* the bot alone), "at" (to the bot in the group), "marked" and "plain"    *)
(* (to the group; it names the bot, as such or by an id the bot must know  *)
(* to be its own).  Each comes any number of times: again after a resume   *)
(* (QqGateway) and after a restart.  The tasks run in any order.           *)
(***************************************************************************)
EXTENDS Integers, Sequences, FiniteSets

CONSTANTS
  Messages,        \* what users write
  Forms,           \* [Messages -> sets of "direct", "at", "marked", "plain"]
  Commands,        \* the messages whose text is a control command
  MentionOnly,     \* mention_only of the configuration
  DedupSize,       \* DEDUP_CACHE_SIZE
  MaxDispatches,   \* bound: dispatches
  MaxFailures,     \* bound: failed requests and writes
  MaxRestarts      \* bound: crashes

VARIABLES
  handlers,        \* the spawned tasks
  known,           \* the identity of the bot in the group is cached
  dedup,           \* DedupCache's order; "seen" is its range
  stored,          \* what reached the conversation, in order
  left,            \* history: the keys of messages that newer ones pushed out of the cache
  dispatched, failures, life

vars == <<handlers, known, dedup, stored, left, dispatched, failures, life>>

Init ==
  /\ handlers = {} /\ known = FALSE /\ dedup = <<>> /\ stored = <<>> /\ left = {}
  /\ dispatched = 0 /\ failures = 0 /\ life = 1

\* handle_dispatch and normalize_dispatch: what the form says of the mention.
\* For a message of the group the adapter asks for the bot's identity first.
Dispatch(m, form) ==
  /\ dispatched < MaxDispatches /\ form \in Forms[m]
  /\ dispatched' = dispatched + 1
  /\ handlers' = handlers \cup
       {[n |-> dispatched', msg |-> m, form |-> form, mention |-> form \in {"at", "marked"},
         stage |-> IF form \in {"marked", "plain"} THEN "identity" ELSE "accept"]}
  /\ UNCHANGED <<known, dedup, stored, left, failures, life>>

\* group_bot_member_openid: kept once it is known, asked for again until then.
Identity(h) ==
  /\ h.stage = "identity"
  /\ known' = TRUE
  /\ handlers' = (handlers \ {h}) \cup {[h EXCEPT !.stage = "accept", !.mention = TRUE]}
  /\ UNCHANGED <<dedup, stored, left, dispatched, failures, life>>
Unmarked(h) == IF h.mention \/ ~MentionOnly THEN {[h EXCEPT !.stage = "accept"]} ELSE {}
IdentityFails(h) ==
  /\ h.stage = "identity" /\ ~known /\ failures < MaxFailures
  /\ handlers' = (handlers \ {h}) \cup Unmarked(h)
  /\ failures' = failures + 1
  /\ UNCHANGED <<known, dedup, stored, left, dispatched, life>>

\* DedupCache::insert
Seen(cache) == {cache[i] : i \in DOMAIN cache}
Insert(cache, key) ==
  IF key \in Seen(cache) THEN cache
  ELSE LET all == Append(cache, key) IN IF Len(all) > DedupSize THEN Tail(all) ELSE all
MessageKey(m) == <<"message", m>>
DispatchKey(h) == <<h.form, h.msg>>

\* accept_message, up to its first wait: both keys are inserted whatever the
\* first one says.
Accept(h) ==
  LET once == Insert(dedup, MessageKey(h.msg))
      new == MessageKey(h.msg) \notin Seen(dedup) /\ DispatchKey(h) \notin Seen(once)
  IN /\ h.stage = "accept"
     /\ dedup' = Insert(once, DispatchKey(h))
     /\ handlers' = (handlers \ {h}) \cup IF new THEN {[h EXCEPT !.stage = "write"]} ELSE {}
     /\ left' = left \cup ((Seen(dedup) \cup {MessageKey(h.msg)}) \ Seen(dedup'))
     /\ UNCHANGED <<known, stored, dispatched, failures, life>>

\* handle_control_command for a command the bot was addressed with,
\* ingest_message for everything else; each writes under the write lock.  A write
\* that fails may have reached the store.
Becomes(h) == IF h.mention /\ h.msg \in Commands THEN "command" ELSE "input"
Stores(h) == stored' = Append(stored, [msg |-> h.msg, as |-> Becomes(h), life |-> life])
Record(h) ==
  /\ h.stage = "write" /\ Stores(h)
  /\ handlers' = handlers \ {h}
  /\ UNCHANGED <<known, dedup, left, dispatched, failures, life>>
RecordFails(h) ==
  /\ h.stage = "write" /\ failures < MaxFailures
  /\ Stores(h) \/ UNCHANGED stored
  /\ handlers' = handlers \ {h}
  /\ failures' = failures + 1
  /\ UNCHANGED <<known, dedup, left, dispatched, life>>

\* hydrate_message_dedup: the messages that became inputs, oldest first.
\* Mutant: the cache starts empty.
EmptyCache == <<>>
Hydrated ==
  LET fill[n \in 0..Len(stored)] ==
        IF n = 0 THEN <<>>
        ELSE IF stored[n].as = "input" THEN Insert(fill[n - 1], MessageKey(stored[n].msg))
        ELSE fill[n - 1]
  IN fill[Len(stored)]
\* After it, other messages became inputs, as many as the cache has room for.
Inputs == {i \in DOMAIN stored : stored[i].as = "input"}
Crowded(i) ==
  Cardinality({stored[j].msg : j \in {k \in Inputs : k > i}} \ {stored[i].msg}) >= DedupSize
Restart ==
  /\ life <= MaxRestarts
  /\ left' = left \cup {MessageKey(stored[i].msg) : i \in {k \in Inputs : Crowded(k)}}
  /\ handlers' = {} /\ known' = FALSE /\ dedup' = Hydrated /\ life' = life + 1
  /\ UNCHANGED <<stored, dispatched, failures>>

Next ==
  \/ \E m \in Messages, form \in {"direct", "at", "marked", "plain"} : Dispatch(m, form)
  \/ \E h \in handlers :
       Identity(h) \/ IdentityFails(h) \/ Accept(h) \/ Record(h) \/ RecordFails(h)
  \/ Restart
Spec == Init /\ [][Next]_vars

-----------------------------------------------------------------------------
TypeOK ==
  /\ Len(dedup) <= DedupSize /\ Cardinality(Seen(dedup)) = Len(dedup)
  /\ \A h \in handlers : h.msg \in Messages /\ h.stage \in {"identity", "accept", "write"}

\* A message is taken once, in whatever forms and how often it is dispatched, also
\* after a restart.  It is taken again only when newer messages have pushed its key
\* out of the cache, and after a restart when it was a command, for commands are
\* remembered as long as the process lives.
StoredOnce ==
  \A i, j \in DOMAIN stored :
    i < j /\ stored[i].msg = stored[j].msg =>
      \/ stored[i].as = "command" /\ stored[i].life < stored[j].life
      \/ MessageKey(stored[i].msg) \in left

\* A command the bot was addressed with in a group is executed or dropped, never told
\* to the model as if it were a message, whichever of its forms comes first.  Only a
\* bot that takes unmarked messages too takes it for one, when it cannot find out its
\* own id.
CommandsAreNotInputs ==
  \A i \in DOMAIN stored :
    stored[i].msg \in Commands /\ stored[i].as = "input" =>
      \/ "direct" \in Forms[stored[i].msg]
      \/ "plain" \in Forms[stored[i].msg] /\ ~MentionOnly /\ failures > 0

\* Only a failed write loses a message: one that was refused as a copy is in
\* the conversation, or the task of the copy that came first still has it.
RefusedCopiesAreKept ==
  failures = 0 =>
    \A m \in Messages : MessageKey(m) \in Seen(dedup) =>
      \/ \E i \in DOMAIN stored : stored[i].msg = m
      \/ \E h \in handlers : h.msg = m /\ h.stage = "write"

\* What is dispatched in several copies and forms becomes one input or one command,
\* and none that was not lost in a failed write is missing.
MessagesArriveOnce == TypeOK /\ StoredOnce /\ CommandsAreNotInputs /\ RefusedCopiesAreKept
=============================================================================
