----------------------------- MODULE QqDelivery ------------------------------
(***************************************************************************)
(* How text gets to QQ (koi-infra/src/qq_source.rs and tools/qq.rs): the   *)
(* cached access token, requests with retries, the chunks of a text and    *)
(* the sequence numbers by which the platform recognises a repeated one:   *)
(* replies in a private chat or a group have one, replies in a channel or  *)
(* a direct message, and texts that answer no message, have none.          *)
(*                                                                         *)
(* A delivery is a call of a tool, an authorization request or a notice;   *)
(* they run concurrently.  The platform is external: it knows one good     *)
(* token at a time, and refuses a second message with the same number in   *)
(* reply to the same message; without a number it shows it again.          *)
(***************************************************************************)
EXTENDS Integers, Sequences, FiniteSets

CONSTANTS
  Deliveries,      \* what is to be sent
  ReplyTo,         \* [Deliveries -> the message, or the conversation, it answers]
  Numbered,        \* the deliveries whose requests carry a msg_seq
  Chunks,          \* [Deliveries -> the number of chunks of the text]
  Tools,           \* the deliveries a cancellation can stop
  MaxRetries,      \* max_retries of the configuration
  MaxFaults,       \* bound: lost requests and answers, and failures of the platform
  MaxRestarts      \* bound: crashes

VARIABLES
  work,            \* [Deliveries -> [at, chunk, attempt, number, token, answer]]
  cache,           \* the cached token, 0 for none
  numbers,         \* outgoing_sequences, by the message replied to
  good,            \* the token the platform accepts
  used,            \* the numbers the platform has seen: [msg, number, what, life]
  shown,           \* what recipients see, in order: [delivery, chunk]
  faults, life

vars == <<work, cache, numbers, good, used, shown, faults, life>>

\* What the theorems suppose of the constants: a text has some chunks, a request some
\* retries.
ConstantsFit == Chunks \in [Deliveries -> Nat] /\ MaxRetries \in Nat /\ Numbered \subseteq Deliveries

Keys == {ReplyTo[d] : d \in Deliveries}
Ended == {"delivered", "failed", "cancelled"}

Init ==
  /\ work = [d \in Deliveries |-> [at |-> "idle", chunk |-> 1, attempt |-> 0, number |-> 0,
                                   token |-> 0, answer |-> "none"]]
  /\ cache = 0 /\ numbers = [m \in Keys |-> 0] /\ good = 1
  /\ used = {} /\ shown = <<>> /\ faults = 0 /\ life = 1

Fault == faults < MaxFaults /\ faults' = faults + 1
Moves(d, at) == work' = [work EXCEPT ![d].at = at]

-----------------------------------------------------------------------------
Start(d) ==
  /\ work[d].at = "idle" /\ Moves(d, "next")
  /\ UNCHANGED <<cache, numbers, good, used, shown, faults, life>>

\* next_outgoing_sequence
NextNumber(d) == numbers[ReplyTo[d]] + 1
\* send_target_with_receipts: the next chunk gets a number, the last one ends it.
NextChunk(d) ==
  /\ work[d].at = "next"
  /\ IF work[d].chunk > Chunks[d]
     THEN Moves(d, "delivered") /\ numbers' = numbers
     ELSE /\ numbers' = [numbers EXCEPT ![ReplyTo[d]] = NextNumber(d)]
          /\ work' = [work EXCEPT ![d].at = "token", ![d].attempt = 0, ![d].number = NextNumber(d)]
  /\ UNCHANGED <<cache, good, used, shown, faults, life>>

\* QqTokenManager::get; the lock is held while a new token is fetched.
GetToken(d) ==
  /\ work[d].at = "token"
  /\ cache' = IF cache = 0 THEN good ELSE cache
  /\ work' = [work EXCEPT ![d].at = "send", ![d].token = cache']
  /\ UNCHANGED <<numbers, good, used, shown, faults, life>>
GetTokenFails(d) ==
  /\ work[d].at = "token" /\ cache = 0 /\ Fault /\ Moves(d, "failed")
  /\ UNCHANGED <<cache, numbers, good, used, shown, life>>

\* The platform takes the request, and knows one with a number again.
Seen(d) == d \in Numbered /\ \E u \in used : u.msg = ReplyTo[d] /\ u.number = work[d].number
Shows(d) ==
  /\ used' = IF d \notin Numbered THEN used
             ELSE used \cup {[msg |-> ReplyTo[d], number |-> work[d].number,
                              what |-> <<d, work[d].chunk>>, life |-> life]}
  /\ shown' = Append(shown, [delivery |-> d, chunk |-> work[d].chunk])
Answered(d, answer) == work' = [work EXCEPT ![d].at = "sent", ![d].answer = answer]
Send(d) ==
  /\ work[d].at = "send"
  /\ IF work[d].token # good THEN Answered(d, "unauthorized") /\ UNCHANGED <<used, shown>>
     ELSE IF Seen(d) THEN Answered(d, "refused") /\ UNCHANGED <<used, shown>>
     ELSE Answered(d, "ok") /\ Shows(d)
  /\ UNCHANGED <<cache, numbers, good, faults, life>>
\* No answer, a temporary error or an unreadable body, after the message was
\* shown or without it.
SendFails(d, answer) ==
  /\ work[d].at = "send" /\ Fault
  /\ Answered(d, answer)
  /\ \/ UNCHANGED <<used, shown>>
     \/ work[d].token = good /\ ~Seen(d) /\ Shows(d)
  /\ UNCHANGED <<cache, numbers, good, life>>

\* QqApiClient::request, the answer.  invalidate drops the token that was
\* refused, not one that another request has fetched since.
Invalidated(token) == IF cache = token THEN 0 ELSE cache
\* Mutant: a retry is a chunk of its own.
Renumbered(d) ==
  work' = [work EXCEPT ![d].at = IF work[d].attempt < MaxRetries THEN "token" ELSE "failed",
                       ![d].attempt = @ + 1, ![d].number = @ + 1]
Retried(d) ==
  work' = [work EXCEPT ![d].at = IF work[d].attempt < MaxRetries THEN "token" ELSE "failed",
                       ![d].attempt = @ + 1]
Receive(d) ==
  LET w == work[d]
  IN /\ w.at = "sent"
     /\ cache' = IF w.answer = "unauthorized" THEN Invalidated(w.token) ELSE cache
     /\ CASE w.answer = "ok" -> work' = [work EXCEPT ![d].at = "next", ![d].chunk = @ + 1]
          [] w.answer \in {"refused", "unreadable"} -> Moves(d, "failed")
          [] OTHER -> Retried(d)
     /\ UNCHANGED <<numbers, good, used, shown, faults, life>>

Cancel(d) ==
  /\ d \in Tools /\ work[d].at \notin Ended \cup {"idle"} /\ Moves(d, "cancelled")
  /\ UNCHANGED <<cache, numbers, good, used, shown, faults, life>>

\* The platform gives out another token; the cached one reaches its end.
Revoke ==
  /\ Fault /\ good' = good + 1
  /\ UNCHANGED <<work, cache, numbers, used, shown, life>>
Expire ==
  /\ cache # 0 /\ Fault /\ cache' = 0
  /\ UNCHANGED <<work, numbers, good, used, shown, life>>
Restart ==
  /\ life <= MaxRestarts /\ life' = life + 1
  /\ cache' = 0 /\ numbers' = [m \in Keys |-> 0]
  /\ work' = [d \in Deliveries |-> IF work[d].at \in Ended \cup {"idle"} THEN work[d]
                                   ELSE [work[d] EXCEPT !.at = "cancelled"]]
  /\ UNCHANGED <<good, used, shown, faults>>

Next ==
  \/ \E d \in Deliveries :
       \/ Start(d) \/ NextChunk(d) \/ GetToken(d) \/ GetTokenFails(d) \/ Send(d) \/ Receive(d)
       \/ Cancel(d) \/ \E a \in {"lost", "busy", "unreadable"} : SendFails(d, a)
  \/ Revoke \/ Expire \/ Restart
Spec == Init /\ [][Next]_vars

-----------------------------------------------------------------------------
TypeOK ==
  /\ cache \in 0..good
  /\ \A d \in Deliveries : work[d].chunk \in 1..(Chunks[d] + 1) /\ work[d].attempt \in 0..(MaxRetries + 1)

\* Where in what is shown the chunks of a delivery are.
PlacesOf(d) == {i \in DOMAIN shown : shown[i].delivery = d}
Showings(d, c) == {i \in PlacesOf(d) : shown[i].chunk = c}
\* However often a request is repeated, the reader sees the chunks in order, none
\* before those that come before it, and all of them when the tool says so.  A chunk
\* with a number is seen once.  One without may be seen again at each retry, for
\* nothing tells the platform that it is the same one.
RepliesReadWell ==
  \A d \in Deliveries :
    /\ \A i, j \in PlacesOf(d) : i < j => shown[i].chunk <= shown[j].chunk
    /\ \A i \in PlacesOf(d), c \in 1..Chunks[d] : c <= shown[i].chunk => Showings(d, c) # {}
    /\ \A c \in 1..Chunks[d] :
         Cardinality(Showings(d, c)) <= IF d \in Numbered THEN 1 ELSE MaxRetries + 1
    /\ work[d].at = "delivered" => \A c \in 1..Chunks[d] : Showings(d, c) # {}

\* The platform refuses a chunk as repeated only when that chunk is what it has
\* shown under the number, unless the process was restarted since.
RefusedOnlyIfShown ==
  \A d \in Deliveries : work[d].answer = "refused" =>
    \E u \in used : u.msg = ReplyTo[d] /\ u.number = work[d].number
      /\ (u.what = <<d, work[d].chunk>> \/ u.life < life)

ReadsWell == TypeOK /\ RepliesReadWell /\ RefusedOnlyIfShown

\* A late refusal of an old token does not throw away the new one.
KeepsGoodToken == \A d \in Deliveries : Receive(d) /\ cache = good => cache' = cache
=============================================================================
