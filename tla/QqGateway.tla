------------------------------ MODULE QqGateway ------------------------------
(***************************************************************************)
(* The connection to the QQ gateway (koi-infra/src/qq_source.rs): its      *)
(* session, heartbeat and resumption, up to the point where each dispatch  *)
(* is given a task of its own; QqMessages goes on from there.              *)
(*                                                                         *)
(* The platform is external and modelled by what the adapter relies on: it *)
(* numbers the dispatches of a session, keeps them for a client that       *)
(* resumes, and forgets a session when it likes.  The length of waits and  *)
(* the back-off between connections are left out.                          *)
(***************************************************************************)
EXTENDS Integers, Sequences, FiniteSets

CONSTANTS
  MaxDispatches,   \* bound: dispatches of a session
  MaxSessions,     \* bound: sessions the platform opens
  MaxBreaks        \* bound: connections that end

VARIABLES
  platform,        \* [session, size]: its open session, 0 for none, and what it dispatched
  link,            \* [phase, bound, silent, frames, acked]
  session,         \* GatewaySession: [id, sequence], 0 for None
  handed,          \* the dispatches that got a task: [n, s]
  breaks, opened

vars == <<platform, link, session, handed, breaks, opened>>

NoLink == [phase |-> "off", bound |-> FALSE, silent |-> FALSE, frames |-> <<>>, acked |-> TRUE]
NoSession == [id |-> 0, sequence |-> 0]
\* A frame of session n; only a dispatch has a sequence number.
Frame(op, n, s) == [op |-> op, n |-> n, s |-> s]

Init ==
  /\ platform = [session |-> 0, size |-> 0]
  /\ link = NoLink /\ session = NoSession /\ handed = {} /\ breaks = 0 /\ opened = 0

-----------------------------------------------------------------------------
(* The platform *)

\* A platform that went silent sends nothing.
Sent(l, frames) == IF l.silent THEN l ELSE [l EXCEPT !.frames = @ \o frames]
Breaks == breaks < MaxBreaks /\ breaks' = breaks + 1

Dispatch ==
  /\ platform.session # 0 /\ platform.size < MaxDispatches
  /\ platform' = [platform EXCEPT !.size = @ + 1]
  /\ link' = IF link.bound THEN Sent(link, <<Frame("dispatch", platform.session, platform'.size)>>)
             ELSE link
  /\ UNCHANGED <<session, handed, breaks, opened>>
Forget ==
  /\ platform.session # 0 /\ ~link.bound
  /\ platform' = [session |-> 0, size |-> 0]
  /\ UNCHANGED <<link, session, handed, breaks, opened>>

\* A request to reconnect, a session that is or is not invalid, closes with some
\* code.  A platform that calls a session invalid has dropped it.
Endings == {"reconnect", "resumable", "invalid", "close", "close4006", "fatal"}
End(kind) ==
  /\ link.phase = "up" /\ ~link.silent /\ Breaks
  /\ link' = [Sent(link, <<Frame(kind, 0, 0)>>) EXCEPT !.bound = FALSE]
  /\ platform' = IF kind \in {"invalid", "close4006"} THEN [session |-> 0, size |-> 0] ELSE platform
  /\ UNCHANGED <<session, handed, opened>>
\* Opcode 1: the platform wants a heartbeat now.
AskForBeat ==
  /\ link.bound /\ link.frames = <<>>
  /\ link' = Sent(link, <<Frame("beat", 0, 0)>>)
  /\ UNCHANGED <<platform, session, handed, breaks, opened>>
FallSilent ==
  /\ link.phase # "off" /\ ~link.silent /\ Breaks
  /\ link' = [link EXCEPT !.silent = TRUE, !.bound = FALSE]
  /\ UNCHANGED <<platform, session, handed, opened>>

Up == [link EXCEPT !.phase = "up", !.acked = TRUE, !.frames = Tail(@)]
Identify ==
  /\ opened < MaxSessions /\ opened' = opened + 1
  /\ platform' = [session |-> opened', size |-> 1]
  /\ link' = Sent([Up EXCEPT !.bound = ~link.silent], <<Frame("ready", opened', 1)>>)
\* What was missed, then RESUMED, which carries the last number.
Resume ==
  LET missed == [i \in 1..(platform.size - session.sequence) |->
                   Frame("dispatch", session.id, session.sequence + i)]
      valid == session.id = platform.session
  IN /\ link' = Sent([Up EXCEPT !.bound = valid /\ ~link.silent],
                     IF valid THEN Append(missed, Frame("resumed", session.id, platform.size))
                     ELSE <<Frame("invalid", 0, 0)>>)
     /\ UNCHANGED <<platform, opened>>

-----------------------------------------------------------------------------
(* The adapter *)

\* gateway_loop and connect_gateway: the address, the socket; Hello comes first.
Connect ==
  /\ link.phase = "off"
  /\ link' = [NoLink EXCEPT !.phase = "open", !.frames = <<Frame("hello", 0, 0)>>]
  /\ UNCHANGED <<platform, session, handed, breaks, opened>>

\* The socket fails, or the request for a token or a heartbeat on it does: the
\* session is kept.
Break ==
  /\ link.phase \in {"open", "up"} /\ Breaks
  /\ link' = NoLink
  /\ UNCHANGED <<platform, session, handed, opened>>

\* send_heartbeat
Beaten(l) == Sent([l EXCEPT !.acked = FALSE], <<Frame("ack", 0, 0)>>)
\* A heartbeat is due: without an answer to the last one the connection is left.
Tick ==
  /\ link.phase = "up"
  /\ link' = IF link.acked THEN Beaten(link) ELSE NoLink
  /\ UNCHANGED <<platform, session, handed, breaks, opened>>

Read(ops) == link.frames # <<>> /\ Head(link.frames).op \in ops
Rest == [link EXCEPT !.frames = Tail(@)]

\* authenticate
Hello ==
  /\ Read({"hello"})
  /\ IF session.id # 0 /\ session.sequence # 0 THEN Resume ELSE Identify
  /\ UNCHANGED <<session, handed, breaks>>
ReadBeat ==
  /\ Read({"beat"}) /\ link' = Beaten(Rest)
  /\ UNCHANGED <<platform, session, handed, breaks, opened>>
Ack ==
  /\ Read({"ack"}) /\ link' = [Rest EXCEPT !.acked = TRUE]
  /\ UNCHANGED <<platform, session, handed, breaks, opened>>

\* handle_gateway_payload: every dispatch moves the sequence and, except READY and
\* RESUMED, gets a task.
ReadDispatch ==
  LET f == Head(link.frames)
  IN /\ Read({"ready", "resumed", "dispatch"}) /\ link' = Rest
     /\ session' = [id |-> IF f.op = "ready" THEN f.n ELSE session.id,
                    sequence |-> f.s]
     /\ handed' = handed \cup {[n |-> f.n, s |-> f.s]}
     /\ UNCHANGED <<platform, breaks, opened>>

\* Mutant: a connection that ends takes the session with it.
AnyEnding(kind) == TRUE
ClearsSession(kind) == kind \in {"invalid", "close4006"}
ReadEnd ==
  LET kind == Head(link.frames).op
  IN /\ Read(Endings)
     /\ link' = [NoLink EXCEPT !.phase = IF kind = "fatal" THEN "stopped" ELSE "off"]
     /\ session' = IF ClearsSession(kind) THEN NoSession ELSE session
     /\ UNCHANGED <<platform, handed, breaks, opened>>

-----------------------------------------------------------------------------
Next ==
  \/ Dispatch \/ Forget \/ AskForBeat \/ FallSilent \/ \E kind \in Endings : End(kind)
  \/ Connect \/ Break \/ Tick \/ Hello \/ Ack \/ ReadBeat \/ ReadDispatch \/ ReadEnd

\* gateway_loop tries again for ever, the timer fires, frames are read as they
\* come; the platform answers an Identify or a Resume with the frame it sends.
\* Reading is strongly fair: a connection cannot time out every time before
\* the first frame is read, the heartbeat being due after many seconds.
Fairness ==
  /\ WF_vars(Connect) /\ WF_vars(Tick) /\ WF_vars(Hello)
  /\ WF_vars(Ack) /\ WF_vars(ReadBeat) /\ WF_vars(ReadEnd)
  /\ SF_vars(ReadDispatch)
Spec == Init /\ [][Next]_vars /\ Fairness

-----------------------------------------------------------------------------
TypeOK ==
  /\ link.phase \in {"off", "open", "up", "stopped"}
  /\ session.id \in 0..MaxSessions /\ platform.session \in 0..MaxSessions

\* What the platform keeps for a session the adapter knows reaches it through
\* every loss of the connection, unless one of the two drops the session.
DispatchesAreTaken ==
  \A n \in 1..MaxSessions, s \in 1..MaxDispatches :
    (platform.session = n /\ session.id = n /\ s <= platform.size)
      ~> \/ [n |-> n, s |-> s] \in handed
         \/ platform.session # n \/ link.phase = "stopped"
=============================================================================
