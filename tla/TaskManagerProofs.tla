--------------------------- MODULE TaskManagerProofs ---------------------------
(***************************************************************************)
(* TaskManager for any children, operations and bounds: what the main      *)
(* stream says of an operation and what the child's stream shows agree.    *)
(* Each manager carries the positions of the events it has recorded for    *)
(* its operation; the strengthening says what stands at those positions,   *)
(* and that nothing has answered them yet.                                 *)
(***************************************************************************)
EXTENDS TaskManager, SequenceTheorems, TLAPS

Tasks == Children \cup {NoTask}
Authors == Managers \cup {"supervisor"}
MainKinds == {"Requested", "Accepted", "Rejected", "Started", "Output", "Finished", "Failed"}
MainEvents ==
  [kind : MainKinds, by : Authors, op : AllOperations \cup {"none", "deliver"},
   task : Tasks, about : Nat]
ChildEvents == [kind : EventKinds, cause : Nat, known : BOOLEAN]
Recorded == {"Requested", "Accepted", "Started"}
ManagerStates ==
  [at : Places, op : AllOperations \cup {"none"}, task : Tasks, seen : Statuses,
   pos : [Recorded -> Nat]]

Shapes ==
  /\ main \in Seq(MainEvents)
  /\ stream \in [Children -> Seq(ChildEvents)]
  /\ status \in [Children \cup {Main} -> Statuses]
  /\ manager \in [Managers -> ManagerStates]
  /\ courier \in [task : Tasks, started : Nat]
  /\ running \subseteq Children /\ deleted \subseteq Children

(* What refers to an event of the main stream refers to one that exists.   *)
RefersBack ==
  /\ \A i \in DOMAIN main : main[i].about < i
  /\ \A t \in Children : \A i \in DOMAIN stream[t] : stream[t][i].cause <= Len(main)
  /\ \A m \in Managers : \A k \in Recorded : manager[m].pos[k] <= Len(main)

IsA(i, kind) == i \in DOMAIN main /\ main[i].kind = kind

Outcomes == {"Finished", "Failed"}
NoOutcome(s) == \A i \in DOMAIN main : main[i].kind \in Outcomes => main[i].about # s
NoAnswer(r) ==
  \A i \in DOMAIN main : main[i].kind \in {"Accepted", "Rejected"} => main[i].about # r
NotConfirmed(r) == \A t \in Children : ~ Confirmed(r, t)

(* What the answers and the outcomes in the main stream are about. *)
AnswersAreToRequests ==
  \A i \in DOMAIN main :
    /\ main[i].kind = "Rejected" => IsA(main[i].about, "Requested")
    /\ main[i].kind = "Accepted" => main[i].task \in Children
OutcomesAreOfStarts ==
  \A i \in DOMAIN main :
    main[i].kind \in Outcomes =>
      /\ IsA(main[i].about, "Started")
      /\ main[i].kind = "Failed" => main[main[i].about].about = 0
CreationsWereAccepted ==
  \A t \in Children : \A i \in DOMAIN stream[t] :
    stream[t][i].kind = "TaskCreated" => stream[t][i].cause \in DOMAIN main

(* A manager with a request in hand: it is the author of it, and nothing   *)
(* has answered it.                                                        *)
OnAChild == {"recover", "apply", "accept", "reject"}
RequestInHand(m) ==
  LET at == manager[m].at
      op == manager[m].op
      t == manager[m].task
      request == manager[m].pos.Requested IN
  /\ at \in OnAChild \cup {"allocate"} =>
       IsA(request, "Requested") /\ main[request].by = m /\ NoAnswer(request)
  /\ at = "allocate" => op = "create"
  /\ at \in OnAChild => t \in Children /\ op \in AllOperations \ {"create"}
  /\ \/ at \in {"recover", "reject"}
     \/ at = "apply" /\ (op = "input" => manager[m].seen \in TerminalStatuses)
     => NotConfirmed(request)
  /\ at = "accept" /\ op # "delete" => Applied(request, t) \/ t \in deleted

(* A manager that creates a child has its acceptance, and the loop also    *)
(* the start of the tool call.                                             *)
CreationInHand(m) ==
  LET at == manager[m].at
      accepted == manager[m].pos.Accepted
      started == manager[m].pos.Started IN
  /\ at \in {"bind", "create", "queue"} =>
       /\ manager[m].op = "create" /\ manager[m].task \in Children
       /\ IsA(accepted, "Accepted")
       /\ main[accepted].op = "create" /\ main[accepted].by = m
       /\ main[accepted].task = manager[m].task
  /\ at = "create" /\ m = "loop" =>
       IsA(started, "Started") /\ main[started].about = accepted

(* A tool call whose outcome is about to be recorded has none yet. *)
StartInHand(m) ==
  LET started == manager[m].pos.Started IN
  manager[m].at \in {"finish", "fail"} =>
    /\ IsA(started, "Started")
    /\ main[started].by = m /\ main[started].about = 0
    /\ NoOutcome(started)

Ready(m) == RequestInHand(m) /\ CreationInHand(m) /\ StartInHand(m)
InHand == \A m \in Managers : Ready(m)

(* So has the one whose result the supervisor is about to hand back, which *)
(* is bound to a creation.                                                 *)
DeliveryInHand ==
  courier # NoDelivery =>
    /\ IsA(courier.started, "Started")
    /\ main[courier.started].about # 0
    /\ NoOutcome(courier.started)

IInv ==
  /\ Shapes /\ RefersBack
  /\ AnswersAreToRequests /\ OutcomesAreOfStarts /\ CreationsWereAccepted
  /\ InHand /\ DeliveryInHand
  /\ AcceptedMeansDone /\ RejectedMeansNotDone
  /\ ChildIsAccountedFor /\ OneOutcomePerStart

StreamsAgree ==
  /\ AnswersAreToRequests /\ OutcomesAreOfStarts /\ CreationsWereAccepted
  /\ AcceptedMeansDone /\ RejectedMeansNotDone
  /\ ChildIsAccountedFor /\ OneOutcomePerStart

-----------------------------------------------------------------------------
(***************************************************************************)
(* Sequences and statuses.                                                 *)
(***************************************************************************)
(* Appending to a sequence keeps what is in it. *)
LEMMA AppendKeeps ==
  ASSUME NEW S, NEW s \in Seq(S), NEW x \in S
  PROVE  /\ Append(s, x) \in Seq(S)
         /\ Len(s) \in Nat /\ DOMAIN s = 1 .. Len(s)
         /\ DOMAIN Append(s, x) = 1 .. (Len(s) + 1)
         /\ Len(Append(s, x)) = Len(s) + 1
         /\ \A i \in DOMAIN s : Append(s, x)[i] = s[i] /\ s[i] \in S
         /\ Append(s, x)[Len(s) + 1] = x
BY AppendProperties, LenProperties, ElementOfSeq

(* What is in a sequence. *)
LEMMA ElementsOf ==
  ASSUME NEW S, NEW s \in Seq(S)
  PROVE  Len(s) \in Nat /\ DOMAIN s = 1 .. Len(s) /\ \A i \in DOMAIN s : s[i] \in S
BY ElementOfSeq, LenProperties

(* The projection gives a status. *)
LEMMA TargetIsAStatus ==
  ASSUME NEW s \in Statuses, NEW kind \in EventKinds
  PROVE  Target(s, kind) \in Statuses
BY DEF Target, Requested, StatusKinds, EventKinds, TaskManagementKinds,
       ConfigurationKinds, CycleInputKinds, Statuses, LiveStatuses, TerminalStatuses

(* What the main stream records are events. *)
LEMMA MainKindIsAnEvent ==
  ASSUME NEW kind \in MainKinds
  PROVE  MainKind(kind) \in EventKinds
BY DEF MainKind, MainKinds, EventKinds, TaskManagementKinds

(* The effects on a child are events. *)
LEMMA EffectsAreEvents ==
  ASSUME NEW op
  PROVE  EffectKinds(op) \subseteq EventKinds \ {"TaskCreated"}
BY ControlsAssumption
   DEF EffectKinds, ManageableControls, EventKinds, ConfigurationKinds, CycleInputKinds

-----------------------------------------------------------------------------
(***************************************************************************)
(* The two streams.                                                        *)
(***************************************************************************)
MainGrows(e) ==
  /\ AppendMain(e) /\ e \in MainEvents /\ e.about <= Len(main)
  /\ UNCHANGED <<stream, running, deleted>>

ChildGrows(t, kind, cause, known) ==
  /\ AppendChild(t, kind, cause, known) /\ known \in BOOLEAN
  /\ t \in Children /\ kind \in EventKinds /\ cause \in Nat /\ cause <= Len(main)
  /\ running' \subseteq Children
  /\ UNCHANGED <<main, deleted>>

StreamShapes ==
  /\ main \in Seq(MainEvents)
  /\ stream \in [Children -> Seq(ChildEvents)]
  /\ status \in [Children \cup {Main} -> Statuses]
  /\ running \subseteq Children /\ deleted \subseteq Children
  /\ \A i \in DOMAIN main : main[i].about < i
  /\ \A t \in Children : \A i \in DOMAIN stream[t] : stream[t][i].cause <= Len(main)

(* The main stream after an append. *)
LEMMA MainAfter ==
  ASSUME Shapes, RefersBack, NEW e, MainGrows(e)
  PROVE  /\ StreamShapes'
         /\ Len(main) \in Nat /\ Len(main') = Len(main) + 1
         /\ DOMAIN main = 1 .. Len(main) /\ DOMAIN main' = 1 .. (Len(main) + 1)
         /\ \A i \in DOMAIN main : main'[i] = main[i]
         /\ \A i \in DOMAIN main : main[i] \in MainEvents
         /\ main'[Len(main) + 1] = e
         /\ stream' = stream /\ deleted' = deleted
         /\ \A i, kind : IsA(i, kind) => IsA(i, kind)'
<1>1. /\ main' \in Seq(MainEvents)
      /\ Len(main) \in Nat /\ Len(main') = Len(main) + 1
      /\ DOMAIN main = 1 .. Len(main) /\ DOMAIN main' = 1 .. (Len(main) + 1)
      /\ \A i \in DOMAIN main : main'[i] = main[i] /\ main[i] \in MainEvents
      /\ main'[Len(main) + 1] = e
  BY AppendKeeps DEF Shapes, MainGrows, AppendMain
<1>2. status' \in [Children \cup {Main} -> Statuses]
  <2>1. e.kind \in MainKinds
    BY DEF MainGrows, MainEvents
  <2>2. Target(status[Main], MainKind(e.kind)) \in Statuses
    BY <2>1, MainKindIsAnEvent, TargetIsAStatus DEF Shapes
  <2> QED BY <2>2 DEF MainGrows, AppendMain, Shapes
<1>3. \A i \in DOMAIN main' : main'[i].about < i
  BY <1>1 DEF RefersBack, MainGrows, MainEvents
<1>4. \A t \in Children : \A i \in DOMAIN stream[t] : stream[t][i].cause <= Len(main) + 1
  <2> SUFFICES ASSUME NEW t \in Children, NEW i \in DOMAIN stream[t]
               PROVE  stream[t][i].cause <= Len(main) + 1
    OBVIOUS
  <2>1. stream[t][i] \in ChildEvents
    BY ElementOfSeq, LenProperties DEF Shapes
  <2>2. stream[t][i].cause <= Len(main)
    BY DEF RefersBack
  <2> QED BY <1>1, <2>1, <2>2 DEF ChildEvents
<1>5. stream' = stream /\ deleted' = deleted /\ running' = running
  BY DEF MainGrows
<1>6. \A i, kind : IsA(i, kind) => IsA(i, kind)'
  BY <1>1 DEF IsA
<1> QED
  BY <1>1, <1>2, <1>3, <1>4, <1>5, <1>6 DEF StreamShapes, Shapes

(* A child's stream after an append. *)
LEMMA ChildAfter ==
  ASSUME Shapes, RefersBack, NEW t, NEW kind, NEW cause, NEW known,
         ChildGrows(t, kind, cause, known)
  PROVE  /\ StreamShapes'
         /\ main' = main /\ deleted' = deleted
         /\ Len(main) \in Nat
         /\ \A u \in Children \ {t} : stream'[u] = stream[u]
         /\ Len(stream[t]) \in Nat
         /\ DOMAIN stream[t] = 1 .. Len(stream[t])
         /\ DOMAIN stream'[t] = 1 .. (Len(stream[t]) + 1)
         /\ \A i \in DOMAIN stream[t] : stream'[t][i] = stream[t][i]
         /\ stream'[t][Len(stream[t]) + 1] = [kind |-> kind, cause |-> cause, known |-> known]
         /\ \A c : \A u \in Children : Applied(c, u) => Applied(c, u)'
         /\ \A c : \A u \in Children :
              c # cause \/ ~ known => (Confirmed(c, u)' => Confirmed(c, u))
<1> DEFINE e == [kind |-> kind, cause |-> cause, known |-> known]
<1>1. /\ t \in Children /\ stream[t] \in Seq(ChildEvents)
      /\ e \in ChildEvents /\ e.cause = cause /\ e.known = known
  BY DEF ChildGrows, Shapes, ChildEvents
<1>2. /\ stream' = [stream EXCEPT ![t] = Append(@, e)]
      /\ status' = [status EXCEPT ![t] = Target(@, kind)]
      /\ main' = main /\ deleted' = deleted /\ running' \subseteq Children
  BY DEF ChildGrows, AppendChild
<1> HIDE DEF e
<1>3. stream'[t] = Append(stream[t], e) /\ \A u \in Children \ {t} : stream'[u] = stream[u]
  BY <1>1, <1>2 DEF Shapes
<1>4. /\ Append(stream[t], e) \in Seq(ChildEvents)
      /\ Len(stream[t]) \in Nat /\ DOMAIN stream[t] = 1 .. Len(stream[t])
      /\ DOMAIN Append(stream[t], e) = 1 .. (Len(stream[t]) + 1)
      /\ \A i \in DOMAIN stream[t] : Append(stream[t], e)[i] = stream[t][i]
      /\ Append(stream[t], e)[Len(stream[t]) + 1] = e
  BY <1>1, AppendKeeps
<1>5. status' \in [Children \cup {Main} -> Statuses]
  <2>1. Target(status[t], kind) \in Statuses
    BY <1>1, TargetIsAStatus DEF ChildGrows, Shapes
  <2> QED BY <1>2, <2>1 DEF Shapes
<1>6. stream' \in [Children -> Seq(ChildEvents)]
  BY <1>1, <1>2, <1>4 DEF Shapes
<1>7. \A u \in Children : \A i \in DOMAIN stream'[u] : stream'[u][i].cause <= Len(main)
  <2> SUFFICES ASSUME NEW u \in Children, NEW i \in DOMAIN stream'[u]
               PROVE  stream'[u][i].cause <= Len(main)
    OBVIOUS
  <2>1. CASE u # t
    BY <1>3, <2>1 DEF RefersBack
  <2>2. CASE u = t /\ i \in DOMAIN stream[t]
    BY <1>3, <1>4, <2>2 DEF RefersBack
  <2>3. CASE u = t /\ i = Len(stream[t]) + 1
    BY <1>1, <1>3, <1>4, <2>3 DEF ChildGrows
  <2> QED BY <1>3, <1>4, <2>1, <2>2, <2>3
<1>8. \A c : \A u \in Children : Applied(c, u) => Applied(c, u)'
  <2> SUFFICES ASSUME NEW c, NEW u \in Children, Applied(c, u)
               PROVE  Applied(c, u)'
    OBVIOUS
  <2> QED BY <1>3, <1>4 DEF Applied
<1>9. \A c : \A u \in Children :
        c # cause \/ ~ known => (Confirmed(c, u)' => Confirmed(c, u))
  <2> SUFFICES ASSUME NEW c, NEW u \in Children, c # cause \/ ~ known,
                      NEW i \in DOMAIN stream'[u],
                      stream'[u][i].cause = c, stream'[u][i].known
               PROVE  Confirmed(c, u)
    BY DEF Confirmed
  <2>1. i \in DOMAIN stream[u] /\ stream'[u][i] = stream[u][i]
    BY <1>1, <1>3, <1>4
  <2> QED BY <2>1 DEF Confirmed
<1>10. Len(main) \in Nat
  BY LenProperties DEF Shapes
<1>11. StreamShapes'
  BY <1>2, <1>5, <1>6, <1>7 DEF StreamShapes, Shapes, RefersBack
<1>12. e = [kind |-> kind, cause |-> cause, known |-> known]
  BY DEF e
<1> QED
  BY <1>2, <1>3, <1>4, <1>8, <1>9, <1>10, <1>11, <1>12

-----------------------------------------------------------------------------
(***************************************************************************)
(* The streams go on agreeing.                                             *)
(***************************************************************************)
(* What may be appended to the main stream. *)
MayBeSaid(e) ==
  /\ e.kind = "Accepted" => e.task \in Children
  /\ e.kind = "Rejected" =>
       IsA(e.about, "Requested") /\ (e.task # NoTask => ~ Confirmed(e.about, e.task))
  /\ e.kind \in Outcomes =>
       /\ IsA(e.about, "Started") /\ NoOutcome(e.about)
       /\ e.kind = "Failed" => main[e.about].about = 0
  /\ e.kind = "Accepted" /\ e.op \in {"input", "name", "control"} /\ e.task \notin deleted =>
       Applied(e.about, e.task)

(* The streams agree after an append to the main stream. *)
LEMMA MainGrowsInAgreement ==
  ASSUME Shapes, RefersBack, StreamsAgree, NEW e, MainGrows(e), MayBeSaid(e)
  PROVE  StreamsAgree'
<1> DEFINE last == Len(main) + 1
<1>1. /\ Len(main) \in Nat
      /\ DOMAIN main = 1 .. Len(main) /\ DOMAIN main' = 1 .. last
      /\ \A i \in DOMAIN main : main'[i] = main[i]
      /\ \A i \in DOMAIN main : main[i] \in MainEvents
      /\ main'[last] = e
      /\ stream' = stream /\ deleted' = deleted
      /\ \A i, kind : IsA(i, kind) => IsA(i, kind)'
  BY MainAfter
<1>2. \A i \in DOMAIN main' : i \in DOMAIN main \/ i = last
  BY <1>1
<1>3. \A c, t : (Applied(c, t)' <=> Applied(c, t)) /\ (Confirmed(c, t)' <=> Confirmed(c, t))
  BY <1>1 DEF Applied, Confirmed
<1>4. AnswersAreToRequests'
  BY <1>1, <1>2 DEF StreamsAgree, AnswersAreToRequests, MayBeSaid
<1>5. OutcomesAreOfStarts'
  <2> SUFFICES ASSUME NEW i \in DOMAIN main', main'[i].kind \in Outcomes
               PROVE  /\ main'[i].about \in DOMAIN main'
                      /\ main'[main'[i].about].kind = "Started"
                      /\ main'[i].kind = "Failed" => main'[main'[i].about].about = 0
    BY DEF OutcomesAreOfStarts, IsA
  <2>1. /\ main'[i].about \in DOMAIN main
        /\ main[main'[i].about].kind = "Started"
        /\ main'[i].kind = "Failed" => main[main'[i].about].about = 0
    BY <1>1, <1>2 DEF StreamsAgree, OutcomesAreOfStarts, MayBeSaid, IsA
  <2> QED BY <1>1, <2>1
<1>6. CreationsWereAccepted'
  BY <1>1 DEF StreamsAgree, CreationsWereAccepted
<1>7. AcceptedMeansDone'
  BY <1>1, <1>2, <1>3 DEF StreamsAgree, AcceptedMeansDone, MayBeSaid
<1>8. RejectedMeansNotDone'
  BY <1>1, <1>2, <1>3 DEF StreamsAgree, RejectedMeansNotDone, MayBeSaid
<1>9. ChildIsAccountedFor'
  <2> SUFFICES ASSUME NEW t \in Children, NEW i \in DOMAIN stream[t],
                      stream[t][i].kind = "TaskCreated"
               PROVE  LET accepted == main'[stream[t][i].cause] IN
                      /\ accepted.kind = "Accepted" /\ accepted.op = "create"
                      /\ accepted.task = t
                      /\ accepted.by = "loop" => Starts(t)' # {}
    BY <1>1 DEF ChildIsAccountedFor
  <2>1. stream[t][i].cause \in DOMAIN main
    BY DEF StreamsAgree, CreationsWereAccepted
  <2>2. Starts(t) \subseteq Starts(t)'
    BY <1>1 DEF Starts
  <2> QED BY <1>1, <2>1, <2>2 DEF StreamsAgree, ChildIsAccountedFor
<1>10. OneOutcomePerStart'
  <2> SUFFICES ASSUME NEW i \in DOMAIN main', NEW j \in DOMAIN main',
                      main'[i].kind \in Outcomes, main'[j].kind \in Outcomes,
                      main'[i].about = main'[j].about
               PROVE  i = j
    BY DEF OneOutcomePerStart, Outcomes
  <2>1. CASE i \in DOMAIN main /\ j \in DOMAIN main
    BY <1>1, <2>1 DEF StreamsAgree, OneOutcomePerStart, Outcomes
  <2>2. CASE i \in DOMAIN main /\ j = last
    BY <1>1, <2>2 DEF MayBeSaid, NoOutcome
  <2>3. CASE i = last /\ j \in DOMAIN main
    BY <1>1, <2>3 DEF MayBeSaid, NoOutcome
  <2> QED BY <1>2, <2>1, <2>2, <2>3
<1> QED
  BY <1>4, <1>5, <1>6, <1>7, <1>8, <1>9, <1>10 DEF StreamsAgree

(* What may be appended to a child's stream: nothing that was rejected,    *)
(* and a creation only for its acceptance.                                 *)
MayBeDone(t, kind, cause) ==
  /\ \A i \in DOMAIN main : main[i].kind = "Rejected" => main[i].about # cause
  /\ kind = "TaskCreated" =>
       /\ IsA(cause, "Accepted")
       /\ main[cause].op = "create" /\ main[cause].task = t
       /\ main[cause].by = "loop" =>
            \E s \in DOMAIN main : main[s].kind = "Started" /\ main[s].about = cause

(* The streams agree after an append to a child's stream. *)
LEMMA ChildGrowsInAgreement ==
  ASSUME Shapes, RefersBack, StreamsAgree, NEW t, NEW kind, NEW cause, NEW known,
         ChildGrows(t, kind, cause, known), MayBeDone(t, kind, cause)
  PROVE  StreamsAgree'
<1> DEFINE last == Len(stream[t]) + 1
<1>1. /\ main' = main /\ deleted' = deleted
      /\ \A u \in Children \ {t} : stream'[u] = stream[u]
      /\ Len(stream[t]) \in Nat
      /\ DOMAIN stream[t] = 1 .. Len(stream[t]) /\ DOMAIN stream'[t] = 1 .. last
      /\ \A i \in DOMAIN stream[t] : stream'[t][i] = stream[t][i]
      /\ stream'[t][last] = [kind |-> kind, cause |-> cause, known |-> known]
      /\ \A c : \A u \in Children : Applied(c, u) => Applied(c, u)'
      /\ \A c : \A u \in Children :
           c # cause \/ ~ known => (Confirmed(c, u)' => Confirmed(c, u))
  BY ChildAfter
<1>2. t \in Children
  BY DEF ChildGrows
<1>3. \A i, k : IsA(i, k)' <=> IsA(i, k)
  BY <1>1 DEF IsA
<1>4. AnswersAreToRequests' /\ OutcomesAreOfStarts'
  BY <1>1, <1>3 DEF StreamsAgree, AnswersAreToRequests, OutcomesAreOfStarts
<1>5. OneOutcomePerStart'
  BY <1>1 DEF StreamsAgree, OneOutcomePerStart
<1>6. \A i \in DOMAIN main : main[i].task \in Tasks
  <2>1. \A i \in DOMAIN main : main[i] \in MainEvents
    BY ElementsOf DEF Shapes
  <2> QED BY <2>1 DEF MainEvents
<1>7. AcceptedMeansDone'
  BY <1>1 DEF StreamsAgree, AcceptedMeansDone, AnswersAreToRequests
<1>8. RejectedMeansNotDone'
  <2> SUFFICES ASSUME NEW i \in DOMAIN main, main[i].kind = "Rejected", main[i].task # NoTask
               PROVE  ~ Confirmed(main[i].about, main[i].task)'
    BY <1>1 DEF RejectedMeansNotDone
  <2>1. ~ Confirmed(main[i].about, main[i].task)
    BY DEF StreamsAgree, RejectedMeansNotDone
  <2>2. main[i].task \in Children /\ main[i].about # cause
    BY <1>6 DEF Tasks, MayBeDone
  <2> QED BY <1>1, <2>1, <2>2
<1>9. CreationsWereAccepted' /\ ChildIsAccountedFor'
  <2> SUFFICES ASSUME NEW u \in Children, NEW i \in DOMAIN stream'[u],
                      stream'[u][i].kind = "TaskCreated"
               PROVE  LET accepted == main[stream'[u][i].cause] IN
                      /\ stream'[u][i].cause \in DOMAIN main
                      /\ accepted.kind = "Accepted" /\ accepted.op = "create"
                      /\ accepted.task = u
                      /\ accepted.by = "loop" => Starts(u)' # {}
    BY <1>1 DEF CreationsWereAccepted, ChildIsAccountedFor
  <2>1. Starts(u) \subseteq Starts(u)'
    <3>1. DOMAIN stream[u] \subseteq DOMAIN stream'[u]
          /\ \A j \in DOMAIN stream[u] : stream'[u][j] = stream[u][j]
      BY <1>1
    <3> QED BY <1>1, <3>1 DEF Starts
  <2>2. CASE u # t \/ i \in DOMAIN stream[t]
    <3>1. i \in DOMAIN stream[u] /\ stream'[u][i] = stream[u][i]
      BY <1>1, <2>2
    <3> QED BY <2>1, <3>1 DEF StreamsAgree, CreationsWereAccepted, ChildIsAccountedFor
  <2>3. CASE u = t /\ i = last
    <3>1. stream'[u][i].kind = kind /\ stream'[u][i].cause = cause
      BY <1>1, <2>3
    <3>2. \A s \in DOMAIN main :
            main[s].kind = "Started" /\ main[s].about = cause => s \in Starts(u)'
      BY <1>1, <3>1 DEF Starts
    <3>3. IsA(cause, "Accepted") /\ main[cause].op = "create" /\ main[cause].task = t
      BY <2>3, <3>1 DEF MayBeDone
    <3>4. main[cause].by = "loop" => Starts(u)' # {}
      BY <3>1, <3>2 DEF MayBeDone
    <3> QED BY <2>3, <3>1, <3>3, <3>4 DEF IsA
  <2> QED BY <1>1, <2>2, <2>3
<1> QED
  BY <1>4, <1>5, <1>7, <1>8, <1>9 DEF StreamsAgree

(* The streams agree when nothing is appended. *)
LEMMA StillInAgreement ==
  ASSUME StreamsAgree, UNCHANGED <<main, stream, deleted>>
  PROVE  StreamsAgree'
BY DEF StreamsAgree, AnswersAreToRequests, OutcomesAreOfStarts, CreationsWereAccepted,
       AcceptedMeansDone, RejectedMeansNotDone, ChildIsAccountedFor, OneOutcomePerStart,
       IsA, Applied, Confirmed, Starts

(* A deleted child leaves nothing that could disagree. *)
LEMMA DeletionInAgreement ==
  ASSUME Shapes, StreamsAgree, NEW t \in Children, main' = main,
         stream' = [stream EXCEPT ![t] = <<>>], deleted' = deleted \cup {t}
  PROVE  StreamsAgree'
<1>1. stream'[t] = <<>> /\ \A u : u # t => stream'[u] = stream[u]
  BY DEF Shapes
<1>2. DOMAIN stream'[t] = {}
  BY <1>1
<1>3. AnswersAreToRequests' /\ OutcomesAreOfStarts' /\ OneOutcomePerStart'
  BY DEF StreamsAgree, AnswersAreToRequests, OutcomesAreOfStarts, OneOutcomePerStart, IsA
<1>4. CreationsWereAccepted'
  BY <1>1, <1>2 DEF StreamsAgree, CreationsWereAccepted
<1>5. AcceptedMeansDone' /\ RejectedMeansNotDone'
  BY <1>1, <1>2 DEF StreamsAgree, AcceptedMeansDone, RejectedMeansNotDone, Applied,
                      Confirmed
<1>6. ChildIsAccountedFor'
  BY <1>1, <1>2 DEF StreamsAgree, ChildIsAccountedFor, Starts
<1> QED
  BY <1>3, <1>4, <1>5, <1>6 DEF StreamsAgree

-----------------------------------------------------------------------------
(***************************************************************************)
(* What the managers and the supervisor have in hand.                      *)
(***************************************************************************)
ManagerShapes ==
  /\ manager \in [Managers -> ManagerStates]
  /\ \A m \in Managers : \A k \in Recorded : manager[m].pos[k] <= Len(main)
CourierShape == courier \in [task : Tasks, started : Nat]

(* The parts of the invariant. *)
LEMMA Parts ==
  IInv <=> /\ StreamShapes /\ ManagerShapes /\ CourierShape
           /\ StreamsAgree /\ InHand /\ DeliveryInHand
BY DEF IInv, Shapes, RefersBack, StreamShapes, ManagerShapes, CourierShape, StreamsAgree

PartsAfter ==
  /\ StreamShapes' /\ ManagerShapes' /\ CourierShape'
  /\ StreamsAgree' /\ InHand' /\ DeliveryInHand'

(* The invariant after a step, part by part. *)
LEMMA FromParts == PartsAfter => IInv'
BY DEF PartsAfter, IInv, Shapes, RefersBack, StreamShapes, ManagerShapes, CourierShape,
       StreamsAgree

(* The streams have their shapes when nothing is appended. *)
LEMMA StillShaped ==
  ASSUME Shapes, RefersBack, UNCHANGED <<main, stream, deleted>>,
         status' \in [Children \cup {Main} -> Statuses], running' \subseteq Children
  PROVE  StreamShapes'
BY DEF Shapes, RefersBack, StreamShapes

(* A manager that has nothing to record of its operation. *)
Free == {"idle", "done", "refused", "acknowledge"}
(* It is ready for anything.                                               *)
LEMMA FreeIsReady ==
  ASSUME NEW m, manager'[m].at \in Free
  PROVE  Ready(m)'
BY DEF Ready, RequestInHand, CreationInHand, StartInHand, Free, OnAChild

(* What a manager has in hand stays when the main stream grows by an event *)
(* that does not answer it.                                                *)
Unanswered(n, e) ==
  /\ manager[n].at \in OnAChild \cup {"allocate"} /\ e.kind \in {"Accepted", "Rejected"} =>
       e.about # manager[n].pos.Requested
  /\ manager[n].at \in {"finish", "fail"} /\ e.kind \in Outcomes =>
       e.about # manager[n].pos.Started

(* What is not answered by the append stays in hand.                       *)
LEMMA ReadyWhenMainGrows ==
  ASSUME Shapes, RefersBack, NEW e, MainGrows(e), NEW n, Ready(n),
         manager'[n] = manager[n], Unanswered(n, e)
  PROVE  Ready(n)'
<1>1. /\ Len(main) \in Nat
      /\ DOMAIN main = 1 .. Len(main) /\ DOMAIN main' = 1 .. (Len(main) + 1)
      /\ \A i \in DOMAIN main : main'[i] = main[i]
      /\ main'[Len(main) + 1] = e
      /\ stream' = stream /\ deleted' = deleted
      /\ \A i, kind : IsA(i, kind) => IsA(i, kind)'
  BY MainAfter
<1>2. \A i \in DOMAIN main' : i \in DOMAIN main \/ i = Len(main) + 1
  BY <1>1
<1>3. \A r : NoAnswer(r) /\ (e.kind \in {"Accepted", "Rejected"} => e.about # r) => NoAnswer(r)'
  BY <1>1, <1>2 DEF NoAnswer
<1>4. \A s : NoOutcome(s) /\ (e.kind \in Outcomes => e.about # s) => NoOutcome(s)'
  BY <1>1, <1>2 DEF NoOutcome
<1>5. \A r, t : Applied(r, t)' <=> Applied(r, t)
  BY <1>1 DEF Applied
<1>6. \A r : NotConfirmed(r)' <=> NotConfirmed(r)
  BY <1>1 DEF NotConfirmed, Confirmed
<1>7. \A i, kind : IsA(i, kind) => main'[i] = main[i]
  BY <1>1 DEF IsA
<1>8. RequestInHand(n)'
  BY <1>1, <1>3, <1>5, <1>6, <1>7 DEF Ready, RequestInHand, Unanswered
<1>9. CreationInHand(n)'
  BY <1>1, <1>7 DEF Ready, CreationInHand
<1>10. StartInHand(n)'
  BY <1>1, <1>4, <1>7 DEF Ready, StartInHand, Unanswered
<1> QED BY <1>8, <1>9, <1>10 DEF Ready

(* It stays when a child's stream grows on behalf of another.              *)
LEMMA ReadyWhenChildGrows ==
  ASSUME Shapes, RefersBack, NEW t, NEW kind, NEW cause, NEW known,
         ChildGrows(t, kind, cause, known), NEW n, Ready(n), manager'[n] = manager[n],
         manager[n].at \in OnAChild => manager[n].pos.Requested # cause
  PROVE  Ready(n)'
<1>1. /\ main' = main /\ deleted' = deleted
      /\ stream'[t][Len(stream[t]) + 1] = [kind |-> kind, cause |-> cause, known |-> known]
      /\ \A c : \A u \in Children : Applied(c, u) => Applied(c, u)'
      /\ \A c : \A u \in Children :
           c # cause \/ ~ known => (Confirmed(c, u)' => Confirmed(c, u))
  BY ChildAfter
<1>2. \A i, k : IsA(i, k)' <=> IsA(i, k)
  BY <1>1 DEF IsA
<1>3. \A r : NoAnswer(r)' <=> NoAnswer(r)
  BY <1>1 DEF NoAnswer
<1>4. \A s : NoOutcome(s)' <=> NoOutcome(s)
  BY <1>1 DEF NoOutcome
<1>5. \A r : NotConfirmed(r) /\ r # cause => NotConfirmed(r)'
  BY <1>1 DEF NotConfirmed
<1>6. RequestInHand(n)'
  BY <1>1, <1>2, <1>3, <1>5 DEF Ready, RequestInHand, OnAChild
<1>7. CreationInHand(n)' /\ StartInHand(n)'
  BY <1>1, <1>2, <1>4 DEF Ready, CreationInHand, StartInHand
<1> QED BY <1>6, <1>7 DEF Ready

(* And when no stream changes. *)
LEMMA ReadyStill ==
  ASSUME UNCHANGED <<main, stream, deleted>>, NEW n, Ready(n), manager'[n] = manager[n]
  PROVE  Ready(n)'
BY DEF Ready, RequestInHand, CreationInHand, StartInHand, IsA, NoAnswer, NoOutcome,
       NotConfirmed, Confirmed, Applied

(* What the supervisor has in hand stays, unless it is handed back.        *)
LEMMA DeliveryWhenMainGrows ==
  ASSUME Shapes, RefersBack, DeliveryInHand, NEW e, MainGrows(e), courier' = courier,
         courier # NoDelivery => (e.kind \in Outcomes => e.about # courier.started)
  PROVE  DeliveryInHand'
<1>1. /\ Len(main) \in Nat
      /\ DOMAIN main = 1 .. Len(main) /\ DOMAIN main' = 1 .. (Len(main) + 1)
      /\ \A i \in DOMAIN main : main'[i] = main[i]
      /\ main'[Len(main) + 1] = e
      /\ \A i, kind : IsA(i, kind) => IsA(i, kind)'
  BY MainAfter
<1>2. \A i \in DOMAIN main' : i \in DOMAIN main \/ i = Len(main) + 1
  BY <1>1
<1>3. \A s : NoOutcome(s) /\ (e.kind \in Outcomes => e.about # s) => NoOutcome(s)'
  BY <1>1, <1>2 DEF NoOutcome
<1>4. \A i, kind : IsA(i, kind) => main'[i] = main[i]
  BY <1>1 DEF IsA
<1> QED BY <1>1, <1>3, <1>4 DEF DeliveryInHand

(* It also stays when the main stream does.                                *)
LEMMA DeliveryStill ==
  ASSUME DeliveryInHand, main' = main, courier' = courier
  PROVE  DeliveryInHand'
BY DEF DeliveryInHand, IsA, NoOutcome

(* A manager's state after a step. *)
LEMMA ManagerAfterGoto ==
  ASSUME Shapes, NEW m \in Managers, NEW at \in Places, Goto(m, at)
  PROVE  /\ manager' \in [Managers -> ManagerStates]
         /\ \A n \in Managers \ {m} : manager'[n] = manager[n]
         /\ manager'[m] = [manager[m] EXCEPT !.at = at]
         /\ manager'[m].at = at /\ manager'[m].op = manager[m].op
         /\ manager'[m].task = manager[m].task /\ manager'[m].seen = manager[m].seen
         /\ manager'[m].pos = manager[m].pos
<1>1. manager[m] \in ManagerStates /\ manager \in [Managers -> ManagerStates]
  BY DEF Shapes
<1>2. [manager[m] EXCEPT !.at = at] \in ManagerStates
  BY <1>1 DEF ManagerStates
<1>3. manager' = [manager EXCEPT ![m] = [manager[m] EXCEPT !.at = at]]
  BY <1>1 DEF Goto
<1>4. manager'[m] = [manager[m] EXCEPT !.at = at]
  BY <1>1, <1>3
<1> QED
  BY <1>1, <1>2, <1>3, <1>4 DEF ManagerStates

(* Idle is a state of a manager.                                           *)
LEMMA IdleIsAState == Idle \in ManagerStates /\ Idle.at = "idle" /\ \A k \in Recorded : Idle.pos[k] = 0
BY DEF Idle, ManagerStates, Places, MainRecords, Statuses, LiveStatuses, Tasks, Recorded

(* A manager that has left.                                                *)
LEMMA ManagerAfterLeave ==
  ASSUME Shapes, NEW m \in Managers, Leave(m)
  PROVE  /\ manager' \in [Managers -> ManagerStates]
         /\ \A n \in Managers \ {m} : manager'[n] = manager[n]
         /\ manager'[m] = Idle
BY IdleIsAState DEF Shapes, Leave

-----------------------------------------------------------------------------
(***************************************************************************)
(* Steps of a manager.                                                     *)
(***************************************************************************)
(* What a step of a manager, or of nobody, may leave without a record.     *)
LEMMA WithoutRecord ==
  ASSUME IInv, NEW m \in Managers,
         UNCHANGED <<main, stream, deleted, courier>>,
         status' \in [Children \cup {Main} -> Statuses], running' \subseteq Children,
         manager' \in [Managers -> ManagerStates],
         \A n \in Managers \ {m} : manager'[n] = manager[n],
         \A k \in Recorded : manager'[m].pos[k] <= Len(main),
         Ready(m)'
  PROVE  IInv'
<1>1. StreamShapes'
  BY StillShaped DEF IInv
<1>2. StreamsAgree'
  BY StillInAgreement, Parts
<1>3. ManagerShapes'
  BY Parts DEF ManagerShapes
<1>4. InHand'
  <2> SUFFICES ASSUME NEW n \in Managers PROVE Ready(n)'
    BY DEF InHand
  <2>1. CASE n # m
    BY <2>1, ReadyStill, Parts DEF InHand
  <2> QED BY <2>1
<1>5. CourierShape' /\ DeliveryInHand'
  BY DeliveryStill, Parts DEF CourierShape
<1> QED
  BY <1>1, <1>2, <1>3, <1>4, <1>5, FromParts DEF PartsAfter

(* The positions a manager has exist. *)
LEMMA PositionsExist ==
  ASSUME IInv, NEW m \in Managers
  PROVE  /\ manager[m] \in ManagerStates
         /\ \A k \in Recorded : manager[m].pos[k] \in Nat /\ manager[m].pos[k] <= Len(main)
         /\ Len(main) \in Nat
BY LenProperties DEF IInv, Shapes, RefersBack, ManagerStates

(* Where a manager is after a record call that returned an error. *)
LEMMA ManagerAfterFailure ==
  ASSUME IInv, NEW m \in Managers, NEW otherwise \in {"idle", "refused", "reject"},
         Proceed(m, otherwise)
  PROVE  /\ manager' \in [Managers -> ManagerStates]
         /\ \A n \in Managers \ {m} : manager'[n] = manager[n]
         /\ \A k \in Recorded : manager'[m].pos[k] <= Len(main)
         /\ \/ manager'[m].at \in Free
            \/ /\ otherwise = "reject"
               /\ manager'[m].at = "reject" /\ manager'[m].op = manager[m].op
               /\ manager'[m].task = manager[m].task /\ manager'[m].pos = manager[m].pos
<1>1. Shapes
  BY DEF IInv
<1>2. Leave(m) \/ Goto(m, otherwise)
  BY DEF Proceed
<1>3. otherwise \in Places
  BY DEF Places, MainRecords
<1>4. CASE Leave(m)
  BY <1>1, <1>4, ManagerAfterLeave, IdleIsAState, PositionsExist DEF Free
<1>5. CASE Goto(m, otherwise)
  BY <1>1, <1>3, <1>5, ManagerAfterGoto, PositionsExist DEF Free
<1> QED BY <1>2, <1>4, <1>5

(* A record call that returns an error and has stored nothing. *)
LEMMA RecordFailsKeepsIInv ==
  ASSUME IInv, NEW m \in Managers, NEW fits, NEW otherwise \in {"idle", "refused", "reject"},
         RecordFails(fits, m, otherwise),
         otherwise = "reject" =>
           /\ manager[m].at = "apply"
           /\ manager[m].op = "input" => manager[m].seen \in TerminalStatuses
  PROVE  IInv'
<1>1. Shapes /\ Ready(m)
  BY DEF IInv, InHand
<1>2. UNCHANGED <<main, stream, status, courier, running, deleted>> /\ Proceed(m, otherwise)
  BY DEF RecordFails
<1>3. /\ manager' \in [Managers -> ManagerStates]
      /\ \A n \in Managers \ {m} : manager'[n] = manager[n]
      /\ \A k \in Recorded : manager'[m].pos[k] <= Len(main)
      /\ \/ manager'[m].at \in Free
         \/ /\ otherwise = "reject"
            /\ manager'[m].at = "reject" /\ manager'[m].op = manager[m].op
            /\ manager'[m].task = manager[m].task /\ manager'[m].pos = manager[m].pos
  BY <1>2, ManagerAfterFailure
<1>4. Ready(m)'
  <2>1. CASE manager'[m].at \in Free
    BY <2>1, FreeIsReady
  <2>2. CASE manager'[m].at \notin Free
    <3>1. RequestInHand(m)'
      BY <1>1, <1>2, <1>3, <2>2
         DEF Ready, RequestInHand, OnAChild, IsA, NoAnswer, NotConfirmed, Confirmed
    <3> QED BY <1>3, <2>2, <3>1 DEF Ready, CreationInHand, StartInHand
  <2> QED BY <2>1, <2>2
<1> QED BY <1>1, <1>2, <1>3, <1>4, WithoutRecord DEF Shapes

(* A manager answers only what it has in hand itself. *)
AnswersItsOwn(m, e) ==
  /\ e.kind \in {"Accepted", "Rejected"} =>
       /\ manager[m].at \in OnAChild \cup {"allocate"}
       /\ e.about = manager[m].pos.Requested
  /\ e.kind \in Outcomes =>
       /\ manager[m].at \in {"finish", "fail"}
       /\ e.about = manager[m].pos.Started

(* A step of a manager that records in the main stream. *)
LEMMA MainRecord ==
  ASSUME IInv, NEW m \in Managers, NEW e, MainGrows(e), MayBeSaid(e), AnswersItsOwn(m, e),
         courier' = courier,
         manager' \in [Managers -> ManagerStates],
         \A n \in Managers \ {m} : manager'[n] = manager[n],
         \A k \in Recorded : manager'[m].pos[k] <= Len(main) + 1,
         Ready(m)'
  PROVE  IInv'
<1>1. Shapes /\ RefersBack /\ StreamsAgree /\ InHand /\ DeliveryInHand
  BY Parts DEF IInv
<1>2. StreamShapes' /\ Len(main) \in Nat /\ Len(main') = Len(main) + 1
  BY <1>1, MainAfter
<1>3. StreamsAgree'
  BY <1>1, MainGrowsInAgreement
<1>4. ManagerShapes'
  <2> SUFFICES ASSUME NEW n \in Managers, NEW k \in Recorded
               PROVE  manager'[n].pos[k] <= Len(main')
    BY DEF ManagerShapes
  <2>1. CASE n # m
    BY <1>2, <2>1, PositionsExist
  <2> QED BY <1>2, <2>1
<1>5. InHand'
  <2> SUFFICES ASSUME NEW n \in Managers \ {m} PROVE Ready(n)'
    BY DEF InHand
  <2>1. Ready(n) /\ Ready(m)
    BY <1>1 DEF InHand
  <2>2. Unanswered(n, e)
    BY <2>1 DEF Unanswered, AnswersItsOwn, Ready, RequestInHand, StartInHand
  <2> QED BY <1>1, <2>1, <2>2, ReadyWhenMainGrows
<1>6. DeliveryInHand'
  <2>1. courier # NoDelivery => (e.kind \in Outcomes => e.about # courier.started)
    BY <1>1 DEF DeliveryInHand, AnswersItsOwn, InHand, Ready, StartInHand
  <2> QED BY <1>1, <2>1, DeliveryWhenMainGrows
<1>7. CourierShape'
  BY Parts DEF CourierShape
<1> QED
  BY <1>2, <1>3, <1>4, <1>5, <1>6, <1>7, FromParts DEF PartsAfter

(* A step of a manager that records in a child's stream. *)
LEMMA ChildRecord ==
  ASSUME IInv, NEW m \in Managers, NEW t, NEW kind, NEW cause, NEW known,
         ChildGrows(t, kind, cause, known), MayBeDone(t, kind, cause),
         courier' = courier,
         manager' \in [Managers -> ManagerStates],
         \A n \in Managers \ {m} :
           /\ manager'[n] = manager[n]
           /\ manager[n].at \in OnAChild => manager[n].pos.Requested # cause,
         \A k \in Recorded : manager'[m].pos[k] <= Len(main),
         Ready(m)'
  PROVE  IInv'
<1>1. Shapes /\ RefersBack /\ StreamsAgree /\ InHand /\ DeliveryInHand
  BY Parts DEF IInv
<1>2. StreamShapes' /\ main' = main
  BY <1>1, ChildAfter
<1>3. StreamsAgree'
  BY <1>1, ChildGrowsInAgreement
<1>4. ManagerShapes'
  <2> SUFFICES ASSUME NEW n \in Managers, NEW k \in Recorded
               PROVE  manager'[n].pos[k] <= Len(main')
    BY DEF ManagerShapes
  <2>1. CASE n # m
    BY <1>2, <2>1, PositionsExist
  <2> QED BY <1>2, <2>1
<1>5. InHand'
  <2> SUFFICES ASSUME NEW n \in Managers \ {m} PROVE Ready(n)'
    BY DEF InHand
  <2>1. Ready(n)
    BY <1>1 DEF InHand
  <2> QED BY <1>1, <2>1, ReadyWhenChildGrows
<1>6. DeliveryInHand' /\ CourierShape'
  BY <1>1, <1>2, Parts, DeliveryStill DEF CourierShape
<1> QED
  BY <1>2, <1>3, <1>4, <1>5, <1>6, FromParts DEF PartsAfter

(* Which events the places record. *)
LEMMA RecordsOfPlaces ==
  ASSUME NEW at \in DOMAIN MainRecords
  PROVE  /\ MainRecords[at] \in MainKinds \ {"Requested"}
         /\ MainRecords[at] = "Accepted" => at \in {"allocate", "accept"}
         /\ MainRecords[at] = "Rejected" => at = "reject"
         /\ MainRecords[at] \in Outcomes => at \in {"finish", "fail"}
         /\ MainRecords[at] = "Failed" => at = "fail"
         /\ at \in {"allocate", "accept"} => MainRecords[at] = "Accepted"
         /\ at \in {"bind", "done", "refused"} => MainRecords[at] = "Started"
BY DEF MainRecords, MainKinds, Outcomes

RecordOf(m, t) ==
  [kind |-> MainRecords[manager[m].at], by |-> m, op |-> manager[m].op,
   task |-> t, about |-> About(m, manager[m].at)]

(* What the place a manager is at records may be said. *)
LEMMA RecordMayBeSaid ==
  ASSUME IInv, NEW m \in Managers, manager[m].at \in DOMAIN MainRecords,
         NEW t \in Tasks,
         IF manager[m].at = "allocate" THEN t \in Children ELSE t = manager[m].task
  PROVE  /\ RecordOf(m, t) \in MainEvents /\ RecordOf(m, t).about <= Len(main)
         /\ MayBeSaid(RecordOf(m, t)) /\ AnswersItsOwn(m, RecordOf(m, t))
<1> DEFINE at == manager[m].at
           e == RecordOf(m, t)
<1>1. Ready(m) /\ manager[m] \in ManagerStates
  BY PositionsExist DEF IInv, InHand
<1>2. About(m, at) \in Nat /\ About(m, at) <= Len(main)
  BY PositionsExist DEF About, Recorded
<1>3. /\ e.kind = MainRecords[at] /\ e.by = m /\ e.op = manager[m].op
      /\ e.task = t /\ e.about = About(m, at)
  BY DEF RecordOf
<1>4. e \in MainEvents
  BY <1>1, <1>2, RecordsOfPlaces DEF RecordOf, MainEvents, ManagerStates, Authors
<1>5. /\ at \in {"allocate", "accept", "reject"} => About(m, at) = manager[m].pos.Requested
      /\ at \in {"finish", "fail"} => About(m, at) = manager[m].pos.Started
      /\ e.kind = "Accepted" => at \in {"allocate", "accept"}
      /\ e.kind = "Rejected" => at = "reject"
      /\ e.kind \in Outcomes => at \in {"finish", "fail"}
  BY <1>3, RecordsOfPlaces DEF About
<1> HIDE DEF e
<1>6. AnswersItsOwn(m, e)
  BY <1>3, <1>5, RecordsOfPlaces DEF AnswersItsOwn, OnAChild
<1>7. e.kind = "Accepted" => e.task \in Children
  BY <1>1, <1>3, <1>5 DEF Ready, RequestInHand, OnAChild
<1>8. e.kind = "Rejected" =>
        IsA(e.about, "Requested") /\ (e.task # NoTask => ~ Confirmed(e.about, e.task))
  BY <1>1, <1>3, <1>5 DEF Ready, RequestInHand, OnAChild, NotConfirmed
<1>9. e.kind \in Outcomes =>
        /\ IsA(e.about, "Started") /\ NoOutcome(e.about)
        /\ e.kind = "Failed" => main[e.about].about = 0
  BY <1>1, <1>3, <1>5, RecordsOfPlaces DEF Ready, StartInHand
<1>10. e.kind = "Accepted" /\ e.op \in {"input", "name", "control"} /\ e.task \notin deleted
        => Applied(e.about, e.task)
  BY <1>1, <1>3, <1>5 DEF Ready, RequestInHand, OnAChild
<1>11. MayBeSaid(e)
  BY <1>7, <1>8, <1>9, <1>10 DEF MayBeSaid
<1> QED BY <1>2, <1>3, <1>4, <1>6, <1>11 DEF e

(* What it goes on with is in hand. *)
LEMMA ReadyForTheNext ==
  ASSUME IInv, NEW m \in Managers, manager[m].at \in DOMAIN MainRecords,
         NEW t \in Tasks,
         IF manager[m].at = "allocate" THEN t \in Children ELSE t = manager[m].task,
         MainGrows(RecordOf(m, t)),
         manager'[m].at = Then(m, manager[m].at),
         manager'[m].op = manager[m].op, manager'[m].task = t,
         \A k \in Recorded :
           manager'[m].pos[k] = IF k = MainRecords[manager[m].at] THEN Len(main) + 1
                                                                  ELSE manager[m].pos[k]
  PROVE  Ready(m)'
<1> DEFINE at == manager[m].at
           e == RecordOf(m, t)
           last == Len(main) + 1
<1>1. Ready(m) /\ Shapes /\ RefersBack
  BY DEF IInv, InHand
<1>2. /\ Len(main) \in Nat
      /\ DOMAIN main = 1 .. Len(main) /\ DOMAIN main' = 1 .. last
      /\ \A i \in DOMAIN main : main'[i] = main[i]
      /\ \A i \in DOMAIN main : main[i] \in MainEvents
      /\ main'[last] = e
      /\ \A i, kind : IsA(i, kind) => IsA(i, kind)'
  BY <1>1, MainAfter
<1>3. /\ e.kind = MainRecords[at] /\ e.by = m /\ e.op = manager[m].op
      /\ e.task = t /\ e.about = About(m, at)
  BY DEF RecordOf
<1>4. {"Requested", "Accepted", "Started"} = Recorded
  BY DEF Recorded
<1> HIDE DEF e
<1>5. last \in DOMAIN main' /\ main'[last].kind = MainRecords[at]
  BY <1>2, <1>3
<1>6. CASE at = "allocate"
  <2>1. /\ manager'[m].at = (IF m = "loop" THEN "bind" ELSE "create")
        /\ manager[m].op = "create" /\ t \in Children /\ MainRecords[at] = "Accepted"
    BY <1>1, <1>6, RecordsOfPlaces DEF Then, AfterAllocation, Ready, RequestInHand
  <2>2. manager'[m].pos["Accepted"] = last
    BY <1>4, <2>1
  <2>3. CreationInHand(m)'
    BY <1>2, <1>3, <1>5, <2>1, <2>2 DEF CreationInHand, IsA
  <2> QED BY <2>1, <2>3 DEF Ready, RequestInHand, StartInHand, OnAChild
<1>7. CASE at = "bind"
  <2>1. manager'[m].at = "create" /\ MainRecords[at] = "Started"
    BY <1>7, RecordsOfPlaces DEF Then
  <2>2. /\ manager'[m].pos["Accepted"] = manager[m].pos["Accepted"]
        /\ manager'[m].pos["Started"] = last
    BY <1>4, <2>1
  <2>3. e.about = manager[m].pos["Accepted"]
    BY <1>3, <1>7 DEF About
  <2>4. IsA(manager[m].pos["Accepted"], "Accepted")
    BY <1>1, <1>7 DEF Ready, CreationInHand
  <2>5. CreationInHand(m)'
    BY <1>1, <1>2, <1>5, <1>7, <2>1, <2>2, <2>3, <2>4 DEF Ready, CreationInHand, IsA
  <2> QED BY <2>1, <2>5 DEF Ready, RequestInHand, StartInHand, OnAChild
<1>8. CASE at \in {"done", "refused"}
  <2>1. manager'[m].at \in {"finish", "fail"} /\ MainRecords[at] = "Started"
    BY <1>8, RecordsOfPlaces DEF Then
  <2>2. manager'[m].pos["Started"] = last /\ e.about = 0
    BY <1>3, <1>4, <1>8, <2>1 DEF About
  <2>3. \A i \in DOMAIN main' : main'[i].kind \in Outcomes => main'[i].about # last
    <3> SUFFICES ASSUME NEW i \in DOMAIN main', main'[i].kind \in Outcomes
                 PROVE  main'[i].about # last
      OBVIOUS
    <3>1. i \in DOMAIN main
      BY <1>2, <1>5, <2>1 DEF Outcomes
    <3>2. main[i].about < i /\ main[i].about \in Nat /\ main'[i] = main[i]
      BY <1>1, <1>2, <3>1 DEF RefersBack, MainEvents
    <3> QED BY <1>2, <3>1, <3>2
  <2>4. StartInHand(m)'
    BY <1>2, <1>3, <1>5, <2>1, <2>2, <2>3 DEF StartInHand, IsA, NoOutcome
  <2> QED BY <2>1, <2>4 DEF Ready, RequestInHand, CreationInHand, OnAChild
<1>9. CASE at \in {"accept", "reject", "acknowledge", "finish", "fail"}
  <2>1. manager'[m].at \in Free
    BY <1>9 DEF Then, Free
  <2> QED BY <2>1, FreeIsReady
<1> QED
  BY <1>6, <1>7, <1>8, <1>9 DEF MainRecords

(* A record in the main stream. *)
LEMMA RecordMainKeepsIInv ==
  ASSUME IInv, NEW m \in Managers, RecordMain(m)
  PROVE  IInv'
<1> DEFINE at == manager[m].at
           kind == MainRecords[at]
<1>1. at \in DOMAIN MainRecords
  BY DEF RecordMain
<1>2. CASE RecordFails(FitsMain(kind), m, Otherwise(at))
  <2>1. Otherwise(at) \in {"idle", "refused"}
    BY DEF Otherwise
  <2> QED BY <1>2, <2>1, RecordFailsKeepsIInv
<1>3. CASE ~ RecordFails(FitsMain(kind), m, Otherwise(at))
  <2>1. PICK t \in (IF at = "allocate" THEN Children \ Allocated ELSE {manager[m].task}) :
          /\ AppendMain(RecordOf(m, t))
          /\ \/ IF Over(m, Then(m, at)) THEN Leave(m)
                ELSE manager' = [manager EXCEPT ![m] =
                       [@ EXCEPT !.at = Then(m, at), !.task = t,
                                 !.pos = Noted(manager[m].pos, kind)]]
             \/ Proceed(m, Otherwise(at))
          /\ UNCHANGED <<stream, courier, running, deleted>>
    BY <1>3 DEF RecordMain, RecordOf, FailsAfterStoring
  <2>2. /\ manager[m] \in ManagerStates /\ Shapes /\ Len(main) \in Nat
        /\ manager \in [Managers -> ManagerStates]
        /\ \A k \in Recorded : manager[m].pos[k] \in Nat /\ manager[m].pos[k] <= Len(main)
    BY PositionsExist DEF IInv, Shapes
  <2>3. /\ t \in Tasks
        /\ IF at = "allocate" THEN t \in Children ELSE t = manager[m].task
    BY <2>1, <2>2 DEF Tasks, ManagerStates
  <2>4. /\ RecordOf(m, t) \in MainEvents /\ RecordOf(m, t).about <= Len(main)
        /\ MayBeSaid(RecordOf(m, t)) /\ AnswersItsOwn(m, RecordOf(m, t))
    BY <1>1, <2>3, RecordMayBeSaid
  <2>5. MainGrows(RecordOf(m, t)) /\ courier' = courier
    BY <2>1, <2>4 DEF MainGrows
  <2>6. CASE Leave(m)
    <3>1. /\ manager' \in [Managers -> ManagerStates]
          /\ \A n \in Managers \ {m} : manager'[n] = manager[n]
          /\ manager'[m] = Idle
      BY <2>2, <2>6, ManagerAfterLeave
    <3>2. Ready(m)' /\ \A k \in Recorded : manager'[m].pos[k] <= Len(main) + 1
      BY <2>2, <3>1, IdleIsAState, FreeIsReady DEF Free
    <3> QED BY <2>4, <2>5, <3>1, <3>2, MainRecord
  <2>8. CASE Proceed(m, Otherwise(at))
    <3>1. Otherwise(at) \in {"idle", "refused"}
      BY DEF Otherwise
    <3>2. /\ manager' \in [Managers -> ManagerStates]
          /\ \A n \in Managers \ {m} : manager'[n] = manager[n]
          /\ \A k \in Recorded : manager'[m].pos[k] <= Len(main)
          /\ manager'[m].at \in Free
      BY <2>8, <3>1, ManagerAfterFailure
    <3>3. Ready(m)' /\ \A k \in Recorded : manager'[m].pos[k] <= Len(main) + 1
      <4>1. \A k \in Recorded : manager'[m].pos[k] \in Nat
        BY <3>2 DEF ManagerStates
      <4> QED BY <2>2, <3>2, <4>1, FreeIsReady
    <3> QED BY <2>4, <2>5, <3>2, <3>3, MainRecord
  <2>7. CASE ~ Leave(m) /\ ~ Proceed(m, Otherwise(at))
    <3> DEFINE pos == Noted(manager[m].pos, kind)
               next == [manager[m] EXCEPT !.at = Then(m, at), !.task = t, !.pos = pos]
    <3>1. /\ pos \in [Recorded -> Nat] /\ \A k \in Recorded : pos[k] <= Len(main) + 1
          /\ \A k \in Recorded : pos[k] = IF k = kind THEN Len(main) + 1 ELSE manager[m].pos[k]
      <4>1. DOMAIN manager[m].pos = Recorded
        BY <2>2 DEF ManagerStates
      <4> QED BY <2>2, <4>1 DEF Noted
    <3>2. Then(m, at) \in Places
      BY DEF Then, AfterAllocation, Places, MainRecords
    <3>4. manager' = [manager EXCEPT ![m] = next]
      BY <2>1, <2>7
    <3> HIDE DEF pos
    <3>5. /\ next \in ManagerStates
          /\ next.at = Then(m, at) /\ next.op = manager[m].op /\ next.task = t
          /\ next.pos = pos
      BY <2>2, <2>3, <3>1, <3>2 DEF ManagerStates
    <3> HIDE DEF next
    <3>6. /\ manager' \in [Managers -> ManagerStates]
          /\ \A n \in Managers \ {m} : manager'[n] = manager[n]
          /\ manager'[m] = next
      BY <2>2, <3>4, <3>5
    <3>8. Ready(m)'
      BY <1>1, <2>3, <2>5, <3>1, <3>5, <3>6, ReadyForTheNext
    <3> QED BY <2>4, <2>5, <3>1, <3>5, <3>6, <3>8, MainRecord
  <2> QED BY <2>6, <2>7, <2>8
<1> QED BY <1>2, <1>3

(* A request. *)
LEMMA RequestKeepsIInv ==
  ASSUME IInv, NEW m \in Managers, NEW op \in AllOperations, NEW t \in Tasks,
         op # "create" => t \in Children, Request(m, op, t)
  PROVE  IInv'
<1>1. CASE RecordFails(FitsMain("Requested"), m, "refused")
  BY <1>1, RecordFailsKeepsIInv
<1>2. CASE ~ RecordFails(FitsMain("Requested"), m, "refused")
  <2>0. PICK last \in Nat : last = Len(main) + 1
    BY PositionsExist
  <2> DEFINE e == [kind |-> "Requested", by |-> m, op |-> op, task |-> t, about |-> 0]
             at == IF op = "create" THEN "allocate" ELSE "recover"
             next == [manager[m] EXCEPT !.at = at, !.op = op, !.task = t,
                                        !.pos.Requested = last]
  <2>1. /\ AppendMain(e) /\ UNCHANGED <<stream, courier, running, deleted>>
        /\ manager' = [manager EXCEPT ![m] = next] \/ Proceed(m, "refused")
    BY <1>2, <2>0 DEF Request, FailsAfterStoring
  <2>2. /\ manager[m] \in ManagerStates /\ Shapes /\ RefersBack /\ Len(main) \in Nat
        /\ manager \in [Managers -> ManagerStates]
        /\ \A k \in Recorded : manager[m].pos[k] \in Nat /\ manager[m].pos[k] <= Len(main)
    BY PositionsExist DEF IInv, Shapes
  <2>3. /\ e.kind = "Requested" /\ e.by = m /\ e.about = 0 /\ e \in MainEvents
    BY DEF MainEvents, MainKinds, Authors
  <2> HIDE DEF e
  <2>4. MainGrows(e) /\ MayBeSaid(e) /\ AnswersItsOwn(m, e)
    BY <2>1, <2>2, <2>3 DEF MainGrows, MayBeSaid, AnswersItsOwn, Outcomes
  <2>5. /\ next \in ManagerStates
        /\ next.at = at /\ next.op = op /\ next.task = t
        /\ next.pos["Requested"] = last
        /\ \A k \in Recorded : next.pos[k] <= last
    <3>1. at \in Places
      BY DEF Places, MainRecords
    <3>2. last \in Nat /\ "Requested" \in Recorded /\ manager[m].pos \in [Recorded -> Nat]
      BY <2>0, <2>2 DEF Recorded, ManagerStates
    <3>3. [manager[m].pos EXCEPT !["Requested"] = last] \in [Recorded -> Nat]
      BY <3>2
    <3>4. next.pos = [manager[m].pos EXCEPT !["Requested"] = last]
      BY <2>2 DEF ManagerStates
    <3>5. \A k \in Recorded : next.pos[k] <= last
      BY <2>0, <2>2, <3>2, <3>4
    <3>6. next \in ManagerStates
      BY <2>2, <3>1, <3>3 DEF ManagerStates
    <3>7. next.at = at /\ next.op = op /\ next.task = t
      BY <2>2 DEF ManagerStates
    <3> QED BY <3>2, <3>4, <3>5, <3>6, <3>7
  <2> HIDE DEF next
  <2>11. CASE Proceed(m, "refused")
    <3>1. /\ manager' \in [Managers -> ManagerStates]
          /\ \A n \in Managers \ {m} : manager'[n] = manager[n]
          /\ \A k \in Recorded : manager'[m].pos[k] <= Len(main)
          /\ manager'[m].at \in Free
      BY <2>11, ManagerAfterFailure
    <3>2. \A k \in Recorded : manager'[m].pos[k] \in Nat
      BY <3>1 DEF ManagerStates
    <3>3. Ready(m)' /\ \A k \in Recorded : manager'[m].pos[k] <= Len(main) + 1
      BY <2>2, <3>1, <3>2, FreeIsReady
    <3> QED BY <2>1, <2>4, <3>1, <3>3, MainRecord
  <2>12. SUFFICES ASSUME manager' = [manager EXCEPT ![m] = next] PROVE IInv'
    BY <2>1, <2>11
  <2>6. /\ manager' \in [Managers -> ManagerStates]
        /\ \A n \in Managers \ {m} : manager'[n] = manager[n]
        /\ manager'[m] = next
    BY <2>2, <2>5, <2>12
  <2>7. /\ DOMAIN main = 1 .. Len(main) /\ DOMAIN main' = 1 .. last
        /\ \A i \in DOMAIN main : main'[i] = main[i]
        /\ \A i \in DOMAIN main : main[i] \in MainEvents
        /\ main'[last] = e /\ stream' = stream
    BY <2>0, <2>2, <2>4, MainAfter
  <2>8. NoAnswer(last)'
    <3> SUFFICES ASSUME NEW i \in DOMAIN main', main'[i].kind \in {"Accepted", "Rejected"}
                 PROVE  main'[i].about # last
      BY DEF NoAnswer
    <3>1. i \in DOMAIN main
      BY <2>0, <2>2, <2>3, <2>7
    <3>2. main[i].about < i /\ main[i].about \in Nat /\ main'[i] = main[i]
      BY <2>2, <2>7, <3>1 DEF RefersBack, MainEvents
    <3> QED BY <2>0, <2>2, <2>7, <3>1, <3>2
  <2>9. NotConfirmed(last)'
    <3> SUFFICES ASSUME NEW u \in Children, NEW i \in DOMAIN stream[u],
                        stream[u][i].cause = last
                 PROVE  FALSE
      BY <2>7 DEF NotConfirmed, Confirmed
    <3>1. stream[u][i].cause <= Len(main)
      BY <2>2 DEF RefersBack
    <3> QED BY <2>0, <2>2, <3>1
  <2>10. Ready(m)'
    <3>1. last \in DOMAIN main'
      BY <2>0, <2>2, <2>7
    <3>2. RequestInHand(m)'
      BY <2>3, <2>5, <2>6, <2>7, <2>8, <2>9, <3>1 DEF RequestInHand, OnAChild, IsA
    <3>3. CreationInHand(m)' /\ StartInHand(m)'
      BY <2>5, <2>6 DEF CreationInHand, StartInHand
    <3> QED BY <3>2, <3>3 DEF Ready
  <2> QED BY <2>0, <2>1, <2>4, <2>5, <2>6, <2>10, MainRecord
<1> QED BY <1>1, <1>2

(* The child's recovery. *)
LEMMA RecoverKeepsIInv ==
  ASSUME IInv, NEW m \in Managers, Recover(m)
  PROVE  IInv'
<1>1. /\ manager[m] \in ManagerStates /\ Shapes /\ Ready(m)
      /\ manager \in [Managers -> ManagerStates]
      /\ \A k \in Recorded : manager[m].pos[k] <= Len(main)
  BY PositionsExist DEF IInv, InHand, Shapes
<1>2. UNCHANGED <<main, stream, status, courier, running, deleted>> /\ manager[m].at = "recover"
  BY DEF Recover
<1>3. CASE Goto(m, "reject")
  <2>1. "reject" \in Places
    BY DEF Places, MainRecords
  <2>2. /\ manager' \in [Managers -> ManagerStates]
        /\ \A n \in Managers \ {m} : manager'[n] = manager[n]
        /\ manager'[m].at = "reject" /\ manager'[m].op = manager[m].op
        /\ manager'[m].task = manager[m].task /\ manager'[m].pos = manager[m].pos
    BY <1>1, <1>3, <2>1, ManagerAfterGoto
  <2>3. RequestInHand(m)'
    BY <1>1, <1>2, <2>2 DEF Ready, RequestInHand, OnAChild, IsA, NoAnswer, NotConfirmed, Confirmed
  <2>4. Ready(m)'
    BY <2>2, <2>3 DEF Ready, CreationInHand, StartInHand
  <2> QED BY <1>1, <1>2, <2>2, <2>4, WithoutRecord DEF Shapes
<1>4. CASE ~ Goto(m, "reject")
  <2> DEFINE seen == status[manager[m].task]
             next == [manager[m] EXCEPT !.at = "apply", !.seen = seen]
  <2>1. manager' = [manager EXCEPT ![m] = next]
    BY <1>4 DEF Recover
  <2>2. seen \in Statuses
    BY <1>1, <1>2 DEF Ready, RequestInHand, OnAChild, Shapes
  <2> HIDE DEF seen
  <2>3. /\ next \in ManagerStates
        /\ next.at = "apply" /\ next.op = manager[m].op
        /\ next.task = manager[m].task /\ next.pos = manager[m].pos
    BY <1>1, <2>2 DEF ManagerStates, Places
  <2> HIDE DEF next
  <2>4. /\ manager' \in [Managers -> ManagerStates]
        /\ \A n \in Managers \ {m} : manager'[n] = manager[n]
        /\ manager'[m] = next
    BY <1>1, <2>1, <2>3
  <2>5. RequestInHand(m)'
    BY <1>1, <1>2, <2>3, <2>4
       DEF Ready, RequestInHand, OnAChild, IsA, NoAnswer, NotConfirmed, Confirmed
  <2>6. Ready(m)'
    BY <2>3, <2>4, <2>5 DEF Ready, CreationInHand, StartInHand
  <2> QED BY <1>1, <1>2, <2>3, <2>4, <2>6, WithoutRecord DEF Shapes
<1> QED BY <1>3, <1>4

(* Nothing else has the request a manager has in hand. *)
LEMMA RequestsDiffer ==
  ASSUME IInv, NEW m \in Managers, manager[m].at \in OnAChild, NEW n \in Managers \ {m}
  PROVE  manager[n].at \in OnAChild => manager[n].pos.Requested # manager[m].pos.Requested
BY DEF IInv, InHand, Ready, RequestInHand

(* The effect of a request is not one that was rejected. *)
LEMMA EffectMayBeDone ==
  ASSUME IInv, NEW m \in Managers, manager[m].at \in OnAChild,
         NEW kind \in EventKinds \ {"TaskCreated"}
  PROVE  /\ MayBeDone(manager[m].task, kind, manager[m].pos.Requested)
         /\ manager[m].task \in Children
         /\ manager[m].pos.Requested \in Nat /\ manager[m].pos.Requested <= Len(main)
<1>1. Ready(m)
  BY DEF IInv, InHand
<1>2. NoAnswer(manager[m].pos.Requested) /\ manager[m].task \in Children
  BY <1>1 DEF Ready, RequestInHand
<1>3. MayBeDone(manager[m].task, kind, manager[m].pos.Requested)
  BY <1>2 DEF MayBeDone, NoAnswer
<1> QED BY <1>2, <1>3, PositionsExist DEF Recorded

(* A manager whose record failed although the event was stored may go on   *)
(* to reject the request.                                                  *)
LEMMA ReadyToReject ==
  ASSUME Shapes, RefersBack, NEW m \in Managers, Ready(m), manager[m].at = "apply",
         NEW t, NEW kind, NEW cause, ChildGrows(t, kind, cause, FALSE),
         \/ manager'[m].at \in Free
         \/ /\ manager[m].op = "input" => manager[m].seen \in TerminalStatuses
            /\ manager'[m].at = "reject" /\ manager'[m].op = manager[m].op
            /\ manager'[m].task = manager[m].task /\ manager'[m].pos = manager[m].pos
  PROVE  Ready(m)'
<1>1. CASE manager'[m].at \in Free
  BY <1>1, FreeIsReady
<1>2. CASE manager'[m].at \notin Free
  <2>1. /\ main' = main
        /\ \A c : \A u \in Children : Confirmed(c, u)' => Confirmed(c, u)
    BY ChildAfter
  <2>2. \A r : NotConfirmed(r) => NotConfirmed(r)'
    BY <2>1 DEF NotConfirmed
  <2>3. RequestInHand(m)'
    BY <1>2, <2>1, <2>2 DEF Ready, RequestInHand, OnAChild, IsA, NoAnswer
  <2> QED BY <1>2, <2>3 DEF Ready, CreationInHand, StartInHand
<1> QED BY <1>1, <1>2

(* The effect on the child. *)
LEMMA ApplyKeepsIInv ==
  ASSUME IInv, NEW m \in Managers, Apply(m)
  PROVE  IInv'
<1> DEFINE op == manager[m].op
           t == manager[m].task
           request == manager[m].pos.Requested
<1>1. /\ manager[m].at = "apply" /\ Shapes /\ RefersBack /\ Ready(m)
      /\ op = "input" => manager[m].seen \notin TerminalStatuses
  BY DEF Apply, IInv, InHand
<1>2. PICK kind \in EffectKinds(op) :
        \/ /\ AppendChild(t, kind, request, TRUE) /\ Goto(m, "accept")
           /\ UNCHANGED <<main, courier, running, deleted>>
        \/ /\ AppendChild(t, kind, request, FALSE) /\ Proceed(m, WhenNotApplied(op))
           /\ UNCHANGED <<main, courier, running, deleted>>
        \/ RecordFails(FitsChild(t, manager[m].seen, kind), m, WhenNotApplied(op))
  BY DEF Apply, FailsAfterStoring
<1>3. CASE RecordFails(FitsChild(t, manager[m].seen, kind), m, WhenNotApplied(op))
  <2>1. /\ WhenNotApplied(op) \in {"refused", "reject"}
        /\ WhenNotApplied(op) = "reject" => op = "control"
    BY DEF WhenNotApplied
  <2> QED BY <1>1, <1>3, <2>1, RecordFailsKeepsIInv
<1>5. kind \in EventKinds \ {"TaskCreated"} /\ manager[m].at \in OnAChild
  BY <1>1, <1>2, EffectsAreEvents DEF OnAChild
<1>6. /\ MayBeDone(t, kind, request) /\ t \in Children
      /\ request \in Nat /\ request <= Len(main)
  BY <1>5, EffectMayBeDone
<1>7. \A n \in Managers \ {m} :
        manager[n].at \in OnAChild => manager[n].pos.Requested # request
  BY <1>5, RequestsDiffer
<1>8. CASE /\ AppendChild(t, kind, request, TRUE) /\ Goto(m, "accept")
           /\ UNCHANGED <<main, courier, running, deleted>>
  <2>4. ChildGrows(t, kind, request, TRUE)
    BY <1>1, <1>5, <1>6, <1>8 DEF ChildGrows, Shapes
  <2>5. "accept" \in Places
    BY DEF Places, MainRecords
  <2>6. /\ manager' \in [Managers -> ManagerStates]
        /\ \A n \in Managers \ {m} : manager'[n] = manager[n]
        /\ manager'[m].at = "accept" /\ manager'[m].op = op
        /\ manager'[m].task = t /\ manager'[m].pos = manager[m].pos
    BY <1>1, <1>8, <2>5, ManagerAfterGoto
  <2>8. /\ Len(stream[t]) + 1 \in DOMAIN stream'[t]
        /\ stream'[t][Len(stream[t]) + 1].cause = request
    <3>1. PICK known : known = TRUE
      OBVIOUS
    <3>2. ChildGrows(t, kind, request, known)
      BY <2>4, <3>1
    <3>3. /\ Len(stream[t]) \in Nat /\ DOMAIN stream'[t] = 1 .. (Len(stream[t]) + 1)
          /\ stream'[t][Len(stream[t]) + 1]
               = [kind |-> kind, cause |-> request, known |-> known]
      BY <1>1, <3>2, ChildAfter
    <3> QED BY <3>3
  <2>9. Applied(request, t)'
    BY <2>6, <2>8 DEF Applied
  <2>10. RequestInHand(m)'
    BY <1>1, <1>5, <1>6, <1>8, <2>6, <2>9 DEF Ready, RequestInHand, OnAChild, IsA, NoAnswer
  <2>11. Ready(m)'
    BY <2>6, <2>10 DEF Ready, CreationInHand, StartInHand
  <2>12. \A k \in Recorded : manager'[m].pos[k] <= Len(main)
    BY <2>6, PositionsExist
  <2> QED BY <1>6, <1>7, <1>8, <2>4, <2>6, <2>11, <2>12, ChildRecord
<1>9. CASE /\ AppendChild(t, kind, request, FALSE) /\ Proceed(m, WhenNotApplied(op))
           /\ UNCHANGED <<main, courier, running, deleted>>
  <2>1. /\ WhenNotApplied(op) \in {"refused", "reject"}
        /\ WhenNotApplied(op) = "reject" => op = "control"
    BY DEF WhenNotApplied
  <2>2. ChildGrows(t, kind, request, FALSE)
    BY <1>1, <1>5, <1>6, <1>9 DEF ChildGrows, Shapes
  <2>3. /\ manager' \in [Managers -> ManagerStates]
        /\ \A n \in Managers \ {m} : manager'[n] = manager[n]
        /\ \A k \in Recorded : manager'[m].pos[k] <= Len(main)
        /\ \/ manager'[m].at \in Free
           \/ /\ op = "control"
              /\ manager'[m].at = "reject" /\ manager'[m].op = op
              /\ manager'[m].task = t /\ manager'[m].pos = manager[m].pos
    BY <1>9, <2>1, ManagerAfterFailure
  <2>4. Ready(m)'
    BY <1>1, <1>9, <2>2, <2>3, ReadyToReject
  <2> QED BY <1>6, <1>7, <1>9, <2>2, <2>3, <2>4, ChildRecord
<1> QED BY <1>2, <1>3, <1>8, <1>9

(* The new cycle before an input. *)
LEMMA OpenCycleKeepsIInv ==
  ASSUME IInv, NEW m \in Managers, OpenCycle(m)
  PROVE  IInv'
<1> DEFINE t == manager[m].task
           fits == FitsChild(t, manager[m].seen, "TaskQueued")
           request == manager[m].pos.Requested
<1>1. /\ manager[m].at = "apply" /\ manager[m].op = "input"
      /\ manager[m].seen \in TerminalStatuses
      /\ Shapes /\ RefersBack /\ Ready(m) /\ manager[m] \in ManagerStates
      /\ manager \in [Managers -> ManagerStates]
  BY PositionsExist DEF OpenCycle, IInv, InHand, Shapes
<1>2. CASE RecordFails(fits, m, "reject")
  BY <1>1, <1>2, RecordFailsKeepsIInv
<1>3. CASE ~ RecordFails(fits, m, "reject")
  <2> DEFINE next == [manager[m] EXCEPT !.seen = "Queued"]
  <2>1. PICK known \in BOOLEAN :
        /\ AppendChild(t, "TaskQueued", request, known)
        /\ IF known THEN manager' = [manager EXCEPT ![m] = next] ELSE Proceed(m, "reject")
        /\ UNCHANGED <<main, courier, running, deleted>>
    BY <1>3 DEF OpenCycle, FailsAfterStoring
  <2>2. "TaskQueued" \in EventKinds \ {"TaskCreated"} /\ manager[m].at \in OnAChild
    BY <1>1 DEF EventKinds, OnAChild
  <2>3. /\ MayBeDone(t, "TaskQueued", request)
        /\ t \in Children /\ request \in Nat /\ request <= Len(main)
    BY <2>2, EffectMayBeDone
  <2>4. ChildGrows(t, "TaskQueued", request, known)
    BY <1>1, <2>1, <2>2, <2>3 DEF ChildGrows, Shapes
  <2>5. /\ next \in ManagerStates
        /\ next.seen = "Queued" /\ next.at = "apply" /\ next.op = "input"
        /\ next.task = t /\ next.pos = manager[m].pos
    BY <1>1 DEF ManagerStates, Statuses, LiveStatuses
  <2> HIDE DEF next
  <2>7. \A n \in Managers \ {m} :
          manager[n].at \in OnAChild => manager[n].pos.Requested # request
    BY <2>2, RequestsDiffer
  <2>12. CASE ~ known
    <3>1. /\ manager' \in [Managers -> ManagerStates]
          /\ \A n \in Managers \ {m} : manager'[n] = manager[n]
          /\ \A k \in Recorded : manager'[m].pos[k] <= Len(main)
          /\ \/ manager'[m].at \in Free
             \/ /\ manager'[m].at = "reject" /\ manager'[m].op = manager[m].op
                /\ manager'[m].task = t /\ manager'[m].pos = manager[m].pos
      BY <2>1, <2>12, ManagerAfterFailure
    <3>2. known = FALSE
      BY <2>12
    <3>3. Ready(m)'
      BY <1>1, <2>1, <2>4, <3>1, <3>2, ReadyToReject
    <3> QED BY <2>1, <2>3, <2>4, <2>7, <3>1, <3>3, ChildRecord
  <2>13. SUFFICES ASSUME known PROVE IInv'
    BY <2>12
  <2>6. /\ manager' \in [Managers -> ManagerStates]
        /\ \A n \in Managers \ {m} : manager'[n] = manager[n]
        /\ manager'[m] = next
    BY <1>1, <2>1, <2>5, <2>13
  <2>8. "Queued" \notin TerminalStatuses
    BY DEF TerminalStatuses
  <2>9. RequestInHand(m)'
    BY <1>1, <2>1, <2>2, <2>5, <2>6, <2>8 DEF Ready, RequestInHand, OnAChild, IsA, NoAnswer
  <2>10. Ready(m)'
    BY <2>5, <2>6, <2>9 DEF Ready, CreationInHand, StartInHand
  <2>11. \A k \in Recorded : manager'[m].pos[k] <= Len(main)
    BY <2>5, <2>6, PositionsExist
  <2> QED BY <2>1, <2>3, <2>4, <2>6, <2>7, <2>10, <2>11, ChildRecord
<1> QED BY <1>2, <1>3

(* The removal of a child's file. *)
LEMMA DeleteKeepsIInv ==
  ASSUME IInv, NEW m \in Managers, Delete(m)
  PROVE  IInv'
<1> DEFINE t == manager[m].task
<1>1. /\ Shapes /\ RefersBack /\ InHand /\ StreamsAgree /\ DeliveryInHand
      /\ CourierShape /\ ManagerShapes
  BY Parts DEF IInv
<1>2. /\ manager[m].at = "apply" /\ manager[m].op = "delete"
      /\ stream' = [stream EXCEPT ![t] = <<>>]
      /\ status' = [status EXCEPT ![t] = "New"]
      /\ deleted' = deleted \cup {t}
      /\ Goto(m, "accept")
      /\ UNCHANGED <<main, courier, running, used>>
  BY DEF Delete
<1>3. t \in Children
  BY <1>1, <1>2 DEF InHand, Ready, RequestInHand, OnAChild
<1>4. "accept" \in Places /\ "New" \in Statuses
  BY DEF Places, MainRecords, Statuses, LiveStatuses
<1>5. /\ manager' \in [Managers -> ManagerStates]
      /\ \A n \in Managers \ {m} : manager'[n] = manager[n]
      /\ manager'[m].at = "accept" /\ manager'[m].op = manager[m].op
      /\ manager'[m].task = t /\ manager'[m].pos = manager[m].pos
  BY <1>1, <1>2, <1>4, ManagerAfterGoto
<1>6. stream'[t] = <<>> /\ \A u \in Children \ {t} : stream'[u] = stream[u]
  BY <1>1, <1>3, <1>2 DEF Shapes
<1>7. /\ \A r : NotConfirmed(r) => NotConfirmed(r)'
      /\ \A r : \A u \in Children : Applied(r, u) => Applied(r, u)' \/ u = t
  <2>1. DOMAIN stream'[t] = {}
    BY <1>6
  <2> QED BY <1>6, <2>1 DEF NotConfirmed, Confirmed, Applied
<1>8. StreamShapes'
  <2>1. stream' \in [Children -> Seq(ChildEvents)]
    BY <1>1, <1>2, EmptySeq DEF Shapes
  <2>2. \A u \in Children : \A i \in DOMAIN stream'[u] : stream'[u][i].cause <= Len(main)
    <3>1. DOMAIN stream'[t] = {}
      BY <1>6
    <3> QED BY <1>1, <1>6, <3>1 DEF RefersBack
  <2> QED BY <1>1, <1>2, <1>3, <1>4, <2>1, <2>2 DEF StreamShapes, Shapes, RefersBack
<1>9. StreamsAgree'
  BY <1>1, <1>2, <1>3, DeletionInAgreement
<1>10. ManagerShapes' /\ CourierShape' /\ DeliveryInHand'
  <2>1. \A n \in Managers : manager'[n].pos = manager[n].pos
    BY <1>5
  <2> QED BY <1>1, <1>2, <1>5, <2>1, DeliveryStill DEF ManagerShapes, CourierShape
<1>11. InHand'
  <2> SUFFICES ASSUME NEW n \in Managers PROVE Ready(n)'
    BY DEF InHand
  <2>1. Ready(n) /\ Ready(m)
    BY <1>1 DEF InHand
  <2>2. CASE n # m
    <3>1. manager'[n] = manager[n]
      BY <1>5, <2>2
    <3>2. RequestInHand(n)'
      BY <1>2, <1>7, <2>1, <3>1 DEF Ready, RequestInHand, IsA, NoAnswer, OnAChild
    <3>3. CreationInHand(n)' /\ StartInHand(n)'
      BY <1>2, <2>1, <3>1 DEF Ready, CreationInHand, StartInHand, IsA, NoOutcome
    <3> QED BY <3>2, <3>3 DEF Ready
  <2>3. CASE n = m
    <3>1. RequestInHand(m)'
      BY <1>2, <1>5, <2>1 DEF Ready, RequestInHand, IsA, NoAnswer, OnAChild
    <3> QED BY <1>5, <2>3, <3>1 DEF Ready, CreationInHand, StartInHand
  <2> QED BY <2>2, <2>3
<1> QED
  BY <1>8, <1>9, <1>10, <1>11, FromParts DEF PartsAfter

(* The two events of a new child. *)
LEMMA CreateChildKeepsIInv ==
  ASSUME IInv, NEW m \in Managers, CreateChild(m)
  PROVE  IInv'
<1> DEFINE t == manager[m].task
           create == manager[m].at = "create"
           kind == IF create THEN "TaskCreated" ELSE "TaskQueued"
           cause == IF create THEN manager[m].pos.Accepted ELSE 0
           fits == FitsChild(t, manager[m].seen, kind)
<1>1. /\ manager[m].at \in {"create", "queue"}
      /\ Shapes /\ RefersBack /\ StreamsAgree /\ InHand /\ Ready(m)
      /\ manager[m] \in ManagerStates
      /\ manager \in [Managers -> ManagerStates]
  BY PositionsExist, Parts DEF CreateChild, IInv, InHand, Shapes
<1>2. CASE RecordFails(fits, m, "idle")
  BY <1>2, RecordFailsKeepsIInv
<1>3. CASE ~ RecordFails(fits, m, "idle")
  <2>1. PICK known \in BOOLEAN :
        /\ AppendChild(t, kind, cause, known)
        /\ \/ IF create
              THEN manager' = [manager EXCEPT ![m] =
                                 [@ EXCEPT !.at = "queue", !.seen = "Created"]]
              ELSE IF m = "loop" THEN Goto(m, "acknowledge") ELSE Leave(m)
           \/ Proceed(m, "idle")
        /\ UNCHANGED <<main, courier, running, deleted>>
    BY <1>3 DEF CreateChild, FailsAfterStoring
  <2>2. /\ t \in Children /\ IsA(manager[m].pos.Accepted, "Accepted")
        /\ main[manager[m].pos.Accepted].op = "create"
        /\ main[manager[m].pos.Accepted].by = m
        /\ main[manager[m].pos.Accepted].task = t
    BY <1>1 DEF Ready, CreationInHand
  <2>3. create /\ m = "loop" =>
          \E s \in DOMAIN main :
            main[s].kind = "Started" /\ main[s].about = manager[m].pos.Accepted
    BY <1>1 DEF Ready, CreationInHand, IsA
  <2>4. kind \in EventKinds /\ cause \in Nat /\ cause <= Len(main)
    BY PositionsExist DEF EventKinds, Recorded
  <2>5. ChildGrows(t, kind, cause, known)
    BY <1>1, <2>1, <2>2, <2>4 DEF ChildGrows, Shapes
  <2>6. \A r : IsA(r, "Requested") => r # cause
    BY <2>2, LenProperties, <1>1 DEF IsA, Shapes
  <2>7. MayBeDone(t, kind, cause)
    BY <1>1, <2>2, <2>3, <2>6 DEF MayBeDone, StreamsAgree, AnswersAreToRequests
  <2>8. \A n \in Managers \ {m} :
          manager[n].at \in OnAChild => manager[n].pos.Requested # cause
    BY <1>1, <2>6 DEF InHand, Ready, RequestInHand
  <2>9. /\ manager' \in [Managers -> ManagerStates]
        /\ \A n \in Managers \ {m} : manager'[n] = manager[n]
        /\ \A k \in Recorded : manager'[m].pos[k] <= Len(main)
        /\ Ready(m)'
    <3>4. CASE Proceed(m, "idle")
      BY <3>4, ManagerAfterFailure, FreeIsReady
    <3>1. CASE create /\ ~ Proceed(m, "idle")
      <4> DEFINE next == [manager[m] EXCEPT !.at = "queue", !.seen = "Created"]
      <4>1. manager' = [manager EXCEPT ![m] = next]
        BY <2>1, <3>1
      <4>2. /\ next \in ManagerStates
            /\ next.at = "queue" /\ next.op = manager[m].op
            /\ next.task = t /\ next.pos = manager[m].pos
        BY <1>1 DEF ManagerStates, Statuses, LiveStatuses, Places
      <4> HIDE DEF next
      <4>3. /\ manager' \in [Managers -> ManagerStates]
            /\ \A n \in Managers \ {m} : manager'[n] = manager[n]
            /\ manager'[m] = next
        BY <1>1, <4>1, <4>2
      <4>4. CreationInHand(m)'
        BY <1>1, <2>1, <4>2, <4>3 DEF Ready, CreationInHand, IsA
      <4>5. Ready(m)'
        BY <4>2, <4>3, <4>4 DEF Ready, RequestInHand, StartInHand, OnAChild
      <4> QED BY <4>2, <4>3, <4>5, PositionsExist
    <3>2. CASE ~ create /\ Goto(m, "acknowledge")
      <4>1. "acknowledge" \in Places
        BY DEF Places, MainRecords
      <4>2. /\ manager' \in [Managers -> ManagerStates]
            /\ \A n \in Managers \ {m} : manager'[n] = manager[n]
            /\ manager'[m].at = "acknowledge" /\ manager'[m].pos = manager[m].pos
        BY <1>1, <3>2, <4>1, ManagerAfterGoto
      <4> QED BY <4>2, FreeIsReady, PositionsExist DEF Free
    <3>3. CASE ~ create /\ Leave(m)
      <4>1. /\ manager' \in [Managers -> ManagerStates]
            /\ \A n \in Managers \ {m} : manager'[n] = manager[n]
            /\ manager'[m] = Idle
        BY <1>1, <3>3, ManagerAfterLeave
      <4> QED BY <4>1, IdleIsAState, FreeIsReady, PositionsExist DEF Free
    <3> QED BY <2>1, <3>1, <3>2, <3>3, <3>4
  <2> QED BY <2>1, <2>5, <2>7, <2>8, <2>9, ChildRecord
<1> QED BY <1>2, <1>3

(* A step of a manager. *)
LEMMA ManageKeepsIInv ==
  ASSUME IInv, NEW m \in Managers, Manage(m)
  PROVE  IInv'
BY RecordMainKeepsIInv, RecoverKeepsIInv, ApplyKeepsIInv, OpenCycleKeepsIInv,
   DeleteKeepsIInv, CreateChildKeepsIInv DEF Manage

-----------------------------------------------------------------------------
(***************************************************************************)
(* Steps of the supervisor, of the children and of everything else.        *)
(***************************************************************************)
(* The supervisor takes a result of which no outcome has been recorded: a  *)
(* failed tool call is not one that created a child.                       *)
LEMMA DeliverKeepsIInv ==
  ASSUME IInv, NEW t \in Children, Deliver(t)
  PROVE  IInv'
<1>1. /\ Shapes /\ RefersBack /\ StreamsAgree /\ InHand /\ ManagerShapes
  BY Parts DEF IInv
<1>2. UNCHANGED <<main, stream, status, manager, running, deleted, used>>
  BY DEF Deliver
<1>3. PICK s \in Starts(t) : ~ Delivered(s) /\ courier' = [task |-> t, started |-> s]
  BY DEF Deliver
<1>4. PICK i \in DOMAIN stream[t] :
        /\ s \in DOMAIN main /\ main[s].kind = "Started"
        /\ stream[t][i].kind = "TaskCreated" /\ stream[t][i].cause = main[s].about
  BY DEF Starts
<1>5. DOMAIN main = 1 .. Len(main) /\ Len(main) \in Nat
  BY <1>1, LenProperties DEF Shapes
<1>6. main[s].about # 0
  BY <1>1, <1>4, <1>5 DEF StreamsAgree, CreationsWereAccepted
<1>7. NoOutcome(s)
  <2> SUFFICES ASSUME NEW j \in DOMAIN main, main[j].kind \in Outcomes, main[j].about = s
               PROVE  FALSE
    BY DEF NoOutcome
  <2>1. main[j].kind = "Failed"
    BY <1>3 DEF Delivered, Outcomes
  <2> QED BY <1>1, <1>6, <2>1 DEF StreamsAgree, OutcomesAreOfStarts
<1>8. DeliveryInHand'
  BY <1>2, <1>3, <1>4, <1>6, <1>7 DEF DeliveryInHand, IsA, NoOutcome
<1>9. CourierShape'
  BY <1>3, <1>4, <1>5 DEF CourierShape, Tasks
<1>10. StreamShapes' /\ StreamsAgree' /\ ManagerShapes'
  BY <1>1, <1>2, StillShaped, StillInAgreement DEF ManagerShapes, Shapes
<1>11. InHand'
  BY <1>1, <1>2, ReadyStill DEF InHand
<1> QED BY <1>8, <1>9, <1>10, <1>11, FromParts DEF PartsAfter

(* The result is recorded, or the record fails. *)
LEMMA RecordResultKeepsIInv ==
  ASSUME IInv, RecordResult
  PROVE  IInv'
<1>1. /\ Shapes /\ RefersBack /\ StreamsAgree /\ InHand /\ ManagerShapes /\ DeliveryInHand
  BY Parts DEF IInv
<1>2. /\ courier # NoDelivery /\ courier' = NoDelivery
      /\ UNCHANGED <<stream, manager, running, deleted>>
  BY DEF RecordResult
<1>3. DeliveryInHand' /\ CourierShape'
  BY <1>2 DEF DeliveryInHand, CourierShape, NoDelivery, Tasks
<1>4. CASE UNCHANGED <<main, status>>
  <2>1. StreamShapes' /\ StreamsAgree' /\ ManagerShapes'
    BY <1>1, <1>2, <1>4, StillShaped, StillInAgreement DEF ManagerShapes, Shapes
  <2>2. InHand'
    BY <1>1, <1>2, <1>4, ReadyStill DEF InHand
  <2> QED BY <1>3, <2>1, <2>2, FromParts DEF PartsAfter
<1>5. CASE ~ UNCHANGED <<main, status>>
  <2> DEFINE e == [kind |-> "Finished", by |-> "supervisor", op |-> "deliver",
                   task |-> courier.task, about |-> courier.started]
  <2>1. AppendMain(e)
    BY <1>5 DEF RecordResult
  <2>2. /\ courier \in [task : Tasks, started : Nat]
        /\ IsA(courier.started, "Started") /\ main[courier.started].about # 0
        /\ NoOutcome(courier.started)
        /\ courier.started <= Len(main)
    BY <1>1, <1>2, LenProperties DEF DeliveryInHand, Shapes, IsA
  <2>3. /\ e \in MainEvents /\ e.kind = "Finished" /\ e.about = courier.started
    BY <2>2 DEF MainEvents, MainKinds, Authors
  <2> HIDE DEF e
  <2>4. MainGrows(e)
    BY <1>2, <2>1, <2>2, <2>3 DEF MainGrows
  <2>5. MayBeSaid(e)
    BY <2>2, <2>3 DEF MayBeSaid, Outcomes
  <2>6. StreamShapes' /\ StreamsAgree' /\ Len(main') = Len(main) + 1 /\ Len(main) \in Nat
    BY <1>1, <2>4, <2>5, MainAfter, MainGrowsInAgreement
  <2>7. ManagerShapes'
    BY <1>1, <1>2, <2>6, PositionsExist DEF ManagerShapes
  <2>8. InHand'
    <3> SUFFICES ASSUME NEW n \in Managers PROVE Ready(n)'
      BY DEF InHand
    <3>1. Ready(n) /\ manager'[n] = manager[n]
      BY <1>1, <1>2 DEF InHand
    <3>2. Unanswered(n, e)
      BY <2>2, <2>3, <3>1 DEF Unanswered, Ready, StartInHand
    <3> QED BY <1>1, <2>4, <3>1, <3>2, ReadyWhenMainGrows
  <2> QED BY <1>3, <2>6, <2>7, <2>8, FromParts DEF PartsAfter
<1> QED BY <1>4, <1>5

(* A run of a child records on its own account. *)
LEMMA RunKeepsIInv ==
  ASSUME IInv, NEW t \in Children, NEW kind \in RunKinds, Run(t, kind)
  PROVE  IInv'
<1>1. /\ Shapes /\ RefersBack /\ StreamsAgree /\ InHand /\ ManagerShapes /\ DeliveryInHand
      /\ CourierShape /\ Len(main) \in Nat
  BY Parts, LenProperties DEF IInv, Shapes
<1>2. AppendChild(t, kind, 0, TRUE) /\ UNCHANGED <<main, manager, courier, deleted>>
  BY DEF Run
<1>3. kind \in EventKinds \ {"TaskCreated"}
  BY DEF RunKinds, EventKinds
<1>4. running' \subseteq Children
  BY <1>1 DEF Run, Shapes
<1>5. ChildGrows(t, kind, 0, TRUE)
  <2>1. 0 \in Nat /\ 0 <= Len(main) /\ kind \in EventKinds
    BY <1>1, <1>3
  <2> QED BY <1>2, <1>4, <2>1 DEF ChildGrows
<1>6. \A r, k : IsA(r, k) => r # 0
  BY <1>1, LenProperties DEF IsA, Shapes
<1>7. MayBeDone(t, kind, 0)
  BY <1>1, <1>3, <1>6 DEF MayBeDone, StreamsAgree, AnswersAreToRequests
<1>8. PICK m : m \in Managers
  BY DEF Managers
<1>9. /\ \A n \in Managers :
           /\ manager'[n] = manager[n]
           /\ manager[n].at \in OnAChild => manager[n].pos.Requested # 0
      /\ manager' \in [Managers -> ManagerStates]
      /\ \A k \in Recorded : manager'[m].pos[k] <= Len(main)
  BY <1>1, <1>2, <1>6, <1>8, PositionsExist DEF InHand, Ready, RequestInHand, ManagerShapes
<1>10. Ready(m) /\ manager'[m] = manager[m]
  BY <1>1, <1>8, <1>9 DEF InHand
<1>11. Ready(m)'
  BY <1>1, <1>5, <1>8, <1>9, <1>10, ReadyWhenChildGrows
<1> QED BY <1>2, <1>5, <1>7, <1>8, <1>9, <1>11, ChildRecord

(* What neither records nor moves a manager. *)
LEMMA ElsewhereKeepsIInv ==
  ASSUME IInv, UNCHANGED <<main, stream, manager, courier, deleted>>,
         status' \in [Children \cup {Main} -> Statuses], running' \subseteq Children
  PROVE  IInv'
<1>1. /\ Shapes /\ RefersBack /\ StreamsAgree /\ InHand /\ ManagerShapes /\ DeliveryInHand
      /\ CourierShape
  BY Parts DEF IInv
<1>2. StreamShapes' /\ StreamsAgree' /\ ManagerShapes' /\ CourierShape' /\ DeliveryInHand'
  BY <1>1, StillShaped, StillInAgreement, DeliveryStill DEF ManagerShapes, CourierShape
<1>3. InHand'
  BY <1>1, ReadyStill DEF InHand
<1> QED BY <1>2, <1>3, FromParts DEF PartsAfter

(* A change of the main conversation's status.                             *)
LEMMA EndOrReopenMainKeepsIInv ==
  ASSUME IInv, EndOrReopenMain
  PROVE  IInv'
<1>1. status \in [Children \cup {Main} -> Statuses] /\ running \subseteq Children
  BY DEF IInv, Shapes
<1>2. status' \in [Children \cup {Main} -> Statuses]
  BY <1>1 DEF EndOrReopenMain, Statuses, LiveStatuses, TerminalStatuses
<1> QED BY <1>1, <1>2, ElsewhereKeepsIInv DEF EndOrReopenMain

(* A crash leaves the streams, and nothing in hand. *)
LEMMA CrashKeepsIInv ==
  ASSUME IInv, Crash
  PROVE  IInv'
<1>1. /\ Shapes /\ RefersBack /\ StreamsAgree /\ InHand /\ ManagerShapes
  BY Parts DEF IInv
<1>2. /\ manager' = [m \in Managers |-> Idle] /\ courier' = NoDelivery /\ running' = {}
      /\ UNCHANGED <<main, stream, status, deleted>>
  BY DEF Crash
<1>3. StreamShapes' /\ StreamsAgree'
  BY <1>1, <1>2, StillShaped, StillInAgreement DEF Shapes
<1>4. ManagerShapes'
  BY <1>2, IdleIsAState, PositionsExist, LenProperties, <1>1 DEF ManagerShapes, Shapes
<1>5. CourierShape' /\ DeliveryInHand'
  BY <1>2 DEF CourierShape, DeliveryInHand, NoDelivery, Tasks
<1>6. InHand'
  BY <1>2, IdleIsAState, FreeIsReady DEF InHand, Free
<1> QED BY <1>3, <1>4, <1>5, <1>6, FromParts DEF PartsAfter

-----------------------------------------------------------------------------
(***************************************************************************)
(* The theorems.                                                           *)
(***************************************************************************)
LEMMA InitEstablishesIInv == Init => IInv
<1> SUFFICES ASSUME Init PROVE IInv
  OBVIOUS
<1>1. /\ main = <<>> /\ stream = [t \in Children |-> <<>>]
      /\ status = [t \in Children \cup {Main} |-> IF t = Main THEN "Running" ELSE "New"]
      /\ manager = [m \in Managers |-> Idle] /\ courier = NoDelivery
      /\ running = {} /\ deleted = {}
  BY DEF Init
<1>2. /\ main \in Seq(MainEvents) /\ Len(main) = 0 /\ DOMAIN main = {}
      /\ \A t \in Children : stream[t] \in Seq(ChildEvents) /\ DOMAIN stream[t] = {}
  BY <1>1, EmptySeq
<1>3. StreamShapes
  BY <1>1, <1>2 DEF StreamShapes, Statuses, LiveStatuses
<1>4. ManagerShapes /\ CourierShape
  BY <1>1, <1>2, IdleIsAState DEF ManagerShapes, CourierShape, NoDelivery, Tasks
<1>5. StreamsAgree
  BY <1>2 DEF StreamsAgree, AnswersAreToRequests, OutcomesAreOfStarts, CreationsWereAccepted,
    AcceptedMeansDone, RejectedMeansNotDone, ChildIsAccountedFor, OneOutcomePerStart
<1>6. InHand /\ DeliveryInHand
  BY <1>1, IdleIsAState
     DEF InHand, Ready, RequestInHand, CreationInHand, StartInHand, DeliveryInHand, OnAChild
<1> QED BY <1>3, <1>4, <1>5, <1>6, Parts

(* A name, an input, a control or a deletion is of a child that was        *)
(* allocated.                                                              *)
LEMMA AllocatedAreChildren == IInv => Allocated \ {NoTask} \subseteq Children
<1> SUFFICES ASSUME IInv, NEW i \in DOMAIN main, main[i].task # NoTask
             PROVE  main[i].task \in Children
  BY DEF Allocated
<1>1. main[i] \in MainEvents
  BY ElementsOf DEF IInv, Shapes
<1> QED BY <1>1 DEF MainEvents, Tasks

(* Every step keeps the invariant.                                         *)
LEMMA StepKeepsIInv == IInv /\ [Next]_vars => IInv'
<1> SUFFICES ASSUME IInv, [Next]_vars PROVE IInv'
  OBVIOUS
<1>0. status \in [Children \cup {Main} -> Statuses] /\ running \subseteq Children
  BY DEF IInv, Shapes
<1>1. ASSUME NEW m \in Managers, Manage(m) PROVE IInv'
  BY <1>1, ManageKeepsIInv
<1>2. ASSUME NEW m \in Managers, NEW op \in Operations \ {"create"},
             NEW t \in Allocated \ {NoTask}, Request(m, op, t)
      PROVE  IInv'
  BY <1>2, AllocatedAreChildren, RequestKeepsIInv, OperationsAssumption DEF Tasks
<1>3. ASSUME NEW m \in Managers, Request(m, "create", NoTask) PROVE IInv'
  BY <1>3, RequestKeepsIInv DEF Tasks, AllOperations
<1>4. ASSUME NEW t \in Children, Deliver(t) PROVE IInv'
  BY <1>4, DeliverKeepsIInv
<1>5. ASSUME NEW t \in Children, RunEnds(t) PROVE IInv'
  BY <1>0, <1>5, ElsewhereKeepsIInv DEF RunEnds
<1>6. ASSUME NEW t \in Children, NEW kind \in RunKinds, Run(t, kind) PROVE IInv'
  BY <1>6, RunKeepsIInv
<1>7. CASE RecordResult
  BY <1>7, RecordResultKeepsIInv
<1>8. CASE EndOrReopenMain
  BY <1>8, EndOrReopenMainKeepsIInv
<1>9. CASE Crash
  BY <1>9, CrashKeepsIInv
<1>10. CASE UNCHANGED vars
  BY <1>0, <1>10, ElsewhereKeepsIInv DEF vars
<1> QED
  BY <1>1, <1>2, <1>3, <1>4, <1>5, <1>6, <1>7, <1>8, <1>9, <1>10 DEF Next

(* The inductive invariant the other theorems rest on. *)
THEOREM InductiveInvariant == Spec => []IInv
<1>1. Init => IInv
  BY InitEstablishesIInv
<1>2. IInv /\ [Next]_vars => IInv'
  BY StepKeepsIInv
<1> QED BY <1>1, <1>2, PTL DEF Spec

(* Every variable keeps its type: the main stream refers back to its own   *)
(* events, and so do the children's streams.                               *)
THEOREM TypeCorrectness == Spec => []TypeOK
<1>1. IInv => TypeOK
  <2> SUFFICES ASSUME IInv PROVE TypeOK
    OBVIOUS
  <2>1. Shapes /\ RefersBack /\ DeliveryInHand
    BY DEF IInv
  <2>2. MainKinds \subseteq {"Requested"} \cup {MainRecords[at] : at \in DOMAIN MainRecords}
    <3>1. /\ {"allocate", "reject", "bind", "acknowledge", "finish", "fail"}
               \subseteq DOMAIN MainRecords
          /\ MainRecords["allocate"] = "Accepted" /\ MainRecords["reject"] = "Rejected"
          /\ MainRecords["bind"] = "Started" /\ MainRecords["acknowledge"] = "Output"
          /\ MainRecords["finish"] = "Finished" /\ MainRecords["fail"] = "Failed"
      BY DEF MainRecords
    <3> QED BY <3>1 DEF MainKinds
  <2>3. \A i \in DOMAIN main :
          main[i] \in MainEvents /\ main[i].about < i /\ i \in Nat
    BY <2>1, ElementsOf DEF Shapes, RefersBack
  <2>4. \A t \in Children : \A i \in DOMAIN stream[t] :
          stream[t][i] \in ChildEvents /\ stream[t][i].cause <= Len(main)
    BY <2>1, ElementsOf DEF Shapes, RefersBack
  <2>5. Len(main) \in Nat
    BY <2>1, LenProperties DEF Shapes
  <2>6. \A i \in DOMAIN main :
          /\ main[i].kind \in {"Requested"} \cup {MainRecords[at] : at \in DOMAIN MainRecords}
          /\ main[i].task \in Children \cup {NoTask}
          /\ main[i].about \in 0 .. i - 1
    <3> SUFFICES ASSUME NEW i \in DOMAIN main
                 PROVE  /\ main[i].kind \in MainKinds
                        /\ main[i].task \in Children \cup {NoTask}
                        /\ main[i].about \in 0 .. i - 1
      BY <2>2
    <3>1. /\ main[i].kind \in MainKinds /\ main[i].task \in Tasks
          /\ main[i].about \in Nat /\ main[i].about < i /\ i \in Nat
      BY <2>3 DEF MainEvents
    <3>2. main[i].about \in 0 .. i - 1
      BY <3>1
    <3> QED BY <3>1, <3>2 DEF Tasks
  <2>7. \A t \in Children : \A i \in DOMAIN stream[t] :
          /\ stream[t][i].kind \in EventKinds /\ stream[t][i].cause \in 0 .. Len(main)
          /\ stream[t][i].known \in BOOLEAN
    BY <2>4, <2>5 DEF ChildEvents
  <2>8. \A m \in Managers :
          manager[m].at \in Places /\ manager[m].task \in Children \cup {NoTask}
    BY <2>1 DEF Shapes, ManagerStates, Tasks
  <2>9. courier = NoDelivery \/ courier.started \in DOMAIN main
    BY <2>1 DEF DeliveryInHand, IsA
  <2> QED BY <2>1, <2>6, <2>7, <2>8, <2>9 DEF TypeOK, Shapes
<1> QED BY <1>1, InductiveInvariant, PTL

(* What the main stream shows as accepted has happened in the child's      *)
(* stream, wherever a crash came between the two appends.                  *)
THEOREM AcceptedIsDone == Spec => []AcceptedMeansDone
<1>1. IInv => AcceptedMeansDone
  BY DEF IInv
<1> QED BY <1>1, InductiveInvariant, PTL

(* What it shows as rejected has left nothing in the child's stream of     *)
(* which the manager knew: only an effect whose record returned an I/O     *)
(* error after it was stored can be there.                                 *)
THEOREM RejectedIsNotDone == Spec => []RejectedMeansNotDone
<1>1. IInv => RejectedMeansNotDone
  BY DEF IInv
<1> QED BY <1>1, InductiveInvariant, PTL

(* Every child was accepted, and one that the model started has the start  *)
(* of the tool call its result will be handed to.                          *)
THEOREM ChildrenAreAccountedFor == Spec => []ChildIsAccountedFor
<1>1. IInv => ChildIsAccountedFor
  BY DEF IInv
<1> QED BY <1>1, InductiveInvariant, PTL

(* A tool call has one outcome: the loop and the supervisor never both     *)
(* record one, and the supervisor does so once.                            *)
THEOREM OutcomesAreUnique == Spec => []OneOutcomePerStart
<1>1. IInv => OneOutcomePerStart
  BY DEF IInv
<1> QED BY <1>1, InductiveInvariant, PTL

=============================================================================
