--------------------------- MODULE EventLogProofs ---------------------------
(***************************************************************************)
(* EventLog for every set of writers, kinds and number of calls: type      *)
(* correctness, the legality of every persisted stream, and the            *)
(* refinement of TaskStream.  At the end the stream of the main            *)
(* conversation, as MainSession has it.                                    *)
(***************************************************************************)
EXTENDS EventLog, SequenceTheorems, WellFoundedInduction, TLAPS

(* What makes the two parts of StreamReplays and CacheIsAPrefix inductive: *)
(* an event that is about to be appended applies to the projection its     *)
(* writer holds.                                                           *)
PendingApplies ==
  \A w \in Writers :
    /\ pc[w] \in {"append", "refresh", "retry"} => pending[w] \in Recordable
    /\ pc[w] \in {"append", "retry"} =>
         Applies(IsMain, cache[w].status, pending[w])

IInv == TypeOK /\ StreamReplays /\ CacheIsAPrefix /\ PendingApplies

(* The status an event asks for is a status. *)
LEMMA TargetIsStatus ==
  ASSUME NEW status \in Statuses, NEW kind \in EventKinds
  PROVE  Target(status, kind) \in Statuses
BY DEF Target, Statuses, LiveStatuses, TerminalStatuses, EventKinds,
       StatusKinds, Requested, CycleInputKinds, MaskedByPausing

(* An event that applies is projected to the status it asks for. *)
LEMMA ProjectApplies ==
  ASSUME NEW status \in Statuses, NEW kind \in EventKinds,
         Applies(IsMain, status, kind)
  PROVE  /\ Project(IsMain, status, kind) = Target(status, kind)
         /\ Project(IsMain, status, kind) # Unreadable
<1>1. status # Unreadable
  BY DEF Statuses, LiveStatuses, TerminalStatuses, Unreadable
<1>2. Target(status, kind) # Unreadable
  BY TargetIsStatus DEF Statuses, LiveStatuses, TerminalStatuses, Unreadable
<1> QED BY <1>1, <1>2 DEF Project

LEMMA RecordableAreEvents == Recordable \subseteq EventKinds
BY KindsAreEvents DEF Recordable

(* What replaying any prefix gives is a status, in a stream that replays.  *)
LEMMA StatusAfterIsStatus ==
  ASSUME TypeOK, StreamReplays, NEW n \in 0..Len(log)
  PROVE  StatusAfter(n) \in Statuses
<1>1. CASE n = 0
  BY <1>1 DEF StatusAfter, Statuses, LiveStatuses
<1>2. CASE n # 0
  <2>1. n \in DOMAIN replay /\ replay[n] \in Statuses \cup {Unreadable}
    BY <1>2, ElementOfSeq, LenProperties DEF TypeOK
  <2> QED BY <1>2, <2>1 DEF StreamReplays, StatusAfter
<1> QED BY <1>1, <1>2

(* What an accepted append leaves: one more event, the prefix untouched,    *)
(* and a stream that projects to what the writer computed.                 *)
LEMMA AcceptedAppend ==
  ASSUME IInv, NEW w \in Writers, pc[w] \in {"append", "retry"},
         SequenceMatches(w), Store(w)
  PROVE  /\ log' \in Seq(Events)
         /\ replay' \in Seq(Statuses \cup {Unreadable})
         /\ Len(log') = Len(log) + 1
         /\ Len(replay') = Len(log) + 1
         /\ \A i \in 1..Len(log) : replay'[i] = replay[i]
         /\ replay'[Len(log) + 1] = Target(Current, pending[w])
         /\ Target(Current, pending[w]) \in Statuses
         /\ cache[w].status = Current
<1> DEFINE event == [kind |-> pending[w], by |-> w, call |-> calls[w]]
<1>1. /\ log \in Seq(Events)
      /\ replay \in Seq(Statuses \cup {Unreadable})
      /\ Len(replay) = Len(log)
      /\ calls[w] \in Nat
  BY DEF IInv, TypeOK
<1>2. pending[w] \in EventKinds
  BY RecordableAreEvents DEF IInv, PendingApplies
<1>3. event \in Events
  BY <1>1, <1>2 DEF Events
<1>4. Current \in Statuses
  BY StatusAfterIsStatus, <1>1, LenProperties DEF IInv, Current
<1>5. cache[w].status = Current
  BY DEF IInv, CacheIsAPrefix, SequenceMatches, Current
<1>6. Applies(IsMain, Current, pending[w])
  BY <1>5 DEF IInv, PendingApplies
<1>7. /\ Project(IsMain, Current, pending[w]) = Target(Current, pending[w])
      /\ Target(Current, pending[w]) \in Statuses
  BY <1>2, <1>4, <1>6, ProjectApplies, TargetIsStatus
<1>8. /\ log' = Append(log, event)
      /\ replay' = Append(replay, Target(Current, pending[w]))
  BY <1>7 DEF Store
<1>9. /\ log' \in Seq(Events) /\ Len(log') = Len(log) + 1
  BY <1>1, <1>3, <1>8, AppendProperties
<1>10. /\ replay' \in Seq(Statuses \cup {Unreadable})
       /\ Len(replay') = Len(log) + 1
       /\ \A i \in 1..Len(log) : replay'[i] = replay[i]
       /\ replay'[Len(log) + 1] = Target(Current, pending[w])
  BY <1>1, <1>7, <1>8, AppendProperties
<1> QED BY <1>5, <1>7, <1>9, <1>10

(* An append never changes what the earlier prefixes project to.           *)
LEMMA AppendKeepsPrefixes ==
  ASSUME IInv, NEW w \in Writers, pc[w] \in {"append", "retry"},
         SequenceMatches(w), Store(w)
  PROVE  /\ \A n \in 0..Len(log) : StatusAfter(n)' = StatusAfter(n)
         /\ Current' = Target(Current, pending[w])
         /\ StreamReplays'
<1>1. Len(log) \in Nat /\ Len(log') = Len(log) + 1
  BY AcceptedAppend, LenProperties DEF IInv, TypeOK
<1>2. \A n \in 0..Len(log) : StatusAfter(n)' = StatusAfter(n)
  BY AcceptedAppend, <1>1 DEF StatusAfter
<1>3. Current' = Target(Current, pending[w])
  BY AcceptedAppend, <1>1 DEF Current, StatusAfter
<1>4. StreamReplays'
  <2>1. DOMAIN replay' = 1..(Len(log) + 1) /\ DOMAIN replay = 1..Len(log)
    BY AcceptedAppend, LenProperties DEF IInv, TypeOK
  <2>2. \A i \in 1..Len(log) : replay'[i] # Unreadable
    BY AcceptedAppend, <2>1 DEF IInv, StreamReplays
  <2>3. replay'[Len(log) + 1] # Unreadable
    BY AcceptedAppend DEF Statuses, LiveStatuses, TerminalStatuses, Unreadable
  <2> QED BY <1>1, <2>1, <2>2, <2>3 DEF StreamReplays
<1> QED BY <1>2, <1>3, <1>4

LEMMA InitEstablishesIInv == Init => IInv
<1> SUFFICES ASSUME Init PROVE IInv
  OBVIOUS
<1>1. TypeOK
  BY EmptySeq DEF Init, TypeOK, Fresh, Projections, Statuses, LiveStatuses
<1>2. StreamReplays
  BY DEF Init, StreamReplays
<1>3. CacheIsAPrefix
  BY DEF Init, CacheIsAPrefix, Fresh, StatusAfter
<1>4. PendingApplies
  BY DEF Init, PendingApplies
<1> QED BY <1>1, <1>2, <1>3, <1>4 DEF IInv

(* Steps that leave the stream alone and give some writers the projection  *)
(* of the whole stream.                                                    *)
LEMMA LatestIsAProjection ==
  ASSUME IInv
  PROVE  /\ Latest \in Projections
         /\ Latest.seq = Len(log) /\ Latest.status = StatusAfter(Len(log))
         /\ Len(log) \in Nat
<1>1. Len(log) \in Nat
  BY LenProperties DEF IInv, TypeOK
<1>2. Current \in Statuses
  BY <1>1, StatusAfterIsStatus DEF IInv, Current
<1> QED BY <1>1, <1>2 DEF Latest, Projections, Current

LEMMA SameStream ==
  ASSUME UNCHANGED <<log, replay>>, StreamReplays
  PROVE  /\ StreamReplays'
         /\ \A n : StatusAfter(n)' = StatusAfter(n)
BY DEF StreamReplays, StatusAfter

LEMMA OpenNewKeepsIInv ==
  ASSUME IInv, NEW w \in Writers, OpenNew(w)
  PROVE  IInv'
<1>1. Fresh \in Projections /\ 0 <= Len(log) /\ StatusAfter(0) = "New"
  BY LenProperties
     DEF IInv, TypeOK, Fresh, Projections, Statuses, LiveStatuses, StatusAfter
<1>2. TypeOK'
  BY <1>1 DEF IInv, TypeOK, OpenNew
<1>3. StreamReplays' /\ \A n : StatusAfter(n)' = StatusAfter(n)
  BY SameStream DEF OpenNew, IInv
<1>4. CacheIsAPrefix'
  BY <1>1, <1>3 DEF IInv, TypeOK, OpenNew, CacheIsAPrefix, Fresh
<1>5. PendingApplies'
  BY DEF IInv, TypeOK, OpenNew, PendingApplies, Recordable
<1> QED BY <1>2, <1>3, <1>4, <1>5 DEF IInv

LEMMA TakeLatestKeepsIInv ==
  ASSUME IInv, NEW w \in Writers, Recover(w) \/ RefreshProjection(w)
  PROVE  IInv'
<1>1. TypeOK'
  BY LatestIsAProjection DEF IInv, TypeOK, Recover, RefreshProjection
<1>2. StreamReplays' /\ \A n : StatusAfter(n)' = StatusAfter(n)
  BY SameStream DEF Recover, RefreshProjection, IInv
<1>3. CacheIsAPrefix'
  BY <1>2, LatestIsAProjection
     DEF IInv, TypeOK, Recover, RefreshProjection, CacheIsAPrefix
<1>4. PendingApplies'
  BY DEF IInv, TypeOK, Recover, RefreshProjection, PendingApplies, Recordable
<1> QED BY <1>1, <1>2, <1>3, <1>4 DEF IInv

LEMMA BeginRecordKeepsIInv ==
  ASSUME IInv, NEW w \in Writers, NEW kind \in Kinds, BeginRecord(w, kind)
  PROVE  IInv'
<1>1. TypeOK'
  BY RecordableAreEvents DEF IInv, TypeOK, BeginRecord
<1>2. StreamReplays' /\ \A n : StatusAfter(n)' = StatusAfter(n)
  BY SameStream DEF BeginRecord, IInv
<1>3. CacheIsAPrefix'
  BY <1>2 DEF IInv, BeginRecord, CacheIsAPrefix
<1>4. PendingApplies'
  BY DEF IInv, TypeOK, BeginRecord, PendingApplies, Recordable
<1> QED BY <1>1, <1>2, <1>3, <1>4 DEF IInv

LEMMA AppendSucceedsKeepsIInv ==
  ASSUME IInv, NEW w \in Writers, AppendSucceeds(w)
  PROVE  IInv'
<1> USE DEF AppendSucceeds
<1>1. /\ Len(log) \in Nat /\ Len(log') = Len(log) + 1
      /\ Target(Current, pending[w]) \in Statuses
      /\ cache[w].status = Current /\ cache[w].seq = Len(log)
  BY AcceptedAppend, LenProperties DEF IInv, TypeOK, SequenceMatches
<1>2. cache'[w] = [seq |-> Len(log) + 1, status |-> Target(Current, pending[w])]
  BY <1>1 DEF IInv, TypeOK
<1>3. TypeOK'
  <2>1. /\ log' \in Seq(Events)
        /\ replay' \in Seq(Statuses \cup {Unreadable})
        /\ Len(replay') = Len(log')
    BY AcceptedAppend
  <2>2. cache' \in [Writers -> Projections]
    BY <1>1, <1>2 DEF IInv, TypeOK, Projections
  <2> QED BY <2>1, <2>2 DEF IInv, TypeOK, Return
<1>4. CacheIsAPrefix'
  <2> DEFINE After(n) == IF n = 0 THEN "New" ELSE replay'[n]
  <2>1. ASSUME NEW n \in 0..Len(log) PROVE After(n) = StatusAfter(n)
    BY <2>1, AcceptedAppend, LenProperties DEF StatusAfter, IInv, TypeOK
  <2>2. After(Len(log) + 1) = Target(Current, pending[w])
    BY <1>1, AcceptedAppend
  <2> HIDE DEF After
  <2>3. ASSUME NEW v \in Writers
        PROVE  cache'[v].seq <= Len(log') /\ cache'[v].status = After(cache'[v].seq)
    <3>1. CASE v = w
      BY <1>1, <1>2, <2>2, <3>1
    <3>2. CASE v # w
      <4>1. cache'[v] = cache[v] /\ cache[v].seq \in 0..Len(log)
        BY <1>1, <3>2 DEF IInv, TypeOK, CacheIsAPrefix, Projections
      <4> QED BY <1>1, <2>1, <4>1 DEF IInv, CacheIsAPrefix
    <3> QED BY <3>1, <3>2
  <2> QED BY <2>3 DEF After, CacheIsAPrefix, StatusAfter
<1>5. PendingApplies'
  BY DEF IInv, TypeOK, PendingApplies, Recordable, Return
<1> QED BY <1>3, <1>4, <1>5, AppendKeepsPrefixes DEF IInv

LEMMA AppendFailsKeepsIInv ==
  ASSUME IInv, NEW w \in Writers, AppendFails(w)
  PROVE  IInv'
<1> USE DEF AppendFails
<1>1. PendingApplies'
  BY DEF IInv, TypeOK, PendingApplies, Recordable, Return
<1>2. CASE Store(w)
  <2>1. Len(log) \in Nat /\ Len(log') = Len(log) + 1
    BY <1>2, AcceptedAppend, LenProperties DEF IInv, TypeOK
  <2>2. TypeOK'
    BY <1>2, AcceptedAppend DEF IInv, TypeOK, Return
  <2>3. CacheIsAPrefix'
    <3>1. ASSUME NEW v \in Writers
          PROVE  cache[v].seq \in 0..Len(log) /\ cache[v].seq <= Len(log')
      BY <2>1 DEF IInv, TypeOK, CacheIsAPrefix, Projections
    <3>2. ASSUME NEW v \in Writers
          PROVE  StatusAfter(cache[v].seq) =
                   IF cache[v].seq = 0 THEN "New" ELSE replay'[cache[v].seq]
      BY <1>2, <3>1, AcceptedAppend DEF StatusAfter, IInv, TypeOK, Projections
    <3> QED BY <3>1, <3>2 DEF IInv, CacheIsAPrefix, StatusAfter
  <2> QED BY <1>1, <1>2, <2>2, <2>3, AppendKeepsPrefixes DEF IInv
<1>3. CASE UNCHANGED <<log, replay>>
  <2>1. TypeOK'
    BY <1>3 DEF IInv, TypeOK, Return
  <2>2. StreamReplays' /\ \A n : StatusAfter(n)' = StatusAfter(n)
    BY <1>3, SameStream DEF IInv
  <2>3. CacheIsAPrefix'
    BY <1>3, <2>2 DEF IInv, CacheIsAPrefix
  <2> QED BY <1>1, <2>1, <2>2, <2>3 DEF IInv
<1> QED BY <1>2, <1>3

LEMMA ConflictKeepsIInv ==
  ASSUME IInv, NEW w \in Writers, AppendConflicts(w) \/ RetryConflicts(w)
  PROVE  IInv'
<1>1. TypeOK'
  BY DEF IInv, TypeOK, AppendConflicts, RetryConflicts, Return
<1>2. StreamReplays' /\ \A n : StatusAfter(n)' = StatusAfter(n)
  BY SameStream DEF AppendConflicts, RetryConflicts, IInv
<1>3. CacheIsAPrefix'
  BY <1>2 DEF IInv, AppendConflicts, RetryConflicts, CacheIsAPrefix
<1>4. PendingApplies'
  BY DEF IInv, TypeOK, AppendConflicts, RetryConflicts, Return, PendingApplies,
         Recordable
<1> QED BY <1>1, <1>2, <1>3, <1>4 DEF IInv

LEMMA RefreshForRetryKeepsIInv ==
  ASSUME IInv, NEW w \in Writers, RefreshForRetry(w)
  PROVE  IInv'
<1>1. TypeOK'
  BY LatestIsAProjection DEF IInv, TypeOK, RefreshForRetry, Return
<1>2. StreamReplays' /\ \A n : StatusAfter(n)' = StatusAfter(n)
  BY SameStream DEF RefreshForRetry, IInv
<1>3. CacheIsAPrefix'
  BY <1>2, LatestIsAProjection
     DEF IInv, TypeOK, RefreshForRetry, CacheIsAPrefix
<1>4. PendingApplies'
  <2> SUFFICES ASSUME NEW v \in Writers
               PROVE  /\ pc'[v] \in {"append", "refresh", "retry"} =>
                           pending'[v] \in Recordable
                      /\ pc'[v] \in {"append", "retry"} =>
                           Applies(IsMain, cache'[v].status, pending'[v])
    BY DEF PendingApplies, Recordable
  <2>1. CASE v # w
    BY <2>1 DEF IInv, TypeOK, RefreshForRetry, Return, PendingApplies
  <2>2. CASE v = w /\ Applies(IsMain, Current, pending[w])
    <3>1. /\ cache'[w].status = Current
          /\ pc[w] = "refresh" /\ pc'[w] = "retry"
          /\ pending'[w] = pending[w]
      BY <2>2 DEF IInv, TypeOK, RefreshForRetry, Latest
    <3> QED BY <2>2, <3>1 DEF IInv, PendingApplies
  <2>3. CASE v = w /\ ~ Applies(IsMain, Current, pending[w])
    BY <2>3 DEF IInv, TypeOK, RefreshForRetry, Return
  <2> QED BY <2>1, <2>2, <2>3
<1> QED BY <1>1, <1>2, <1>3, <1>4 DEF IInv

LEMMA RestartKeepsIInv ==
  ASSUME IInv, Restart
  PROVE  IInv'
<1>1. Fresh \in Projections /\ 0 <= Len(log) /\ StatusAfter(0) = "New"
  BY LenProperties
     DEF IInv, TypeOK, Fresh, Projections, Statuses, LiveStatuses, StatusAfter
<1>2. TypeOK'
  BY <1>1 DEF IInv, TypeOK, Restart
<1>3. StreamReplays' /\ \A n : StatusAfter(n)' = StatusAfter(n)
  BY SameStream DEF Restart, IInv
<1>4. CacheIsAPrefix'
  BY <1>1, <1>3 DEF Restart, CacheIsAPrefix, Fresh
<1>5. PendingApplies'
  BY DEF Restart, PendingApplies
<1> QED BY <1>2, <1>3, <1>4, <1>5 DEF IInv

LEMMA StepKeepsIInv ==
  ASSUME IInv, [Next]_vars
  PROVE  IInv'
<1>1. CASE UNCHANGED vars
  <2>1. StreamReplays' /\ \A n : StatusAfter(n)' = StatusAfter(n)
    BY <1>1, SameStream DEF vars, IInv
  <2> QED
    BY <1>1, <2>1 DEF vars, IInv, TypeOK, CacheIsAPrefix, PendingApplies, Recordable
<1>2. CASE Restart
  BY <1>2, RestartKeepsIInv
<1>3. ASSUME NEW w \in Writers, Step(w) \/ AppendFails(w)
      PROVE  IInv'
  BY <1>3, OpenNewKeepsIInv, TakeLatestKeepsIInv, BeginRecordKeepsIInv,
     AppendSucceedsKeepsIInv, AppendFailsKeepsIInv, ConflictKeepsIInv,
     RefreshForRetryKeepsIInv DEF Step
<1> QED BY <1>1, <1>2, <1>3 DEF Next

(* Every behaviour keeps the inductive invariant. *)
THEOREM InductiveInvariant == Spec => []IInv
<1>1. Init => IInv
  BY InitEstablishesIInv
<1>2. IInv /\ [Next]_vars => IInv'
  BY StepKeepsIInv
<1> QED BY <1>1, <1>2, PTL DEF Spec

(* Each variable keeps its type, and the history of the projection keeps   *)
(* the length of the stream (EventEnvelope, TaskProjection).               *)
THEOREM TypeCorrectness == Spec => []TypeOK
<1>1. IInv => TypeOK
  BY DEF IInv
<1> QED BY <1>1, InductiveInvariant, PTL

(* The optimistic record of TaskRuntime, its single retry included, never  *)
(* persists a stream that recovery cannot replay, for any number of        *)
(* runtimes, restarts and I/O errors.                                      *)
THEOREM StreamsReplay == Spec => []StreamReplays
<1>1. IInv => StreamReplays
  BY DEF IInv
<1> QED BY <1>1, InductiveInvariant, PTL

(* A runtime's cached projection is always the projection of a prefix of   *)
(* the persisted stream.                                                   *)
THEOREM CachesArePrefixes == Spec => []CacheIsAPrefix
<1>1. IInv => CacheIsAPrefix
  BY DEF IInv
<1> QED BY <1>1, InductiveInvariant, PTL

-----------------------------------------------------------------------------
(* A step leaves the stream alone or is an accepted append of an event     *)
(* that applies to what the stream projects to.                            *)
LEMMA StreamStep ==
  ASSUME IInv, [Next]_vars, ~ UNCHANGED <<log, replay>>
  PROVE  \E w \in Writers : /\ pc[w] \in {"append", "retry"}
                            /\ SequenceMatches(w)
                            /\ Store(w)
BY DEF Next, Step, Restart, OpenNew, Recover, RefreshProjection, BeginRecord,
       AppendSucceeds, AppendFails, AppendConflicts, RefreshForRetry,
       RetryConflicts, vars

LEMMA StreamStepIsLegal ==
  ASSUME IInv, [Next]_vars, ~ UNCHANGED <<log, replay>>
  PROVE  \E w \in Writers :
           /\ pending[w] \in Recordable
           /\ Current \in Statuses
           /\ Applies(IsMain, Current, pending[w])
           /\ Current' = Target(Current, pending[w])
           /\ log' = Append(log, [kind |-> pending[w], by |-> w, call |-> calls[w]])
<1>1. PICK w \in Writers : /\ pc[w] \in {"append", "retry"}
                           /\ SequenceMatches(w)
                           /\ Store(w)
  BY StreamStep
<1>2. /\ cache[w].status = Current
      /\ Current' = Target(Current, pending[w])
  BY <1>1, AcceptedAppend, AppendKeepsPrefixes
<1>3. Current \in Statuses
  BY LatestIsAProjection DEF Latest, Projections
<1> QED BY <1>1, <1>2, <1>3 DEF IInv, PendingApplies, Store

LEMMA UnchangedStream ==
  ASSUME UNCHANGED <<log, replay>>
  PROVE  Current' = Current
BY DEF Current, StatusAfter

(* A requested pause is not overtaken by the outcome of the turn it        *)
(* interrupts, whatever projection that turn's runtime still holds.        *)
THEOREM PauseIsKept == Spec => PauseOutranksOutcome
<1>1. ASSUME IInv, [Next]_vars, Current = "Pausing"
      PROVE  Current' \in {"Pausing", "Paused", "Cancelled", "Expired"}
  <2>1. CASE UNCHANGED <<log, replay>>
    BY <1>1, <2>1, UnchangedStream
  <2>2. CASE ~ UNCHANGED <<log, replay>>
    <3>1. PICK w \in Writers : /\ Applies(IsMain, Current, pending[w])
                               /\ Current' = Target(Current, pending[w])
      BY <1>1, <2>2, StreamStepIsLegal
    <3> QED BY <1>1, <3>1 DEF Applies, Allowed, Successors, TerminalStatuses
  <2> QED BY <2>1, <2>2
<1> QED BY <1>1, InductiveInvariant, PTL DEF Spec, PauseOutranksOutcome

(* The outcome of an ended cycle is final until the task is queued again.  *)
THEOREM EndedCyclesStaySealed == Spec => EndedCycleIsSealed
<1>1. ASSUME IInv, [Next]_vars, Current \in TerminalStatuses
      PROVE  Current' \in {Current, "Queued"}
  <2>1. CASE UNCHANGED <<log, replay>>
    BY <2>1, UnchangedStream
  <2>2. CASE ~ UNCHANGED <<log, replay>>
    <3>1. PICK w \in Writers : /\ Applies(IsMain, Current, pending[w])
                               /\ Current' = Target(Current, pending[w])
      BY <1>1, <2>2, StreamStepIsLegal
    <3>2. Successors(Current) = {"Queued"}
      BY <1>1 DEF Successors, TerminalStatuses
    <3> QED BY <3>1, <3>2 DEF Applies, Allowed
  <2> QED BY <2>1, <2>2
<1> QED BY <1>1, InductiveInvariant, PTL DEF Spec, EndedCycleIsSealed

(* The number of a call names its event: no stored event has the number of *)
(* a call that may still store one, and numbers are used in order.         *)
CallsNameEvents ==
  /\ \A i \in DOMAIN log : log[i].call <= calls[log[i].by]
  /\ \A w \in Writers, i \in DOMAIN log :
       pc[w] \in {"append", "refresh", "retry"} /\ log[i].by = w => log[i].call < calls[w]

LEMMA StoredEvents ==
  ASSUME TypeOK
  PROVE  /\ Len(log) \in Nat /\ DOMAIN log = 1..Len(log)
         /\ \A i \in DOMAIN log : log[i].by \in Writers /\ log[i].call \in Nat
<1>1. log \in Seq(Events)
  BY DEF TypeOK
<1>2. \A i \in 1..Len(log) : log[i] \in Events
  BY <1>1, ElementOfSeq
<1> QED BY <1>1, <1>2, LenProperties DEF Events

LEMMA StepKeepsCallNames ==
  ASSUME IInv, CallsNameEvents, OneEventPerCall, [Next]_vars
  PROVE  CallsNameEvents' /\ OneEventPerCall'
<1>1. calls \in [Writers -> Nat] /\ pc \in [Writers -> {"closed", "idle", "append", "refresh", "retry"}]
  BY DEF IInv, TypeOK
<1>2. CASE UNCHANGED <<log, replay>>
  <2>1. \/ UNCHANGED vars \/ Restart
        \/ \E w \in Writers :
             \/ OpenNew(w) \/ Recover(w) \/ RefreshProjection(w)
             \/ \E kind \in Kinds : BeginRecord(w, kind)
             \/ AppendSucceeds(w) \/ AppendConflicts(w) \/ RefreshForRetry(w)
             \/ RetryConflicts(w) \/ AppendFails(w)
    BY DEF Next, Step
  <2>2. /\ \A w \in Writers : calls'[w] \in Nat /\ calls'[w] >= calls[w]
        /\ \A w \in Writers : pc'[w] \in {"append", "refresh", "retry"} =>
             pc[w] \in {"append", "refresh", "retry"} \/ calls'[w] > calls[w]
    BY <1>1, <2>1 DEF vars, Restart, OpenNew, Recover, RefreshProjection, BeginRecord,
       AppendSucceeds, AppendConflicts, RefreshForRetry, RetryConflicts, AppendFails, Return
  <2> QED BY <1>1, <1>2, <2>2, StoredEvents DEF CallsNameEvents, OneEventPerCall, IInv
<1>3. CASE ~ UNCHANGED <<log, replay>>
  <2>1. PICK w \in Writers : AppendSucceeds(w) \/ (AppendFails(w) /\ Store(w))
    BY <1>3 DEF Next, Step, Restart, OpenNew, Recover, RefreshProjection, BeginRecord,
       AppendSucceeds, AppendFails, AppendConflicts, RefreshForRetry, RetryConflicts, vars
  <2>2. /\ pc[w] \in {"append", "retry"} /\ SequenceMatches(w) /\ Store(w)
        /\ calls' = calls /\ pc' = [pc EXCEPT ![w] = "idle"]
    BY <2>1 DEF AppendSucceeds, AppendFails, Return
  <2>3. /\ Len(log') = Len(log) + 1 /\ DOMAIN log' = 1..(Len(log) + 1)
        /\ \A i \in 1..Len(log) : log'[i] = log[i]
        /\ log'[Len(log) + 1].by = w /\ log'[Len(log) + 1].call = calls[w]
    BY <2>2, StoredEvents, AcceptedAppend DEF Store, IInv
  <2>4. \A i \in 1..Len(log) : log[i].by = w => log[i].call < calls[w]
    BY <2>2, StoredEvents DEF CallsNameEvents, IInv
  <2>5. \A i \in 1..(Len(log) + 1) : i \in 1..Len(log) \/ i = Len(log) + 1
    BY StoredEvents DEF IInv
  <2>6. CallsNameEvents'
    <3>1. ASSUME NEW i \in 1..(Len(log) + 1)
          PROVE  log'[i].call <= calls[log'[i].by]
      <4>1. CASE i \in 1..Len(log)
        BY <2>3, <4>1, StoredEvents DEF CallsNameEvents, IInv
      <4>2. CASE i = Len(log) + 1
        BY <1>1, <2>3, <4>2
      <4> QED BY <2>5, <4>1, <4>2
    <3>2. ASSUME NEW v \in Writers, NEW i \in 1..(Len(log) + 1), log'[i].by = v,
                 pc'[v] \in {"append", "refresh", "retry"}
          PROVE  log'[i].call < calls[v]
      <4>1. v # w /\ pc[v] = pc'[v]
        BY <1>1, <2>2, <3>2
      <4>2. i \in 1..Len(log)
        BY <2>3, <2>5, <3>2, <4>1
      <4> QED BY <2>3, <3>2, <4>1, <4>2, StoredEvents DEF CallsNameEvents, IInv
    <3> QED BY <2>2, <2>3, <3>1, <3>2 DEF CallsNameEvents
  <2>7. OneEventPerCall'
    <3>1. ASSUME NEW i \in 1..(Len(log) + 1), NEW j \in 1..(Len(log) + 1),
                 log'[i].by = log'[j].by, log'[i].call = log'[j].call
          PROVE  i = j
      <4>1. calls[w] \in Nat /\ \A k \in 1..Len(log) : log[k].call \in Nat
        BY <1>1, StoredEvents DEF IInv
      <4>2. CASE i \in 1..Len(log) /\ j \in 1..Len(log)
        BY <2>3, <3>1, <4>2, StoredEvents DEF OneEventPerCall, IInv
      <4>3. CASE i = Len(log) + 1 /\ j \in 1..Len(log)
        BY <2>3, <2>4, <3>1, <4>1, <4>3
      <4>4. CASE i \in 1..Len(log) /\ j = Len(log) + 1
        BY <2>3, <2>4, <3>1, <4>1, <4>4
      <4> QED BY <2>5, <4>2, <4>3, <4>4
    <3> QED BY <2>3, <3>1 DEF OneEventPerCall
  <2> QED BY <2>6, <2>7
<1> QED BY <1>2, <1>3

(* The conflict retry of record_with_provenance never stores the event of  *)
(* one record call twice, and every event of the stream is that of one     *)
(* call.  An append may write its event and return an error: that ends the *)
(* call, which fails although its event is stored; only a conflict, which  *)
(* writes nothing, is retried.                                             *)
THEOREM CallsStoreOnce == Spec => []OneEventPerCall
<1>1. Init => CallsNameEvents /\ OneEventPerCall
  BY DEF Init, CallsNameEvents, OneEventPerCall
<1>2. IInv /\ CallsNameEvents /\ OneEventPerCall /\ [Next]_vars
        => CallsNameEvents' /\ OneEventPerCall'
  BY StepKeepsCallNames
<1> QED BY <1>1, <1>2, InductiveInvariant, PTL DEF Spec

(* TaskStream reads the rules of TaskProjection through its own instance.  *)
LEMMA SameRules ==
  ASSUME NEW status, NEW kind
  PROVE  /\ Promise!Target(status, kind) = Target(status, kind)
         /\ Promise!Applies(IsMain, status, kind) <=>
              Applies(IsMain, status, kind)
<1>1. /\ Promise!TerminalStatuses = TerminalStatuses
      /\ Promise!CycleInputKinds = CycleInputKinds
      /\ Promise!StatusKinds = StatusKinds
      /\ Promise!MaskedByPausing = MaskedByPausing
      /\ Promise!ConfigurationKinds = ConfigurationKinds
      /\ Promise!TaskManagementKinds = TaskManagementKinds
  BY DEF Promise!TerminalStatuses, TerminalStatuses,
         Promise!CycleInputKinds, CycleInputKinds,
         Promise!StatusKinds, StatusKinds,
         Promise!MaskedByPausing, MaskedByPausing,
         Promise!ConfigurationKinds, ConfigurationKinds,
         Promise!TaskManagementKinds, TaskManagementKinds
<1>2. Promise!Requested(kind) = Requested(kind)
  BY DEF Promise!Requested, Requested
<1>3. Promise!Target(status, kind) = Target(status, kind)
  BY <1>1, <1>2 DEF Promise!Target, Target
<1>4. Promise!Successors(status) = Successors(status)
  BY <1>1 DEF Promise!Successors, Successors
<1> QED
  BY <1>1, <1>3, <1>4 DEF Promise!Applies, Applies, Promise!Allowed, Allowed,
     Promise!AcceptedWhenTerminal, AcceptedWhenTerminal

(* The runtimes and the store implement one stream that grows by one legal *)
(* event at a time: the optimistic calls are linearizable.                 *)
THEOREM RecordIsLinearizable == Spec => Linearizable
<1> DEFINE kinds == [i \in DOMAIN log |-> log[i].kind]
<1>1. Init => Promise!Init
  BY DEF Init, Promise!Init, Current, StatusAfter
<1>2. ASSUME IInv, [Next]_vars
      PROVE  [Promise!Next]_(Promise!vars)
  <2>1. CASE UNCHANGED <<log, replay>>
    BY <2>1, UnchangedStream DEF Promise!vars
  <2>2. CASE ~ UNCHANGED <<log, replay>>
    <3>1. PICK w \in Writers :
            /\ pending[w] \in Recordable
            /\ Applies(IsMain, Current, pending[w])
            /\ Current' = Target(Current, pending[w])
            /\ log' = Append(log, [kind |-> pending[w], by |-> w,
                                   call |-> calls[w]])
      BY <1>2, <2>2, StreamStepIsLegal
    <3>2. log \in Seq(Events) /\ DOMAIN log = 1..Len(log) /\ Len(log) \in Nat
      BY <1>2, LenProperties DEF IInv, TypeOK
    <3>3. DOMAIN log' = 1..(Len(log) + 1)
      BY <3>1, <3>2
    <3>4. \A i \in 1..(Len(log) + 1) : log'[i].kind =
            IF i <= Len(log) THEN log[i].kind ELSE pending[w]
      BY <3>1, <3>2
    <3>5. kinds \in Seq(EventKinds) /\ Len(kinds) = Len(log)
      <4>1. kinds \in [1..Len(log) -> EventKinds]
        <5>1. ASSUME NEW i \in 1..Len(log) PROVE log[i].kind \in EventKinds
          <6>1. log[i] \in Events
            BY <3>2, ElementOfSeq
          <6> QED BY <6>1 DEF Events
        <5> QED BY <3>2, <5>1
      <4>2. kinds \in Seq(EventKinds)
        BY <3>2, <4>1, SeqDef
      <4>3. DOMAIN kinds = 1..Len(log) /\ DOMAIN kinds = 1..Len(kinds)
        BY <4>1, <4>2, LenProperties
      <4>4. Len(kinds) \in Nat
        BY <4>2, LenProperties
      <4> QED BY <3>2, <4>2, <4>3, <4>4
    <3>6. kinds' = Append(kinds, pending[w])
      <4>1. pending[w] \in EventKinds
        BY <3>1, RecordableAreEvents
      <4>2. /\ Append(kinds, pending[w]) \in Seq(EventKinds)
            /\ Len(Append(kinds, pending[w])) = Len(log) + 1
            /\ \A i \in 1..Len(log) : Append(kinds, pending[w])[i] = kinds[i]
            /\ Append(kinds, pending[w])[Len(log) + 1] = pending[w]
        BY <3>5, <4>1, AppendProperties
      <4>3. kinds' = [i \in 1..(Len(log) + 1) |-> log'[i].kind]
        BY <3>3
      <4> QED BY <3>2, <3>4, <4>2, <4>3
    <3>7. pending[w] \in Promise!Recordable
      BY <3>1 DEF Recordable, Promise!Recordable, TaskManagementKinds,
                  Promise!TaskManagementKinds
    <3>8. PICK kind \in Promise!Recordable : kind = pending[w]
      BY <3>7
    <3>9. Promise!Extend(kind)
      BY <3>1, <3>6, <3>8, SameRules DEF Promise!Extend
    <3> QED BY <3>9 DEF Promise!Next
  <2> QED BY <2>1, <2>2
<1> QED BY <1>1, <1>2, InductiveInvariant, PTL
        DEF Spec, Linearizable, Promise!Spec

-----------------------------------------------------------------------------
(***************************************************************************)
(* The stream of the main conversation under administration (MainSession), *)
(* for any commands of the console and any number of events, deletions and *)
(* crashes: what was reported as created has been queued and is readable.  *)
(*                                                                         *)
(* The argument: the event that queues the conversation leaves it in a     *)
(* status that is neither new nor just created, or unreadable; no event    *)
(* leads back; and whoever deletes the stream has first taken back what    *)
(* was reported.  A cache that was read from this stream has at most as    *)
(* many events, and with as many it has its status; what such a cache, or  *)
(* the stream itself after a conflict, accepts leaves it readable.  Caches *)
(* of an older stream are those of writers at work when it was deleted.    *)
(* What a stream shows is a recursive function of it, which exists and     *)
(* goes on from an event to the next.                                      *)
(***************************************************************************)
CONSTANTS Commands, MaxEvents, MaxClears, MaxCrashes
VARIABLES stream, server, console, outcome, source, run, overlapped, clears, crashes
Main == INSTANCE MainSession

MainKinds ==
  Commands \cup {"TaskCreated", "TaskQueued", "ContextReceived", "ModelCallStarted",
                 "RequireApproval", "TaskFailed", "None"}

(* A cache was read from the stream: it is shorter, or shows the same.     *)
ReadFrom(events, seen) ==
  /\ seen.seq \in Nat /\ seen.seq <= Len(events)
  /\ seen.seq = Len(events) => seen.status = Main!Status(events)
Knows(events, writer, phases) == writer.phase \in phases => ReadFrom(events, writer.cache)
WritersKnow ==
  ~ overlapped =>
    /\ Main!Status(stream) # Main!Unreadable
    /\ Knows(stream, console, {"record", "queue"})
    /\ Knows(stream, source, {"record"}) /\ Knows(stream, run, {"active"})

(* What the stream shows, and that nobody is creating or deleting it while *)
(* it counts as created.                                                   *)
Served(status) == status \notin {"New", "Created"}
MainIInv ==
  /\ WritersKnow
  /\ stream \in Seq(MainKinds) /\ console.kind \in MainKinds
  /\ Main!Status(stream) \in Main!Statuses \cup {Main!Unreadable}
  /\ outcome = "ok" =>
       Served(Main!Status(stream)) /\ console.phase \notin {"create", "queue", "delete"}

-----------------------------------------------------------------------------
(* What a stream and one event more show. *)
LEMMA FirstExists ==
  ASSUME NEW S, S \subseteq Nat, S # {}
  PROVE  \E x \in S : \A y \in S : x <= y
<1> DEFINE Less == {p \in Nat \X Nat : p[1] < p[2]}
<1>1. Less = OpToRel(<, Nat)
  BY DEF OpToRel
<1>2. IsWellFoundedOn(Less, Nat)
  BY <1>1, NatLessThanWellFounded
<1> HIDE DEF Less
<1>3. PICK x \in S : \A y \in S : ~ (<<y, x>> \in Less)
  BY <1>2, WFMin
<1>4. ASSUME NEW y \in S, ~ (<<y, x>> \in Less) PROVE x <= y
  BY <1>4 DEF Less
<1> QED BY <1>3, <1>4

Projected(status, kind) == Main!Project(TRUE, status, kind)
IsReplay(events, after, n) ==
  after = [k \in 0 .. n |-> IF k = 0 THEN "New" ELSE Projected(after[k - 1], events[k])]

LEMMA ReplayExists ==
  ASSUME NEW events, NEW n \in Nat
  PROVE  \E after : IsReplay(events, after, n)
<1> DEFINE Bad == {k \in Nat : ~ \E after : IsReplay(events, after, k)}
<1> SUFFICES ASSUME Bad # {} PROVE FALSE
  OBVIOUS
<1>1. PICK k \in Bad : \A j \in Bad : k <= j
  BY FirstExists
<1>2. CASE k = 0
  <2>1. IsReplay(events, [i \in 0 .. 0 |-> "New"], 0)
    BY DEF IsReplay
  <2> QED BY <1>1, <1>2, <2>1
<1>3. CASE k # 0
  <2>1. k - 1 \in Nat /\ k - 1 \notin Bad
    BY <1>1, <1>3
  <2>2. PICK shorter : IsReplay(events, shorter, k - 1)
    BY <2>1
  <2> DEFINE longer == [i \in 0 .. k |-> IF i = k THEN Projected(shorter[k - 1], events[k])
                                                  ELSE shorter[i]]
  <2>3. \A i \in 0 .. k :
          longer[i] = IF i = 0 THEN "New" ELSE Projected(longer[i - 1], events[i])
    <3> SUFFICES ASSUME NEW i \in 0 .. k
                 PROVE  longer[i] = IF i = 0 THEN "New"
                                    ELSE Projected(longer[i - 1], events[i])
      OBVIOUS
    <3>1. CASE i = k
      <4>1. longer[i - 1] = shorter[k - 1]
        BY <1>3, <2>1, <3>1
      <4> QED BY <1>3, <3>1, <4>1
    <3>2. CASE i # k
      <4>1. i \in 0 .. (k - 1) /\ longer[i] = shorter[i]
        BY <2>1, <3>2
      <4>2. shorter[i] = IF i = 0 THEN "New" ELSE Projected(shorter[i - 1], events[i])
        BY <2>2, <4>1 DEF IsReplay
      <4>3. i # 0 => longer[i - 1] = shorter[i - 1]
        BY <2>1, <3>2
      <4> QED BY <4>1, <4>2, <4>3
    <3> QED BY <3>1, <3>2
  <2>4. IsReplay(events, longer, k)
    <3> DEFINE again == [i \in 0 .. k |-> IF i = 0 THEN "New"
                                          ELSE Projected(longer[i - 1], events[i])]
    <3>1. DOMAIN longer = 0 .. k /\ DOMAIN again = 0 .. k
      OBVIOUS
    <3>2. \A i \in 0 .. k : again[i] = IF i = 0 THEN "New"
                                       ELSE Projected(longer[i - 1], events[i])
      OBVIOUS
    <3>3. longer = [i \in 0 .. k |-> longer[i]] /\ again = [i \in 0 .. k |-> again[i]]
      OBVIOUS
    <3> HIDE DEF longer, again
    <3>4. longer = again
      BY <2>3, <3>2, <3>3
    <3> QED BY <3>4 DEF IsReplay, again
  <2> QED BY <1>1, <2>4
<1> QED BY <1>2, <1>3

(* The status of a stream is what a replay of it ends with.                *)
LEMMA StatusIsReplayed ==
  ASSUME NEW events, NEW n \in Nat, n = Len(events)
  PROVE  \E after : /\ Main!Status(events) = after[n]
                    /\ \A k \in 0 .. n :
                         after[k] = IF k = 0 THEN "New" ELSE Projected(after[k - 1], events[k])
<1> DEFINE after == CHOOSE f : IsReplay(events, f, n)
<1>1. Main!Status(events) = after[n]
  BY DEF Main!Status, IsReplay, Projected
<1>2. IsReplay(events, after, n)
  BY ReplayExists
<1> HIDE DEF after
<1>3. \A k \in 0 .. n : after[k] = IF k = 0 THEN "New" ELSE Projected(after[k - 1], events[k])
  BY <1>2 DEF IsReplay
<1> QED BY <1>1, <1>3

LEMMA NothingIsNew == Main!Status(<<>>) = "New"
<1>1. PICK n \in Nat : n = 0 /\ n = Len(<<>>)
  OBVIOUS
<1> QED BY <1>1, StatusIsReplayed

LEMMA OneEventMore ==
  ASSUME NEW events \in Seq(MainKinds), NEW kind \in MainKinds
  PROVE  Main!Status(Append(events, kind)) = Projected(Main!Status(events), kind)
<1>1. PICK n \in Nat : n = Len(events)
  BY LenProperties
<1>2. PICK longer : longer = Append(events, kind)
  OBVIOUS
<1>3. /\ Len(longer) = n + 1 /\ longer[n + 1] = kind /\ n + 1 \in Nat
      /\ \A k \in 1 .. n : longer[k] = events[k]
  BY <1>1, <1>2, AppendProperties
<1>4. PICK short : /\ Main!Status(events) = short[n]
                   /\ \A k \in 0 .. n : short[k] = IF k = 0 THEN "New"
                                                   ELSE Projected(short[k - 1], events[k])
  BY <1>1, StatusIsReplayed
<1>5. PICK long : /\ Main!Status(longer) = long[n + 1]
                  /\ \A k \in 0 .. (n + 1) : long[k] = IF k = 0 THEN "New"
                                                       ELSE Projected(long[k - 1], longer[k])
  BY <1>3, StatusIsReplayed
<1> DEFINE Bad == {k \in 0 .. n : long[k] # short[k]}
<1>6. Bad = {}
  <2> SUFFICES ASSUME Bad # {} PROVE FALSE
    OBVIOUS
  <2>1. PICK k \in Bad : \A j \in Bad : k <= j
    <3>1. Bad \subseteq Nat
      OBVIOUS
    <3> QED BY <3>1, FirstExists
  <2>2. k # 0
    BY <1>4, <1>5
  <2>3. k - 1 \in 0 .. n /\ k - 1 \notin Bad /\ k \in 1 .. n /\ k \in 0 .. (n + 1)
    BY <2>1, <2>2
  <2>4. long[k - 1] = short[k - 1] /\ longer[k] = events[k]
    BY <1>3, <2>3
  <2> QED BY <1>4, <1>5, <2>1, <2>2, <2>3, <2>4
<1>7. long[n] = short[n]
  BY <1>6
<1>8. n + 1 \in 0 .. (n + 1) /\ n + 1 # 0 /\ n + 1 - 1 = n
  OBVIOUS
<1>9. long[n + 1] = Projected(long[n], kind)
  BY <1>3, <1>5, <1>8
<1> QED BY <1>2, <1>4, <1>5, <1>7, <1>9

-----------------------------------------------------------------------------
(* Where an event leads. *)
LEMMA TargetStays ==
  ASSUME NEW status \in Main!Statuses, NEW kind
  PROVE  /\ Main!Target(status, kind) \in Main!Statuses
         /\ Served(status) /\ Main!Allowed(status, Main!Target(status, kind)) =>
              Served(Main!Target(status, kind))
<1>1. Main!Target(status, kind) \in Main!Statuses
  <2>1. CASE kind \in Main!StatusKinds
    <3>1. Main!Requested(kind) \in Main!Statuses
      BY <2>1 DEF Main!StatusKinds, Main!Requested, Main!Statuses, Main!LiveStatuses,
         Main!TerminalStatuses
    <3> QED BY <3>1 DEF Main!Target, Main!Statuses, Main!LiveStatuses, Main!TerminalStatuses
  <2>2. CASE kind \notin Main!StatusKinds
    BY <2>2 DEF Main!Target, Main!Statuses, Main!LiveStatuses, Main!TerminalStatuses
  <2> QED BY <2>1, <2>2
<1>2. ASSUME Served(status), Main!Target(status, kind) \in Main!Successors(status)
      PROVE  Served(Main!Target(status, kind))
  <2>1. status \in Main!Statuses \ {"New", "Created"}
    BY <1>2 DEF Served
  <2>2. \A next \in {"New", "Created"} : next \notin Main!Successors(status)
    BY <2>1 DEF Main!Successors, Main!Statuses, Main!LiveStatuses, Main!TerminalStatuses
  <2> QED BY <1>2, <2>2 DEF Served
<1> QED BY <1>1, <1>2 DEF Main!Allowed

LEMMA QueuedIsServed ==
  ASSUME NEW status \in Main!Statuses
  PROVE  Served(Main!Target(status, "TaskQueued"))
BY DEF Main!Target, Served, Main!MaskedByPausing, Main!CycleInputKinds, Main!StatusKinds,
   Main!Requested

LEMMA ProjectedStays ==
  ASSUME NEW status \in Main!Statuses \cup {Main!Unreadable}, NEW kind
  PROVE  /\ Projected(status, kind) \in Main!Statuses \cup {Main!Unreadable}
         /\ Served(status) => Served(Projected(status, kind))
         /\ Served(Projected(status, "TaskQueued"))
<1>1. Served(Main!Unreadable)
  BY DEF Served, Main!Unreadable
<1>2. ASSUME NEW k
      PROVE  \/ Projected(status, k) = Main!Unreadable
             \/ /\ status \in Main!Statuses /\ Main!Allowed(status, Main!Target(status, k))
                /\ Projected(status, k) = Main!Target(status, k)
  <2>1. CASE status # Main!Unreadable /\ Main!Applies(TRUE, status, k)
    <3>1. Main!Project(TRUE, status, k) = Main!Target(status, k)
      BY <2>1 DEF Main!Project
    <3> QED BY <2>1, <3>1 DEF Main!Applies, Projected
  <2>2. CASE ~ (status # Main!Unreadable /\ Main!Applies(TRUE, status, k))
    <3>1. Main!Project(TRUE, status, k) = Main!Unreadable
      BY <2>2 DEF Main!Project
    <3> QED BY <3>1 DEF Projected
  <2> QED BY <2>1, <2>2
<1> QED BY <1>1, <1>2, TargetStays, QueuedIsServed

LEMMA StreamsGrow ==
  ASSUME MainIInv, NEW seen, NEW kind \in MainKinds
  PROVE  /\ Main!StreamWith(seen, kind) \in Seq(MainKinds)
         /\ Main!Status(Main!StreamWith(seen, kind)) \in Main!Statuses \cup {Main!Unreadable}
         /\ Served(Main!Status(stream)) => Served(Main!Status(Main!StreamWith(seen, kind)))
         /\ Main!Accepts(seen, "TaskQueued") =>
              Served(Main!Status(Main!StreamWith(seen, "TaskQueued")))
<1>1. stream \in Seq(MainKinds) /\ Main!Status(stream) \in Main!Statuses \cup {Main!Unreadable}
  BY DEF MainIInv
<1>2. \A k \in MainKinds : /\ Append(stream, k) \in Seq(MainKinds)
                           /\ Main!Status(Append(stream, k)) = Projected(Main!Status(stream), k)
  BY <1>1, OneEventMore, AppendProperties
<1>3. "TaskQueued" \in MainKinds
  BY DEF MainKinds
<1> QED BY <1>1, <1>2, <1>3, ProjectedStays DEF Main!StreamWith

-----------------------------------------------------------------------------
(* The steps. *)
LEMMA SameStreamKeeps ==
  ASSUME MainIInv, stream' = stream, console'.kind \in MainKinds, outcome' = "ok" => outcome = "ok",
         outcome' = "ok" => console'.phase \notin {"create", "queue", "delete"},
         overlapped' = overlapped,
         console' = console \/ Knows(stream, console', {"record", "queue"}),
         source' = source \/ Knows(stream, source', {"record"}),
         run' = run \/ Knows(stream, run', {"active"})
  PROVE  MainIInv'
<1>1. Main!Status(stream)' = Main!Status(stream)
  BY DEF Main!Status
<1>2. WritersKnow'
  <2> SUFFICES ASSUME ~ overlapped PROVE WritersKnow'
    BY DEF WritersKnow
  <2>1. /\ Main!Status(stream) # Main!Unreadable
        /\ Knows(stream, console', {"record", "queue"}) /\ Knows(stream, source', {"record"})
        /\ Knows(stream, run', {"active"})
    BY DEF MainIInv, WritersKnow
  <2> QED BY <1>1, <2>1 DEF WritersKnow, Knows, ReadFrom
<1> QED BY <1>1, <1>2 DEF MainIInv, Served

(* What a cache read from the stream accepts, or the stream itself after a *)
(* conflict, leaves the stream readable and the caches read from it.       *)
LEMMA KnownStreamsGrow ==
  ASSUME MainIInv, NEW seen, NEW kind \in MainKinds, ~ overlapped, ReadFrom(stream, seen)
  PROVE  /\ Main!Status(Main!StreamWith(seen, kind)) # Main!Unreadable
         /\ ReadFrom(Main!StreamWith(seen, kind), Main!CacheWith(seen, kind))
         /\ \A other : ReadFrom(stream, other) => ReadFrom(Main!StreamWith(seen, kind), other)
<1>1. stream \in Seq(MainKinds) /\ Main!Status(stream) # Main!Unreadable
  BY DEF MainIInv, WritersKnow
<1>2. CASE ~ Main!Accepts(seen, kind)
  <2>1. Main!StreamWith(seen, kind) = stream /\ Main!CacheWith(seen, kind) = seen
    BY <1>2 DEF Main!StreamWith, Main!CacheWith
  <2> QED BY <1>1, <2>1
<1>3. CASE Main!Accepts(seen, kind)
  <2>1. PICK more : more = Append(stream, kind)
    OBVIOUS
  <2>2. Len(more) = Len(stream) + 1 /\ Len(stream) \in Nat
    BY <1>1, <2>1, AppendProperties, LenProperties
  <2>3. Main!Status(more) = Projected(Main!Status(stream), kind)
    BY <1>1, <2>1, OneEventMore
  <2>4. Main!Status(more) = Main!Target(Main!Status(stream), kind)
        /\ Main!Status(more) # Main!Unreadable
    <3>1. CASE seen.seq = Len(stream)
      <4>1. Main!Applies(TRUE, Main!Status(stream), kind)
        BY <1>3, <3>1 DEF ReadFrom, Main!Accepts
      <4>2. Main!Target(Main!Status(stream), kind) \in Main!Statuses
        BY <1>1, TargetStays DEF MainIInv
      <4>3. "Unreadable" \notin Main!Statuses
        BY DEF Main!Statuses, Main!LiveStatuses, Main!TerminalStatuses
      <4> QED BY <1>1, <2>3, <4>1, <4>2, <4>3 DEF Projected, Main!Project, Main!Unreadable
    <3>2. CASE seen.seq # Len(stream)
      <4>1. Projected(Main!Status(stream), kind) # Main!Unreadable
        BY <1>3, <3>2 DEF Main!Accepts, Projected
      <4> QED BY <2>3, <4>1 DEF Projected, Main!Project
    <3> QED BY <3>1, <3>2
  <2>5. Main!StreamWith(seen, kind) = more
    BY <1>3, <2>1 DEF Main!StreamWith
  <2>6. /\ Main!CacheWith(seen, kind).seq = Len(stream) + 1
        /\ Main!CacheWith(seen, kind).status = Main!Target(Main!Status(stream), kind)
    BY <1>3 DEF Main!CacheWith, ReadFrom
  <2> QED BY <2>2, <2>4, <2>5, <2>6 DEF ReadFrom
<1> QED BY <1>2, <1>3

LEMMA GrownStreamIsKnown ==
  ASSUME MainIInv, NEW seen, NEW kind \in MainKinds, stream' = Main!StreamWith(seen, kind),
         overlapped' = overlapped, ~ overlapped => ReadFrom(stream, seen),
         \/ console' = console \/ console'.phase \notin {"record", "queue"}
         \/ console'.cache = Main!CacheWith(seen, kind),
         source' = source \/ source'.phase # "record",
         run' = run \/ run'.phase # "active" \/ run'.cache = Main!CacheWith(seen, kind)
  PROVE  WritersKnow'
<1> SUFFICES ASSUME ~ overlapped PROVE WritersKnow'
  BY DEF WritersKnow
<1>1. PICK more : more = Main!StreamWith(seen, kind)
  OBVIOUS
<1>2. /\ Main!Status(more) # Main!Unreadable
      /\ ReadFrom(more, Main!CacheWith(seen, kind))
      /\ \A other : ReadFrom(stream, other) => ReadFrom(more, other)
  BY <1>1, KnownStreamsGrow
<1>3. /\ Knows(stream, console, {"record", "queue"})
      /\ Knows(stream, source, {"record"}) /\ Knows(stream, run, {"active"})
  BY DEF MainIInv, WritersKnow
<1>4. /\ Knows(more, console', {"record", "queue"})
      /\ Knows(more, source', {"record"}) /\ Knows(more, run', {"active"})
  BY <1>2, <1>3 DEF Knows
<1>5. stream' = more
  BY <1>1
<1>6. Main!Status(stream)' = Main!Status(more)
  BY <1>5 DEF Main!Status
<1> QED BY <1>2, <1>4, <1>5, <1>6 DEF WritersKnow, Knows, ReadFrom

LEMMA GrownStreamKeeps ==
  ASSUME MainIInv, NEW seen, NEW kind \in MainKinds, stream' = Main!StreamWith(seen, kind),
         console'.kind \in MainKinds, outcome' = "ok" => outcome = "ok",
         outcome' = "ok" => console'.phase \notin {"create", "queue", "delete"},
         overlapped' = overlapped, ~ overlapped => ReadFrom(stream, seen),
         \/ console' = console \/ console'.phase \notin {"record", "queue"}
         \/ console'.cache = Main!CacheWith(seen, kind),
         source' = source \/ source'.phase # "record",
         run' = run \/ run'.phase # "active" \/ run'.cache = Main!CacheWith(seen, kind)
  PROVE  MainIInv'
<1>1. PICK more : more = Main!StreamWith(seen, kind)
  OBVIOUS
<1>2. more \in Seq(MainKinds) /\ Main!Status(more) \in Main!Statuses \cup {Main!Unreadable}
      /\ (Served(Main!Status(stream)) => Served(Main!Status(more)))
  BY <1>1, StreamsGrow
<1>3. stream' = more
  BY <1>1
<1>4. Main!Status(stream)' = Main!Status(more)
  BY <1>3 DEF Main!Status
<1>5. WritersKnow'
  BY <1>1, <1>3, <1>4, GrownStreamIsKnown
<1> QED BY <1>2, <1>3, <1>4, <1>5 DEF MainIInv, Served

LEMMA IdleIsTyped == Main!Idle.kind \in MainKinds /\ Main!Idle.phase = "idle"
BY DEF Main!Idle, MainKinds

(* What has just been read, and what nobody has read anything into.        *)
LEMMA LatestIsRead ==
  ASSUME MainIInv
  PROVE  ReadFrom(stream, Main!Latest)
BY LenProperties DEF MainIInv, ReadFrom, Main!Latest

LEMMA FreshIsRead ==
  ASSUME MainIInv
  PROVE  ReadFrom(stream, Main!Fresh)
<1>1. stream \in Seq(MainKinds) /\ Len(stream) \in Nat /\ (Len(stream) = 0 => stream = <<>>)
  BY LenProperties, EmptySeq DEF MainIInv
<1> QED BY <1>1, NothingIsNew DEF ReadFrom, Main!Fresh

LEMMA CreationKeeps ==
  ASSUME MainIInv, Main!Create \/ Main!Queue
  PROVE  MainIInv'
<1>1. {"TaskCreated", "TaskQueued"} \subseteq MainKinds
  BY DEF MainKinds
<1>2. CASE Main!Create
  <2>1. console.phase = "create" /\ stream' = Main!StreamWith(Main!Fresh, "TaskCreated")
        /\ outcome' \in {outcome, "error"}
    BY <1>2 DEF Main!Create
  <2>2. outcome' # "ok"
    BY <2>1 DEF MainIInv
  <2>3. console'.kind \in MainKinds
    BY <1>2, IdleIsTyped DEF Main!Create, Main!Idle
  <2>4. /\ UNCHANGED <<source, run, overlapped>>
        /\ \/ console'.cache = Main!CacheWith(Main!Fresh, "TaskCreated")
           \/ console'.phase = "idle"
    BY <1>2, IdleIsTyped DEF Main!Create, Main!Creation, Main!Idle
  <2>5. ReadFrom(stream, Main!Fresh)
    BY FreshIsRead
  <2> QED BY <1>1, <2>1, <2>2, <2>3, <2>4, <2>5, GrownStreamKeeps
<1>3. CASE Main!Queue
  <2>1. /\ stream' = Main!StreamWith(console.cache, "TaskQueued") /\ console' = Main!Idle
        /\ outcome' = IF Main!Accepts(console.cache, "TaskQueued") THEN "ok" ELSE "error"
    BY <1>3 DEF Main!Queue
  <2>2. PICK more : more = Main!StreamWith(console.cache, "TaskQueued")
    OBVIOUS
  <2>3. /\ more \in Seq(MainKinds) /\ Main!Status(more) \in Main!Statuses \cup {Main!Unreadable}
        /\ Main!Accepts(console.cache, "TaskQueued") => Served(Main!Status(more))
    BY <1>1, <2>2, StreamsGrow
  <2>4. stream' = more
    BY <2>1, <2>2
  <2>5. Main!Status(stream)' = Main!Status(more)
    BY <2>4 DEF Main!Status
  <2>6. UNCHANGED <<source, run, overlapped>> /\ (~ overlapped => ReadFrom(stream, console.cache))
    BY <1>3 DEF Main!Queue, Main!Creation, MainIInv, WritersKnow, Knows
  <2>7. WritersKnow'
    BY <1>1, <2>1, <2>6, GrownStreamIsKnown, IdleIsTyped
  <2> QED BY <2>1, <2>3, <2>4, <2>5, <2>7, IdleIsTyped DEF MainIInv, Served
<1> QED BY <1>2, <1>3

LEMMA BootKeeps ==
  ASSUME MainIInv, Main!Boot
  PROVE  MainIInv'
<1>1. outcome' = outcome /\ console.phase = "idle" /\ "TaskQueued" \in MainKinds
      /\ UNCHANGED <<source, run, overlapped>>
  BY DEF Main!Boot, MainKinds
<1>2. CASE stream = <<>> /\ console' = [Main!Idle EXCEPT !.phase = "create"]
           /\ UNCHANGED <<stream, server>>
  <2>1. outcome # "ok"
    BY <1>2, NothingIsNew DEF MainIInv, Served
  <2>2. console'.kind \in MainKinds /\ console'.phase = "create"
    BY <1>2 DEF Main!Idle, MainKinds
  <2> QED BY <1>1, <1>2, <2>1, <2>2, SameStreamKeeps DEF Knows
<1>3. CASE UNCHANGED <<stream, console>>
  BY <1>1, <1>3, SameStreamKeeps DEF MainIInv
<1>4. CASE UNCHANGED console /\ stream' = Main!StreamWith(Main!Latest, "TaskQueued")
  BY <1>1, <1>4, LatestIsRead, GrownStreamKeeps DEF MainIInv
<1> QED BY <1>2, <1>3, <1>4 DEF Main!Boot

LEMMA ConsoleKeeps ==
  ASSUME MainIInv, Main!ClearAll \/ Main!Delete \/ Main!Command
         \/ \E kind \in Commands : Main!Check(kind)
  PROVE  MainIInv'
<1>1. CASE Main!ClearAll
  <2>1. /\ console'.kind \in MainKinds /\ console'.phase \in {"create", "delete"}
        /\ outcome' = "none" /\ UNCHANGED <<stream, source, run, overlapped>>
    BY <1>1 DEF Main!ClearAll, Main!Others, Main!Idle, MainKinds
  <2> QED BY <2>1, SameStreamKeeps DEF Knows
<1>2. CASE Main!Delete
  <2>1. outcome' # "ok" /\ stream' = <<>> /\ console'.kind \in MainKinds
    BY <1>2, IdleIsTyped DEF Main!Delete, MainIInv, Main!Idle
  <2>2. Main!Status(stream)' = "New"
    BY <2>1, NothingIsNew DEF Main!Status
  <2>3. <<>> \in Seq(MainKinds)
    BY EmptySeq
  <2>4. /\ console'.phase = "create" /\ UNCHANGED <<source, run>>
        /\ ~ overlapped' => source.phase = "idle" /\ run.phase = "idle"
    BY <1>2 DEF Main!Delete, Main!Others, Main!Idle
  <2>5. WritersKnow'
    BY <2>2, <2>4 DEF WritersKnow, Knows, Main!Unreadable
  <2> QED BY <2>1, <2>2, <2>3, <2>5 DEF MainIInv, Main!Statuses, Main!LiveStatuses
<1>3. CASE Main!Command
  <2>1. /\ console.phase = "record" /\ console' = Main!Idle
        /\ stream' = Main!StreamWith(console.cache, console.kind)
        /\ UNCHANGED <<outcome, source, run, overlapped>>
    BY <1>3 DEF Main!Command, Main!Others
  <2>2. ~ overlapped => ReadFrom(stream, console.cache)
    BY <2>1 DEF MainIInv, WritersKnow, Knows
  <2>3. console.kind \in MainKinds
    BY DEF MainIInv
  <2> QED BY <2>1, <2>2, <2>3, GrownStreamKeeps, IdleIsTyped
<1>4. CASE \E kind \in Commands : Main!Check(kind)
  <2>1. /\ console.phase = "idle" /\ console'.kind \in MainKinds
        /\ console'.phase = "record" /\ console'.cache = Main!Latest
        /\ UNCHANGED <<stream, outcome, source, run, overlapped>>
    BY <1>4 DEF Main!Check, Main!Others, MainKinds
  <2> QED BY <2>1, LatestIsRead, SameStreamKeeps DEF Knows
<1> QED BY <1>1, <1>2, <1>3, <1>4

LEMMA WritersKeep ==
  ASSUME MainIInv,
         \/ Main!Ingest \/ Main!Start \/ Main!RunEnds \/ Main!Crash
         \/ \E kind \in {"ModelCallStarted", "RequireApproval", "TaskFailed"}
            : Main!RunRecords(kind)
  PROVE  MainIInv'
<1>1. {"ContextReceived", "ModelCallStarted", "RequireApproval", "TaskFailed"} \subseteq MainKinds
  BY DEF MainKinds
<1>2. CASE Main!Ingest
  <2>1. UNCHANGED <<console, outcome, run, overlapped>>
    BY <1>2 DEF Main!Ingest, Main!Writer
  <2>2. CASE /\ stream' = stream
             /\ source' = [Main!Idle EXCEPT !.phase = "record", !.cache = Main!Latest]
    <3>1. source'.cache = Main!Latest
      BY <2>2 DEF Main!Idle
    <3> QED BY <2>1, <2>2, <3>1, LatestIsRead, SameStreamKeeps DEF MainIInv, Knows
  <2>3. CASE /\ source.phase = "record" /\ source' = Main!Idle
             /\ stream' = Main!StreamWith(source.cache, "ContextReceived")
    <3>1. ~ overlapped => ReadFrom(stream, source.cache)
      BY <2>3 DEF MainIInv, WritersKnow, Knows
    <3> QED BY <1>1, <2>1, <2>3, <3>1, GrownStreamKeeps, IdleIsTyped DEF MainIInv
  <2> QED BY <1>2, <2>2, <2>3 DEF Main!Ingest
<1>3. CASE Main!Start \/ Main!RunEnds
  <2>1. UNCHANGED <<console, outcome, stream, source, overlapped>>
        /\ (run'.phase = "idle" \/ run'.cache = Main!Latest)
    BY <1>3, IdleIsTyped DEF Main!Start, Main!RunEnds, Main!Writer, Main!Idle
  <2> QED BY <2>1, LatestIsRead, SameStreamKeeps DEF MainIInv, Knows
<1>4. CASE Main!Crash
  BY <1>4, SameStreamKeeps, IdleIsTyped DEF Main!Crash, Knows
<1>5. CASE \E kind \in {"ModelCallStarted", "RequireApproval", "TaskFailed"} : Main!RunRecords(kind)
  <2>1. PICK kind \in {"ModelCallStarted", "RequireApproval", "TaskFailed"} : Main!RunRecords(kind)
    BY <1>5
  <2>2. UNCHANGED <<console, outcome, source, overlapped>>
        /\ stream' = Main!StreamWith(run.cache, kind) /\ run.phase = "active"
    BY <2>1 DEF Main!RunRecords, Main!Writer
  <2>3. ~ overlapped => ReadFrom(stream, run.cache)
    BY <2>2 DEF MainIInv, WritersKnow, Knows
  <2>4. run'.phase = "idle" \/ run'.cache = Main!CacheWith(run.cache, kind)
    <3>1. CASE ~ Main!Accepts(run.cache, kind)
      BY <2>1, <3>1, IdleIsTyped DEF Main!RunRecords
    <3>2. CASE Main!Accepts(run.cache, kind)
      <4>1. run' = [run EXCEPT !.cache = Main!CacheWith(run.cache, kind)]
        BY <2>1, <3>2 DEF Main!RunRecords
      <4> QED BY <4>1
    <3> QED BY <3>1, <3>2
  <2> QED BY <1>1, <2>2, <2>3, <2>4, GrownStreamKeeps DEF MainIInv
<1> QED BY <1>2, <1>3, <1>4, <1>5

(* The main conversation's stream shows a status; it has been queued while *)
(* the last creation is said to have succeeded; and what the writers know  *)
(* of it was read from it, unless they were at work when it was deleted.   *)
THEOREM MainInductiveInvariant == Main!Spec => []MainIInv
<1>1. Main!Init => MainIInv
  <2> SUFFICES ASSUME Main!Init PROVE MainIInv
    OBVIOUS
  <2>1. /\ stream = <<>> /\ outcome = "none" /\ console = Main!Idle
        /\ source = Main!Idle /\ run = Main!Idle
    BY DEF Main!Init
  <2>2. <<>> \in Seq(MainKinds)
    BY EmptySeq
  <2>3. WritersKnow
    BY <2>1, NothingIsNew, IdleIsTyped DEF WritersKnow, Knows, Main!Unreadable
  <2> QED BY <2>1, <2>2, <2>3, NothingIsNew, IdleIsTyped
      DEF MainIInv, Main!Statuses, Main!LiveStatuses
<1>2. MainIInv /\ [Main!Next]_(Main!vars) => MainIInv'
  <2> SUFFICES ASSUME MainIInv, [Main!Next]_(Main!vars) PROVE MainIInv'
    OBVIOUS
  <2>1. CASE Main!Next
    BY <2>1, BootKeeps, CreationKeeps, ConsoleKeeps, WritersKeep DEF Main!Next
  <2>2. CASE UNCHANGED Main!vars
    <3>1. UNCHANGED <<stream, console, outcome, source, run, overlapped>>
      BY <2>2 DEF Main!vars
    <3> QED BY <3>1, SameStreamKeeps DEF MainIInv
  <2> QED BY <2>1, <2>2
<1> QED BY <1>1, <1>2, PTL DEF Main!Spec

(* main.rs and console.rs, initialize_empty_main_session: a conversation   *)
(* the start or the console reports as created has been queued and can be  *)
(* read, whatever sources and runs wrote meanwhile; it is unreadable only  *)
(* if one of them was at work when the stream before it was deleted.       *)
THEOREM CreatedStaysServed == Main!Spec => []Main!CreatedIsServed
<1>1. MainIInv => Main!CreatedIsServed
  BY DEF MainIInv, Main!CreatedIsServed, Served, WritersKnow
<1> QED BY <1>1, MainInductiveInvariant, PTL
=============================================================================
