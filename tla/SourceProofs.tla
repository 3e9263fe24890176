------------------------------ MODULE SourceProofs ------------------------------
(***************************************************************************)
(* What comes from outside and what goes there: the alerts of checks and   *)
(* senders, the messages the bot sends to QQ and those it gets.  Every     *)
(* theorem is about one of the three.                                      *)
(*                                                                         *)
(* Alerts, of any checks and senders, any number of them, failed appends   *)
(* and restarts: each change of state is recorded once, and a request that *)
(* was answered has left its alerts behind.                                *)
(*                                                                         *)
(* The argument: while a request is looked at nobody else writes alerts,   *)
(* so the events it compares with are those of the log, its own included;  *)
(* and what of a posted group is through has its last state in the log.    *)
(***************************************************************************)
EXTENDS Alerts, SequenceTheorems, FiniteSetTheorems, WellFoundedInduction, TLAPS

Recorded == [id : Names \cup {Check}, state : {"firing", "resolved"}]

TypeOK ==
  /\ log \in Seq(Recorded) /\ request \in Seq(Recorded) /\ existing \in Seq(Recorded)
  /\ group \in Seq(Recorded) /\ poster \in {"none", "monitor", "sender"}

(* The write lock: what is compared with is what is recorded. *)
ComparedWithTheLog ==
  /\ poster # "none" => existing = log
  /\ request # <<>> => poster # "none"

(* Of a posted group, what was handled has its last state in the log.      *)
Handled == Len(group) - Len(request)
StatesAreKept(seen, events) ==
  \A name \in Names \cup {Check} :
    Latest(seen, name) # "none" => Latest(events, name) = Latest(seen, name)
HandledIsRecorded ==
  poster = "sender" =>
    /\ group # <<>> /\ Handled \in 0 .. Len(group)
    /\ \A i \in 1 .. Len(request) : request[i] = group[Handled + i]
    /\ StatesAreKept(SubSeq(group, 1, Handled), log)

IInv == TypeOK /\ ComparedWithTheLog /\ HandledIsRecorded /\ EachChangeOnce

-----------------------------------------------------------------------------
(***************************************************************************)
(* The latest state of an identity.                                        *)
(***************************************************************************)
LEMMA FirstExists ==
  ASSUME NEW S, S \subseteq Nat, S # {}
  PROVE  \E x \in S : \A y \in S : x <= y
<1> DEFINE Less == {p \in Nat \X Nat : p[1] < p[2]}
<1>1. Less = OpToRel(<, Nat)
  BY DEF OpToRel
<1>2. IsWellFoundedOn(Less, Nat)
  BY <1>1, NatLessThanWellFounded
<1> HIDE DEF Less
<1>3. PICK x \in S : \A y \in S : ~ (<<y, x>> \in Less)
  BY <1>2, WFMin
<1>4. ASSUME NEW y \in S, ~ (<<y, x>> \in Less) PROVE x <= y
  BY <1>4 DEF Less
<1> QED BY <1>3, <1>4

LEMMA LastExists ==
  ASSUME NEW n \in Nat, NEW S, S \subseteq 1 .. n, S # {}
  PROVE  \E x \in S : \A y \in S : y <= x
<1> DEFINE T == {n - x : x \in S}
<1>1. T \subseteq Nat /\ T # {}
  <2>1. \A x \in S : x \in 1 .. n /\ n - x \in Nat
    OBVIOUS
  <2> QED BY <2>1
<1> HIDE DEF T
<1>2. PICK t \in T : \A u \in T : t <= u
  BY <1>1, FirstExists
<1>3. PICK x \in S : t = n - x
  BY DEF T
<1>4. ASSUME NEW y \in S PROVE y <= x
  <2>1. n - y \in T
    BY DEF T
  <2>2. n - x <= n - y
    BY <1>2, <1>3, <2>1
  <2>3. x \in 1 .. n /\ y \in 1 .. n
    OBVIOUS
  <2> QED BY <2>2, <2>3
<1> QED BY <1>4

LEMMA LatestOfNone ==
  ASSUME NEW id
  PROVE  Latest(<<>>, id) = "none"
BY DEF Latest

Places(events, id) == {i \in 1 .. Len(events) : events[i].id = id}
Last(places) == CHOOSE i \in places : \A j \in places : j <= i

LEMMA LatestIsAtTheLast ==
  ASSUME NEW events, NEW id
  PROVE  Latest(events, id) =
           IF Places(events, id) = {} THEN "none" ELSE events[Last(Places(events, id))].state
BY DEF Latest, Places, Last

(* An event is the latest of its identity and changes no other's. *)
LEMMA LatestOfAppend ==
  ASSUME NEW events \in Seq(Recorded), NEW alert \in Recorded, NEW id
  PROVE  Latest(Append(events, alert), id) =
           IF alert.id = id THEN alert.state ELSE Latest(events, id)
<1> DEFINE n == Len(events)
           longer == Append(events, alert)
           old == Places(events, id)
           new == Places(longer, id)
<1>1. /\ n \in Nat /\ Len(longer) = n + 1 /\ longer[n + 1] = alert
      /\ \A i \in 1 .. n : longer[i] = events[i]
  BY LenProperties, AppendProperties
<1>2. 1 .. (n + 1) = (1 .. n) \cup {n + 1}
  BY <1>1
<1> HIDE DEF n, longer
<1>3. /\ old \subseteq 1 .. n
      /\ new = IF alert.id = id THEN old \cup {n + 1} ELSE old
  BY <1>1, <1>2 DEF Places, n
<1> HIDE DEF old, new
<1>4. CASE alert.id = id
  <2>1. n + 1 \in new /\ \A j \in new : j <= n + 1
    BY <1>1, <1>3, <1>4
  <2>2. new \subseteq Nat
    BY <1>1, <1>3, <1>4
  <2>3. Last(new) \in new /\ \A j \in new : j <= Last(new)
    BY <2>1 DEF Last
  <2>4. Last(new) = n + 1
    <3>1. PICK l : l = Last(new)
      OBVIOUS
    <3>2. l \in Nat /\ l <= n + 1 /\ n + 1 <= l
      BY <2>1, <2>2, <2>3, <3>1
    <3> QED BY <1>1, <3>1, <3>2
  <2>5. Latest(longer, id) = longer[n + 1].state
    BY <2>1, <2>4, LatestIsAtTheLast DEF new
  <2> QED BY <1>1, <1>4, <2>5 DEF longer
<1>5. CASE alert.id # id
  <2>1. new = old
    BY <1>3, <1>5
  <2>2. CASE old = {}
    BY <1>5, <2>1, <2>2, LatestIsAtTheLast DEF old, new, longer
  <2>3. CASE old # {}
    <3>1. \E x \in old : \A y \in old : y <= x
      BY <1>1, <1>3, <2>3, LastExists
    <3>2. Last(old) \in old
      BY <3>1 DEF Last
    <3>3. longer[Last(old)] = events[Last(old)]
      BY <1>1, <1>3, <3>2
    <3> QED BY <1>5, <2>1, <2>3, <3>3, LatestIsAtTheLast DEF old, new, longer
  <2> QED BY <2>2, <2>3
<1> QED BY <1>4, <1>5

LEMMA LongerByOne ==
  ASSUME NEW S, NEW s \in Seq(S), NEW k \in Nat, k < Len(s)
  PROVE  /\ SubSeq(s, 1, k) \in Seq(S) /\ s[k + 1] \in S
         /\ SubSeq(s, 1, k + 1) = Append(SubSeq(s, 1, k), s[k + 1])
<1>1. Len(s) \in Nat /\ 1 \in 1 .. Len(s) /\ k + 1 \in 1 .. Len(s)
  BY LenProperties
<1>2. s[k + 1] \in S /\ \A i \in 1 .. k : s[i] \in S
  BY <1>1, ElementOfSeq
<1>3. SubSeq(s, 1, k) \in Seq(S)
  BY <1>2, SubSeqProperties
<1>4. SubSeq(s, 1, k + 1) = SubSeq(s, 1, (k + 1) - 1) \o <<s[k + 1]>>
  BY <1>1, SubSeqRecursiveSecond
<1>5. (k + 1) - 1 = k
  OBVIOUS
<1>6. SubSeq(s, 1, k) \o <<s[k + 1]>> = Append(SubSeq(s, 1, k), s[k + 1])
  BY <1>2, <1>3, AppendIsConcat
<1> QED BY <1>2, <1>3, <1>4, <1>5, <1>6

(* What was recorded stays, whatever is appended. *)
LEMMA BeginningStays ==
  ASSUME NEW S, NEW s \in Seq(S), NEW x \in S, NEW k \in 0 .. Len(s)
  PROVE  SubSeq(Append(s, x), 1, k) = SubSeq(s, 1, k)
<1> DEFINE t == Append(s, x)
<1>1. /\ t \in Seq(S) /\ Len(s) \in Nat /\ Len(t) = Len(s) + 1
      /\ \A i \in 1 .. Len(s) : t[i] = s[i] /\ s[i] \in S
  BY LenProperties, AppendProperties, ElementOfSeq
<1> HIDE DEF t
<1>2. k \in Int /\ \A i \in 1 .. k : t[i] = s[i] /\ t[i] \in S /\ s[i] \in S
  BY <1>1
<1>3. /\ SubSeq(t, 1, k) \in Seq(S) /\ Len(SubSeq(t, 1, k)) = IF 1 <= k THEN k - 1 + 1 ELSE 0
      /\ \A i \in 1 .. (k - 1 + 1) : SubSeq(t, 1, k)[i] = t[1 + i - 1]
  BY <1>2, SubSeqProperties
<1>4. /\ SubSeq(s, 1, k) \in Seq(S) /\ Len(SubSeq(s, 1, k)) = IF 1 <= k THEN k - 1 + 1 ELSE 0
      /\ \A i \in 1 .. (k - 1 + 1) : SubSeq(s, 1, k)[i] = s[1 + i - 1]
  BY <1>2, SubSeqProperties
<1>5. Len(SubSeq(t, 1, k)) = k /\ Len(SubSeq(s, 1, k)) = k
  BY <1>1, <1>3, <1>4
<1>6. \A i \in 1 .. k : SubSeq(t, 1, k)[i] = SubSeq(s, 1, k)[i]
  BY <1>1, <1>2, <1>3, <1>4
<1> QED BY <1>3, <1>4, <1>5, <1>6, SeqEqual DEF t

-----------------------------------------------------------------------------
(***************************************************************************)
(* The steps.                                                              *)
(***************************************************************************)
(* An alert whose state differs from the last one goes to the log. *)
LEMMA NewsAreAppended ==
  ASSUME log \in Seq(Recorded), EachChangeOnce, NEW alert \in Recorded,
         ~ IsDuplicate(log, alert), log' = Append(log, alert)
  PROVE  log' \in Seq(Recorded) /\ EachChangeOnce'
<1>1. PICK longer : longer = Append(log, alert)
  OBVIOUS
<1>2. /\ longer \in Seq(Recorded) /\ Len(log) \in Nat /\ Len(longer) = Len(log) + 1
      /\ longer[Len(log) + 1] = alert
      /\ \A i \in 1 .. Len(log) : longer[i] = log[i]
  BY <1>1, LenProperties, AppendProperties
<1>3. ASSUME NEW j \in 1 .. Len(longer)
      PROVE  Latest(SubSeq(longer, 1, j - 1), longer[j].id) # longer[j].state
  <2>1. j - 1 \in 0 .. Len(log)
    BY <1>2
  <2>2. SubSeq(longer, 1, j - 1) = SubSeq(log, 1, j - 1)
    BY <1>1, <2>1, BeginningStays
  <2>3. CASE j <= Len(log)
    <3>1. j \in 1 .. Len(log) /\ longer[j] = log[j]
      BY <1>2, <2>3
    <3> QED BY <2>2, <3>1 DEF EachChangeOnce
  <2>4. CASE j = Len(log) + 1
    <3>1. SubSeq(log, 1, j - 1) = log
      BY <1>2, <2>4, SubSeqFull
    <3> QED BY <1>2, <2>2, <2>4, <3>1 DEF IsDuplicate
  <2> QED BY <1>2, <2>3, <2>4
<1> QED BY <1>1, <1>2, <1>3 DEF EachChangeOnce

(* A request comes to the lock: nothing of it is handled. *)
LEMMA TakeStep ==
  ASSUME IInv, NEW who \in {"monitor", "sender"}, NEW alerts \in Seq(Recorded),
         Take(who, alerts), who = "sender" => alerts = group /\ group # <<>>,
         UNCHANGED <<log, group>>
  PROVE  IInv'
<1>1. poster = "none" /\ poster' = who /\ request' = alerts /\ existing' = log
  BY DEF Take
<1>2. TypeOK' /\ ComparedWithTheLog' /\ EachChangeOnce'
  BY <1>1 DEF IInv, TypeOK, ComparedWithTheLog, EachChangeOnce
<1>3. HandledIsRecorded'
  <2> SUFFICES ASSUME who = "sender"
               PROVE  /\ group # <<>> /\ Handled' \in 0 .. Len(group)
                      /\ \A i \in 1 .. Len(request') : request'[i] = group[Handled' + i]
                      /\ StatesAreKept(SubSeq(group, 1, Handled'), log)
    BY <1>1 DEF HandledIsRecorded, StatesAreKept
  <2>1. Len(group) \in Nat /\ request' = group
    BY <1>1, LenProperties DEF IInv, TypeOK
  <2>2. Handled' = 0
    BY <2>1 DEF Handled
  <2>3. SubSeq(group, 1, 0) = <<>>
    BY SubSeqEmpty
  <2>4. StatesAreKept(SubSeq(group, 1, Handled'), log)
    BY <2>2, <2>3, LatestOfNone DEF StatesAreKept
  <2> QED BY <2>1, <2>2, <2>4
<1> QED BY <1>2, <1>3 DEF IInv

(* The lock is given back, with what is left of a request or without:      *)
(* the log may have got one more alert before.                             *)
LEMMA LockIsFree ==
  ASSUME log' \in Seq(Recorded), group' \in Seq(Recorded), EachChangeOnce',
         poster' = "none", request' = <<>>, existing' = <<>>
  PROVE  IInv'
<1>1. <<>> \in Seq(Recorded)
  OBVIOUS
<1> QED BY <1>1 DEF IInv, TypeOK, ComparedWithTheLog, HandledIsRecorded

(* The alert is handled: it is the latest of its identity in the log, and  *)
(* in what the group is through with.                                      *)
LEMMA HandledGrows ==
  ASSUME IInv, poster = "sender", request # <<>>, request' = Tail(request),
         UNCHANGED <<poster, group>>,
         \A name \in Names \cup {Check} :
           Latest(log', name) = IF Head(request).id = name THEN Head(request).state
                                ELSE Latest(log, name)
  PROVE  HandledIsRecorded'
<1>1. PICK alert : alert = Head(request)
  OBVIOUS
<1>2. PICK k : k = Handled
  OBVIOUS
<1>3. /\ group \in Seq(Recorded) /\ Len(group) \in Nat /\ k \in 0 .. Len(group)
      /\ request \in Seq(Recorded) /\ Len(request) \in Nat /\ Len(request) # 0
      /\ k = Len(group) - Len(request) /\ group # <<>>
      /\ \A i \in 1 .. Len(request) : request[i] = group[k + i]
      /\ StatesAreKept(SubSeq(group, 1, k), log)
  BY <1>2, LenProperties, EmptySeq DEF IInv, TypeOK, HandledIsRecorded, Handled
<1>4. /\ alert = request[1] /\ Len(Tail(request)) = Len(request) - 1
      /\ \A i \in 1 .. Len(Tail(request)) : Tail(request)[i] = request[i + 1]
  BY <1>1, HeadTailProperties DEF IInv, TypeOK
<1>5. Handled' = k + 1 /\ k + 1 \in 0 .. Len(group) /\ k \in Nat /\ k < Len(group)
  BY <1>3, <1>4 DEF Handled
<1>6. \A i \in 1 .. Len(request') : request'[i] = group[(k + 1) + i]
  <2> SUFFICES ASSUME NEW i \in 1 .. Len(Tail(request))
               PROVE  Tail(request)[i] = group[(k + 1) + i]
    OBVIOUS
  <2>1. i + 1 \in 1 .. Len(request) /\ k + (i + 1) = (k + 1) + i
    BY <1>3, <1>4
  <2> QED BY <1>3, <1>4, <2>1
<1>7. alert = group[k + 1] /\ alert \in Recorded
  <2>1. 1 \in 1 .. Len(request)
    BY <1>3
  <2> QED BY <1>3, <1>4, <2>1, ElementOfSeq
<1>8. /\ SubSeq(group, 1, k) \in Seq(Recorded)
      /\ SubSeq(group, 1, k + 1) = Append(SubSeq(group, 1, k), alert)
  BY <1>3, <1>5, <1>7, LongerByOne
<1>9. StatesAreKept(SubSeq(group, 1, k + 1), log')
  <2> SUFFICES ASSUME NEW name \in Names \cup {Check},
                      Latest(SubSeq(group, 1, k + 1), name) # "none"
               PROVE  Latest(log', name) = Latest(SubSeq(group, 1, k + 1), name)
    BY DEF StatesAreKept
  <2>1. Latest(SubSeq(group, 1, k + 1), name) =
          IF alert.id = name THEN alert.state ELSE Latest(SubSeq(group, 1, k), name)
    <3>1. PICK seen : seen = SubSeq(group, 1, k)
      OBVIOUS
    <3>2. Latest(Append(seen, alert), name) =
            IF alert.id = name THEN alert.state ELSE Latest(seen, name)
      BY <1>7, <1>8, <3>1, LatestOfAppend
    <3> QED BY <1>8, <3>1, <3>2
  <2>2. Latest(log', name) = IF alert.id = name THEN alert.state ELSE Latest(log, name)
    BY <1>1
  <2> QED BY <1>3, <2>1, <2>2 DEF StatesAreKept
<1> QED BY <1>3, <1>5, <1>6, <1>9 DEF HandledIsRecorded, StatesAreKept

LEMMA IngestStep ==
  ASSUME IInv, Ingest
  PROVE  IInv'
<1>1. PICK alert : alert = Head(request)
  OBVIOUS
<1>2. /\ request # <<>> /\ request' = Tail(request)
      /\ IF IsDuplicate(existing, alert) THEN UNCHANGED <<log, existing>>
         ELSE log' = Append(log, alert) /\ existing' = Append(existing, alert)
      /\ UNCHANGED <<poster, group>>
  BY <1>1 DEF Ingest, Compared
<1>3. /\ poster # "none" /\ existing = log /\ log \in Seq(Recorded) /\ request \in Seq(Recorded)
      /\ EachChangeOnce
  BY <1>2 DEF IInv, TypeOK, ComparedWithTheLog
<1>4. alert \in Recorded /\ request' \in Seq(Recorded)
  BY <1>1, <1>2, <1>3, HeadTailProperties
<1>5. /\ log' \in Seq(Recorded) /\ existing' = log' /\ EachChangeOnce'
      /\ \A name \in Names \cup {Check} :
           Latest(log', name) = IF alert.id = name THEN alert.state ELSE Latest(log, name)
  <2>1. CASE IsDuplicate(log, alert)
    BY <1>2, <1>3, <2>1 DEF IsDuplicate, EachChangeOnce
  <2>2. CASE ~ IsDuplicate(log, alert)
    <3>1. log' = Append(log, alert) /\ existing' = log'
      BY <1>2, <1>3, <2>2
    <3>2. log' \in Seq(Recorded) /\ EachChangeOnce'
      BY <1>3, <1>4, <2>2, <3>1, NewsAreAppended
    <3> QED BY <1>3, <1>4, <3>1, <3>2, LatestOfAppend
  <2> QED BY <2>1, <2>2
<1>6. TypeOK' /\ ComparedWithTheLog'
  BY <1>2, <1>3, <1>4, <1>5 DEF IInv, TypeOK, ComparedWithTheLog
<1>7. HandledIsRecorded'
  <2>1. CASE poster = "sender"
    BY <1>1, <1>2, <1>5, <2>1, HandledGrows
  <2>2. CASE poster # "sender"
    BY <1>2, <2>2 DEF HandledIsRecorded
  <2> QED BY <2>1, <2>2
<1> QED BY <1>5, <1>6, <1>7 DEF IInv

LEMMA IngestFailsStep ==
  ASSUME IInv, IngestFails
  PROVE  IInv'
<1>1. PICK alert : alert = Head(request)
  OBVIOUS
<1>2. /\ request # <<>> /\ request' = <<>> /\ existing' = <<>> /\ poster' = "none"
      /\ log' = log \/ (log' = Append(log, alert) /\ ~ IsDuplicate(existing, alert))
      /\ UNCHANGED group
  BY <1>1 DEF IngestFails
<1>3. /\ existing = log /\ log \in Seq(Recorded) /\ request \in Seq(Recorded)
      /\ EachChangeOnce /\ group' \in Seq(Recorded)
  BY <1>2 DEF IInv, TypeOK, ComparedWithTheLog
<1>4. alert \in Recorded
  BY <1>1, <1>2, <1>3, HeadTailProperties
<1>5. log' \in Seq(Recorded) /\ EachChangeOnce'
  <2>1. CASE log' = log
    BY <1>3, <2>1 DEF EachChangeOnce
  <2>2. CASE log' = Append(log, alert) /\ ~ IsDuplicate(existing, alert)
    BY <1>3, <1>4, <2>2, NewsAreAppended
  <2> QED BY <1>2, <2>1, <2>2
<1> QED BY <1>2, <1>3, <1>5, LockIsFree

LEMMA DoneStep ==
  ASSUME IInv, Done
  PROVE  IInv'
<1>1. /\ request' = <<>> /\ existing' = <<>> /\ poster' = "none" /\ log' = log
      /\ group' = <<>> \/ group' = group
  BY DEF Done
<1>2. log' \in Seq(Recorded) /\ group' \in Seq(Recorded) /\ EachChangeOnce'
  <2>1. <<>> \in Seq(Recorded)
    OBVIOUS
  <2> QED BY <1>1, <2>1 DEF IInv, TypeOK, EachChangeOnce
<1> QED BY <1>1, <1>2, LockIsFree

LEMMA RestartStep ==
  ASSUME IInv, Restart
  PROVE  IInv'
<1>1. /\ request' = <<>> /\ existing' = <<>> /\ poster' = "none" /\ UNCHANGED <<log, group>>
  BY DEF Restart
<1>2. log' \in Seq(Recorded) /\ group' \in Seq(Recorded) /\ EachChangeOnce'
  BY <1>1 DEF IInv, TypeOK, EachChangeOnce
<1> QED BY <1>1, <1>2, LockIsFree

LEMMA PostStep ==
  ASSUME IInv, Post
  PROVE  IInv'
<1>1. group # <<>> /\ Take("sender", group) /\ UNCHANGED <<log, group>> /\ group \in Seq(Recorded)
  BY DEF Post, IInv, TypeOK
<1> QED BY <1>1, TakeStep

LEMMA NothingHappens ==
  ASSUME IInv, UNCHANGED <<log, request, existing, poster, group>>
  PROVE  IInv'
BY DEF IInv, TypeOK, ComparedWithTheLog, HandledIsRecorded, Handled, EachChangeOnce, StatesAreKept

(* A check whose state changes has one alert. *)
LEMMA CycleStep ==
  ASSUME IInv, Cycle
  PROVE  IInv'
<1>1. PICK alerts : alerts = <<Alert(Check, IF up THEN "resolved" ELSE "firing")>>
  OBVIOUS
<1>2. /\ UNCHANGED <<log, group>>
      /\ UNCHANGED <<request, existing, poster>> \/ Take("monitor", alerts)
  BY <1>1 DEF Cycle
<1>3. alerts \in Seq(Recorded)
  <2>1. Alert(Check, IF up THEN "resolved" ELSE "firing") \in Recorded
    BY DEF Alert, Recorded
  <2> QED BY <1>1, <2>1
<1>4. CASE UNCHANGED <<request, existing, poster>>
  BY <1>2, <1>4, NothingHappens
<1>5. CASE Take("monitor", alerts)
  BY <1>2, <1>3, <1>5, TakeStep
<1> QED BY <1>2, <1>4, <1>5

(* The sender decides on the alerts of its next request, which nobody is   *)
(* looking at.                                                             *)
LEMMA DecideStep ==
  ASSUME IInv, NEW alerts \in Groups, Decide(alerts)
  PROVE  IInv'
<1>1. group = <<>> /\ group' = alerts /\ UNCHANGED <<log, request, existing, poster>>
  BY DEF Decide
<1>2. alerts \in Seq(Recorded)
  <2>1. PICK n \in 1 .. MaxGroup : alerts \in [1 .. n -> Alerts]
    BY DEF Groups
  <2>2. n \in Nat /\ alerts \in [1 .. n -> Recorded]
    BY <2>1 DEF Alerts, Recorded
  <2> QED BY <2>2
<1>3. poster # "sender"
  BY <1>1 DEF IInv, HandledIsRecorded
<1> QED BY <1>1, <1>2, <1>3 DEF IInv, TypeOK, ComparedWithTheLog, HandledIsRecorded, EachChangeOnce

LEMMA InitSetsUp ==
  ASSUME Init
  PROVE  IInv
<1>1. /\ log = <<>> /\ request = <<>> /\ existing = <<>> /\ group = <<>> /\ poster = "none"
  BY DEF Init
<1>2. <<>> \in Seq(Recorded) /\ 1 .. Len(log) = {}
  BY <1>1
<1> QED BY <1>1, <1>2 DEF IInv, TypeOK, ComparedWithTheLog, HandledIsRecorded, EachChangeOnce

LEMMA NextKeeps ==
  ASSUME IInv, [Next]_vars
  PROVE  IInv'
<1>1. CASE Flap \/ UNCHANGED vars
  BY <1>1, NothingHappens DEF Flap, vars
<1>2. CASE Cycle \/ \E alerts \in Groups : Decide(alerts)
  BY <1>2, CycleStep, DecideStep
<1>3. CASE Ingest \/ Done \/ IngestFails \/ Post \/ Restart
  BY <1>3, IngestStep, DoneStep, IngestFailsStep, PostStep, RestartStep
<1> QED BY <1>1, <1>2, <1>3 DEF Next

-----------------------------------------------------------------------------
(***************************************************************************)
(* The theorems.                                                           *)
(***************************************************************************)
(* The alerts that are looked at, those they are compared with and those   *)
(* recorded fit together.                                                  *)
THEOREM InductiveInvariant == Spec => []IInv
<1>1. Init => IInv
  BY InitSetsUp
<1>2. IInv /\ [Next]_vars => IInv'
  BY NextKeeps
<1> QED BY <1>1, <1>2, PTL DEF Spec

(* web_source.rs, ingest_alerts: no alert is recorded whose state is the   *)
(* last one recorded of its identity, however requests repeat it.          *)
THEOREM ChangesAreRecordedOnce == Spec => []EachChangeOnce
<1>1. IInv => EachChangeOnce
  BY DEF IInv
<1> QED BY <1>1, InductiveInvariant, PTL

(* An answer says that the last state of every alert of the request is     *)
(* the last one recorded, although others write and appends fail.          *)
THEOREM AnswersMeanRecorded == Spec => AnsweredIsRecorded
<1> DEFINE Answered ==
      poster = "sender" /\ poster' = "none" /\ group' = <<>> =>
        \A name \in Names :
          Latest(group, name) # "none" => Latest(log, name) = Latest(group, name)
<1>1. ASSUME IInv, [Next]_vars PROVE Answered
  <2> SUFFICES ASSUME poster = "sender", poster' = "none", group' = <<>>, NEW name \in Names,
                      Latest(group, name) # "none"
               PROVE  Latest(log, name) = Latest(group, name)
    OBVIOUS
  <2>1. group # <<>>
    BY <1>1 DEF IInv, HandledIsRecorded
  <2>2. Done
    BY <1>1, <2>1 DEF Next, vars, Flap, Decide, Ingest, IngestFails, Post, Take, Cycle, Restart
  <2>3. request = <<>>
    BY <2>2 DEF Done
  <2>4. Len(group) \in Nat /\ Handled = Len(group) /\ group \in Seq(Recorded)
    BY <1>1, <2>3, LenProperties DEF IInv, TypeOK, Handled
  <2>5. SubSeq(group, 1, Handled) = group
    BY <2>4, SubSeqFull
  <2>6. StatesAreKept(group, log)
    BY <1>1, <2>5 DEF IInv, HandledIsRecorded
  <2> QED BY <2>6 DEF StatesAreKept
<1>2. [Next]_vars /\ IInv => [Answered]_vars
  BY <1>1
<1> HIDE DEF Answered
<1>3. Spec => [][Answered]_vars
  BY <1>2, InductiveInvariant, PTL DEF Spec
<1> QED BY <1>3 DEF Answered, AnsweredIsRecorded

-----------------------------------------------------------------------------
(***************************************************************************)
(* What is sent to QQ, of any deliveries, texts of any length, any number  *)
(* of retries, lost requests and crashes: a text reads well, what the      *)
(* platform refuses it has shown, and a good token is not thrown away.     *)
(*                                                                         *)
(* The argument: the deliveries that are on their way have different       *)
(* numbers in reply to one message, and what the platform has seen of the  *)
(* number of a delivery is its own chunk, or is of a former life.  So a    *)
(* chunk with a number is shown when its number is seen, and it is shown   *)
(* once; one without a number is shown at most once for each attempt, for  *)
(* its next chunk is asked for only when the platform said it took it.     *)
(***************************************************************************)
CONSTANTS Deliveries, ReplyTo, Numbered, Chunks, Tools, MaxRetries, MaxLost, MaxCrashes
VARIABLES work, cache, numbers, good, used, shown, lost, life
Delivery == INSTANCE QqDelivery WITH
  faults <- lost, MaxFaults <- MaxLost, MaxRestarts <- MaxCrashes

Active == {"token", "send", "sent"}
WorkTypes ==
  [at : Active \cup Delivery!Ended \cup {"idle", "next"}, chunk : Nat, attempt : Nat,
   number : Nat, token : Nat,
   answer : {"none", "ok", "unauthorized", "refused", "lost", "busy", "unreadable"}]
Types ==
  /\ work \in [Deliveries -> WorkTypes] /\ cache \in Nat /\ good \in Nat /\ life \in Nat
  /\ numbers \in [Delivery!Keys -> Nat] /\ shown \in Seq([delivery : Deliveries, chunk : Nat])
  /\ used \subseteq [msg : Delivery!Keys, number : Nat, what : Deliveries \X Nat, life : Nat]

Bounds(d) ==
  /\ work[d].chunk \in 1 .. (Chunks[d] + 1)
  /\ work[d].attempt <= MaxRetries + 1
  /\ work[d].at \in Active => work[d].chunk <= Chunks[d] /\ work[d].attempt <= MaxRetries
  /\ work[d].at = "idle" => work[d].chunk = 1
  /\ work[d].at = "delivered" => work[d].chunk = Chunks[d] + 1

(* Only a token older than the good one is refused.                        *)
TokensAreOld ==
  /\ cache <= good
  /\ \A d \in Deliveries :
       /\ work[d].token <= good
       /\ work[d].at = "sent" /\ work[d].answer = "unauthorized" => work[d].token < good

(* No two of the deliveries on their way have the same number, and only    *)
(* the chunk a number was given to was sent under it in this life.         *)
UsedBefore == \A u \in used : u.life <= life /\ (u.life = life => u.number <= numbers[u.msg])
Given(d) == work[d].at \in Active => work[d].number <= numbers[ReplyTo[d]]
Apart(d, e) ==
  d # e /\ work[d].at \in Active /\ work[e].at \in Active /\ ReplyTo[d] = ReplyTo[e] =>
    work[d].number # work[e].number
Uses(d) == {u \in used : u.life = life /\ u.msg = ReplyTo[d] /\ u.number = work[d].number}
Owned(d) == work[d].at \in Active => \A u \in Uses(d) : u.what = <<d, work[d].chunk>>
NumbersAreApart ==
  /\ UsedBefore
  /\ \A d \in Deliveries : Given(d) /\ Owned(d) /\ \A e \in Deliveries : Apart(d, e)

(* What is shown of a delivery: its chunks up to the one on its way; that  *)
(* one as often as it was asked for, or, with a number, once when the      *)
(* platform has seen the number.                                           *)
Arrived(d) == Uses(d) # {}
Times(d, c) == Cardinality(Delivery!Showings(d, c))
Limit(d) == IF d \in Numbered THEN 1 ELSE MaxRetries + 1
Asked(d) == IF work[d].at = "sent" THEN work[d].attempt + 1 ELSE work[d].attempt
MayShow(d) == IF d \in Numbered THEN IF Arrived(d) THEN 1 ELSE 0 ELSE Asked(d)
InOrder(d) ==
  \A i, j \in Delivery!PlacesOf(d) : i < j => shown[i].chunk <= shown[j].chunk
Progress(d) ==
  /\ \A c \in Nat :
       /\ Times(d, c) <= Limit(d)
       /\ c > work[d].chunk => Delivery!Showings(d, c) = {}
       /\ 0 < c /\ c < work[d].chunk => Delivery!Showings(d, c) # {}
  /\ work[d].at \in {"idle", "next"} => Delivery!Showings(d, work[d].chunk) = {}
  /\ work[d].at \in Active => Times(d, work[d].chunk) <= MayShow(d)
  /\ work[d].at = "sent" /\ work[d].answer = "ok" => Delivery!Showings(d, work[d].chunk) # {}
Refusals(d) ==
  work[d].answer = "refused" => work[d].at \in {"sent", "failed", "cancelled"}

RefusedAsShown(d) ==
  work[d].answer = "refused" =>
    \E u \in used : u.msg = ReplyTo[d] /\ u.number = work[d].number
      /\ (u.what = <<d, work[d].chunk>> \/ u.life < life)

DeliveryIInv ==
  /\ Types
  /\ \A d \in Deliveries : Bounds(d) /\ Refusals(d)
  /\ TokensAreOld /\ NumbersAreApart
  /\ \A d \in Deliveries : InOrder(d) /\ Progress(d)
  /\ \A d \in Deliveries : RefusedAsShown(d)

-----------------------------------------------------------------------------
LEMMA ShowingsAreFinite ==
  ASSUME Types, NEW d, NEW c
  PROVE  /\ IsFiniteSet(Delivery!Showings(d, c)) /\ Times(d, c) \in Nat
         /\ Times(d, c) = 0 <=> Delivery!Showings(d, c) = {}
<1>1. DOMAIN shown = 1 .. Len(shown) /\ Len(shown) \in Nat
  BY LenProperties DEF Types
<1>2. Delivery!Showings(d, c) \in SUBSET (1 .. Len(shown))
  BY <1>1 DEF Delivery!Showings, Delivery!PlacesOf
<1>3. IsFiniteSet(1 .. Len(shown))
  BY <1>1, FS_Interval
<1>4. IsFiniteSet(Delivery!Showings(d, c))
  BY <1>2, <1>3, FS_Subset
<1> QED BY <1>4, FS_CardinalityType, FS_EmptySet DEF Times

LEMMA NothingShown ==
  ASSUME NEW d, shown' = shown
  PROVE  /\ \A c : Delivery!Showings(d, c)' = Delivery!Showings(d, c) /\ Times(d, c)' = Times(d, c)
         /\ (InOrder(d) <=> InOrder(d)')
<1>1. Delivery!PlacesOf(d)' = Delivery!PlacesOf(d)
  BY DEF Delivery!PlacesOf
<1>2. \A c : Delivery!Showings(d, c)' = Delivery!Showings(d, c)
  BY <1>1 DEF Delivery!Showings
<1> QED BY <1>1, <1>2 DEF Times, InOrder

LEMMA OneMoreShown ==
  ASSUME Types, NEW d \in Deliveries, NEW c \in Nat,
         shown' = Append(shown, [delivery |-> d, chunk |-> c])
  PROVE  /\ \A e : e # d /\ InOrder(e) => InOrder(e)'
         /\ \A e, k : e # d \/ k # c =>
              Delivery!Showings(e, k)' = Delivery!Showings(e, k) /\ Times(e, k)' = Times(e, k)
         /\ Delivery!Showings(d, c)' # {} /\ Times(d, c)' = Times(d, c) + 1
         /\ InOrder(d) /\ (\A k \in Nat : k > c => Delivery!Showings(d, k) = {}) => InOrder(d)'
<1> DEFINE next == [delivery |-> d, chunk |-> c]
<1>0. PICK n \in Nat : n = Len(shown)
  BY LenProperties DEF Types
<1>1. /\ DOMAIN shown = 1 .. n /\ DOMAIN shown' = 1 .. (n + 1)
      /\ shown'[n + 1] = next /\ \A i \in 1 .. n : shown'[i] = shown[i] /\ shown[i].chunk \in Nat
  <2>1. shown \in [1 .. n -> [delivery : Deliveries, chunk : Nat]]
    BY <1>0, LenProperties DEF Types
  <2>2. /\ DOMAIN shown' = 1 .. (n + 1) /\ shown'[n + 1] = next
        /\ \A i \in 1 .. n : shown'[i] = shown[i]
    BY <1>0, LenProperties, AppendProperties DEF Types
  <2> QED BY <2>1, <2>2
<1>2. next.delivery = d /\ next.chunk = c
  OBVIOUS
<1> HIDE DEF next
<1>3. /\ \A e : e # d => Delivery!PlacesOf(e)' = Delivery!PlacesOf(e)
      /\ Delivery!PlacesOf(d)' = Delivery!PlacesOf(d) \cup {n + 1}
      /\ \A e : n + 1 \notin Delivery!PlacesOf(e) /\ Delivery!PlacesOf(e) \subseteq 1 .. n
  BY <1>1, <1>2 DEF Delivery!PlacesOf
<1>4. ASSUME NEW e, e # d, InOrder(e) PROVE InOrder(e)'
  BY <1>1, <1>3, <1>4 DEF InOrder
<1>5. ASSUME NEW e, NEW k, e # d \/ k # c
      PROVE  Delivery!Showings(e, k)' = Delivery!Showings(e, k) /\ Times(e, k)' = Times(e, k)
  <2>1. Delivery!Showings(e, k)' = Delivery!Showings(e, k)
    BY <1>1, <1>2, <1>3, <1>5 DEF Delivery!Showings
  <2> QED BY <2>1 DEF Times
<1>6. Delivery!Showings(d, c)' = Delivery!Showings(d, c) \cup {n + 1}
      /\ n + 1 \notin Delivery!Showings(d, c)
  BY <1>1, <1>2, <1>3 DEF Delivery!Showings
<1>7. Times(d, c)' = Times(d, c) + 1
  BY <1>6, ShowingsAreFinite, FS_AddElement DEF Times
<1>8. ASSUME InOrder(d), \A k \in Nat : k > c => Delivery!Showings(d, k) = {}
      PROVE  InOrder(d)'
  <2>1. \A i \in Delivery!PlacesOf(d) : shown[i].chunk \in Nat /\ shown[i].chunk <= c
    BY <1>1, <1>3, <1>8 DEF Delivery!Showings
  <2>2. ASSUME NEW i \in Delivery!PlacesOf(d)', NEW j \in Delivery!PlacesOf(d)', i < j
        PROVE  shown'[i].chunk <= shown'[j].chunk
    <3>1. i \in Delivery!PlacesOf(d)
      BY <1>3, <2>2
    <3>2. CASE j = n + 1
      BY <1>1, <1>2, <1>3, <2>1, <3>1, <3>2
    <3>3. CASE j \in Delivery!PlacesOf(d)
      BY <1>1, <1>3, <1>8, <2>2, <3>1, <3>3 DEF InOrder
    <3> QED BY <1>3, <3>2, <3>3
  <2> QED BY <2>2 DEF InOrder
<1> QED BY <1>4, <1>5, <1>6, <1>7, <1>8

(* A delivery of which nothing is shown goes on as it was. *)
LEMMA SameProgress ==
  ASSUME NEW d, Progress(d), shown' = shown,
         work'[d].chunk = work[d].chunk,
         work'[d].at \in {"idle", "next"} => work[d].at \in {"idle", "next"},
         work'[d].at \in Active => work[d].at \in Active /\ MayShow(d)' = MayShow(d),
         work'[d].at = "sent" /\ work'[d].answer = "ok" => work[d].at = "sent" /\ work[d].answer = "ok"
  PROVE  Progress(d)'
<1>1. /\ \A c : Delivery!Showings(d, c)' = Delivery!Showings(d, c) /\ Times(d, c)' = Times(d, c)
      /\ Limit(d)' = Limit(d)
  BY NothingShown DEF Limit
<1> QED BY <1>1 DEF Progress

-----------------------------------------------------------------------------
(* A step of one delivery. *)
OnlyOf(d) ==
  /\ work' \in [Deliveries -> WorkTypes]
  /\ \A e \in Deliveries : e # d => work'[e] = work[e]

LEMMA KeyOf == ASSUME NEW d \in Deliveries PROVE ReplyTo[d] \in Delivery!Keys
BY DEF Delivery!Keys

(* What a step of one leaves to the others when no number is seen or given. *)
LEMMA OthersStay ==
  ASSUME DeliveryIInv, NEW d \in Deliveries, OnlyOf(d), UNCHANGED <<numbers, used, shown, life>>,
         cache' <= good', good <= good', good \in Nat, good' \in Nat,
         NEW e \in Deliveries, e # d
  PROVE  /\ Bounds(e)' /\ Refusals(e)' /\ Given(e)' /\ Owned(e)' /\ RefusedAsShown(e)'
         /\ \A f \in Deliveries : f # d => Apart(e, f)'
         /\ work'[e].token <= good'
         /\ work'[e].at = "sent" /\ work'[e].answer = "unauthorized" => work'[e].token < good'
         /\ InOrder(e)' /\ Progress(e)'
<1>1. \A f \in Deliveries : f # d => work'[f] = work[f]
  BY DEF OnlyOf
<1>2. Uses(e)' = Uses(e)
  BY <1>1 DEF Uses
<1>3. Bounds(e)' /\ Refusals(e)' /\ Given(e)' /\ \A f \in Deliveries : f # d => Apart(e, f)'
  BY <1>1 DEF DeliveryIInv, NumbersAreApart, Bounds, Refusals, Given, Apart
<1>4. Owned(e)' /\ RefusedAsShown(e)'
  <2>1. work'[e] = work[e] /\ Owned(e) /\ RefusedAsShown(e)
    BY <1>1 DEF DeliveryIInv, NumbersAreApart
  <2>2. Owned(e)'
    BY <1>2, <2>1 DEF Owned
  <2>3. RefusedAsShown(e)'
    BY <2>1 DEF RefusedAsShown
  <2> QED BY <2>2, <2>3
<1>5. /\ work'[e].token <= good'
      /\ work'[e].at = "sent" /\ work'[e].answer = "unauthorized" => work'[e].token < good'
  <2>1. work[e].token \in Nat
    BY DEF DeliveryIInv, Types, WorkTypes
  <2> QED BY <1>1, <2>1 DEF DeliveryIInv, TokensAreOld
<1>6. InOrder(e)' /\ Progress(e)'
  <2>1. MayShow(e)' = MayShow(e)
    BY <1>1, <1>2 DEF MayShow, Arrived, Asked
  <2>2. work'[e] = work[e] /\ InOrder(e) /\ Progress(e)
    BY <1>1 DEF DeliveryIInv
  <2>3. Progress(e)'
    BY <2>1, <2>2, SameProgress
  <2> QED BY <2>2, <2>3, NothingShown
<1> QED BY <1>3, <1>4, <1>5, <1>6

(* It suffices to look at the delivery that moved. *)
LEMMA OneMoves ==
  ASSUME DeliveryIInv, NEW d \in Deliveries, OnlyOf(d), UNCHANGED <<used, shown, life>>,
         good' = good, cache' \in Nat, cache' <= good, UNCHANGED numbers,
         Bounds(d)', Refusals(d)', Given(d)', Owned(d)', RefusedAsShown(d)',
         \A f \in Deliveries : Apart(d, f)',
         work'[d].token <= good,
         work'[d].at = "sent" /\ work'[d].answer = "unauthorized" => work'[d].token < good,
         Progress(d)'
  PROVE  DeliveryIInv'
<1>1. good \in Nat
  BY DEF DeliveryIInv, Types
<1>2. Types'
  BY DEF DeliveryIInv, Types, OnlyOf
<1>3. \A e \in Deliveries : Bounds(e)' /\ Refusals(e)' /\ RefusedAsShown(e)'
  BY <1>1, OthersStay
<1>4. TokensAreOld'
  BY <1>1, OthersStay DEF TokensAreOld
<1>5. NumbersAreApart'
  <2>1. UsedBefore'
    BY DEF DeliveryIInv, NumbersAreApart, UsedBefore
  <2>2. \A e \in Deliveries : Given(e)' /\ Owned(e)'
    BY <1>1, OthersStay
  <2>3. \A e, f \in Deliveries : Apart(e, f)'
    <3>1. \A e \in Deliveries : Apart(e, d)' <=> Apart(d, e)'
      BY DEF Apart
    <3>2. \A e, f \in Deliveries : e # d /\ f # d => Apart(e, f)'
      BY <1>1, OthersStay
    <3> QED BY <3>1, <3>2
  <2> QED BY <2>1, <2>2, <2>3 DEF NumbersAreApart
<1>6. \A e \in Deliveries : InOrder(e)' /\ Progress(e)'
  <2>1. InOrder(d)'
    BY NothingShown DEF DeliveryIInv
  <2> QED BY <1>1, <2>1, OthersStay
<1> QED BY <1>2, <1>3, <1>4, <1>5, <1>6 DEF DeliveryIInv

-----------------------------------------------------------------------------
LEMMA SameUses ==
  ASSUME NEW d, UNCHANGED <<used, life>>, work'[d].number = work[d].number
  PROVE  Uses(d)' = Uses(d) /\ (Arrived(d)' <=> Arrived(d))
BY DEF Uses, Arrived

LEMMA StartKeeps ==
  ASSUME Delivery!ConstantsFit, DeliveryIInv, NEW d \in Deliveries, Delivery!Start(d)
  PROVE  DeliveryIInv'
<1>1. OnlyOf(d) /\ work'[d] = [work[d] EXCEPT !.at = "next"]
  BY DEF DeliveryIInv, Types, WorkTypes, Delivery!Start, Delivery!Moves, OnlyOf
<1>2. work[d].at = "idle" /\ UNCHANGED <<cache, numbers, good, used, shown, life>>
  BY DEF Delivery!Start
<1>3. /\ work'[d].at = "next" /\ work'[d].chunk = work[d].chunk
      /\ work'[d].attempt = work[d].attempt
      /\ work'[d].number = work[d].number /\ work'[d].token = work[d].token
      /\ work'[d].answer = work[d].answer
  BY <1>1 DEF DeliveryIInv, Types, WorkTypes
<1>4. Bounds(d)' /\ Refusals(d)' /\ Given(d)' /\ Owned(d)' /\ \A f \in Deliveries : Apart(d, f)'
  BY <1>2, <1>3 DEF DeliveryIInv, Bounds, Refusals, Given, Owned, Apart, Active
<1>5. RefusedAsShown(d)'
  BY <1>2, <1>3 DEF DeliveryIInv, Refusals, RefusedAsShown
<1>6. Progress(d)'
  BY <1>2, <1>3, SameProgress DEF DeliveryIInv, Active
<1>7. /\ cache' \in Nat /\ cache' <= good /\ work'[d].token <= good
  BY <1>2, <1>3 DEF DeliveryIInv, Types, TokensAreOld
<1> QED BY <1>1, <1>2, <1>3, <1>4, <1>5, <1>6, <1>7, OneMoves

LEMMA NextChunkKeeps ==
  ASSUME Delivery!ConstantsFit, DeliveryIInv, NEW d \in Deliveries, Delivery!NextChunk(d)
  PROVE  DeliveryIInv'
<1>1. work[d].at = "next" /\ UNCHANGED <<cache, good, used, shown, life>>
  BY DEF Delivery!NextChunk
<1>2. /\ work[d].chunk \in Nat /\ Chunks[d] \in Nat /\ numbers[ReplyTo[d]] \in Nat /\ cache' \in Nat
      /\ cache' <= good /\ work[d].token <= good
  BY <1>1, KeyOf DEF DeliveryIInv, Types, WorkTypes, Delivery!ConstantsFit, TokensAreOld
<1>3. work[d].answer # "refused"
  BY <1>1 DEF DeliveryIInv, Refusals
<1>4. CASE work[d].chunk > Chunks[d]
  <2>0. work' = [work EXCEPT ![d].at = "delivered"] /\ numbers' = numbers
    BY <1>4 DEF Delivery!NextChunk, Delivery!Moves
  <2>1. OnlyOf(d) /\ work'[d] = [work[d] EXCEPT !.at = "delivered"] /\ numbers' = numbers
    BY <2>0 DEF DeliveryIInv, Types, WorkTypes, OnlyOf, Delivery!Ended
  <2>2. /\ work'[d].at = "delivered" /\ work'[d].chunk = work[d].chunk
        /\ work'[d].attempt = work[d].attempt
        /\ work'[d].number = work[d].number /\ work'[d].token = work[d].token
        /\ work'[d].answer = work[d].answer
    BY <2>1 DEF DeliveryIInv, Types, WorkTypes
  <2>3. Bounds(d)' /\ Refusals(d)' /\ Given(d)' /\ Owned(d)' /\ \A f \in Deliveries : Apart(d, f)'
    BY <1>1, <1>2, <1>3, <1>4, <2>2 DEF DeliveryIInv, Bounds, Refusals, Given, Owned, Apart, Active
  <2>4. RefusedAsShown(d)'
    BY <1>3, <2>2 DEF RefusedAsShown
  <2>5. Progress(d)'
    BY <1>1, <2>2, SameProgress DEF DeliveryIInv, Active
  <2> QED BY <1>1, <1>2, <2>1, <2>2, <2>3, <2>4, <2>5, OneMoves
<1>5. CASE ~ (work[d].chunk > Chunks[d])
  <2> DEFINE m == ReplyTo[d]
             k == numbers[ReplyTo[d]] + 1
  <2>0. /\ numbers' = [numbers EXCEPT ![m] = k]
        /\ work' = [work EXCEPT ![d].at = "token", ![d].attempt = 0, ![d].number = k]
    BY <1>5 DEF Delivery!NextChunk, Delivery!NextNumber
  <2>1. /\ OnlyOf(d) /\ numbers' = [numbers EXCEPT ![m] = k]
        /\ work'[d] = [work[d] EXCEPT !.at = "token", !.attempt = 0, !.number = k]
    <3> DEFINE w == [work[d] EXCEPT !.at = "token", !.attempt = 0, !.number = k]
    <3>1. work[d] \in WorkTypes /\ k \in Nat
      BY <1>2 DEF DeliveryIInv, Types
    <3>2. w \in WorkTypes
      BY <3>1 DEF WorkTypes, Active
    <3>3. work' = [work EXCEPT ![d] = w]
      BY <2>0
    <3> QED BY <2>0, <3>2, <3>3 DEF DeliveryIInv, Types, OnlyOf
  <2>2. /\ work'[d].at = "token" /\ work'[d].chunk = work[d].chunk
        /\ work'[d].attempt = 0 /\ work'[d].number = k /\ work'[d].token = work[d].token
        /\ work'[d].answer = work[d].answer
    BY <2>1 DEF DeliveryIInv, Types, WorkTypes
  <2>3. /\ k \in Nat /\ numbers'[m] = k /\ numbers' \in [Delivery!Keys -> Nat]
        /\ \A key \in Delivery!Keys : numbers[key] \in Nat /\ numbers'[key] >= numbers[key]
    BY <1>2, <2>1, KeyOf DEF DeliveryIInv, Types
  <2>4. \A f \in Deliveries : f # d => work'[f] = work[f]
    BY <2>1 DEF OnlyOf
  <2>5. \A f \in Deliveries : ReplyTo[f] \in Delivery!Keys /\ work[f].number \in Nat
    BY KeyOf DEF DeliveryIInv, Types, WorkTypes
  <2>6. Uses(d)' = {}
    <3>1. \A u \in used : u.life = life /\ u.msg = m => u.number < k /\ u.number \in Nat
      BY <1>2 DEF DeliveryIInv, Types, NumbersAreApart, UsedBefore
    <3> QED BY <1>1, <1>2, <2>2, <3>1 DEF Uses
  <2>7. \A f \in Deliveries : f # d => Uses(f)' = Uses(f)
    BY <1>1, <2>4 DEF Uses
  <2> HIDE DEF m, k
  <2>8. Types'
    BY <1>1, <2>1, <2>3 DEF DeliveryIInv, Types, OnlyOf
  <2>9. \A f \in Deliveries : Bounds(f)' /\ Refusals(f)' /\ RefusedAsShown(f)'
    <3>1. Bounds(d)' /\ Refusals(d)' /\ RefusedAsShown(d)'
      BY <1>2, <1>3, <1>5, <2>2 DEF DeliveryIInv, Bounds, Refusals, RefusedAsShown, Active,
         Delivery!ConstantsFit
    <3>2. ASSUME NEW f \in Deliveries, f # d PROVE Bounds(f)' /\ Refusals(f)' /\ RefusedAsShown(f)'
      <4>1. work'[f] = work[f] /\ Bounds(f) /\ Refusals(f) /\ RefusedAsShown(f)
        BY <2>4, <3>2 DEF DeliveryIInv
      <4>2. Bounds(f)' /\ Refusals(f)'
        BY <4>1 DEF Bounds, Refusals
      <4> QED BY <1>1, <4>1, <4>2 DEF RefusedAsShown
    <3> QED BY <3>1, <3>2
  <2>10. TokensAreOld'
    BY <1>1, <2>2, <2>4 DEF DeliveryIInv, TokensAreOld
  <2>11. NumbersAreApart'
    <3>1. UsedBefore'
      <4>1. \A u \in used : u.msg \in Delivery!Keys /\ u.number \in Nat
        BY DEF DeliveryIInv, Types
      <4> QED BY <1>1, <2>3, <4>1 DEF DeliveryIInv, NumbersAreApart, UsedBefore
    <3>2. \A f \in Deliveries : Given(f)'
      BY <2>2, <2>3, <2>4, <2>5 DEF DeliveryIInv, NumbersAreApart, Given, m
    <3>3. \A f \in Deliveries : Owned(f)'
      BY <2>2, <2>4, <2>6, <2>7 DEF DeliveryIInv, NumbersAreApart, Owned
    <3>4. \A f \in Deliveries : f # d => Apart(d, f)' /\ Apart(f, d)'
      <4>1. ASSUME NEW f \in Deliveries, f # d, work[f].at \in Active, ReplyTo[f] = m
            PROVE  work[f].number < k
        BY <1>2, <2>5, <4>1 DEF DeliveryIInv, NumbersAreApart, Given, k, m
      <4> QED BY <2>2, <2>3, <2>4, <2>5, <4>1 DEF Apart, m
    <3>5. \A e, f \in Deliveries : Apart(e, f)'
      BY <2>4, <3>4 DEF DeliveryIInv, NumbersAreApart, Apart
    <3> QED BY <3>1, <3>2, <3>3, <3>5 DEF NumbersAreApart
  <2>12. \A f \in Deliveries : InOrder(f)' /\ Progress(f)'
    <3>1. ~ Arrived(d)' /\ \A f \in Deliveries : f # d => (Arrived(f)' <=> Arrived(f))
      BY <2>6, <2>7 DEF Arrived
    <3>2. \A f \in Deliveries : (InOrder(f) <=> InOrder(f)')
      BY <1>1, NothingShown
    <3>3. Progress(d)'
      <4>1. /\ \A c : Delivery!Showings(d, c)' = Delivery!Showings(d, c)
                     /\ Times(d, c)' = Times(d, c)
            /\ Limit(d)' = Limit(d)
        BY <1>1, NothingShown DEF Limit
      <4>2. Times(d, work[d].chunk) = 0
        BY <1>1, ShowingsAreFinite DEF DeliveryIInv, Progress
      <4>3. MayShow(d)' = 0
        BY <2>2, <3>1 DEF MayShow, Asked
      <4> QED BY <1>1, <2>2, <4>1, <4>2, <4>3 DEF DeliveryIInv, Progress, Active
    <3>4. ASSUME NEW f \in Deliveries, f # d PROVE Progress(f)'
      <4>1. MayShow(f)' = MayShow(f) /\ work'[f] = work[f] /\ Progress(f)
        BY <2>4, <3>1, <3>4 DEF DeliveryIInv, MayShow, Asked
      <4> QED BY <1>1, <4>1, SameProgress
    <3> QED BY <3>2, <3>3, <3>4 DEF DeliveryIInv
  <2> QED BY <2>8, <2>9, <2>10, <2>11, <2>12 DEF DeliveryIInv
<1> QED BY <1>4, <1>5

LEMMA GetTokenKeeps ==
  ASSUME Delivery!ConstantsFit, DeliveryIInv, NEW d \in Deliveries, Delivery!GetToken(d)
  PROVE  DeliveryIInv'
<1>1. /\ work[d].at = "token" /\ UNCHANGED <<numbers, good, used, shown, life>>
      /\ cache' = IF cache = 0 THEN good ELSE cache
      /\ work' = [work EXCEPT ![d].at = "send", ![d].token = cache']
  BY DEF Delivery!GetToken
<1>2. cache' \in Nat /\ cache' <= good
  BY <1>1 DEF DeliveryIInv, Types, TokensAreOld
<1>3. OnlyOf(d) /\ work'[d] = [work[d] EXCEPT !.at = "send", !.token = cache']
  <2> DEFINE w == [work[d] EXCEPT !.at = "send", !.token = cache']
  <2>1. w \in WorkTypes
    BY <1>2 DEF DeliveryIInv, Types, WorkTypes, Active
  <2>2. work' = [work EXCEPT ![d] = w]
    BY <1>1
  <2> QED BY <2>1, <2>2 DEF DeliveryIInv, Types, OnlyOf
<1>4. /\ work'[d].at = "send" /\ work'[d].chunk = work[d].chunk
      /\ work'[d].attempt = work[d].attempt
      /\ work'[d].number = work[d].number /\ work'[d].token = cache'
      /\ work'[d].answer = work[d].answer
  BY <1>3 DEF DeliveryIInv, Types, WorkTypes
<1>5. Uses(d)' = Uses(d) /\ (Arrived(d)' <=> Arrived(d))
  BY <1>1, <1>4, SameUses
<1>6. Bounds(d)' /\ Refusals(d)' /\ RefusedAsShown(d)'
  BY <1>1, <1>4 DEF DeliveryIInv, Bounds, Refusals, RefusedAsShown, Active
<1>7. Given(d)' /\ Owned(d)' /\ \A f \in Deliveries : Apart(d, f)'
  BY <1>1, <1>3, <1>4, <1>5 DEF DeliveryIInv, NumbersAreApart, Given, Owned, Apart, OnlyOf, Active
<1>8. Progress(d)'
  <2>1. MayShow(d)' = MayShow(d)
    BY <1>1, <1>4, <1>5 DEF MayShow, Asked
  <2> QED BY <1>1, <1>4, <2>1, SameProgress DEF DeliveryIInv, Active
<1> QED BY <1>1, <1>2, <1>3, <1>4, <1>6, <1>7, <1>8, OneMoves

(* A delivery that ends without a success. *)
LEMMA GivingUpKeeps ==
  ASSUME Delivery!ConstantsFit, DeliveryIInv, NEW d \in Deliveries,
         NEW at \in {"failed", "cancelled"},
         work' = [work EXCEPT ![d].at = at], work[d].at \in Active \cup {"next"},
         UNCHANGED <<numbers, good, used, shown, life>>, cache' \in {cache, 0}
  PROVE  DeliveryIInv'
<1>1. OnlyOf(d) /\ work'[d] = [work[d] EXCEPT !.at = at]
  BY DEF DeliveryIInv, Types, WorkTypes, OnlyOf, Delivery!Ended
<1>2. /\ work'[d].at = at /\ work'[d].chunk = work[d].chunk /\ work'[d].attempt = work[d].attempt
      /\ work'[d].number = work[d].number /\ work'[d].token = work[d].token
      /\ work'[d].answer = work[d].answer
  BY <1>1 DEF DeliveryIInv, Types, WorkTypes
<1>3. Bounds(d)' /\ Refusals(d)' /\ RefusedAsShown(d)'
  BY <1>2 DEF DeliveryIInv, Bounds, Refusals, RefusedAsShown, Active
<1>4. Given(d)' /\ Owned(d)' /\ (\A f \in Deliveries : Apart(d, f)') /\ Progress(d)'
  <2>1. Given(d)' /\ Owned(d)' /\ (\A f \in Deliveries : Apart(d, f)')
    BY <1>2 DEF Given, Owned, Apart, Active
  <2>2. Progress(d)'
    BY <1>2, SameProgress DEF DeliveryIInv, Active
  <2> QED BY <2>1, <2>2
<1>5. cache' \in Nat /\ cache' <= good /\ work'[d].token <= good
  BY <1>2 DEF DeliveryIInv, Types, TokensAreOld
<1> QED BY <1>1, <1>2, <1>3, <1>4, <1>5, OneMoves

(* The platform did not show the chunk, or it was shown before. *)
LEMMA QuietAnswerKeeps ==
  ASSUME Delivery!ConstantsFit, DeliveryIInv, NEW d \in Deliveries, work[d].at = "send",
         NEW answer \in {"unauthorized", "refused", "lost", "busy", "unreadable"},
         Delivery!Answered(d, answer),
         answer = "unauthorized" => work[d].token # good,
         answer = "refused" => Delivery!Seen(d),
         UNCHANGED <<cache, numbers, good, used, shown, life>>
  PROVE  DeliveryIInv'
<1>1. OnlyOf(d) /\ work'[d] = [work[d] EXCEPT !.at = "sent", !.answer = answer]
  BY DEF DeliveryIInv, Types, WorkTypes, OnlyOf, Delivery!Answered, Active
<1>2. /\ work'[d].at = "sent" /\ work'[d].chunk = work[d].chunk
      /\ work'[d].attempt = work[d].attempt
      /\ work'[d].number = work[d].number /\ work'[d].token = work[d].token
      /\ work'[d].answer = answer
  BY <1>1 DEF DeliveryIInv, Types, WorkTypes
<1>3. Uses(d)' = Uses(d) /\ (Arrived(d)' <=> Arrived(d))
  BY <1>2, SameUses
<1>4. Bounds(d)' /\ Refusals(d)'
  BY <1>2 DEF DeliveryIInv, Bounds, Refusals, Active
<1>5. RefusedAsShown(d)'
  <2>1. ASSUME answer = "refused"
        PROVE  \E u \in used : u.msg = ReplyTo[d] /\ u.number = work[d].number
                 /\ (u.what = <<d, work[d].chunk>> \/ u.life < life)
    <3>1. PICK u \in used : u.msg = ReplyTo[d] /\ u.number = work[d].number
      BY <2>1 DEF Delivery!Seen
    <3>2. u.life \in Nat /\ life \in Nat /\ u.life <= life
      BY DEF DeliveryIInv, Types, NumbersAreApart, UsedBefore
    <3>3. u.life = life => u.what = <<d, work[d].chunk>>
      BY <3>1 DEF DeliveryIInv, NumbersAreApart, Owned, Uses, Active
    <3> QED BY <3>1, <3>2, <3>3
  <2> QED BY <1>2, <2>1 DEF RefusedAsShown
<1>6. Given(d)' /\ Owned(d)' /\ \A f \in Deliveries : Apart(d, f)'
  BY <1>1, <1>2, <1>3 DEF DeliveryIInv, NumbersAreApart, Given, Owned, Apart, OnlyOf, Active
<1>7. Progress(d)'
  <2>1. /\ \A c : Delivery!Showings(d, c)' = Delivery!Showings(d, c) /\ Times(d, c)' = Times(d, c)
        /\ Limit(d)' = Limit(d)
    BY NothingShown DEF Limit
  <2>2. /\ MayShow(d) \in Nat /\ MayShow(d)' \in Nat /\ MayShow(d) <= MayShow(d)'
        /\ Times(d, work[d].chunk) \in Nat
    <3>1. work[d].attempt \in Nat
      BY DEF DeliveryIInv, Types, WorkTypes
    <3>2. Asked(d) = work[d].attempt /\ Asked(d)' = work[d].attempt + 1
      BY <1>2 DEF Asked
    <3>3. work[d].chunk \in Nat
      BY DEF DeliveryIInv, Types, WorkTypes
    <3> QED BY <1>3, <3>1, <3>2, ShowingsAreFinite DEF DeliveryIInv, MayShow
  <2>3. Progress(d) /\ Times(d, work[d].chunk) <= MayShow(d)'
    BY <2>2 DEF DeliveryIInv, Progress, Active
  <2> QED BY <1>2, <2>1, <2>3 DEF Progress, Active
<1>8. /\ cache' \in Nat /\ cache' <= good /\ work'[d].token <= good
      /\ work'[d].at = "sent" /\ work'[d].answer = "unauthorized" => work'[d].token < good
  <2>1. work[d].token \in Nat /\ good \in Nat
    BY DEF DeliveryIInv, Types, WorkTypes
  <2> QED BY <1>2, <2>1 DEF DeliveryIInv, Types, TokensAreOld
<1> QED BY <1>1, <1>2, <1>4, <1>5, <1>6, <1>7, <1>8, OneMoves

(* The platform shows the chunk. *)
LEMMA ShowingKeeps ==
  ASSUME Delivery!ConstantsFit, DeliveryIInv, NEW d \in Deliveries, work[d].at = "send",
         NEW answer \in {"ok", "lost", "busy", "unreadable"}, Delivery!Answered(d, answer),
         ~ Delivery!Seen(d), Delivery!Shows(d), UNCHANGED <<cache, numbers, good, life>>
  PROVE  DeliveryIInv'
<1> DEFINE u == [msg |-> ReplyTo[d], number |-> work[d].number, what |-> <<d, work[d].chunk>>,
                 life |-> life]
           reply == d \in Numbered
<1>1. OnlyOf(d) /\ work'[d] = [work[d] EXCEPT !.at = "sent", !.answer = answer]
  BY DEF DeliveryIInv, Types, WorkTypes, OnlyOf, Delivery!Answered, Active
<1>2. /\ work'[d].at = "sent" /\ work'[d].chunk = work[d].chunk
      /\ work'[d].attempt = work[d].attempt
      /\ work'[d].number = work[d].number /\ work'[d].token = work[d].token
      /\ work'[d].answer = answer
  BY <1>1 DEF DeliveryIInv, Types, WorkTypes
<1>3. /\ used' = IF reply THEN used \cup {u} ELSE used
      /\ shown' = Append(shown, [delivery |-> d, chunk |-> work[d].chunk])
  BY DEF Delivery!Shows
<1>4. /\ work[d].number \in Nat /\ work[d].chunk \in Nat /\ life \in Nat
      /\ \A f \in Deliveries : ReplyTo[f] \in Delivery!Keys
  BY KeyOf DEF DeliveryIInv, Types, WorkTypes
<1>5. u \in [msg : Delivery!Keys, number : Nat, what : Deliveries \X Nat, life : Nat]
  BY <1>4
<1>6. /\ u.msg = ReplyTo[d] /\ u.number = work[d].number /\ u.what = <<d, work[d].chunk>>
      /\ u.life = life
  OBVIOUS
<1> HIDE DEF u
<1>7. \A f \in Deliveries : f # d => work'[f] = work[f]
  BY <1>1 DEF OnlyOf
<1>8. Types'
  <2>1. used' \subseteq [msg : Delivery!Keys, number : Nat, what : Deliveries \X Nat, life : Nat]
    BY <1>3, <1>5 DEF DeliveryIInv, Types
  <2>2. shown' \in Seq([delivery : Deliveries, chunk : Nat])
    BY <1>3, <1>4, AppendProperties DEF DeliveryIInv, Types
  <2> QED BY <1>1, <2>1, <2>2 DEF DeliveryIInv, Types, OnlyOf
<1>9. \A f \in Deliveries : Bounds(f)' /\ Refusals(f)' /\ RefusedAsShown(f)'
  <2>1. Bounds(d)' /\ Refusals(d)' /\ RefusedAsShown(d)'
    BY <1>2 DEF DeliveryIInv, Bounds, Refusals, RefusedAsShown, Active
  <2>2. used \subseteq used'
    BY <1>3
  <2>3. ASSUME NEW f \in Deliveries, f # d PROVE Bounds(f)' /\ Refusals(f)' /\ RefusedAsShown(f)'
    <3>1. Bounds(f)' /\ Refusals(f)'
      BY <1>7, <2>3 DEF DeliveryIInv, Bounds, Refusals
    <3>2. work'[f] = work[f] /\ RefusedAsShown(f) /\ life' = life
      BY <1>7, <2>3 DEF DeliveryIInv
    <3>3. RefusedAsShown(f)'
      BY <2>2, <3>2 DEF RefusedAsShown
    <3> QED BY <3>1, <3>3
  <2> QED BY <2>1, <2>3
<1>10. TokensAreOld'
  BY <1>2, <1>7 DEF DeliveryIInv, TokensAreOld
<1>11. ASSUME NEW f \in Deliveries, f # d, work[f].at \in Active
       PROVE  Uses(f)' = Uses(f)
  <2>1. reply /\ ReplyTo[f] = ReplyTo[d] => work[f].number # work[d].number
    BY <1>11 DEF DeliveryIInv, NumbersAreApart, Apart, Active
  <2> QED BY <1>3, <1>6, <1>7, <1>11, <2>1 DEF Uses
<1>12. /\ reply => Uses(d) = {}
       /\ Uses(d)' = IF reply THEN {u} ELSE Uses(d)
  <2>1. reply => Uses(d) = {}
    BY DEF Uses, Delivery!Seen
  <2> QED BY <1>2, <1>3, <1>6, <2>1 DEF Uses
<1>13. NumbersAreApart'
  <2>1. UsedBefore'
    BY <1>3, <1>4, <1>6 DEF DeliveryIInv, NumbersAreApart, UsedBefore, Given, Active
  <2>2. \A f \in Deliveries : Given(f)' /\ \A e \in Deliveries : Apart(f, e)'
    BY <1>2, <1>7 DEF DeliveryIInv, NumbersAreApart, Given, Apart, Active
  <2>3. \A f \in Deliveries : Owned(f)'
    <3>1. Owned(d)'
      BY <1>2, <1>6, <1>12 DEF DeliveryIInv, NumbersAreApart, Owned, Active
    <3> QED BY <1>7, <1>11, <3>1 DEF DeliveryIInv, NumbersAreApart, Owned
  <2> QED BY <2>1, <2>2, <2>3 DEF NumbersAreApart
<1>14. \A f \in Deliveries : InOrder(f)' /\ Progress(f)'
  <2>1. ASSUME NEW f \in Deliveries, f # d
        PROVE  InOrder(f)' /\ Progress(f)'
    <3>1. /\ \A c : Delivery!Showings(f, c)' = Delivery!Showings(f, c) /\ Times(f, c)' = Times(f, c)
          /\ Limit(f)' = Limit(f) /\ InOrder(f)'
      BY <1>3, <1>4, <2>1, OneMoreShown DEF DeliveryIInv, Limit
    <3>2. work[f].at \in Active => MayShow(f)' = MayShow(f)
      BY <1>7, <1>11, <2>1 DEF Arrived, Asked, MayShow
    <3>3. Progress(f) /\ work'[f] = work[f]
      BY <1>7, <2>1 DEF DeliveryIInv
    <3> QED BY <3>1, <3>2, <3>3 DEF Progress
  <2>2. InOrder(d)' /\ Progress(d)'
    <3>0. PICK k \in Nat : k = work[d].chunk
      BY <1>4
    <3>1. /\ work[d].attempt \in Nat /\ work[d].attempt <= MaxRetries /\ MaxRetries \in Nat
          /\ Times(d, k) \in Nat
      BY ShowingsAreFinite DEF DeliveryIInv, Types, WorkTypes, Bounds, Active, Delivery!ConstantsFit
    <3>2. Times(d, k) + 1 <= MayShow(d)' /\ Times(d, k) + 1 <= Limit(d)
      <4>1. Times(d, k) <= MayShow(d)
        BY <3>0 DEF DeliveryIInv, Progress, Active
      <4>2. CASE reply
        BY <1>12, <3>1, <4>1, <4>2 DEF MayShow, Limit, Arrived
      <4>3. CASE ~ reply
        <5>1. MayShow(d) = work[d].attempt /\ MayShow(d)' = work[d].attempt + 1
          BY <1>2, <4>3 DEF MayShow, Asked
        <5>2. Limit(d) = MaxRetries + 1
          BY <4>3 DEF Limit
        <5> QED BY <3>1, <4>1, <5>1, <5>2
      <4> QED BY <4>2, <4>3
    <3>3. InOrder(d) /\ \A c \in Nat : c > k => Delivery!Showings(d, c) = {}
      BY <3>0 DEF DeliveryIInv, Progress
    <3>4. /\ InOrder(d)' /\ Delivery!Showings(d, k)' # {} /\ Times(d, k)' = Times(d, k) + 1
          /\ \A c : c # k => /\ Delivery!Showings(d, c)' = Delivery!Showings(d, c)
                             /\ Times(d, c)' = Times(d, c)
          /\ Limit(d)' = Limit(d)
      <4>1. Types /\ shown' = Append(shown, [delivery |-> d, chunk |-> k])
        BY <1>3, <3>0 DEF DeliveryIInv
      <4> QED BY <3>3, <4>1, OneMoreShown DEF Limit
    <3>5. Progress(d) /\ work'[d].chunk = k /\ work'[d].at = "sent"
      BY <1>2, <3>0 DEF DeliveryIInv
    <3>6. ASSUME NEW c \in Nat
          PROVE  /\ Times(d, c)' <= Limit(d)'
                 /\ c > k => Delivery!Showings(d, c)' = {}
                 /\ 0 < c /\ c < k => Delivery!Showings(d, c)' # {}
      <4>1. CASE c = k
        BY <3>1, <3>2, <3>4, <4>1
      <4>2. CASE c # k
        BY <3>0, <3>4, <3>5, <4>2 DEF Progress
      <4> QED BY <4>1, <4>2
    <3> QED BY <3>2, <3>4, <3>5, <3>6 DEF Progress, Active
  <2> QED BY <2>1, <2>2
<1> QED BY <1>8, <1>9, <1>10, <1>13, <1>14 DEF DeliveryIInv

LEMMA SendKeeps ==
  ASSUME Delivery!ConstantsFit, DeliveryIInv, NEW d \in Deliveries,
         Delivery!Send(d) \/ \E a \in {"lost", "busy", "unreadable"} : Delivery!SendFails(d, a)
  PROVE  DeliveryIInv'
<1>1. CASE Delivery!Send(d)
  <2>1. work[d].at = "send" /\ UNCHANGED <<cache, numbers, good, life>>
    BY <1>1 DEF Delivery!Send
  <2>2. \/ work[d].token # good /\ Delivery!Answered(d, "unauthorized") /\ UNCHANGED <<used, shown>>
        \/ Delivery!Seen(d) /\ Delivery!Answered(d, "refused") /\ UNCHANGED <<used, shown>>
        \/ ~ Delivery!Seen(d) /\ Delivery!Answered(d, "ok") /\ Delivery!Shows(d)
    BY <1>1 DEF Delivery!Send
  <2> QED BY <2>1, <2>2, QuietAnswerKeeps, ShowingKeeps
<1>2. ASSUME NEW a \in {"lost", "busy", "unreadable"}, Delivery!SendFails(d, a) PROVE DeliveryIInv'
  <2>1. work[d].at = "send" /\ UNCHANGED <<cache, numbers, good, life>> /\ Delivery!Answered(d, a)
    BY <1>2 DEF Delivery!SendFails
  <2>2. \/ UNCHANGED <<used, shown>>
        \/ ~ Delivery!Seen(d) /\ Delivery!Shows(d)
    BY <1>2 DEF Delivery!SendFails
  <2> QED BY <2>1, <2>2, QuietAnswerKeeps, ShowingKeeps
<1> QED BY <1>1, <1>2

LEMMA RetryKeeps ==
  ASSUME Delivery!ConstantsFit, DeliveryIInv, NEW d \in Deliveries, work[d].at = "sent",
         work[d].answer \notin {"ok", "refused"}, Delivery!Retried(d),
         UNCHANGED <<numbers, good, used, shown, life>>, cache' \in {cache, 0}
  PROVE  DeliveryIInv'
<1> DEFINE at == IF work[d].attempt < MaxRetries THEN "token" ELSE "failed"
           w == [work[d] EXCEPT !.at = at, !.attempt = @ + 1]
<1>1. OnlyOf(d) /\ work'[d] = w
  <2>1. w \in WorkTypes
    <3>1. work[d] \in WorkTypes
      BY DEF DeliveryIInv, Types
    <3>2. at \in Active \cup Delivery!Ended /\ work[d].attempt + 1 \in Nat
      BY <3>1 DEF WorkTypes, Active, Delivery!Ended
    <3> HIDE DEF at
    <3> QED BY <3>1, <3>2 DEF WorkTypes
  <2>2. work' = [work EXCEPT ![d] = w]
    BY DEF Delivery!Retried
  <2> QED BY <2>1, <2>2 DEF DeliveryIInv, Types, OnlyOf
<1>2. /\ work'[d].at = at /\ work'[d].chunk = work[d].chunk
      /\ work'[d].attempt = work[d].attempt + 1
      /\ work'[d].number = work[d].number /\ work'[d].token = work[d].token
      /\ work'[d].answer = work[d].answer
  BY <1>1 DEF DeliveryIInv, Types, WorkTypes
<1>3. /\ at \in {"token", "failed"} /\ (at = "token" => work[d].attempt + 1 <= MaxRetries)
      /\ work[d].attempt <= MaxRetries /\ work[d].attempt \in Nat /\ MaxRetries \in Nat
  BY DEF DeliveryIInv, Types, WorkTypes, Delivery!ConstantsFit, Bounds, Active
<1> HIDE DEF at, w
<1>4. Uses(d)' = Uses(d) /\ (Arrived(d)' <=> Arrived(d))
  BY <1>2, SameUses
<1>5. Bounds(d)' /\ Refusals(d)' /\ RefusedAsShown(d)'
  BY <1>2, <1>3 DEF DeliveryIInv, Bounds, Refusals, RefusedAsShown, Active
<1>6. Given(d)' /\ Owned(d)' /\ \A f \in Deliveries : Apart(d, f)'
  BY <1>1, <1>2, <1>3, <1>4 DEF DeliveryIInv, NumbersAreApart, Given, Owned, Apart, OnlyOf, Active
<1>7. Progress(d)'
  <2>1. at = "token" => MayShow(d)' = MayShow(d)
    BY <1>2, <1>4 DEF MayShow, Asked
  <2> QED BY <1>2, <1>3, <2>1, SameProgress DEF DeliveryIInv, Active
<1>8. cache' \in Nat /\ cache' <= good /\ work'[d].token <= good
  BY <1>2 DEF DeliveryIInv, Types, TokensAreOld
<1> QED BY <1>1, <1>2, <1>3, <1>5, <1>6, <1>7, <1>8, OneMoves

LEMMA ReceiveKeeps ==
  ASSUME Delivery!ConstantsFit, DeliveryIInv, NEW d \in Deliveries, Delivery!Receive(d)
  PROVE  DeliveryIInv'
<1>1. /\ work[d].at = "sent" /\ UNCHANGED <<numbers, good, used, shown, lost, life>>
      /\ cache' = IF work[d].answer = "unauthorized" THEN Delivery!Invalidated(work[d].token)
         ELSE cache
  BY DEF Delivery!Receive
<1>2. cache' \in {cache, 0}
  BY <1>1 DEF Delivery!Invalidated
<1>3. CASE work[d].answer = "ok"
  <2> DEFINE w == [work[d] EXCEPT !.at = "next", !.chunk = @ + 1]
  <2>1. OnlyOf(d) /\ work'[d] = w
    <3>1. w \in WorkTypes
      <4>1. work[d] \in WorkTypes
        BY DEF DeliveryIInv, Types
      <4>2. work[d].chunk + 1 \in Nat
        BY <4>1 DEF WorkTypes
      <4> QED BY <4>1, <4>2 DEF WorkTypes
    <3>2. work' = [work EXCEPT ![d].at = "next", ![d].chunk = @ + 1]
      BY <1>3 DEF Delivery!Receive
    <3>3. work' = [work EXCEPT ![d] = w]
      BY <3>2
    <3> QED BY <3>1, <3>3 DEF DeliveryIInv, Types, OnlyOf
  <2>2. /\ work'[d].at = "next" /\ work'[d].chunk = work[d].chunk + 1
        /\ work'[d].attempt = work[d].attempt /\ work'[d].number = work[d].number
        /\ work'[d].token = work[d].token /\ work'[d].answer = "ok"
    BY <1>3, <2>1 DEF DeliveryIInv, Types, WorkTypes
  <2>3. work[d].chunk \in Nat /\ work[d].attempt \in Nat /\ Chunks[d] \in Nat /\ MaxRetries \in Nat
    BY DEF DeliveryIInv, Types, WorkTypes, Delivery!ConstantsFit
  <2>4. Bounds(d)' /\ Refusals(d)' /\ RefusedAsShown(d)'
    BY <1>1, <2>2, <2>3 DEF DeliveryIInv, Bounds, Refusals, RefusedAsShown, Active
  <2>5. Given(d)' /\ Owned(d)' /\ \A f \in Deliveries : Apart(d, f)'
    BY <2>2 DEF Given, Owned, Apart, Active
  <2>6. Progress(d)'
    <3>1. /\ \A c : Delivery!Showings(d, c)' = Delivery!Showings(d, c) /\ Times(d, c)' = Times(d, c)
          /\ Limit(d)' = Limit(d)
      BY <1>1, NothingShown DEF Limit
    <3>2. Progress(d)
      BY DEF DeliveryIInv
    <3> DEFINE k == work[d].chunk
    <3>3. Delivery!Showings(d, k) # {} /\ Delivery!Showings(d, k + 1) = {}
      BY <1>1, <1>3, <2>3, <3>2 DEF Progress
    <3>4. ASSUME NEW c \in Nat
          PROVE  /\ Times(d, c)' <= Limit(d)'
                 /\ c > k + 1 => Delivery!Showings(d, c)' = {}
                 /\ 0 < c /\ c < k + 1 => Delivery!Showings(d, c)' # {}
      <4>1. c < k + 1 => c < k \/ c = k
        BY <2>3
      <4>2. c > k + 1 => c > k
        BY <2>3
      <4> QED BY <3>1, <3>2, <3>3, <4>1, <4>2 DEF Progress
    <3> QED BY <2>2, <3>1, <3>3, <3>4 DEF Progress, Active
  <2>7. cache' \in Nat /\ cache' <= good /\ work'[d].token <= good
    BY <1>2, <2>2 DEF DeliveryIInv, Types, TokensAreOld
  <2> QED BY <1>1, <2>1, <2>2, <2>4, <2>5, <2>6, <2>7, OneMoves
<1>4. CASE work[d].answer \in {"refused", "unreadable"}
  <2>1. work' = [work EXCEPT ![d].at = "failed"]
    BY <1>4 DEF Delivery!Receive, Delivery!Moves
  <2> QED BY <1>1, <1>2, <2>1, GivingUpKeeps DEF Active
<1>5. CASE work[d].answer \notin {"ok", "refused", "unreadable"}
  <2>1. Delivery!Retried(d)
    BY <1>5 DEF Delivery!Receive
  <2> QED BY <1>1, <1>2, <1>5, <2>1, RetryKeeps
<1> QED BY <1>3, <1>4, <1>5

LEMMA EndKeeps ==
  ASSUME Delivery!ConstantsFit, DeliveryIInv, NEW d \in Deliveries,
         Delivery!GetTokenFails(d) \/ Delivery!Cancel(d)
  PROVE  DeliveryIInv'
<1>1. CASE Delivery!GetTokenFails(d)
  <2>1. work' = [work EXCEPT ![d].at = "failed"] /\ work[d].at = "token"
    BY <1>1 DEF Delivery!GetTokenFails, Delivery!Moves
  <2>2. UNCHANGED <<cache, numbers, good, used, shown, life>>
    BY <1>1 DEF Delivery!GetTokenFails
  <2> QED BY <2>1, <2>2, GivingUpKeeps DEF Active
<1>2. CASE Delivery!Cancel(d)
  <2>1. work' = [work EXCEPT ![d].at = "cancelled"]
        /\ work[d].at \notin Delivery!Ended \cup {"idle"}
    BY <1>2 DEF Delivery!Cancel, Delivery!Moves
  <2>2. work[d].at \in Active \cup {"next"}
    BY <2>1 DEF DeliveryIInv, Types, WorkTypes
  <2>3. UNCHANGED <<cache, numbers, good, used, shown, life>>
    BY <1>2 DEF Delivery!Cancel
  <2> QED BY <2>1, <2>2, <2>3, GivingUpKeeps
<1> QED BY <1>1, <1>2

(* What happens to the token alone. *)
LEMMA TokenStepKeeps ==
  ASSUME DeliveryIInv, Delivery!Revoke \/ Delivery!Expire
  PROVE  DeliveryIInv'
<1>1. /\ UNCHANGED <<work, numbers, used, shown, life>>
      /\ good' \in Nat /\ good <= good' /\ cache' \in Nat /\ cache' <= cache
  BY DEF DeliveryIInv, Types, Delivery!Revoke, Delivery!Expire
<1>2. Types'
  BY <1>1 DEF DeliveryIInv, Types
<1>3. \A d \in Deliveries : Bounds(d)' /\ Refusals(d)' /\ RefusedAsShown(d)'
  BY <1>1 DEF DeliveryIInv, Bounds, Refusals, RefusedAsShown
<1>4. TokensAreOld'
  <2>1. good \in Nat /\ cache \in Nat /\ \A d \in Deliveries : work[d].token \in Nat
    BY DEF DeliveryIInv, Types, WorkTypes
  <2> QED BY <1>1, <2>1 DEF DeliveryIInv, TokensAreOld
<1>5. NumbersAreApart'
  <2>1. \A d : Uses(d)' = Uses(d)
    BY <1>1 DEF Uses
  <2> QED BY <1>1, <2>1 DEF DeliveryIInv, NumbersAreApart, UsedBefore, Given, Owned, Apart
<1>6. \A d \in Deliveries : InOrder(d)' /\ Progress(d)'
  <2>1. \A d : MayShow(d)' = MayShow(d)
    BY <1>1 DEF MayShow, Asked, Arrived, Uses
  <2> QED BY <1>1, <2>1, NothingShown, SameProgress DEF DeliveryIInv
<1> QED BY <1>2, <1>3, <1>4, <1>5, <1>6 DEF DeliveryIInv

LEMMA RestartKeeps ==
  ASSUME Delivery!ConstantsFit, DeliveryIInv, Delivery!Restart
  PROVE  DeliveryIInv'
<1>1. /\ life' = life + 1 /\ cache' = 0 /\ numbers' = [m \in Delivery!Keys |-> 0]
      /\ work' = [d \in Deliveries |-> IF work[d].at \in Delivery!Ended \cup {"idle"} THEN work[d]
                                       ELSE [work[d] EXCEPT !.at = "cancelled"]]
      /\ UNCHANGED <<good, used, shown>>
  BY DEF Delivery!Restart
<1>2. life \in Nat /\ good \in Nat /\ \A u \in used : u.life \in Nat /\ u.life < life'
  BY <1>1 DEF DeliveryIInv, Types, NumbersAreApart, UsedBefore
<1>3. ASSUME NEW d \in Deliveries
      PROVE  /\ work'[d] \in WorkTypes /\ work'[d].at \in {work[d].at, "cancelled"}
             /\ work'[d].at \in Delivery!Ended \cup {"idle"}
             /\ work'[d].chunk = work[d].chunk /\ work'[d].attempt = work[d].attempt
             /\ work'[d].number = work[d].number /\ work'[d].token = work[d].token
             /\ work'[d].answer = work[d].answer
  <2>1. work[d] \in WorkTypes
    BY DEF DeliveryIInv, Types
  <2>2. CASE work[d].at \in Delivery!Ended \cup {"idle"}
    BY <1>1, <2>1, <2>2
  <2>3. CASE ~ (work[d].at \in Delivery!Ended \cup {"idle"})
    <3>1. work'[d] = [work[d] EXCEPT !.at = "cancelled"]
      BY <1>1, <2>3
    <3> QED BY <2>1, <3>1 DEF WorkTypes, Delivery!Ended
  <2> QED BY <2>2, <2>3
<1>4. \A d \in Deliveries : work'[d].at \notin Active /\ work'[d].at # "next"
  BY <1>3 DEF Delivery!Ended, Active
<1>5. Types'
  <2>1. work' \in [Deliveries -> WorkTypes]
    BY <1>1, <1>3
  <2> QED BY <1>1, <1>2, <2>1 DEF DeliveryIInv, Types
<1>6. \A d \in Deliveries : Bounds(d)' /\ Refusals(d)'
  BY <1>3, <1>4 DEF DeliveryIInv, Bounds, Refusals
<1>7. \A d \in Deliveries : RefusedAsShown(d)'
  BY <1>1, <1>2, <1>3 DEF DeliveryIInv, RefusedAsShown
<1>8. TokensAreOld'
  BY <1>1, <1>2, <1>3, <1>4 DEF DeliveryIInv, TokensAreOld, Active
<1>9. NumbersAreApart'
  BY <1>1, <1>2, <1>4 DEF NumbersAreApart, UsedBefore, Given, Owned, Apart
<1>10. \A d \in Deliveries : InOrder(d)' /\ Progress(d)'
  <2>1. ASSUME NEW d \in Deliveries PROVE Progress(d)'
    <3>1. /\ work'[d].chunk = work[d].chunk /\ work'[d].at \notin Active /\ Progress(d)
          /\ work'[d].at # "next" /\ work'[d].at \in {work[d].at, "cancelled"} /\ shown' = shown
      BY <1>1, <1>3, <1>4 DEF DeliveryIInv
    <3> QED BY <3>1, SameProgress DEF Active
  <2> QED BY <1>1, <2>1, NothingShown DEF DeliveryIInv
<1> QED BY <1>5, <1>6, <1>7, <1>8, <1>9, <1>10 DEF DeliveryIInv

LEMMA DeliveryInitSetsUp ==
  ASSUME Delivery!ConstantsFit, Delivery!Init
  PROVE  DeliveryIInv
<1>1. \A d \in Deliveries : /\ work[d].at = "idle" /\ work[d].chunk = 1 /\ work[d].attempt = 0
                            /\ work[d].token = 0 /\ work[d].answer = "none" /\ work[d] \in WorkTypes
  BY DEF Delivery!Init, WorkTypes
<1>2. shown = <<>> /\ used = {} /\ cache = 0 /\ good = 1 /\ life = 1
      /\ work \in [Deliveries -> WorkTypes] /\ numbers \in [Delivery!Keys -> Nat]
  BY <1>1 DEF Delivery!Init
<1>3. Types
  BY <1>2 DEF Types
<1>4. \A d, c : /\ Delivery!PlacesOf(d) = {} /\ Delivery!Showings(d, c) = {}
                /\ Times(d, c) = 0 /\ Limit(d) \in Nat
  <2>1. \A d, c : Delivery!PlacesOf(d) = {} /\ Delivery!Showings(d, c) = {}
    BY <1>2 DEF Delivery!PlacesOf, Delivery!Showings
  <2> QED BY <2>1, FS_EmptySet DEF Times, Limit, Delivery!ConstantsFit
<1>5. \A d \in Deliveries : Bounds(d) /\ Refusals(d) /\ RefusedAsShown(d)
  BY <1>1 DEF Bounds, Refusals, RefusedAsShown, Active, Delivery!ConstantsFit
<1>6. TokensAreOld /\ NumbersAreApart
  BY <1>1, <1>2 DEF TokensAreOld, NumbersAreApart, UsedBefore, Given, Owned, Apart, Active
<1>7. \A d \in Deliveries : InOrder(d) /\ Progress(d)
  BY <1>1, <1>4 DEF InOrder, Progress, Active
<1> QED BY <1>3, <1>5, <1>6, <1>7 DEF DeliveryIInv

(* What is on its way, what the platform has seen and what it has shown    *)
(* fit together, for any deliveries, retries, losses and crashes.          *)
THEOREM DeliveryInductiveInvariant ==
  ASSUME Delivery!ConstantsFit
  PROVE  Delivery!Spec => []DeliveryIInv
<1>1. Delivery!Init => DeliveryIInv
  BY DeliveryInitSetsUp
<1>2. DeliveryIInv /\ [Delivery!Next]_(Delivery!vars) => DeliveryIInv'
  <2> SUFFICES ASSUME DeliveryIInv, [Delivery!Next]_(Delivery!vars) PROVE DeliveryIInv'
    OBVIOUS
  <2>1. CASE \E d \in Deliveries :
               \/ Delivery!Start(d) \/ Delivery!NextChunk(d) \/ Delivery!GetToken(d)
               \/ Delivery!GetTokenFails(d) \/ Delivery!Send(d) \/ Delivery!Receive(d)
               \/ Delivery!Cancel(d)
               \/ \E a \in {"lost", "busy", "unreadable"} : Delivery!SendFails(d, a)
    BY <2>1, StartKeeps, NextChunkKeeps, GetTokenKeeps, SendKeeps, ReceiveKeeps, EndKeeps
  <2>2. CASE Delivery!Revoke \/ Delivery!Expire \/ Delivery!Restart
    BY <2>2, TokenStepKeeps, RestartKeeps
  <2>3. CASE UNCHANGED Delivery!vars
    <3>1. UNCHANGED <<work, cache, numbers, good, used, shown, life>>
      BY <2>3 DEF Delivery!vars
    <3>2. Types' /\ TokensAreOld'
      BY <3>1 DEF DeliveryIInv, Types, TokensAreOld
    <3>3. \A d \in Deliveries : Bounds(d)' /\ Refusals(d)' /\ RefusedAsShown(d)'
      BY <3>1 DEF DeliveryIInv, Bounds, Refusals, RefusedAsShown
    <3>4. \A d : Uses(d)' = Uses(d) /\ (Arrived(d)' <=> Arrived(d))
      BY <3>1 DEF Uses, Arrived
    <3>5. NumbersAreApart'
      BY <3>1, <3>4 DEF DeliveryIInv, NumbersAreApart, UsedBefore, Given, Owned, Apart
    <3>6. \A d \in Deliveries : InOrder(d)' /\ Progress(d)'
      <4>1. \A d \in Deliveries : MayShow(d)' = MayShow(d)
        BY <3>1, <3>4 DEF MayShow, Asked
      <4> QED BY <3>1, <4>1, NothingShown, SameProgress DEF DeliveryIInv
    <3> QED BY <3>2, <3>3, <3>5, <3>6 DEF DeliveryIInv
  <2> QED BY <2>1, <2>2, <2>3 DEF Delivery!Next
<1> QED BY <1>1, <1>2, PTL DEF Delivery!Spec

(* The values keep their types and a request is not retried once too often *)
(* nor a chunk sent that the text does not have.                           *)
THEOREM DeliveriesAreTyped ==
  ASSUME Delivery!ConstantsFit
  PROVE  Delivery!Spec => []Delivery!TypeOK
<1>1. DeliveryIInv => Delivery!TypeOK
  <2> SUFFICES ASSUME DeliveryIInv PROVE Delivery!TypeOK
    OBVIOUS
  <2>1. cache \in 0 .. good
    BY DEF DeliveryIInv, TokensAreOld, Types
  <2>2. ASSUME NEW d \in Deliveries
        PROVE  work[d].chunk \in 1 .. (Chunks[d] + 1) /\ work[d].attempt \in 0 .. (MaxRetries + 1)
    BY DEF DeliveryIInv, Bounds, Types, WorkTypes, Delivery!ConstantsFit
  <2> QED BY <2>1, <2>2 DEF Delivery!TypeOK
<1> QED BY <1>1, DeliveryInductiveInvariant, PTL

(* The chunks of a text are seen in order, none before those that come     *)
(* before it, and all of them when the tool reports success, however often *)
(* a request is repeated.  A chunk with a number is seen at most once, one *)
(* without a number at most once for each time it may be tried.            *)
THEOREM RepliesAreReadWell ==
  ASSUME Delivery!ConstantsFit
  PROVE  Delivery!Spec => []Delivery!RepliesReadWell
<1>1. DeliveryIInv => Delivery!RepliesReadWell
  <2> SUFFICES ASSUME DeliveryIInv, NEW d \in Deliveries
               PROVE  /\ InOrder(d)
                      /\ \A i \in Delivery!PlacesOf(d), c \in 1 .. Chunks[d] :
                           c <= shown[i].chunk => Delivery!Showings(d, c) # {}
                      /\ \A c \in 1 .. Chunks[d] : Times(d, c) <= Limit(d)
                      /\ work[d].at = "delivered" =>
                           \A c \in 1 .. Chunks[d] : Delivery!Showings(d, c) # {}
    <3>1. \A S : Delivery!Cardinality(S) = Cardinality(S)
      BY DEF Delivery!Cardinality, Cardinality
    <3> QED BY <3>1 DEF Delivery!RepliesReadWell, InOrder, Times, Limit
  <2>1. InOrder(d) /\ Progress(d) /\ Bounds(d) /\ Chunks[d] \in Nat /\ work[d].chunk \in Nat
    BY DEF DeliveryIInv, Types, WorkTypes, Delivery!ConstantsFit
  <2>2. ASSUME NEW i \in Delivery!PlacesOf(d), NEW c \in 1 .. Chunks[d], c <= shown[i].chunk
        PROVE  Delivery!Showings(d, c) # {}
    <3>1. i \in Delivery!Showings(d, shown[i].chunk) /\ shown[i].chunk \in Nat
      <4>1. shown \in [1 .. Len(shown) -> [delivery : Deliveries, chunk : Nat]]
        BY LenProperties DEF DeliveryIInv, Types
      <4>2. i \in 1 .. Len(shown)
        BY <4>1 DEF Delivery!PlacesOf
      <4>3. shown[i] \in [delivery : Deliveries, chunk : Nat]
        BY <4>1, <4>2
      <4> QED BY <4>3 DEF Delivery!Showings
    <3>2. shown[i].chunk <= work[d].chunk
      BY <2>1, <3>1 DEF Progress
    <3>3. CASE c = shown[i].chunk
      BY <3>1, <3>3
    <3>4. CASE c < shown[i].chunk
      BY <2>1, <3>1, <3>2, <3>4 DEF Progress
    <3> QED BY <2>2, <3>1, <3>3, <3>4
  <2>3. \A c \in 1 .. Chunks[d] : Times(d, c) <= Limit(d)
    BY <2>1 DEF Progress
  <2>4. work[d].at = "delivered" => \A c \in 1 .. Chunks[d] : Delivery!Showings(d, c) # {}
    BY <2>1 DEF Progress, Bounds
  <2> QED BY <2>1, <2>2, <2>3, <2>4
<1> QED BY <1>1, DeliveryInductiveInvariant, PTL

(* A chunk the platform refuses as repeated is the one it has shown under  *)
(* that number, in the life of one process: the retry may call it sent.    *)
THEOREM RefusalsAreRight ==
  ASSUME Delivery!ConstantsFit
  PROVE  Delivery!Spec => []Delivery!RefusedOnlyIfShown
<1>1. DeliveryIInv => Delivery!RefusedOnlyIfShown
  BY DEF DeliveryIInv, Delivery!RefusedOnlyIfShown, RefusedAsShown
<1> QED BY <1>1, DeliveryInductiveInvariant, PTL

(* An answer that refuses an old token, however late, leaves the new one   *)
(* in the cache.                                                           *)
THEOREM GoodTokensAreKept ==
  ASSUME Delivery!ConstantsFit
  PROVE  Delivery!Spec => [][Delivery!KeepsGoodToken]_(Delivery!vars)
<1>1. DeliveryIInv => Delivery!KeepsGoodToken
  <2> SUFFICES ASSUME DeliveryIInv, NEW d \in Deliveries, Delivery!Receive(d), cache = good
               PROVE  cache' = cache
    BY DEF Delivery!KeepsGoodToken
  <2>1. /\ work[d].at = "sent"
        /\ cache' = IF work[d].answer = "unauthorized" THEN Delivery!Invalidated(work[d].token)
           ELSE cache
    BY DEF Delivery!Receive
  <2>2. work[d].answer = "unauthorized" => work[d].token < good
    BY <2>1 DEF DeliveryIInv, TokensAreOld
  <2>3. work[d].token \in Nat /\ good \in Nat
    BY DEF DeliveryIInv, Types, WorkTypes
  <2> QED BY <2>1, <2>2, <2>3 DEF Delivery!Invalidated
<1> QED BY <1>1, DeliveryInductiveInvariant, PTL

-----------------------------------------------------------------------------
(***************************************************************************)
(* What arrives from QQ, of any messages in any forms, dispatched any      *)
(* number of times, with failures and restarts, and a cache of any size: a *)
(* message is taken once until newer ones have pushed its key out, and a   *)
(* copy is refused only if the message is kept, while no write failed.     *)
(*                                                                         *)
(* The argument: a key is in the cache only if the message is recorded or  *)
(* about to be; and what was recorded, unless as a command in a former     *)
(* life, or is about to be has its key in the cache or among those that    *)
(* were pushed out.  That holds after a restart because the cache is       *)
(* filled with the inputs in their order: each key in it has an occurrence *)
(* before those of all that come after it, so that the one that leaves has *)
(* as many others after it as the cache has room for.                      *)
(***************************************************************************)
CONSTANTS Messages, Forms, Commands, MentionOnly, DedupSize, MaxDispatches, MaxFailures
VARIABLES handlers, known, dedup, stored, left, dispatched, failures
Inbox == INSTANCE QqMessages

FormNames == {"direct", "at", "marked", "plain"}
KeyTypes == ({"message"} \cup FormNames) \X Messages
HandlerTypes ==
  [n : Nat, msg : Messages, form : FormNames, mention : BOOLEAN,
   stage : {"identity", "accept", "write"}]
RecordTypes == [msg : Messages, as : {"command", "input"}, life : Nat]

(* A cache as DedupCache keeps it: no key twice and never too many. *)
NoneTwice(c) == \A i, j \in 1 .. Len(c) : c[i] = c[j] => i = j
Caches == {c \in Seq(KeyTypes) : Len(c) <= DedupSize /\ NoneTwice(c)}
InboxTypes ==
  /\ handlers \subseteq HandlerTypes /\ dedup \in Caches /\ stored \in Seq(RecordTypes)
  /\ failures \in Nat /\ dispatched \in Nat /\ life \in Nat

Writing(m) == {h \in handlers : h.msg = m /\ h.stage = "write"}
Records(m) == {i \in 1 .. Len(stored) : stored[i].msg = m}
(* A key of the cache is that of a message somebody still has. *)
SeenAreKept ==
  failures = 0 => \A key \in Inbox!Seen(dedup) : Records(key[2]) # {} \/ Writing(key[2]) # {}

KeptIInv == InboxTypes /\ SeenAreKept

(* What was written, unless as a command in a former life, and what is to  *)
(* be written is in the cache, or was until newer ones pushed it out.      *)
Past(i) == stored[i].as = "command" /\ stored[i].life < life
WritesAreHeld ==
  \A h \in handlers : h.stage = "write" =>
    \/ Inbox!MessageKey(h.msg) \in left
    \/ /\ Inbox!MessageKey(h.msg) \in Inbox!Seen(dedup) /\ Writing(h.msg) = {h}
       /\ \A i \in Records(h.msg) : Past(i)
RecordsAreHeld ==
  \A i \in 1 .. Len(stored) :
    /\ stored[i].life <= life
    /\ Past(i) \/ Inbox!MessageKey(stored[i].msg) \in Inbox!Seen(dedup) \cup left

(* What does not mention the bot came in a form that says nothing of it. *)
Unaddressed(m, fails) ==
  \/ "direct" \in Forms[m]
  \/ "plain" \in Forms[m] /\ ~MentionOnly /\ fails > 0
Addressed(h, fails) ==
  /\ h.form \in Forms[h.msg]
  /\ h.stage = "identity" => h.mention \/ h.form = "plain"
  /\ h.stage # "identity" => h.mention \/ Unaddressed(h.msg, fails)
HandlersAreAddressed == \A h \in handlers : Addressed(h, failures)
InputsAreUnaddressed ==
  \A i \in 1 .. Len(stored) :
    stored[i].msg \in Commands /\ stored[i].as = "input" =>
      Unaddressed(stored[i].msg, failures)

OnceIInv ==
  /\ KeptIInv /\ WritesAreHeld /\ RecordsAreHeld /\ HandlersAreAddressed
  /\ InputsAreUnaddressed /\ Inbox!StoredOnce

-----------------------------------------------------------------------------
(* The cache. *)
LEMMA SameCardinality == \A S : Inbox!Cardinality(S) = Cardinality(S)
BY DEF Inbox!Cardinality, Cardinality

LEMMA SeenAreElements ==
  ASSUME NEW c \in Seq(KeyTypes)
  PROVE  Inbox!Seen(c) = {c[i] : i \in 1 .. Len(c)}
<1>1. DOMAIN c = 1 .. Len(c)
  BY LenProperties
<1> QED BY <1>1 DEF Inbox!Seen

LEMMA AsManyKeys ==
  ASSUME NEW c \in Caches
  PROVE  IsFiniteSet(Inbox!Seen(c)) /\ Cardinality(Inbox!Seen(c)) = Len(c)
<1>1. c \in Seq(KeyTypes) /\ NoneTwice(c)
  BY DEF Caches
<1>2. PICK n \in Nat : n = Len(c)
  BY <1>1, LenProperties
<1>3. Inbox!Seen(c) = {c[i] : i \in 1 .. n}
  BY <1>1, <1>2, SeenAreElements
<1> DEFINE f == [i \in 1 .. n |-> c[i]]
<1>4. f \in Bijection(1 .. n, Inbox!Seen(c))
  BY <1>1, <1>2, <1>3, Zenon DEF Bijection, Injection, Surjection, IsInjective, NoneTwice
<1>5. ExistsBijection(1 .. n, Inbox!Seen(c))
  BY <1>4 DEF ExistsBijection
<1>6. IsFiniteSet(1 .. n) /\ Cardinality(1 .. n) = n
  BY FS_Interval
<1> QED BY <1>2, <1>5, <1>6, FS_Bijection

(* A new key at the end, and the oldest dropped. *)
LEMMA NewKey ==
  ASSUME NEW c \in Seq(KeyTypes), NoneTwice(c), NEW key \in KeyTypes, key \notin Inbox!Seen(c),
         NEW all, all = Append(c, key)
  PROVE  \A n : n = Len(c) =>
           /\ all \in Seq(KeyTypes) /\ Len(all) = n + 1 /\ NoneTwice(all)
           /\ \A i \in 1 .. (n + 1) : all[i] = IF i = n + 1 THEN key ELSE c[i]
           /\ Inbox!Seen(all) = Inbox!Seen(c) \cup {key}
<1> TAKE n
<1> HAVE n = Len(c)
<1>0. n \in Nat
  BY LenProperties
<1>1. all \in Seq(KeyTypes) /\ Len(all) = n + 1
      /\ \A i \in 1 .. (n + 1) : all[i] = IF i = n + 1 THEN key ELSE c[i]
  BY AppendProperties
<1>2. \A i \in 1 .. n : c[i] # key /\ c[i] \in Inbox!Seen(c)
  BY SeenAreElements
<1>3. NoneTwice(all)
  BY <1>1, <1>2 DEF NoneTwice
<1>4. Inbox!Seen(all) = Inbox!Seen(c) \cup {key}
  <2>1. Inbox!Seen(all) = {all[i] : i \in 1 .. (n + 1)} /\ Inbox!Seen(c) = {c[i] : i \in 1 .. n}
    BY <1>1, SeenAreElements
  <2>2. \A i \in 1 .. n : i \in 1 .. (n + 1) /\ i # n + 1
    OBVIOUS
  <2>3. n + 1 \in 1 .. (n + 1) /\ \A i \in 1 .. (n + 1) : i # n + 1 => i \in 1 .. n
    OBVIOUS
  <2> QED BY <1>1, <2>1, <2>2, <2>3
<1> QED BY <1>1, <1>3, <1>4

LEMMA OldestDropped ==
  ASSUME NEW all \in Seq(KeyTypes), NoneTwice(all), NEW rest, rest = Tail(all)
  PROVE  \A n \in Nat : Len(all) = n + 1 =>
           /\ rest \in Seq(KeyTypes) /\ Len(rest) = n /\ NoneTwice(rest)
           /\ \A i \in 1 .. n : i + 1 \in 1 .. (n + 1) /\ rest[i] = all[i + 1]
           /\ Inbox!Seen(all) = Inbox!Seen(rest) \cup {all[1]}
<1> TAKE n \in Nat
<1> HAVE Len(all) = n + 1
<1>1. /\ rest \in Seq(KeyTypes) /\ Len(rest) = n
      /\ \A i \in 1 .. n : i + 1 \in 1 .. (n + 1) /\ rest[i] = all[i + 1]
  <2>1. all # <<>>
    OBVIOUS
  <2> QED BY <2>1, HeadTailProperties
<1>2. NoneTwice(rest)
  <2> SUFFICES ASSUME NEW i \in 1 .. n, NEW j \in 1 .. n, rest[i] = rest[j] PROVE i = j
    BY <1>1 DEF NoneTwice
  <2>1. all[i + 1] = all[j + 1] /\ i + 1 \in 1 .. (n + 1) /\ j + 1 \in 1 .. (n + 1)
    BY <1>1
  <2>2. i + 1 = j + 1
    BY <2>1 DEF NoneTwice
  <2> QED BY <2>2
<1>3. Inbox!Seen(all) = Inbox!Seen(rest) \cup {all[1]}
  <2>1. Inbox!Seen(all) = {all[i] : i \in 1 .. (n + 1)}
        /\ Inbox!Seen(rest) = {rest[i] : i \in 1 .. n}
    BY <1>1, SeenAreElements
  <2>2. 1 \in 1 .. (n + 1) /\ \A i \in 1 .. (n + 1) : i # 1 => i - 1 \in 1 .. n /\ i = (i - 1) + 1
    OBVIOUS
  <2>3. \A i \in 1 .. (n + 1) : i = 1 \/ \E j \in 1 .. n : all[i] = rest[j]
    BY <1>1, <2>2
  <2>4. \A j \in 1 .. n : \E i \in 1 .. (n + 1) : rest[j] = all[i]
    BY <1>1
  <2> QED BY <2>1, <2>2, <2>3, <2>4
<1> QED BY <1>1, <1>2, <1>3

LEMMA Inserted ==
  ASSUME DedupSize \in Nat, NEW c \in Caches, NEW key \in KeyTypes
  PROVE  /\ Inbox!Insert(c, key) \in Caches
         /\ Inbox!Seen(Inbox!Insert(c, key)) \subseteq Inbox!Seen(c) \cup {key}
<1>1. c \in Seq(KeyTypes) /\ Len(c) <= DedupSize /\ NoneTwice(c)
  BY DEF Caches
<1>2. CASE key \in Inbox!Seen(c)
  BY <1>2 DEF Inbox!Insert
<1>3. CASE key \notin Inbox!Seen(c)
  <2>1. PICK n \in Nat : n = Len(c)
    BY <1>1, LenProperties
  <2>2. PICK all : all = Append(c, key)
    OBVIOUS
  <2>3. /\ all \in Seq(KeyTypes) /\ Len(all) = n + 1 /\ NoneTwice(all)
        /\ Inbox!Seen(all) = Inbox!Seen(c) \cup {key}
    BY <1>1, <1>3, <2>1, <2>2, NewKey
  <2>4. PICK rest : rest = Tail(all)
    OBVIOUS
  <2>5. /\ rest \in Seq(KeyTypes) /\ Len(rest) = n /\ NoneTwice(rest)
        /\ Inbox!Seen(rest) \subseteq Inbox!Seen(all)
    <3>1. rest \in Seq(KeyTypes) /\ Len(rest) = n /\ NoneTwice(rest)
      BY <2>1, <2>3, <2>4, OldestDropped
    <3>2. Inbox!Seen(all) = Inbox!Seen(rest) \cup {all[1]}
      BY <2>1, <2>3, <2>4, OldestDropped
    <3> QED BY <3>1, <3>2
  <2>6. Inbox!Insert(c, key) = IF n + 1 > DedupSize THEN rest ELSE all
    BY <1>3, <2>2, <2>3, <2>4 DEF Inbox!Insert
  <2>7. n <= DedupSize
    BY <1>1, <2>1
  <2>8. CASE n + 1 > DedupSize
    <3>1. rest \in Caches
      BY <2>5, <2>7 DEF Caches
    <3> QED BY <2>3, <2>5, <2>6, <2>8, <3>1
  <2>9. CASE ~ (n + 1 > DedupSize)
    <3>1. all \in Caches
      BY <2>3, <2>9 DEF Caches
    <3> QED BY <2>3, <2>6, <2>9, <3>1
  <2> QED BY <2>8, <2>9
<1> QED BY <1>2, <1>3

-----------------------------------------------------------------------------
(* What the cache is filled with when the process starts again. *)
Filled(c, e) == IF e.as = "input" THEN Inbox!Insert(c, Inbox!MessageKey(e.msg)) ELSE c
IsFilling(events, fill, n) ==
  fill = [k \in 0 .. n |-> IF k = 0 THEN <<>> ELSE Filled(fill[k - 1], events[k])]

LEMMA FillingExists ==
  ASSUME NEW events, NEW n \in Nat
  PROVE  \E fill : IsFilling(events, fill, n)
<1> DEFINE Bad == {k \in Nat : ~ \E fill : IsFilling(events, fill, k)}
<1> SUFFICES ASSUME Bad # {} PROVE FALSE
  OBVIOUS
<1>1. PICK k \in Bad : \A j \in Bad : k <= j
  BY FirstExists
<1>2. CASE k = 0
  <2>1. IsFilling(events, [i \in 0 .. 0 |-> <<>>], 0)
    BY DEF IsFilling
  <2> QED BY <1>1, <1>2, <2>1
<1>3. CASE k # 0
  <2>1. k - 1 \in Nat /\ k - 1 \notin Bad
    BY <1>1, <1>3
  <2>2. PICK shorter : IsFilling(events, shorter, k - 1)
    BY <2>1
  <2> DEFINE longer == [i \in 0 .. k |-> IF i = k THEN Filled(shorter[k - 1], events[k])
                                                  ELSE shorter[i]]
  <2>3. \A i \in 0 .. k :
          longer[i] = IF i = 0 THEN <<>> ELSE Filled(longer[i - 1], events[i])
    <3> SUFFICES ASSUME NEW i \in 0 .. k
                 PROVE  longer[i] = IF i = 0 THEN <<>> ELSE Filled(longer[i - 1], events[i])
      OBVIOUS
    <3>1. CASE i = k
      <4>1. longer[i - 1] = shorter[k - 1]
        BY <1>3, <2>1, <3>1
      <4> QED BY <1>3, <3>1, <4>1
    <3>2. CASE i # k
      <4>1. i \in 0 .. (k - 1) /\ longer[i] = shorter[i]
        BY <2>1, <3>2
      <4>2. shorter[i] = IF i = 0 THEN <<>> ELSE Filled(shorter[i - 1], events[i])
        BY <2>2, <4>1 DEF IsFilling
      <4>3. i # 0 => longer[i - 1] = shorter[i - 1]
        BY <2>1, <3>2
      <4> QED BY <4>1, <4>2, <4>3
    <3> QED BY <3>1, <3>2
  <2>4. IsFilling(events, longer, k)
    <3> DEFINE again == [i \in 0 .. k |-> IF i = 0 THEN <<>>
                                          ELSE Filled(longer[i - 1], events[i])]
    <3>1. DOMAIN longer = 0 .. k /\ DOMAIN again = 0 .. k
      OBVIOUS
    <3>2. \A i \in 0 .. k : again[i] = IF i = 0 THEN <<>> ELSE Filled(longer[i - 1], events[i])
      OBVIOUS
    <3>3. longer = [i \in 0 .. k |-> longer[i]] /\ again = [i \in 0 .. k |-> again[i]]
      OBVIOUS
    <3> HIDE DEF longer, again
    <3>4. longer = again
      BY <2>3, <3>2, <3>3
    <3> QED BY <3>4 DEF IsFilling, again
  <2> QED BY <1>1, <2>4
<1> QED BY <1>2, <1>3

Inputs(n) == {i \in 1 .. n : stored[i].as = "input"}
InputKey(i) == Inbox!MessageKey(stored[i].msg)
(* The other messages that became inputs after it. *)
After(i, n) == {stored[j].msg : j \in {k \in Inputs(n) : k > i}} \ {stored[i].msg}
PushedOut(i, n) ==
  \E k \in Inputs(n) : InputKey(k) = InputKey(i) /\ Cardinality(After(k, n)) >= DedupSize
(* A key has an occurrence before those of all that come after it. *)
Ordered(c, n) ==
  \A p \in 1 .. Len(c) : \E i \in Inputs(n) :
    /\ c[p] = InputKey(i)
    /\ \A q \in 1 .. Len(c) : q > p => \E j \in Inputs(n) : j > i /\ c[q] = InputKey(j)

LEMMA MoreInputs ==
  ASSUME DedupSize \in Nat, InboxTypes, NEW n \in Nat, n + 1 <= Len(stored)
  PROVE  /\ Inputs(n + 1) = Inputs(n) \cup (IF stored[n + 1].as = "input" THEN {n + 1} ELSE {})
         /\ Inputs(n) \subseteq 1 .. n
         /\ \A i : IsFiniteSet(After(i, n + 1)) /\ IsFiniteSet(After(i, n))
                   /\ After(i, n) \subseteq After(i, n + 1)
         /\ \A i : PushedOut(i, n) => PushedOut(i, n + 1)
<1>1. /\ Inputs(n + 1) = Inputs(n) \cup (IF stored[n + 1].as = "input" THEN {n + 1} ELSE {})
      /\ Inputs(n) \subseteq 1 .. n
  BY DEF Inputs
<1>2. ASSUME NEW i, NEW m \in Nat PROVE IsFiniteSet(After(i, m))
  <2> DEFINE S == {k \in Inputs(m) : k > i}
             T == {stored[j].msg : j \in S}
             f == [j \in S |-> stored[j].msg]
  <2>1. IsFiniteSet(S)
    <3>1. S \in SUBSET (1 .. m) /\ IsFiniteSet(1 .. m)
      BY FS_Interval DEF Inputs
    <3> QED BY <3>1, FS_Subset
  <2>2. f \in Surjection(S, T)
    BY DEF Surjection
  <2>3. IsFiniteSet(T)
    BY <2>1, <2>2, FS_Surjection DEF ExistsSurjection
  <2>4. After(i, m) \in SUBSET T
    BY DEF After
  <2> QED BY <2>3, <2>4, FS_Subset
<1>3. \A i : After(i, n) \subseteq After(i, n + 1)
  BY <1>1 DEF After
<1>4. ASSUME NEW i, PushedOut(i, n) PROVE PushedOut(i, n + 1)
  <2>1. PICK k \in Inputs(n) : InputKey(k) = InputKey(i) /\ Cardinality(After(k, n)) >= DedupSize
    BY <1>4 DEF PushedOut
  <2>2. /\ Cardinality(After(k, n)) \in Nat /\ Cardinality(After(k, n + 1)) \in Nat
        /\ Cardinality(After(k, n)) <= Cardinality(After(k, n + 1))
    BY <1>2, <1>3, FS_Subset, FS_CardinalityType
  <2> QED BY <1>1, <2>1, <2>2 DEF PushedOut
<1> QED BY <1>1, <1>2, <1>3, <1>4

LEMMA DroppedIsPushedOut ==
  ASSUME DedupSize \in Nat, InboxTypes, NEW n \in Nat, n + 1 <= Len(stored),
         NEW all \in Seq(KeyTypes), Len(all) = DedupSize + 1, NoneTwice(all),
         Ordered(all, n + 1), NEW i, InputKey(i) = all[1]
  PROVE  PushedOut(i, n + 1)
<1>1. 1 \in 1 .. Len(all) /\ \A p \in 2 .. (DedupSize + 1) : p \in 1 .. Len(all) /\ p > 1 /\ p # 1
  OBVIOUS
<1>2. PICK k \in Inputs(n + 1) :
        /\ all[1] = InputKey(k)
        /\ \A q \in 1 .. Len(all) : q > 1 => \E j \in Inputs(n + 1) : j > k /\ all[q] = InputKey(j)
  BY <1>1 DEF Ordered
<1> DEFINE Others == {all[p][2] : p \in 2 .. (DedupSize + 1)}
           f == [p \in 2 .. (DedupSize + 1) |-> all[p][2]]
<1>3. \A j : InputKey(j) = <<"message", stored[j].msg>> /\ InputKey(j)[2] = stored[j].msg
  BY DEF InputKey, Inbox!MessageKey
<1>4. \A p \in 1 .. Len(all) : all[p] = <<"message", all[p][2]>>
  BY <1>1, <1>3 DEF Ordered
<1>5. Others \subseteq After(k, n + 1)
  <2> SUFFICES ASSUME NEW p \in 2 .. (DedupSize + 1) PROVE all[p][2] \in After(k, n + 1)
    OBVIOUS
  <2>1. PICK j \in Inputs(n + 1) : j > k /\ all[p] = InputKey(j)
    BY <1>1, <1>2
  <2>2. all[p] # all[1]
    <3>1. p \in 1 .. Len(all) /\ p # 1
      BY <1>1
    <3> QED BY <1>1, <3>1 DEF NoneTwice
  <2>3. all[p][2] = stored[j].msg /\ stored[j].msg # stored[k].msg
    BY <1>2, <1>3, <2>1, <2>2
  <2> QED BY <2>1, <2>3 DEF After
<1>6. IsFiniteSet(Others) /\ Cardinality(Others) = DedupSize
  <2>1. ASSUME NEW p \in 2 .. (DedupSize + 1), NEW q \in 2 .. (DedupSize + 1),
               all[p][2] = all[q][2]
        PROVE  p = q
    <3>1. p \in 1 .. Len(all) /\ q \in 1 .. Len(all)
      BY <1>1
    <3>2. all[p] = all[q]
      BY <1>4, <2>1, <3>1
    <3> QED BY <3>1, <3>2 DEF NoneTwice
  <2>2. f \in Bijection(2 .. (DedupSize + 1), Others)
    BY <2>1, Zenon DEF Bijection, Injection, Surjection, IsInjective
  <2>3. IsFiniteSet(2 .. (DedupSize + 1)) /\ Cardinality(2 .. (DedupSize + 1)) = DedupSize
    <3>1. PICK low \in Int, top \in Int : low = 2 /\ top = DedupSize + 1
      OBVIOUS
    <3>2. IsFiniteSet(low .. top)
      BY FS_Interval
    <3>3. Cardinality(low .. top) = IF low > top THEN 0 ELSE top - low + 1
      BY FS_Interval
    <3> QED BY <3>1, <3>2, <3>3
  <2> QED BY <2>2, <2>3, FS_Bijection DEF ExistsBijection
<1> HIDE DEF Others
<1>7. Cardinality(After(k, n + 1)) >= DedupSize
  <2>1. IsFiniteSet(After(k, n + 1))
    BY MoreInputs
  <2> QED BY <1>5, <1>6, <2>1, FS_Subset, FS_CardinalityType
<1> QED BY <1>2, <1>7 DEF PushedOut

(* One more event fills the cache as the ones before it did. *)
LEMMA FilledKeepsOrder ==
  ASSUME DedupSize \in Nat, InboxTypes, NEW n \in Nat, n + 1 <= Len(stored),
         NEW c \in Caches, Ordered(c, n),
         \A i \in Inputs(n) : InputKey(i) \in Inbox!Seen(c) \/ PushedOut(i, n),
         NEW d, d = Filled(c, stored[n + 1])
  PROVE  /\ d \in Caches /\ Ordered(d, n + 1)
         /\ \A i \in Inputs(n + 1) : InputKey(i) \in Inbox!Seen(d) \/ PushedOut(i, n + 1)
<1>1. c \in Seq(KeyTypes) /\ Len(c) <= DedupSize /\ NoneTwice(c)
  BY DEF Caches
<1>2. PICK m \in Nat : m = Len(c)
  BY <1>1, LenProperties
<1>3. /\ Inputs(n + 1) = Inputs(n) \cup (IF stored[n + 1].as = "input" THEN {n + 1} ELSE {})
      /\ \A i \in Inputs(n) : i \in 1 .. n /\ n + 1 > i
      /\ \A i : PushedOut(i, n) => PushedOut(i, n + 1)
  BY MoreInputs
<1>4. Ordered(c, n + 1)
  BY <1>3 DEF Ordered
<1>5. CASE stored[n + 1].as # "input" \/ InputKey(n + 1) \in Inbox!Seen(c)
  <2>1. d = c
    BY <1>5 DEF Filled, Inbox!Insert, InputKey
  <2> QED BY <1>3, <1>4, <1>5, <2>1
<1>6. CASE stored[n + 1].as = "input" /\ InputKey(n + 1) \notin Inbox!Seen(c)
  <2>1. InputKey(n + 1) \in KeyTypes
    <3>1. n + 1 \in 1 .. Len(stored)
      BY LenProperties DEF InboxTypes
    <3>2. stored[n + 1] \in RecordTypes
      BY <3>1, ElementOfSeq DEF InboxTypes
    <3> QED BY <3>2 DEF InputKey, Inbox!MessageKey, KeyTypes, RecordTypes
  <2>2. PICK key, all : key = InputKey(n + 1) /\ all = Append(c, key)
    OBVIOUS
  <2>3. /\ all \in Seq(KeyTypes) /\ Len(all) = m + 1 /\ NoneTwice(all)
        /\ \A i \in 1 .. (m + 1) : all[i] = IF i = m + 1 THEN key ELSE c[i]
        /\ Inbox!Seen(all) = Inbox!Seen(c) \cup {key}
    <3>1. NoneTwice(c) /\ key \in KeyTypes /\ key \notin Inbox!Seen(c) /\ c \in Seq(KeyTypes)
      BY <1>1, <1>6, <2>1, <2>2
    <3>2. all \in Seq(KeyTypes) /\ Len(all) = m + 1 /\ NoneTwice(all)
      BY <1>2, <2>2, <3>1, NewKey
    <3>3. \A i \in 1 .. (m + 1) : all[i] = IF i = m + 1 THEN key ELSE c[i]
      BY <1>2, <2>2, <3>1, NewKey
    <3>4. Inbox!Seen(all) = Inbox!Seen(c) \cup {key}
      BY <1>2, <2>2, <3>1, NewKey
    <3> QED BY <3>2, <3>3, <3>4
  <2>4. Ordered(all, n + 1)
    <3> SUFFICES ASSUME NEW p \in 1 .. (m + 1)
                 PROVE  \E i \in Inputs(n + 1) :
                          /\ all[p] = InputKey(i)
                          /\ \A q \in 1 .. (m + 1) : q > p =>
                               \E j \in Inputs(n + 1) : j > i /\ all[q] = InputKey(j)
      BY <2>3 DEF Ordered
    <3>1. n + 1 \in Inputs(n + 1)
      BY <1>3, <1>6
    <3>2. CASE p = m + 1
      <4>1. all[p] = InputKey(n + 1) /\ \A q \in 1 .. (m + 1) : ~ (q > p)
        BY <2>2, <2>3, <3>2
      <4> QED BY <3>1, <4>1
    <3>3. CASE p # m + 1
      <4>1. p \in 1 .. m /\ all[p] = c[p]
        BY <2>3, <3>3
      <4>2. PICK i \in Inputs(n) :
              /\ c[p] = InputKey(i)
              /\ \A q \in 1 .. m : q > p => \E j \in Inputs(n) : j > i /\ c[q] = InputKey(j)
        BY <1>2, <4>1 DEF Ordered
      <4>3. ASSUME NEW q \in 1 .. (m + 1), q > p
            PROVE  \E j \in Inputs(n + 1) : j > i /\ all[q] = InputKey(j)
        <5>1. CASE q = m + 1
          BY <1>3, <2>2, <2>3, <3>1, <5>1
        <5>2. CASE q # m + 1
          <6>1. q \in 1 .. m /\ all[q] = c[q]
            BY <2>3, <5>2
          <6> QED BY <1>3, <4>2, <4>3, <6>1
        <5> QED BY <5>1, <5>2
      <4> QED BY <1>3, <4>1, <4>2, <4>3
    <3> QED BY <3>2, <3>3
  <2>5. \A i \in Inputs(n + 1) : InputKey(i) \in Inbox!Seen(all) \/ PushedOut(i, n + 1)
    BY <1>3, <2>2, <2>3
  <2>6. PICK rest : rest = Tail(all)
    OBVIOUS
  <2>7. d = IF m + 1 > DedupSize THEN rest ELSE all
    BY <1>6, <2>2, <2>3, <2>6 DEF Filled, Inbox!Insert, InputKey
  <2>8. CASE ~ (m + 1 > DedupSize)
    <3>1. all \in Caches
      BY <2>3, <2>8 DEF Caches
    <3> QED BY <2>4, <2>5, <2>7, <2>8, <3>1
  <2>9. CASE m + 1 > DedupSize
    <3>1. m = DedupSize
      BY <1>1, <1>2, <2>9
    <3>2. /\ rest \in Seq(KeyTypes) /\ Len(rest) = m /\ NoneTwice(rest)
          /\ \A i \in 1 .. m : i + 1 \in 1 .. (m + 1) /\ rest[i] = all[i + 1]
          /\ Inbox!Seen(all) = Inbox!Seen(rest) \cup {all[1]}
      <4>1. rest \in Seq(KeyTypes) /\ Len(rest) = m /\ NoneTwice(rest)
        BY <1>2, <2>3, <2>6, OldestDropped
      <4>2. \A i \in 1 .. m : i + 1 \in 1 .. (m + 1) /\ rest[i] = all[i + 1]
        BY <1>2, <2>3, <2>6, OldestDropped
      <4>3. Inbox!Seen(all) = Inbox!Seen(rest) \cup {all[1]}
        BY <1>2, <2>3, <2>6, OldestDropped
      <4> QED BY <4>1, <4>2, <4>3
    <3>3. rest \in Caches
      BY <3>1, <3>2 DEF Caches
    <3>4. Ordered(rest, n + 1)
      <4> SUFFICES ASSUME NEW p \in 1 .. m
                   PROVE  \E i \in Inputs(n + 1) :
                            /\ rest[p] = InputKey(i)
                            /\ \A q \in 1 .. m : q > p =>
                                 \E j \in Inputs(n + 1) : j > i /\ rest[q] = InputKey(j)
        BY <3>2 DEF Ordered
      <4>1. PICK i \in Inputs(n + 1) :
              /\ all[p + 1] = InputKey(i)
              /\ \A q \in 1 .. (m + 1) : q > p + 1 =>
                   \E j \in Inputs(n + 1) : j > i /\ all[q] = InputKey(j)
        BY <2>3, <2>4, <3>2 DEF Ordered
      <4>2. ASSUME NEW q \in 1 .. m, q > p
            PROVE  \E j \in Inputs(n + 1) : j > i /\ rest[q] = InputKey(j)
        <5>1. q + 1 \in 1 .. (m + 1) /\ q + 1 > p + 1 /\ rest[q] = all[q + 1]
          BY <3>2, <4>2
        <5> QED BY <4>1, <5>1
      <4> QED BY <3>2, <4>1, <4>2
    <3>5. ASSUME NEW i \in Inputs(n + 1)
          PROVE  InputKey(i) \in Inbox!Seen(rest) \/ PushedOut(i, n + 1)
      <4>1. CASE InputKey(i) = all[1]
        BY <2>3, <2>4, <3>1, <4>1, DroppedIsPushedOut
      <4> QED BY <2>5, <3>2, <4>1
    <3> QED BY <2>7, <2>9, <3>3, <3>4, <3>5
  <2> QED BY <2>8, <2>9
<1> QED BY <1>5, <1>6

(* Each input is in the cache again, or was pushed out by those after it. *)
LEMMA HydratedHoldsInputs ==
  ASSUME DedupSize \in Nat, InboxTypes
  PROVE  /\ Inbox!Hydrated \in Caches
         /\ \A key \in Inbox!Seen(Inbox!Hydrated) :
              \E i \in Inputs(Len(stored)) : key = InputKey(i)
         /\ \A i \in Inputs(Len(stored)) :
              InputKey(i) \in Inbox!Seen(Inbox!Hydrated) \/ PushedOut(i, Len(stored))
<1>1. PICK n \in Nat : n = Len(stored)
  BY LenProperties DEF InboxTypes
<1> DEFINE F == CHOOSE f : IsFilling(stored, f, n)
<1>2. Inbox!Hydrated = F[n]
  BY <1>1 DEF Inbox!Hydrated, IsFilling, Filled
<1>3. IsFilling(stored, F, n)
  BY FillingExists
<1> HIDE DEF F
<1>4. \A k \in 0 .. n : F[k] = IF k = 0 THEN <<>> ELSE Filled(F[k - 1], stored[k])
  BY <1>3 DEF IsFilling
<1> DEFINE Good(k) ==
             /\ F[k] \in Caches /\ Ordered(F[k], k)
             /\ \A i \in Inputs(k) : InputKey(i) \in Inbox!Seen(F[k]) \/ PushedOut(i, k)
           Bad == {k \in 0 .. n : ~ Good(k)}
<1>5. Bad = {}
  <2> SUFFICES ASSUME Bad # {} PROVE FALSE
    OBVIOUS
  <2>1. PICK k \in Bad : \A j \in Bad : k <= j
    <3>1. Bad \subseteq Nat
      OBVIOUS
    <3> QED BY <3>1, FirstExists
  <2>2. CASE k = 0
    <3>1. F[0] = <<>>
      BY <1>4
    <3>2. <<>> \in Caches /\ Ordered(<<>>, 0) /\ Inputs(0) = {}
      BY EmptySeq DEF Caches, NoneTwice, Ordered, Inputs
    <3> QED BY <2>1, <2>2, <3>1, <3>2
  <2>3. CASE k # 0
    <3>1. PICK m \in Nat : k = m + 1 /\ m \in 0 .. n /\ m \notin Bad /\ m + 1 <= n
      <4>1. k - 1 \in Nat /\ k = (k - 1) + 1 /\ k - 1 \in 0 .. n /\ k - 1 \notin Bad
        BY <2>1, <2>3
      <4> QED BY <4>1
    <3>2. Good(m)
      BY <3>1
    <3>3. F[k] = Filled(F[m], stored[m + 1])
      BY <1>4, <3>1
    <3>4. Good(m + 1)
      BY <1>1, <3>1, <3>2, <3>3, FilledKeepsOrder
    <3> QED BY <2>1, <3>1, <3>4
  <2> QED BY <2>2, <2>3
<1>6. Good(n)
  BY <1>5
<1>7. ASSUME NEW key \in Inbox!Seen(F[n]) PROVE \E i \in Inputs(n) : key = InputKey(i)
  <2>1. F[n] \in Seq(KeyTypes) /\ Ordered(F[n], n)
    BY <1>6 DEF Caches
  <2>2. PICK p \in 1 .. Len(F[n]) : key = F[n][p]
    BY <1>7, <2>1, SeenAreElements
  <2> QED BY <2>1, <2>2 DEF Ordered
<1> QED BY <1>1, <1>2, <1>6, <1>7

-----------------------------------------------------------------------------
(* What does not write. *)
LEMMA MoreFailures ==
  ASSUME NEW fails \in Nat, NEW more \in Nat, fails <= more
  PROVE  /\ \A m : Unaddressed(m, fails) => Unaddressed(m, more)
         /\ \A h : Addressed(h, fails) => Addressed(h, more)
<1>1. fails > 0 => more > 0
  OBVIOUS
<1>2. \A m : Unaddressed(m, fails) => Unaddressed(m, more)
  BY <1>1, Zenon DEF Unaddressed
<1> QED BY <1>2, Zenon DEF Addressed

LEMMA HandlersMove ==
  ASSUME KeptIInv, NEW gone \in SUBSET handlers, NEW new \in SUBSET HandlerTypes,
         handlers' = (handlers \ gone) \cup new, \A h \in gone \cup new : h.stage # "write",
         UNCHANGED <<dedup, stored, left, life>>, failures' \in Nat, dispatched' \in Nat,
         failures <= failures'
  PROVE  /\ KeptIInv'
         /\ OnceIInv /\ (\A h \in new : Addressed(h, failures')) => OnceIInv'
<1>0. failures \in Nat /\ (failures' = 0 => failures = 0)
  BY DEF KeptIInv, InboxTypes
<1>1. InboxTypes'
  BY DEF KeptIInv, InboxTypes
<1>2. \A m : Writing(m)' = Writing(m) /\ Records(m)' = Records(m)
  BY DEF Writing, Records
<1>3. KeptIInv'
  BY <1>0, <1>1, <1>2 DEF KeptIInv, SeenAreKept
<1>4. ASSUME OnceIInv, \A h \in new : Addressed(h, failures') PROVE OnceIInv'
  <2>1. WritesAreHeld'
    BY <1>2, <1>4 DEF OnceIInv, WritesAreHeld, Past
  <2>2. HandlersAreAddressed'
    <3>1. \A h \in handlers : Addressed(h, failures')
      BY <1>0, <1>4, MoreFailures DEF OnceIInv, HandlersAreAddressed
    <3> QED BY <1>4, <3>1 DEF HandlersAreAddressed
  <2>3. InputsAreUnaddressed'
    BY <1>0, <1>4, MoreFailures DEF OnceIInv, InputsAreUnaddressed
  <2>4. RecordsAreHeld' /\ Inbox!StoredOnce'
    BY <1>4 DEF OnceIInv, RecordsAreHeld, Past, Inbox!StoredOnce
  <2> QED BY <1>3, <2>1, <2>2, <2>3, <2>4 DEF OnceIInv
<1> QED BY <1>3, <1>4

LEMMA DispatchKeeps ==
  ASSUME KeptIInv, NEW m \in Messages, NEW form \in FormNames, Inbox!Dispatch(m, form)
  PROVE  KeptIInv' /\ (OnceIInv => OnceIInv')
<1>0. PICK h : h = [n |-> dispatched', msg |-> m, form |-> form,
                    mention |-> form \in {"at", "marked"},
                    stage |-> IF form \in {"marked", "plain"} THEN "identity" ELSE "accept"]
  OBVIOUS
<1>1. /\ dispatched' \in Nat /\ handlers' = (handlers \ {}) \cup {h} /\ form \in Forms[m]
      /\ UNCHANGED <<known, dedup, stored, left, failures, life>> /\ failures \in Nat
  BY <1>0 DEF Inbox!Dispatch, KeptIInv, InboxTypes
<1>2. h \in HandlerTypes /\ h.stage # "write" /\ Addressed(h, failures')
  <2>1. h \in HandlerTypes /\ h.stage # "write"
    BY <1>0, <1>1 DEF HandlerTypes
  <2>2. /\ h.form = form /\ h.msg = m /\ h.mention = (form \in {"at", "marked"})
        /\ h.stage = IF form \in {"marked", "plain"} THEN "identity" ELSE "accept"
    BY <1>0
  <2>3. form \in {"at", "marked"} \/ form \in {"plain", "direct"}
    BY DEF FormNames
  <2>4. h.stage = "identity" => h.mention \/ h.form = "plain"
    BY <2>2, Zenon
  <2>5. h.stage # "identity" => h.mention \/ h.form = "direct"
    <3>1. form = "plain" => h.stage = "identity"
      BY <2>2
    <3> QED BY <2>2, <2>3, <3>1, Zenon
  <2>6. form = "direct" => Unaddressed(h.msg, failures')
    BY <1>1, <2>2, Zenon DEF Unaddressed
  <2>7. h.form \in Forms[h.msg]
    BY <1>1, <2>2
  <2>8. Addressed(h, failures')
    BY <2>2, <2>4, <2>5, <2>6, <2>7, Zenon DEF Addressed
  <2> QED BY <2>1, <2>8
<1>3. PICK gone, new : gone = {} /\ new = {h}
  OBVIOUS
<1>4. /\ gone \in SUBSET handlers /\ new \in SUBSET HandlerTypes
      /\ handlers' = (handlers \ gone) \cup new /\ \A x \in gone \cup new : x.stage # "write"
      /\ \A x \in new : Addressed(x, failures')
  BY <1>1, <1>2, <1>3
<1> QED BY <1>1, <1>4, HandlersMove

LEMMA IdentityKeeps ==
  ASSUME KeptIInv, NEW h \in handlers, Inbox!Identity(h) \/ Inbox!IdentityFails(h)
  PROVE  KeptIInv' /\ (OnceIInv => OnceIInv')
<1>1. h \in HandlerTypes /\ h.stage = "identity"
  BY DEF Inbox!Identity, Inbox!IdentityFails, KeptIInv, InboxTypes
<1>2. \E new \in SUBSET HandlerTypes :
        /\ handlers' = (handlers \ {h}) \cup new
        /\ \A x \in new : x.stage = "accept" /\ (OnceIInv => Addressed(x, failures'))
  <2>1. CASE Inbox!Identity(h)
    <3> DEFINE g == [h EXCEPT !.stage = "accept", !.mention = TRUE]
    <3>1. g \in HandlerTypes /\ g.stage = "accept" /\ g.mention = TRUE /\ g.form = h.form
          /\ g.msg = h.msg
      BY <1>1 DEF HandlerTypes
    <3>2. handlers' = (handlers \ {h}) \cup {g}
      BY <2>1 DEF Inbox!Identity
    <3> HIDE DEF g
    <3>3. OnceIInv => Addressed(g, failures')
      <4>1. OnceIInv => h.form \in Forms[h.msg]
        BY DEF OnceIInv, HandlersAreAddressed, Addressed
      <4> QED BY <3>1, <4>1, Zenon DEF Addressed
    <3>4. PICK new : new = {g}
      OBVIOUS
    <3>5. /\ new \in SUBSET HandlerTypes /\ handlers' = (handlers \ {h}) \cup new
          /\ \A x \in new : x = g
      BY <3>1, <3>2, <3>4
    <3>6. \A x \in new : x.stage = "accept" /\ (OnceIInv => Addressed(x, failures'))
      BY <3>1, <3>3, <3>5
    <3> QED BY <3>5, <3>6
  <2>2. CASE Inbox!IdentityFails(h)
    <3> DEFINE g == [h EXCEPT !.stage = "accept"]
    <3>1. g \in HandlerTypes /\ g.stage = "accept" /\ g.mention = h.mention /\ g.form = h.form
          /\ g.msg = h.msg
      BY <1>1 DEF HandlerTypes
    <3>2. handlers' = (handlers \ {h}) \cup Inbox!Unmarked(h)
      BY <2>2 DEF Inbox!IdentityFails
    <3>3. Inbox!Unmarked(h) = IF h.mention \/ ~MentionOnly THEN {g} ELSE {}
      BY DEF Inbox!Unmarked
    <3> HIDE DEF g
    <3>4. failures' > 0
      BY <2>2 DEF Inbox!IdentityFails, KeptIInv, InboxTypes
    <3>5. OnceIInv /\ (h.mention \/ ~MentionOnly) => Addressed(g, failures')
      <4>1. OnceIInv => Addressed(h, failures)
        BY DEF OnceIInv, HandlersAreAddressed
      <4>2. OnceIInv => h.form \in Forms[h.msg] /\ (h.mention \/ h.form = "plain")
        BY <1>1, <4>1, Zenon DEF Addressed
      <4>3. h.form = "plain" /\ h.form \in Forms[h.msg] /\ ~MentionOnly =>
              Unaddressed(h.msg, failures')
        BY <3>4, Zenon DEF Unaddressed
      <4> QED BY <3>1, <4>2, <4>3, Zenon DEF Addressed
    <3>6. /\ Inbox!Unmarked(h) \in SUBSET HandlerTypes
          /\ \A x \in Inbox!Unmarked(h) : x.stage = "accept" /\ (OnceIInv => Addressed(x, failures'))
      BY <3>1, <3>3, <3>5
    <3> QED BY <3>2, <3>6
  <2> QED BY <2>1, <2>2
<1>3. PICK new \in SUBSET HandlerTypes :
        /\ handlers' = (handlers \ {h}) \cup new
        /\ \A x \in new : x.stage = "accept" /\ (OnceIInv => Addressed(x, failures'))
  BY <1>2
<1>4. PICK gone \in SUBSET handlers : gone = {h}
  OBVIOUS
<1>5. /\ handlers' = (handlers \ gone) \cup new /\ \A x \in gone \cup new : x.stage # "write"
  BY <1>1, <1>3, <1>4
<1>6. /\ UNCHANGED <<dedup, stored, left, life>> /\ failures' \in Nat /\ dispatched' \in Nat
      /\ failures <= failures'
  BY DEF Inbox!Identity, Inbox!IdentityFails, KeptIInv, InboxTypes
<1> QED BY <1>3, <1>5, <1>6, HandlersMove

-----------------------------------------------------------------------------
(* What the cache lets through. *)
LEMMA AcceptKeeps ==
  ASSUME DedupSize \in Nat, KeptIInv, NEW h \in handlers, Inbox!Accept(h)
  PROVE  KeptIInv' /\ (OnceIInv => OnceIInv')
<1> DEFINE once == Inbox!Insert(dedup, Inbox!MessageKey(h.msg))
           twice == Inbox!Insert(once, Inbox!DispatchKey(h))
           isNew == Inbox!MessageKey(h.msg) \notin Inbox!Seen(dedup)
           /\ Inbox!DispatchKey(h) \notin Inbox!Seen(once)
           g == [h EXCEPT !.stage = "write"]
<1>1. /\ h.stage = "accept" /\ dedup' = twice
      /\ handlers' = (handlers \ {h}) \cup IF isNew THEN {g} ELSE {}
      /\ left' = left \cup ((Inbox!Seen(dedup) \cup {Inbox!MessageKey(h.msg)}) \ Inbox!Seen(twice))
      /\ UNCHANGED <<stored, dispatched, failures, life>>
  BY DEF Inbox!Accept
<1>2. h \in HandlerTypes /\ g \in HandlerTypes /\ g.stage = "write" /\ g.msg = h.msg
      /\ g.form = h.form /\ g.mention = h.mention
  BY DEF KeptIInv, InboxTypes, HandlerTypes
<1>3. Inbox!MessageKey(h.msg) \in KeyTypes /\ Inbox!DispatchKey(h) \in KeyTypes
      /\ Inbox!MessageKey(h.msg)[2] = h.msg /\ Inbox!DispatchKey(h)[2] = h.msg
  BY <1>2 DEF Inbox!MessageKey, Inbox!DispatchKey, KeyTypes, HandlerTypes, FormNames
<1>4. once \in Caches /\ Inbox!Seen(once) \subseteq Inbox!Seen(dedup) \cup {Inbox!MessageKey(h.msg)}
  BY <1>3, Inserted DEF KeptIInv, InboxTypes
<1>5. twice \in Caches /\ Inbox!Seen(twice) \subseteq Inbox!Seen(once) \cup {Inbox!DispatchKey(h)}
  BY <1>3, <1>4, Inserted
<1> HIDE DEF once, twice, g
<1>6. InboxTypes'
  BY <1>1, <1>2, <1>5 DEF KeptIInv, InboxTypes
<1>7. \A m : /\ Records(m)' = Records(m)
             /\ Writing(m)' = Writing(m) \cup (IF isNew /\ m = h.msg THEN {g} ELSE {})
  BY <1>1, <1>2 DEF Writing, Records
<1>8. SeenAreKept'
  <2> SUFFICES ASSUME failures = 0, NEW key \in Inbox!Seen(twice)
               PROVE  Records(key[2]) # {} \/ Writing(key[2])' # {}
    BY <1>1, <1>7 DEF SeenAreKept
  <2>1. CASE key \in Inbox!Seen(dedup)
    BY <1>7, <2>1 DEF KeptIInv, SeenAreKept
  <2>2. CASE isNew /\ key[2] = h.msg
    BY <1>7, <2>2
  <2>3. CASE ~ isNew /\ key[2] = h.msg
    <3>1. \/ Inbox!MessageKey(h.msg) \in Inbox!Seen(dedup)
          \/ Inbox!DispatchKey(h) \in Inbox!Seen(dedup)
          \/ Inbox!DispatchKey(h) = Inbox!MessageKey(h.msg)
      BY <1>3, <1>4, <2>3
    <3>2. Inbox!DispatchKey(h) # Inbox!MessageKey(h.msg)
      BY <1>2 DEF Inbox!MessageKey, Inbox!DispatchKey, HandlerTypes, FormNames
    <3>3. Records(h.msg) # {} \/ Writing(h.msg) # {}
      BY <1>3, <3>1, <3>2 DEF KeptIInv, SeenAreKept
    <3> QED BY <1>7, <2>3, <3>3
  <2> QED BY <1>3, <1>4, <1>5, <2>1, <2>2, <2>3
<1>9. KeptIInv'
  BY <1>6, <1>8 DEF KeptIInv
<1>10. ASSUME OnceIInv PROVE OnceIInv'
  <2>1. HandlersAreAddressed'
    <3>1. \A x \in handlers : Addressed(x, failures')
      BY <1>1, <1>10 DEF OnceIInv, HandlersAreAddressed
    <3>2. Addressed(g, failures')
      <4>1. Addressed(h, failures') /\ h.stage # "identity" /\ g.stage # "identity"
        BY <1>1, <1>2, <3>1
      <4> QED BY <1>2, <4>1, Zenon DEF Addressed
    <3> QED BY <1>1, <3>1, <3>2 DEF HandlersAreAddressed
  <2>2. InputsAreUnaddressed' /\ Inbox!StoredOnce'
    BY <1>1, <1>10 DEF OnceIInv, InputsAreUnaddressed, Inbox!StoredOnce
  <2>3. /\ \A key \in Inbox!Seen(dedup) \cup left : key \in Inbox!Seen(twice) \cup left'
        /\ Inbox!MessageKey(h.msg) \in Inbox!Seen(twice) \cup left' /\ left \subseteq left'
    BY <1>1
  <2>4. RecordsAreHeld'
    BY <1>1, <1>10, <2>3 DEF OnceIInv, RecordsAreHeld, Past
  <2>5. WritesAreHeld'
    <3> SUFFICES ASSUME NEW f \in handlers', f.stage = "write",
                        Inbox!MessageKey(f.msg) \notin left'
                 PROVE  /\ Inbox!MessageKey(f.msg) \in Inbox!Seen(twice) /\ Writing(f.msg)' = {f}
                        /\ \A i \in Records(f.msg) : Past(i)
      BY <1>1, <1>7 DEF WritesAreHeld, Past
    <3>1. Inbox!MessageKey(f.msg) \notin left
      BY <2>3
    <3>2. CASE isNew /\ f = g
      <4>1. Inbox!MessageKey(h.msg) \notin Inbox!Seen(dedup) \cup left /\ f.msg = h.msg
        BY <1>2, <3>1, <3>2
      <4>2. Writing(h.msg) = {}
        BY <1>10, <4>1 DEF OnceIInv, WritesAreHeld, Writing
      <4>3. \A i \in Records(h.msg) : Past(i)
        BY <1>10, <4>1 DEF OnceIInv, RecordsAreHeld, Records
      <4>4. Writing(f.msg)' = {f}
        BY <1>7, <3>2, <4>1, <4>2
      <4> QED BY <2>3, <4>1, <4>3, <4>4
    <3>3. CASE ~ (isNew /\ f = g)
      <4>1. f \in handlers
        BY <1>1, <3>3
      <4>2. /\ Inbox!MessageKey(f.msg) \in Inbox!Seen(dedup) /\ Writing(f.msg) = {f}
            /\ \A i \in Records(f.msg) : Past(i)
        BY <1>10, <3>1, <4>1 DEF OnceIInv, WritesAreHeld
      <4>3. ~ (isNew /\ f.msg = h.msg)
        BY <4>2
      <4> QED BY <1>7, <2>3, <4>2, <4>3
    <3> QED BY <3>2, <3>3
  <2> QED BY <1>9, <2>1, <2>2, <2>4, <2>5 DEF OnceIInv
<1> QED BY <1>9, <1>10

-----------------------------------------------------------------------------
(* What is written, what is not, and what a restart leaves. *)
LEMMA StoringKeeps ==
  ASSUME KeptIInv, NEW h \in handlers, h.stage = "write", handlers' = handlers \ {h},
         Inbox!Stores(h), UNCHANGED <<dedup, left, dispatched, life>>,
         failures' \in Nat, failures <= failures'
  PROVE  KeptIInv' /\ (OnceIInv => OnceIInv')
<1>0. failures \in Nat /\ (failures' = 0 => failures = 0)
  BY DEF KeptIInv, InboxTypes
<1> DEFINE e == [msg |-> h.msg, as |-> Inbox!Becomes(h), life |-> life]
<1>2. stored' = Append(stored, e)
  BY DEF Inbox!Stores
<1>3. PICK n \in Nat : n = Len(stored)
  BY LenProperties DEF KeptIInv, InboxTypes
<1>4. h \in HandlerTypes
  BY DEF KeptIInv, InboxTypes
<1>5. e \in RecordTypes /\ e.msg = h.msg /\ e.as = Inbox!Becomes(h) /\ e.life = life
  BY <1>4 DEF KeptIInv, InboxTypes, RecordTypes, HandlerTypes, Inbox!Becomes
<1> HIDE DEF e
<1>6. /\ stored' \in Seq(RecordTypes) /\ Len(stored') = n + 1 /\ stored'[n + 1] = e
      /\ \A i \in 1 .. n : stored'[i] = stored[i]
  BY <1>2, <1>3, <1>5, AppendProperties DEF KeptIInv, InboxTypes
<1>7. InboxTypes'
  BY <1>6 DEF KeptIInv, InboxTypes
<1>8. /\ \A i \in 1 .. n : i \in 1 .. (n + 1) /\ i # n + 1
      /\ \A i \in 1 .. (n + 1) : i # n + 1 => i \in 1 .. n
      /\ n + 1 \in 1 .. (n + 1)
  OBVIOUS
<1>9. \A m : /\ Records(m)' = Records(m) \cup (IF m = h.msg THEN {n + 1} ELSE {})
             /\ Writing(m)' = Writing(m) \ {h}
  BY <1>3, <1>5, <1>6, <1>8 DEF Records, Writing
<1>10. KeptIInv'
  <2>1. \A m : Records(m) # {} \/ Writing(m) # {} => Records(m)' # {} \/ Writing(m)' # {}
    <3> SUFFICES ASSUME NEW m, Records(m) # {} \/ Writing(m) # {}
                 PROVE  Records(m)' # {} \/ Writing(m)' # {}
      OBVIOUS
    <3>1. CASE m = h.msg
      BY <1>9, <3>1
    <3>2. CASE m # h.msg
      <4>1. h \notin Writing(m)
        BY <3>2 DEF Writing
      <4> QED BY <1>9, <4>1
    <3> QED BY <3>1, <3>2
  <2> QED BY <1>0, <1>7, <2>1 DEF KeptIInv, SeenAreKept
<1>11. ASSUME OnceIInv PROVE OnceIInv'
  <2>1. e.as = "input" /\ e.msg \in Commands => Unaddressed(e.msg, failures')
    <3>1. Addressed(h, failures) /\ h.stage # "identity"
      BY <1>11 DEF OnceIInv, HandlersAreAddressed
    <3>2. h.mention \/ Unaddressed(h.msg, failures)
      BY <3>1, Zenon DEF Addressed
    <3>3. Unaddressed(h.msg, failures) => Unaddressed(h.msg, failures')
      BY <1>0, MoreFailures
    <3>4. h.mention /\ h.msg \in Commands => Inbox!Becomes(h) # "input"
      BY Zenon DEF Inbox!Becomes
    <3> QED BY <1>5, <3>2, <3>3, <3>4, Zenon
  <2>2. \/ Inbox!MessageKey(h.msg) \in left
        \/ /\ Inbox!MessageKey(h.msg) \in Inbox!Seen(dedup) /\ Writing(h.msg) = {h}
           /\ \A i \in Records(h.msg) : Past(i)
    BY <1>11 DEF OnceIInv, WritesAreHeld
  <2>3. \A i \in 1 .. n : Past(i)' <=> Past(i)
    BY <1>6 DEF Past
  <2>4. InputsAreUnaddressed'
    <3> SUFFICES ASSUME NEW i \in 1 .. (n + 1), stored'[i].msg \in Commands, stored'[i].as = "input"
                 PROVE  Unaddressed(stored'[i].msg, failures')
      BY <1>6 DEF InputsAreUnaddressed
    <3>1. CASE i = n + 1
      BY <1>6, <2>1, <3>1
    <3>2. CASE i # n + 1
      <4>1. i \in 1 .. n /\ stored'[i] = stored[i]
        BY <1>6, <1>8, <3>2
      <4>2. PICK m : m = stored[i].msg
        OBVIOUS
      <4>3. Unaddressed(m, failures)
        BY <1>3, <1>11, <4>1, <4>2 DEF OnceIInv, InputsAreUnaddressed
      <4>4. Unaddressed(m, failures')
        BY <1>0, <4>3, MoreFailures
      <4> QED BY <4>1, <4>2, <4>4
    <3> QED BY <3>1, <3>2
  <2>5. RecordsAreHeld'
    <3> SUFFICES ASSUME NEW i \in 1 .. (n + 1)
                 PROVE  /\ stored'[i].life <= life'
                        /\ \/ Past(i)'
                           \/ Inbox!MessageKey(stored'[i].msg) \in Inbox!Seen(dedup) \cup left
      BY <1>6 DEF RecordsAreHeld
    <3>1. CASE i = n + 1
      <4>1. life \in Nat
        BY DEF KeptIInv, InboxTypes
      <4> QED BY <1>5, <1>6, <2>2, <3>1, <4>1
    <3>2. CASE i # n + 1
      <4>1. i \in 1 .. n
        BY <1>8, <3>2
      <4> QED BY <1>3, <1>6, <1>11, <2>3, <4>1 DEF OnceIInv, RecordsAreHeld
    <3> QED BY <3>1, <3>2
  <2>6. WritesAreHeld'
    <3> SUFFICES ASSUME NEW f \in handlers', f.stage = "write",
                        Inbox!MessageKey(f.msg) \notin left
                 PROVE  /\ Inbox!MessageKey(f.msg) \in Inbox!Seen(dedup) /\ Writing(f.msg)' = {f}
                        /\ \A i \in Records(f.msg)' : Past(i)'
      BY DEF WritesAreHeld
    <3>1. f \in handlers /\ f # h
      OBVIOUS
    <3>2. /\ Inbox!MessageKey(f.msg) \in Inbox!Seen(dedup) /\ Writing(f.msg) = {f}
          /\ \A i \in Records(f.msg) : Past(i)
      BY <1>11, <3>1 DEF OnceIInv, WritesAreHeld
    <3>3. f.msg # h.msg
      BY <3>1, <3>2 DEF Writing
    <3>4. Records(f.msg)' = Records(f.msg) /\ Records(f.msg) \subseteq 1 .. n
      <4>1. Records(f.msg)' = Records(f.msg) \cup {}
        BY <1>9, <3>3
      <4>2. Records(f.msg) \subseteq 1 .. n
        BY <1>3 DEF Records
      <4> QED BY <4>1, <4>2
    <3>5. Writing(f.msg)' = {f}
      BY <1>9, <3>1, <3>2
    <3> QED BY <2>3, <3>2, <3>4, <3>5
  <2>7. Inbox!StoredOnce'
    <3>1. DOMAIN stored = 1 .. n /\ DOMAIN stored' = 1 .. (n + 1)
      BY <1>3, <1>6, LenProperties DEF KeptIInv, InboxTypes
    <3> SUFFICES ASSUME NEW i \in 1 .. (n + 1), NEW j \in 1 .. (n + 1), i < j,
                        stored'[i].msg = stored'[j].msg
                 PROVE  \/ stored'[i].as = "command" /\ stored'[i].life < stored'[j].life
                        \/ Inbox!MessageKey(stored'[i].msg) \in left
      BY <3>1 DEF Inbox!StoredOnce
    <3>2. i \in 1 .. n
      OBVIOUS
    <3>3. CASE j = n + 1
      <4>1. i \in Records(h.msg) /\ stored'[i] = stored[i] /\ stored[i].msg = h.msg
        BY <1>3, <1>5, <1>6, <3>2, <3>3 DEF Records
      <4> QED BY <1>5, <1>6, <2>2, <3>3, <4>1 DEF Past
    <3>4. CASE j # n + 1
      <4>1. j \in 1 .. n
        BY <1>8, <3>4
      <4> QED BY <1>6, <1>11, <3>1, <3>2, <4>1 DEF OnceIInv, Inbox!StoredOnce
    <3> QED BY <3>3, <3>4
  <2>8. HandlersAreAddressed'
    BY <1>0, <1>11, MoreFailures DEF OnceIInv, HandlersAreAddressed
  <2> QED BY <1>10, <2>4, <2>5, <2>6, <2>7, <2>8 DEF OnceIInv
<1> QED BY <1>10, <1>11

LEMMA RecordKeeps ==
  ASSUME KeptIInv, NEW h \in handlers, Inbox!Record(h)
  PROVE  KeptIInv' /\ (OnceIInv => OnceIInv')
<1>1. /\ h.stage = "write" /\ handlers' = handlers \ {h} /\ Inbox!Stores(h)
      /\ UNCHANGED <<dedup, left, dispatched, failures, life>>
  BY DEF Inbox!Record
<1>2. failures' \in Nat /\ failures <= failures'
  BY <1>1 DEF KeptIInv, InboxTypes
<1> QED BY <1>1, <1>2, StoringKeeps

LEMMA RecordFailsKeeps ==
  ASSUME KeptIInv, NEW h \in handlers, Inbox!RecordFails(h)
  PROVE  KeptIInv' /\ (OnceIInv => OnceIInv')
<1>1. /\ h.stage = "write" /\ handlers' = handlers \ {h} /\ failures' = failures + 1
      /\ Inbox!Stores(h) \/ UNCHANGED stored
      /\ UNCHANGED <<known, dedup, left, dispatched, life>>
  BY DEF Inbox!RecordFails
<1>2. failures \in Nat /\ failures' \in Nat /\ failures <= failures' /\ failures' # 0 /\ failures' > 0
  BY <1>1 DEF KeptIInv, InboxTypes
<1>3. CASE Inbox!Stores(h)
  BY <1>1, <1>2, <1>3, StoringKeeps
<1>4. CASE UNCHANGED stored
  <2>1. KeptIInv'
    BY <1>1, <1>2, <1>4 DEF KeptIInv, InboxTypes, SeenAreKept
  <2>2. ASSUME OnceIInv PROVE OnceIInv'
    <3>1. \A m : Records(m)' = Records(m) /\ Writing(m)' = Writing(m) \ {h}
      BY <1>1, <1>4 DEF Records, Writing
    <3>2. WritesAreHeld'
      BY <1>1, <1>4, <2>2, <3>1 DEF OnceIInv, WritesAreHeld, Past
    <3>3. HandlersAreAddressed' /\ InputsAreUnaddressed'
      BY <1>1, <1>2, <1>4, <2>2, MoreFailures DEF OnceIInv, HandlersAreAddressed,
         InputsAreUnaddressed
    <3>4. RecordsAreHeld' /\ Inbox!StoredOnce'
      BY <1>1, <1>4, <2>2 DEF OnceIInv, RecordsAreHeld, Past, Inbox!StoredOnce
    <3> QED BY <2>1, <3>2, <3>3, <3>4 DEF OnceIInv
  <2> QED BY <2>1, <2>2
<1> QED BY <1>1, <1>3, <1>4

LEMMA InboxRestartKeeps ==
  ASSUME DedupSize \in Nat, KeptIInv, Inbox!Restart
  PROVE  KeptIInv' /\ (OnceIInv => OnceIInv')
<1>1. /\ handlers' = {} /\ dedup' = Inbox!Hydrated /\ life' = life + 1
      /\ left' = left \cup {Inbox!MessageKey(stored[i].msg) :
                              i \in {k \in Inbox!Inputs : Inbox!Crowded(k)}}
      /\ UNCHANGED <<stored, dispatched, failures>>
  BY DEF Inbox!Restart
<1>2. PICK n \in Nat : n = Len(stored)
  BY LenProperties DEF KeptIInv, InboxTypes
<1>3. /\ Inbox!Hydrated \in Caches
      /\ \A key \in Inbox!Seen(Inbox!Hydrated) : \E i \in Inputs(n) : key = InputKey(i)
      /\ \A i \in Inputs(n) : InputKey(i) \in Inbox!Seen(Inbox!Hydrated) \/ PushedOut(i, n)
  BY <1>2, HydratedHoldsInputs DEF KeptIInv
<1>4. InboxTypes'
  BY <1>1, <1>3 DEF KeptIInv, InboxTypes
<1>5. \A m : Records(m)' = Records(m)
  BY <1>1 DEF Records
<1>6. SeenAreKept'
  <2>1. ASSUME NEW key \in Inbox!Seen(Inbox!Hydrated) PROVE Records(key[2]) # {}
    <3>1. PICK i \in Inputs(n) : key = InputKey(i)
      BY <1>3
    <3>2. i \in 1 .. Len(stored) /\ key[2] = stored[i].msg
      BY <1>2, <3>1 DEF Inputs, InputKey, Inbox!MessageKey
    <3> QED BY <3>2 DEF Records
  <2> QED BY <1>1, <1>5, <2>1 DEF SeenAreKept
<1>7. KeptIInv'
  BY <1>4, <1>6 DEF KeptIInv
<1>8. ASSUME OnceIInv PROVE OnceIInv'
  <2>1. WritesAreHeld' /\ HandlersAreAddressed'
    BY <1>1 DEF WritesAreHeld, HandlersAreAddressed
  <2>2. InputsAreUnaddressed' /\ Inbox!StoredOnce'
    BY <1>1, <1>8 DEF OnceIInv, InputsAreUnaddressed, Inbox!StoredOnce
  <2>3. ASSUME NEW i \in Inputs(n) PROVE InputKey(i) \in Inbox!Seen(Inbox!Hydrated) \cup left'
    <3>1. Inbox!Inputs = Inputs(n)
      <4>1. DOMAIN stored = 1 .. n
        BY <1>2, LenProperties DEF KeptIInv, InboxTypes
      <4> QED BY <4>1 DEF Inbox!Inputs, Inputs
    <3>2. ASSUME PushedOut(i, n) PROVE InputKey(i) \in left'
      <4>1. PICK k \in Inputs(n) : InputKey(k) = InputKey(i) /\ Cardinality(After(k, n)) >= DedupSize
        BY <3>2 DEF PushedOut
      <4>2. Inbox!Crowded(k)
        BY <3>1, <4>1, SameCardinality DEF Inbox!Crowded, After
      <4> QED BY <1>1, <3>1, <4>1, <4>2 DEF InputKey
    <3> QED BY <1>3, <3>2
  <2>4. RecordsAreHeld'
    <3> SUFFICES ASSUME NEW i \in 1 .. n
                 PROVE  /\ stored[i].life <= life'
                        /\ Past(i)' \/ InputKey(i) \in Inbox!Seen(Inbox!Hydrated) \cup left'
      BY <1>1, <1>2 DEF RecordsAreHeld, InputKey
    <3>1. stored[i] \in RecordTypes /\ life \in Nat
      BY <1>2, ElementOfSeq DEF KeptIInv, InboxTypes
    <3>2. stored[i].life \in Nat /\ stored[i].as \in {"command", "input"} /\ stored[i].life <= life
      BY <1>2, <1>8, <3>1 DEF OnceIInv, RecordsAreHeld, RecordTypes
    <3>3. CASE stored[i].as = "input"
      BY <1>1, <2>3, <3>1, <3>2, <3>3 DEF Inputs
    <3>4. CASE stored[i].as = "command"
      BY <1>1, <3>1, <3>2, <3>4 DEF Past
    <3> QED BY <3>2, <3>3, <3>4
  <2> QED BY <1>7, <2>1, <2>2, <2>4 DEF OnceIInv
<1> QED BY <1>7, <1>8

-----------------------------------------------------------------------------
(* All of it. *)
LEMMA InboxStep ==
  ASSUME DedupSize \in Nat, KeptIInv, [Inbox!Next]_(Inbox!vars)
  PROVE  KeptIInv' /\ (OnceIInv => OnceIInv')
<1>2. CASE \E m \in Messages, form \in FormNames : Inbox!Dispatch(m, form)
  BY <1>2, DispatchKeeps
<1>3. CASE \E h \in handlers : Inbox!Identity(h) \/ Inbox!IdentityFails(h)
  BY <1>3, IdentityKeeps
<1>4. CASE \E h \in handlers : Inbox!Accept(h)
  BY <1>4, AcceptKeeps
<1>5. CASE \E h \in handlers : Inbox!Record(h)
  BY <1>5, RecordKeeps
<1>6. CASE \E h \in handlers : Inbox!RecordFails(h)
  BY <1>6, RecordFailsKeeps
<1>7. CASE Inbox!Restart
  BY <1>7, InboxRestartKeeps
<1>8. CASE UNCHANGED Inbox!vars
  <2>1. UNCHANGED <<handlers, known, dedup, stored, left, dispatched, failures, life>>
    BY <1>8 DEF Inbox!vars
  <2>2. KeptIInv'
    BY <2>1 DEF KeptIInv, InboxTypes, SeenAreKept, Records, Writing
  <2>3. OnceIInv => OnceIInv'
    BY <2>1, <2>2 DEF OnceIInv, WritesAreHeld, RecordsAreHeld, HandlersAreAddressed,
       InputsAreUnaddressed, Inbox!StoredOnce, Records, Writing, Past
  <2> QED BY <2>2, <2>3
<1> QED BY <1>2, <1>3, <1>4, <1>5, <1>6, <1>7, <1>8 DEF Inbox!Next, FormNames

LEMMA InboxStarts ==
  ASSUME DedupSize \in Nat, Inbox!Init
  PROVE  OnceIInv
<1>1. /\ handlers = {} /\ dedup = <<>> /\ stored = <<>> /\ dispatched = 0 /\ failures = 0
      /\ life = 1
  BY DEF Inbox!Init
<1>2. <<>> \in Caches /\ Inbox!Seen(<<>>) = {}
  BY EmptySeq DEF Caches, NoneTwice, Inbox!Seen
<1>3. InboxTypes
  <2>1. <<>> \in Seq(RecordTypes)
    BY EmptySeq
  <2> QED BY <1>1, <1>2, <2>1 DEF InboxTypes
<1>4. KeptIInv
  BY <1>1, <1>2, <1>3 DEF KeptIInv, SeenAreKept
<1>5. WritesAreHeld /\ RecordsAreHeld /\ HandlersAreAddressed /\ InputsAreUnaddressed
      /\ Inbox!StoredOnce
  BY <1>1, <1>2 DEF WritesAreHeld, RecordsAreHeld, HandlersAreAddressed, InputsAreUnaddressed,
     Inbox!StoredOnce
<1> QED BY <1>4, <1>5 DEF OnceIInv

(* The cache is one, whatever is dispatched, fails and restarts; while no  *)
(* write failed each of its keys is of a message that somebody has; and    *)
(* what was taken is in it, or was pushed out of it by newer messages.     *)
THEOREM InboxInductiveInvariant ==
  ASSUME DedupSize \in Nat
  PROVE  Inbox!Spec => []OnceIInv
<1>1. Inbox!Init => OnceIInv
  BY InboxStarts
<1>2. OnceIInv /\ [Inbox!Next]_(Inbox!vars) => OnceIInv'
  BY InboxStep DEF OnceIInv
<1> QED BY <1>1, <1>2, PTL DEF Inbox!Spec

(* The cache holds no key twice and not more than it may.                  *)
THEOREM InboxIsTyped ==
  ASSUME DedupSize \in Nat
  PROVE  Inbox!Spec => []Inbox!TypeOK
<1>1. OnceIInv => Inbox!TypeOK
  BY AsManyKeys, SameCardinality DEF OnceIInv, KeptIInv, InboxTypes, Caches, HandlerTypes, Inbox!TypeOK
<1> QED BY <1>1, InboxInductiveInvariant, PTL

(* Only a failed write loses a message: a copy that is refused is of one   *)
(* that is recorded, or that the task of the first copy is writing.        *)
THEOREM RefusedCopiesStay ==
  ASSUME DedupSize \in Nat
  PROVE  Inbox!Spec => []Inbox!RefusedCopiesAreKept
<1>1. OnceIInv => Inbox!RefusedCopiesAreKept
  <2> SUFFICES ASSUME OnceIInv, failures = 0, NEW m \in Messages,
      Inbox!MessageKey(m) \in Inbox!Seen(dedup)
               PROVE  \/ \E i \in DOMAIN stored : stored[i].msg = m
                      \/ \E h \in handlers : h.msg = m /\ h.stage = "write"
    BY DEF Inbox!RefusedCopiesAreKept
  <2>1. Records(m) # {} \/ Writing(m) # {}
    BY DEF OnceIInv, KeptIInv, SeenAreKept, Inbox!MessageKey
  <2>2. DOMAIN stored = 1 .. Len(stored)
    BY LenProperties DEF OnceIInv, KeptIInv, InboxTypes
  <2> QED BY <2>1, <2>2 DEF Records, Writing
<1> QED BY <1>1, InboxInductiveInvariant, PTL

(* A message is taken once, in whatever forms and how often it is          *)
(* dispatched, also after restarts, until newer ones have pushed its key   *)
(* out of the cache; a command is taken once in a process.                 *)
THEOREM MessagesAreStoredOnce ==
  ASSUME DedupSize \in Nat
  PROVE  Inbox!Spec => []Inbox!StoredOnce
<1>1. OnceIInv => Inbox!StoredOnce
  BY DEF OnceIInv
<1> QED BY <1>1, InboxInductiveInvariant, PTL

(* A command that names the bot in a group is not told to the model as a   *)
(* message, whichever of its forms comes first, but by a bot that takes    *)
(* unmarked messages and could not find out its own id.                    *)
THEOREM CommandsStayCommands ==
  ASSUME DedupSize \in Nat
  PROVE  Inbox!Spec => []Inbox!CommandsAreNotInputs
<1>1. OnceIInv => Inbox!CommandsAreNotInputs
  <2>1. OnceIInv => DOMAIN stored = 1 .. Len(stored)
    BY LenProperties DEF OnceIInv, KeptIInv, InboxTypes
  <2> QED BY <2>1 DEF OnceIInv, InputsAreUnaddressed, Unaddressed, Inbox!CommandsAreNotInputs
<1> QED BY <1>1, InboxInductiveInvariant, PTL

(* What is dispatched, in whatever copies, is taken once.                  *)
THEOREM MessagesStayOnce ==
  ASSUME DedupSize \in Nat
  PROVE  Inbox!Spec => []Inbox!MessagesArriveOnce
<1>1. /\ Inbox!TypeOK /\ Inbox!StoredOnce
      /\ Inbox!CommandsAreNotInputs /\ Inbox!RefusedCopiesAreKept
      => Inbox!MessagesArriveOnce
  BY DEF Inbox!MessagesArriveOnce
<1> QED BY <1>1, InboxIsTyped, MessagesAreStoredOnce, CommandsStayCommands, RefusedCopiesStay, PTL
=============================================================================
