------------------------ MODULE ToolAuthorizationProofs ------------------------
(***************************************************************************)
(* Who may order a tool, for any sources, identities, tools and inputs: a  *)
(* tool that was started has a basis, an instruction of somebody outside   *)
(* who may order it, and an approval for one operation starts no other.    *)
(*                                                                         *)
(* The argument follows resolve_authority_chain: every event is recorded   *)
(* after the one it acts for, so the way up is finite and what it ends at  *)
(* is an ancestor of the proposal; what the model, a tool, the core or a   *)
(* returned result wrote is worth nothing there; and of what is worth      *)
(* something, no more than the directory and the source's maximum allow.   *)
(***************************************************************************)
EXTENDS ToolAuthorization, SequenceTheorems, WellFoundedInduction, TLAPS

Insiders == {"Model", "Tool", "System"}
Kinds ==
  {"UserMessage", "Alert", "ToolResult", "SystemEvent", "CancellationRequested",
   "InputRejected", "MinimumControlPermissionChanged", "ApprovalSubmitted",
   "ApprovalRequested", "Proposed", "Denied", "Started"}
Places == {Nowhere} \cup {d.place : d \in Drafts}
Assessments == [source : Levels, identity : Levels, effective : Levels]
Entries ==
  [task : Tasks, kind : Kinds, creator : Sources \cup Insiders,
   who : Principals \cup {Nobody}, place : Places, assessment : Assessments,
   parent : Nat, request : Nat, proposal : Nat, op : Operations \cup {Delegation},
   approved : BOOLEAN, grant : Nat \cup {AnyOperation}, low : BOOLEAN]

Phases == {"idle", "turn", "proposed", "asking", "waiting"}
Runs ==
  [phase : Phases, seen : SUBSET Nat, inputs : SUBSET Nat, mark : Nat,
   proposal : Nat, request : Nat]

Shapes ==
  /\ log \in Seq(Entries)
  /\ minimum \in [Tasks -> Levels]
  /\ loop \in [Tasks -> Runs]
  /\ \A i \in unrefused : i \in 1 .. Len(log) /\ log[i].kind \in GatedKinds

-----------------------------------------------------------------------------
(* What an instruction of e is worth at most. *)
Ceiling(e) == Assess(System, e.creator, e.who).effective

(* What the events before position i say of event e at i: it acts for an   *)
(* earlier one, inputs are worth no more than their identity, an answer is *)
(* to a request and grants any operation or the one that was asked for.    *)
ActsForEarlier(i, e) ==
  e.parent \in 0 .. (i - 1) /\ (e.parent # NoEvent => e.creator = "Model")
IsAssessed(e) ==
  External(e) =>
    /\ e.kind \in {"UserMessage", "Alert", "ToolResult", "CancellationRequested",
                   "MinimumControlPermissionChanged", "ApprovalSubmitted"}
    /\ e.kind \in {"UserMessage", "Alert", "ApprovalSubmitted"} =>
         e.assessment.effective <= Ceiling(e)
IsAnswer(events, i, e) ==
  /\ e.request \in 1 .. (i - 1)
  /\ events[e.request].kind = "ApprovalRequested"
  /\ e.approved => e.grant \in {AnyOperation, events[e.request].proposal}
IsRequest(events, i, e) ==
  /\ e.proposal \in 1 .. (i - 1)
  /\ events[e.proposal].kind = "Proposed"
  /\ events[e.proposal].op \in Operations
IsRefusal(events, i, e) ==
  e.request \in 1 .. (i - 1) /\ events[e.request].kind \in GatedKinds
Placed(events, i, e) ==
  /\ ActsForEarlier(i, e) /\ IsAssessed(e)
  /\ e.kind = "ApprovalSubmitted" => External(e) /\ IsAnswer(events, i, e)
  /\ e.kind = "ApprovalRequested" => IsRequest(events, i, e)
  /\ e.kind = "InputRejected" => IsRefusal(events, i, e)
  /\ e.request # NoEvent => e.kind \in {"ApprovalSubmitted", "InputRejected"}

EventsArePlaced(events) == \A i \in 1 .. Len(events) : Placed(events, i, events[i])

-----------------------------------------------------------------------------
(* A basis of proposal p whose grant, if it is an approval, is for it.     *)
IsAncestor(events, b, p) ==
  \E n \in 0 .. Len(events) : Path(events, p, Len(events))[n] = b
IsInstruction(e) ==
  /\ External(e)
  /\ e.kind \in {"UserMessage", "Alert"} \/ (e.kind = "ApprovalSubmitted" /\ e.approved)
GrantFits(events, e, op) ==
  e.kind = "ApprovalSubmitted" => e.grant = AnyOperation \/ events[e.grant].op = op
IsBasis(events, b, p) ==
  /\ b \in 1 .. Len(events) /\ p \in 1 .. Len(events)
  /\ IsInstruction(events[b])
  /\ Ceiling(events[b]) >= Required[events[p].op]
  /\ GrantFits(events, events[b], events[p].op)
  /\ \/ IsAncestor(events, b, p)
     \/ events[b].kind = "ApprovalSubmitted" /\ events[events[b].request].proposal = p

StartsHaveBases(events) ==
  \A i \in 1 .. Len(events) :
    events[i].kind = "Started" => \E b \in 1 .. Len(events) : IsBasis(events, b, events[i].proposal)

(* A run that holds a proposal holds one of its task's events, and one     *)
(* that asks for an approval the request made for it.                      *)
HoldsProposal(events, run) ==
  /\ run.proposal \in 1 .. Len(events)
  /\ events[run.proposal].kind = "Proposed"
HoldsRequest(events, run) ==
  /\ run.request \in 1 .. Len(events)
  /\ events[run.request].kind = "ApprovalRequested"
  /\ events[run.request].proposal = run.proposal
  /\ events[run.proposal].op \in Operations
Holds(events, run) ==
  /\ run.phase \in {"proposed", "asking", "waiting"} => HoldsProposal(events, run)
  /\ run.phase \in {"asking", "waiting"} => HoldsRequest(events, run)
RunsHoldTheirTools == \A t \in Tasks : Holds(log, loop[t])

(* An approval is only asked for when the chain of the proposal itself     *)
(* does not reach, so what starts the tool later is the answer.            *)
IsTooWeak(p) == \A ev \in ResolveAuthorityChain(p) : ev.permission < Required[log[p].op]
AskedForMore ==
  \A t \in Tasks : loop[t].phase \in {"asking", "waiting"} => IsTooWeak(loop[t].proposal)

IInv ==
  /\ Shapes /\ EventsArePlaced(log) /\ StartsHaveBases(log)
  /\ RunsHoldTheirTools /\ AskedForMore

-----------------------------------------------------------------------------
(***************************************************************************)
(* The way up from an event.                                               *)
(***************************************************************************)
Less == {p \in Nat \X Nat : p[1] < p[2]}

(* A set of positions has a first one. *)
LEMMA FirstExists ==
  ASSUME NEW S, S \subseteq Nat, S # {}
  PROVE  \E x \in S : \A y \in S : x <= y
<1>1. Less = OpToRel(<, Nat)
  BY DEF Less, OpToRel
<1>2. IsWellFoundedOn(Less, Nat)
  BY <1>1, NatLessThanWellFounded
<1>3. PICK x \in S : \A y \in S : ~ (<<y, x>> \in Less)
  BY <1>2, WFMin
<1>4. ASSUME NEW y \in S, ~ (<<y, x>> \in Less) PROVE x <= y
  BY <1>4 DEF Less
<1> QED BY <1>3, <1>4

Above(events, j) == IF j = NoEvent THEN NoEvent ELSE events[j].parent
IsPath(events, i, up, depth) ==
  up = [n \in 0 .. depth |-> IF n = 0 THEN i ELSE Above(events, up[n - 1])]

(* There is a way up of any length. *)
LEMMA PathExists ==
  ASSUME NEW events, NEW i, NEW depth \in Nat
  PROVE  \E up : IsPath(events, i, up, depth)
<1> DEFINE Bad == {k \in Nat : ~ \E up : IsPath(events, i, up, k)}
<1> SUFFICES ASSUME Bad # {} PROVE FALSE
  OBVIOUS
<1>1. PICK k \in Bad : \A j \in Bad : k <= j
  BY FirstExists
<1>2. CASE k = 0
  <2>1. IsPath(events, i, [n \in 0 .. 0 |-> i], 0)
    BY DEF IsPath
  <2> QED BY <1>1, <1>2, <2>1
<1>3. CASE k # 0
  <2>1. k - 1 \in Nat /\ k - 1 \notin Bad
    BY <1>1, <1>3
  <2>2. PICK shorter : IsPath(events, i, shorter, k - 1)
    BY <2>1
  <2> DEFINE longer == [n \in 0 .. k |-> IF n = k THEN Above(events, shorter[k - 1])
                                                  ELSE shorter[n]]
  <2>3. \A n \in 0 .. k : longer[n] = IF n = 0 THEN i ELSE Above(events, longer[n - 1])
    <3> SUFFICES ASSUME NEW n \in 0 .. k
                 PROVE  longer[n] = IF n = 0 THEN i ELSE Above(events, longer[n - 1])
      OBVIOUS
    <3>1. CASE n = k
      <4>1. longer[n - 1] = shorter[k - 1]
        BY <1>3, <2>1, <3>1
      <4> QED BY <1>3, <3>1, <4>1
    <3>2. CASE n # k
      <4>1. n \in 0 .. (k - 1) /\ longer[n] = shorter[n]
        BY <2>1, <3>2
      <4>2. shorter[n] = IF n = 0 THEN i ELSE Above(events, shorter[n - 1])
        BY <2>2, <4>1 DEF IsPath
      <4>3. n # 0 => longer[n - 1] = shorter[n - 1]
        BY <2>1, <3>2
      <4> QED BY <4>1, <4>2, <4>3
    <3> QED BY <3>1, <3>2
  <2>4. IsPath(events, i, longer, k)
    <3> DEFINE again == [n \in 0 .. k |-> IF n = 0 THEN i ELSE Above(events, longer[n - 1])]
    <3>1. \A n \in 0 .. k : again[n] = IF n = 0 THEN i ELSE Above(events, longer[n - 1])
      OBVIOUS
    <3>2. longer = [n \in 0 .. k |-> longer[n]] /\ again = [n \in 0 .. k |-> again[n]]
      OBVIOUS
    <3> HIDE DEF longer, again
    <3>3. longer = again
      BY <2>3, <3>1, <3>2
    <3> QED BY <3>3 DEF IsPath, again
  <2> QED BY <1>1, <2>4
<1> QED BY <1>2, <1>3

(* Each step of it goes to the event that is acted for. *)
LEMMA PathStepByStep ==
  ASSUME NEW events, NEW i, NEW depth \in Nat
  PROVE  /\ Path(events, i, depth)[0] = i
         /\ \A n \in 1 .. depth :
              Path(events, i, depth)[n] = Above(events, Path(events, i, depth)[n - 1])
<1>1. Path(events, i, depth) = CHOOSE up : IsPath(events, i, up, depth)
  BY DEF Path, IsPath, Above
<1>2. IsPath(events, i, Path(events, i, depth), depth)
  BY <1>1, PathExists
<1>3. \A n \in 0 .. depth :
        Path(events, i, depth)[n] =
          IF n = 0 THEN i ELSE Above(events, Path(events, i, depth)[n - 1])
  BY <1>2 DEF IsPath
<1> QED BY <1>3

(* It stays in the log, and ends: every step is to an earlier event. *)
LEMMA PathGoesDown ==
  ASSUME NEW events \in Seq(Entries), EventsArePlaced(events),
         NEW i \in 1 .. Len(events), NEW depth \in Nat
  PROVE  \A n \in 0 .. depth :
           /\ Path(events, i, depth)[n] \in 0 .. Len(events)
           /\ Path(events, i, depth)[n] # NoEvent => Path(events, i, depth)[n] + n <= i
<1> DEFINE up == Path(events, i, depth)
           Good(n) == up[n] \in 0 .. Len(events) /\ (up[n] # NoEvent => up[n] + n <= i)
           Bad == {n \in 0 .. depth : ~ Good(n)}
<1>1. Len(events) \in Nat
  BY LenProperties
<1>2. up[0] = i /\ \A n \in 1 .. depth : up[n] = Above(events, up[n - 1])
  BY PathStepByStep
<1> HIDE DEF up
<1>3. Bad = {}
  <2> SUFFICES ASSUME Bad # {} PROVE FALSE
    OBVIOUS
  <2>1. Bad \subseteq Nat
    OBVIOUS
  <2>2. PICK n \in Bad : \A m \in Bad : n <= m
    BY <2>1, FirstExists
  <2>3. CASE n = 0
    BY <1>1, <1>2, <2>2, <2>3
  <2>4. CASE n # 0
    <3>1. n - 1 \in 0 .. depth /\ n - 1 \notin Bad /\ n \in 1 .. depth
      BY <2>2, <2>4
    <3>2. Good(n - 1) /\ up[n] = Above(events, up[n - 1])
      BY <1>2, <3>1
    <3>3. CASE up[n - 1] = NoEvent
      BY <1>1, <2>2, <3>2, <3>3 DEF Above
    <3>4. CASE up[n - 1] # NoEvent
      <4>1. up[n - 1] \in 1 .. Len(events) /\ up[n] = events[up[n - 1]].parent
        BY <1>1, <3>2, <3>4 DEF Above, NoEvent
      <4>2. events[up[n - 1]].parent \in 0 .. (up[n - 1] - 1)
        BY <4>1 DEF EventsArePlaced, Placed, ActsForEarlier
      <4> QED BY <1>1, <2>2, <3>1, <3>2, <3>4, <4>1, <4>2
    <3> QED BY <3>3, <3>4
  <2> QED BY <2>3, <2>4
<1> QED BY <1>3 DEF up

(* It is the same however far it is followed and whatever comes later. *)
LEMMA SamePath ==
  ASSUME NEW s \in Seq(Entries), EventsArePlaced(s), NEW t,
         \A j \in 1 .. Len(s) : t[j] = s[j],
         NEW i \in 1 .. Len(s), NEW a \in Nat, NEW b \in Nat, NEW n \in 0 .. a, n \in 0 .. b
  PROVE  Path(s, i, a)[n] = Path(t, i, b)[n]
<1> DEFINE up == Path(s, i, a)
           again == Path(t, i, b)
           Bad == {k \in 0 .. n : up[k] # again[k]}
<1>1. /\ up[0] = i /\ \A k \in 1 .. a : up[k] = Above(s, up[k - 1])
      /\ again[0] = i /\ \A k \in 1 .. b : again[k] = Above(t, again[k - 1])
  BY PathStepByStep
<1>2. Len(s) \in Nat /\ \A k \in 0 .. a : up[k] \in 0 .. Len(s)
  BY PathGoesDown, LenProperties
<1> HIDE DEF up, again
<1>3. Bad = {}
  <2> SUFFICES ASSUME Bad # {} PROVE FALSE
    OBVIOUS
  <2>1. Bad \subseteq Nat
    OBVIOUS
  <2>2. PICK k \in Bad : \A m \in Bad : k <= m
    BY <2>1, FirstExists
  <2>3. CASE k = 0
    BY <1>1, <2>2, <2>3
  <2>4. CASE k # 0
    <3>1. k - 1 \in 0 .. n /\ k - 1 \notin Bad /\ k \in 1 .. a /\ k \in 1 .. b /\ k - 1 \in 0 .. a
      BY <2>2, <2>4
    <3>2. up[k - 1] = again[k - 1]
      BY <3>1
    <3>3. Above(s, up[k - 1]) = Above(t, up[k - 1])
      <4>1. up[k - 1] \in 0 .. Len(s)
        BY <1>2, <3>1
      <4>2. up[k - 1] # NoEvent => up[k - 1] \in 1 .. Len(s)
        BY <1>2, <4>1 DEF NoEvent
      <4> QED BY <4>2 DEF Above
    <3> QED BY <1>1, <2>2, <3>1, <3>2, <3>3
  <2> QED BY <2>3, <2>4
<1>4. n \in 0 .. n
  OBVIOUS
<1> QED BY <1>3, <1>4 DEF up, again

-----------------------------------------------------------------------------
(***************************************************************************)
(* What an authority chain is worth.                                       *)
(***************************************************************************)
(* The event an authority chain ends at is an ancestor. *)
LEMMA RootIsAnAncestor ==
  ASSUME NEW events \in Seq(Entries), EventsArePlaced(events), NEW p \in 1 .. Len(events),
         NEW n \in 0 .. MaxAuthorityDepth,
         Path(events, p, MaxAuthorityDepth)[n] # NoEvent
  PROVE  /\ Path(events, p, MaxAuthorityDepth)[n] \in 1 .. Len(events)
         /\ IsAncestor(events, Path(events, p, MaxAuthorityDepth)[n], p)
<1> DEFINE b == Path(events, p, MaxAuthorityDepth)[n]
<1>1. Len(events) \in Nat /\ MaxAuthorityDepth \in Nat
  BY LenProperties DEF MaxAuthorityDepth
<1>2. b \in 0 .. Len(events) /\ b + n <= p /\ b \in 1 .. Len(events)
  BY <1>1, PathGoesDown DEF NoEvent
<1>3. n \in 0 .. Len(events)
  BY <1>1, <1>2
<1>4. Path(events, p, Len(events))[n] = b
  BY <1>1, <1>3, SamePath
<1> QED BY <1>2, <1>3, <1>4 DEF IsAncestor

(* A basis stays one, whatever is recorded later. *)
LEMMA BasisStays ==
  ASSUME NEW s \in Seq(Entries), NEW t \in Seq(Entries), EventsArePlaced(s),
         Len(t) = Len(s) + 1, \A j \in 1 .. Len(s) : t[j] = s[j],
         NEW b, NEW p, IsBasis(s, b, p)
  PROVE  IsBasis(t, b, p)
<1>1. Len(s) \in Nat /\ b \in 1 .. Len(s) /\ p \in 1 .. Len(s)
      /\ b \in 1 .. Len(t) /\ p \in 1 .. Len(t) /\ t[b] = s[b] /\ t[p] = s[p]
  BY LenProperties DEF IsBasis
<1>2. IsAncestor(s, b, p) => IsAncestor(t, b, p)
  <2> SUFFICES ASSUME NEW n \in 0 .. Len(s), Path(s, p, Len(s))[n] = b
               PROVE  IsAncestor(t, b, p)
    BY DEF IsAncestor
  <2>1. n \in 0 .. Len(t) /\ Len(t) \in Nat
    BY <1>1
  <2>2. Path(t, p, Len(t))[n] = b
    BY <1>1, <2>1, SamePath
  <2> QED BY <2>1, <2>2 DEF IsAncestor
<1>3. s[b].kind = "ApprovalSubmitted" =>
        s[b].request \in 1 .. Len(s) /\ t[s[b].request] = s[s[b].request]
  BY <1>1 DEF EventsArePlaced, Placed, IsAnswer
<1>4. GrantFits(s, s[b], s[p].op) => GrantFits(t, s[b], s[p].op)
  <2> SUFFICES ASSUME s[b].kind = "ApprovalSubmitted", s[b].approved, s[b].grant # AnyOperation
               PROVE  t[s[b].grant] = s[s[b].grant]
    BY DEF GrantFits, IsBasis, IsInstruction
  <2>1. s[b].grant = s[s[b].request].proposal /\ s[b].request \in 1 .. Len(s)
        /\ s[s[b].request].kind = "ApprovalRequested"
    BY <1>1 DEF EventsArePlaced, Placed, IsAnswer
  <2>2. s[s[b].request].proposal \in 1 .. Len(s)
    BY <1>1, <2>1 DEF EventsArePlaced, Placed, IsRequest
  <2> QED BY <2>1, <2>2
<1> QED BY <1>1, <1>2, <1>3, <1>4 DEF IsBasis

(* The level of some evidence reaches the tool. *)
LEMMA StrongestCounts ==
  ASSUME NEW evidence, \A ev \in evidence : ev.permission \in Levels,
         NEW op, Required[op] \in Levels, Required[op] # None, Allowed(op, evidence)
  PROVE  \E ev \in evidence : ev.permission >= Required[op]
<1> DEFINE levels == {ev.permission : ev \in evidence} \cup {None}
           strongest == CHOOSE l \in levels : \A k \in levels : k <= l
<1>1. levels \subseteq 0 .. 4 /\ 0 \in levels
  BY DEF Levels, None
<1> HIDE DEF levels
<1>2. \E l \in levels : \A k \in levels : k <= l
  <2>1. CASE 4 \in levels
    BY <1>1, <2>1
  <2>2. CASE 4 \notin levels /\ 3 \in levels
    BY <1>1, <2>2
  <2>3. CASE 4 \notin levels /\ 3 \notin levels /\ 2 \in levels
    BY <1>1, <2>3
  <2>4. CASE 4 \notin levels /\ 3 \notin levels /\ 2 \notin levels
    BY <1>1, <2>4
  <2> QED BY <2>1, <2>2, <2>3, <2>4
<1>3. strongest \in levels
  BY <1>2
<1>4. strongest >= Required[op]
  BY DEF Allowed, EffectivePermission, levels
<1> HIDE DEF strongest
<1>5. strongest # 0
  BY <1>4 DEF Levels, None
<1>6. \E ev \in evidence : ev.permission = strongest
  BY <1>3, <1>5 DEF levels, None
<1> QED BY <1>4, <1>6

(* What one event is worth by itself. *)
LEMMA EvidenceOfOneEvent ==
  ASSUME ConstantsFit, Shapes, EventsArePlaced(log), NEW b \in 1 .. Len(log)
  PROVE  /\ EvidenceOf(b).permission \in Levels
         /\ EvidenceOf(b).creator = log[b].creator
         /\ EvidenceOf(b).request = log[b].request /\ EvidenceOf(b).grant = log[b].grant
         /\ EvidenceOf(b).permission # None /\ CanBeParent(EvidenceOf(b)) =>
              /\ IsInstruction(log[b])
              /\ EvidenceOf(b).permission <= Ceiling(log[b])
<1> DEFINE e == log[b]
<1>1. e \in Entries /\ Placed(log, b, e)
  BY ElementOfSeq DEF Shapes, EventsArePlaced
<1>2. e.assessment.effective \in Levels /\ None \in Levels /\ System \in Levels
  BY <1>1 DEF Entries, Assessments, Levels, None, System
<1>3. /\ EvidenceOf(b).permission = EventPermission(e)
      /\ EvidenceOf(b).creator = e.creator /\ EvidenceOf(b).class = EventClass(e)
      /\ EvidenceOf(b).request = e.request /\ EvidenceOf(b).grant = e.grant
  BY DEF EvidenceOf
<1> HIDE DEF e
<1>4. DirectPermission(e) \in Levels
      /\ (DirectPermission(e) # None /\ e.creator # "System" =>
            External(e) /\ DirectPermission(e) = e.assessment.effective)
  BY <1>2 DEF DirectPermission
<1>5. EventPermission(e) \in Levels
  BY <1>2, <1>4 DEF EventPermission
<1>6. ASSUME EventPermission(e) # None, e.creator # "System", EventClass(e) # "Control"
      PROVE  IsInstruction(e) /\ EventPermission(e) <= Ceiling(e)
  <2>1. EventClass(e) # "Tool" /\ e.kind \notin {"ToolResult", "CancellationRequested"}
    <3>1. ASSUME EventClass(e) = "Tool" \/ e.kind \in {"ToolResult", "CancellationRequested"}
          PROVE  EventPermission(e) = None
      <4>1. e.kind = "ApprovalSubmitted" => EventClass(e) = "Ingress"
        BY DEF EventClass
      <4> QED BY <1>6, <3>1, <4>1 DEF EventPermission
    <3> QED BY <1>6, <3>1
  <2>2. e.kind \in ContextKinds \cup {"ApprovalSubmitted", "CancellationRequested"}
    BY <1>6, <2>1 DEF EventClass
  <2>3. CASE e.kind = "ApprovalSubmitted"
    <3>1. e.approved /\ EventPermission(e) = e.assessment.effective
      BY <1>6, <2>1, <2>3 DEF EventPermission
    <3> QED BY <1>1, <2>3, <3>1 DEF IsInstruction, Placed, IsAssessed
  <2>4. CASE e.kind # "ApprovalSubmitted"
    <3>1. EventPermission(e) = DirectPermission(e)
      BY <1>6, <2>1, <2>4 DEF EventPermission
    <3>2. External(e) /\ EventPermission(e) = e.assessment.effective
      BY <1>4, <1>6, <3>1
    <3> QED BY <1>1, <2>1, <2>2, <2>4, <3>2 DEF IsInstruction, Placed, IsAssessed, ContextKinds
  <2> QED BY <2>3, <2>4
<1> QED BY <1>3, <1>5, <1>6 DEF e, CanBeParent

(* What an authority chain gives is worth something only as the            *)
(* instruction of somebody outside, who is an ancestor.                    *)
LEMMA ChainEndsAtAnInstruction ==
  ASSUME ConstantsFit, Shapes, EventsArePlaced(log), NEW p \in 1 .. Len(log),
         NEW ev \in ResolveAuthorityChain(p)
  PROVE  /\ ev.permission \in Levels
         /\ ev.permission # None =>
              \E n \in 0 .. MaxAuthorityDepth, b \in 1 .. Len(log) :
                /\ b = Path(log, p, MaxAuthorityDepth)[n] /\ IsAncestor(log, b, p)
                /\ IsInstruction(log[b]) /\ ev.permission <= Ceiling(log[b])
                /\ ev.request = log[b].request /\ ev.grant = log[b].grant
<1> DEFINE chain == {Path(log, p, MaxAuthorityDepth)[n] : n \in 0 .. (MaxAuthorityDepth - 1)}
                      \ {NoEvent}
           roots == {j \in chain : log[j].parent = NoEvent}
<1>1. /\ \A j \in chain : CanBeParent(EvidenceOf(j))
      /\ \E j \in roots :
           ev = IF EvidenceOf(j).creator \in {"Model", "Tool"}
                THEN [EvidenceOf(j) EXCEPT !.permission = None] ELSE EvidenceOf(j)
  BY DEF ResolveAuthorityChain
<1>2. PICK b \in roots :
        ev = IF EvidenceOf(b).creator \in {"Model", "Tool"}
             THEN [EvidenceOf(b) EXCEPT !.permission = None] ELSE EvidenceOf(b)
  BY <1>1
<1>3. PICK n \in 0 .. (MaxAuthorityDepth - 1) : b = Path(log, p, MaxAuthorityDepth)[n]
  BY <1>2
<1>4. n \in 0 .. MaxAuthorityDepth /\ b # NoEvent /\ CanBeParent(EvidenceOf(b))
  BY <1>1, <1>2 DEF MaxAuthorityDepth
<1>5. b \in 1 .. Len(log) /\ IsAncestor(log, b, p)
  BY <1>3, <1>4, RootIsAnAncestor DEF Shapes
<1> HIDE DEF chain, roots
<1>6. /\ EvidenceOf(b).permission \in Levels
      /\ EvidenceOf(b).request = log[b].request /\ EvidenceOf(b).grant = log[b].grant
      /\ EvidenceOf(b).permission # None =>
           IsInstruction(log[b]) /\ EvidenceOf(b).permission <= Ceiling(log[b])
  BY <1>4, <1>5, EvidenceOfOneEvent
<1>7. CASE EvidenceOf(b).creator \in {"Model", "Tool"}
  <2>1. ev = [EvidenceOf(b) EXCEPT !.permission = None]
    BY <1>2, <1>7
  <2>2. ev.permission = None
    BY <2>1 DEF EvidenceOf
  <2> QED BY <2>2 DEF Levels, None
<1>8. CASE EvidenceOf(b).creator \notin {"Model", "Tool"}
  <2>1. ev = EvidenceOf(b)
    BY <1>2, <1>8
  <2> QED BY <1>3, <1>4, <1>5, <1>6, <2>1
<1> QED BY <1>7, <1>8

(* The chain of an event that acts for none is that event. *)
LEMMA NothingAboveAnInput ==
  ASSUME NEW events, NEW a, a # NoEvent, events[a].parent = NoEvent, NEW depth \in Nat
  PROVE  \A n \in 0 .. depth : Path(events, a, depth)[n] \in {a, NoEvent}
<1> DEFINE up == Path(events, a, depth)
           Bad == {n \in 0 .. depth : up[n] \notin {a, NoEvent}}
<1>1. up[0] = a /\ \A n \in 1 .. depth : up[n] = Above(events, up[n - 1])
  BY PathStepByStep
<1> HIDE DEF up
<1> SUFFICES ASSUME Bad # {} PROVE FALSE
  BY DEF up
<1>2. Bad \subseteq Nat
  OBVIOUS
<1>3. PICK n \in Bad : \A m \in Bad : n <= m
  BY <1>2, FirstExists
<1>4. CASE n = 0
  BY <1>1, <1>3, <1>4
<1>5. CASE n # 0
  <2>1. n - 1 \in 0 .. depth /\ n - 1 \notin Bad /\ n \in 1 .. depth
    BY <1>3, <1>5
  <2>2. up[n] = Above(events, up[n - 1]) /\ up[n - 1] \in {a, NoEvent}
    BY <1>1, <2>1
  <2> QED BY <1>3, <2>2 DEF Above
<1> QED BY <1>4, <1>5

(* check: the chain of the proposal allows the tool, and the grants on it  *)
(* are for this operation.                                                 *)
LEMMA ChainIsABasis ==
  ASSUME ConstantsFit, Shapes, EventsArePlaced(log), NEW p \in 1 .. Len(log),
         log[p].op \in Operations,
         NEW ev \in ResolveAuthorityChain(p), ev.permission >= Required[log[p].op],
         GrantMatches(ev, log[p].op)
  PROVE  \E b \in 1 .. Len(log) : IsBasis(log, b, p)
<1> DEFINE level == Required[log[p].op]
<1>1. level \in 0 .. 4 /\ level # 0
  BY DEF ConstantsFit, Levels, None
<1>2. ev.permission \in Levels /\ ev.permission # None
  BY <1>1, ChainEndsAtAnInstruction DEF Levels, None
<1>3. PICK b \in 1 .. Len(log) :
        /\ IsAncestor(log, b, p) /\ IsInstruction(log[b]) /\ ev.permission <= Ceiling(log[b])
        /\ ev.request = log[b].request /\ ev.grant = log[b].grant
  BY <1>2, ChainEndsAtAnInstruction
<1>4. GrantFits(log, log[b], log[p].op)
  <2>1. log[b].kind = "ApprovalSubmitted" => log[b].request # NoEvent
    BY DEF EventsArePlaced, Placed, IsAnswer, NoEvent
  <2> QED BY <1>3, <2>1 DEF GrantFits, GrantMatches
<1>5. Ceiling(log[b]) >= level
  <2>1. Ceiling(log[b]) \in Levels
    <3>1. log[b] \in Entries
      BY ElementOfSeq DEF Shapes
    <3>2. log[b].creator \in Sources /\ log[b].who \in Principals \cup {Nobody}
      BY <1>3, <3>1 DEF IsInstruction, External, Entries
    <3>3. SourceMaximum[log[b].creator] \in Levels /\ SourceDefault[log[b].creator] \in Levels
          /\ (log[b].who # Nobody => Directory[log[b].who] \in Levels)
      BY <3>2 DEF ConstantsFit
    <3> QED BY <3>3 DEF Ceiling, Assess, Smaller, Levels, System
  <2> QED BY <1>1, <1>2, <1>3, <2>1 DEF Levels
<1> QED BY <1>3, <1>4, <1>5 DEF IsBasis


(* An approval of this very proposal is a basis of it. *)
LEMMA AnswerIsABasis ==
  ASSUME ConstantsFit, Shapes, EventsArePlaced(log), NEW p \in 1 .. Len(log),
         NEW a \in 1 .. Len(log), IsInstruction(log[a]),
         log[a].kind = "ApprovalSubmitted", log[log[a].request].proposal = p,
         Ceiling(log[a]) >= Required[log[p].op]
  PROVE  \E b \in 1 .. Len(log) : IsBasis(log, b, p)
<1>1. log[a].grant \in {AnyOperation, p}
  BY DEF EventsArePlaced, Placed, IsAnswer, IsInstruction
<1>2. GrantFits(log, log[a], log[p].op)
  BY <1>1 DEF GrantFits
<1> QED BY <1>2 DEF IsBasis

(* The chain of an answer is the answer. *)
LEMMA ChainOfAnAnswer ==
  ASSUME ConstantsFit, Shapes, EventsArePlaced(log), NEW a \in 1 .. Len(log),
         log[a].kind = "ApprovalSubmitted",
         NEW ev \in ResolveAuthorityChain(a), ev.permission # None
  PROVE  IsInstruction(log[a]) /\ ev.permission <= Ceiling(log[a])
<1>1. PICK n \in 0 .. MaxAuthorityDepth, b \in 1 .. Len(log) :
        /\ b = Path(log, a, MaxAuthorityDepth)[n]
        /\ IsInstruction(log[b]) /\ ev.permission <= Ceiling(log[b])
  BY ChainEndsAtAnInstruction
<1>2. log[a].parent = NoEvent /\ a # NoEvent
  <2>1. Placed(log, a, log[a]) /\ External(log[a])
    BY DEF EventsArePlaced, Placed
  <2>2. log[a].creator # "Model"
    BY <2>1 DEF External, ConstantsFit
  <2> QED BY <2>1, <2>2 DEF Placed, ActsForEarlier, NoEvent
<1>3. MaxAuthorityDepth \in Nat
  BY DEF MaxAuthorityDepth
<1>4. b \in {a, NoEvent}
  BY <1>1, <1>2, <1>3, NothingAboveAnInput
<1> QED BY <1>1, <1>4 DEF NoEvent

(* check finds nothing strong enough: all of it is weaker than the tool. *)
LEMMA TheRestIsTooWeak ==
  ASSUME NEW evidence, \A ev \in evidence : ev.permission \in Levels,
         NEW op, Required[op] \in Levels, ~ Allowed(op, evidence)
  PROVE  \A ev \in evidence : ev.permission < Required[op]
<1> DEFINE levels == {ev.permission : ev \in evidence} \cup {None}
           strongest == CHOOSE l \in levels : \A k \in levels : k <= l
<1>1. levels \subseteq 0 .. 4 /\ 0 \in levels
  BY DEF Levels, None
<1>2. \A ev \in evidence : ev.permission \in levels
  OBVIOUS
<1>3. ~ (strongest >= Required[op])
  BY DEF Allowed, EffectivePermission
<1> HIDE DEF levels
<1>4. \E l \in levels : \A k \in levels : k <= l
  <2>1. CASE 4 \in levels
    BY <1>1, <2>1
  <2>2. CASE 4 \notin levels /\ 3 \in levels
    BY <1>1, <2>2
  <2>3. CASE 4 \notin levels /\ 3 \notin levels /\ 2 \in levels
    BY <1>1, <2>3
  <2>4. CASE 4 \notin levels /\ 3 \notin levels /\ 2 \notin levels
    BY <1>1, <2>4
  <2> QED BY <2>1, <2>2, <2>3, <2>4
<1>5. strongest \in levels /\ \A k \in levels : k <= strongest
  BY <1>4
<1> HIDE DEF strongest
<1> QED BY <1>1, <1>2, <1>3, <1>5 DEF Levels

(* What a chain gives does not change as events are recorded. *)
LEMMA ChainStays ==
  ASSUME Shapes, EventsArePlaced(log), log' \in Seq(Entries), Len(log') >= Len(log),
         \A j \in 1 .. Len(log) : log'[j] = log[j], NEW p \in 1 .. Len(log)
  PROVE  ResolveAuthorityChain(p)' = ResolveAuthorityChain(p)
<1>1. Len(log) \in Nat /\ MaxAuthorityDepth \in Nat
  BY LenProperties DEF Shapes, MaxAuthorityDepth
<1>2. \A n \in 0 .. MaxAuthorityDepth :
        Path(log', p, MaxAuthorityDepth)[n] = Path(log, p, MaxAuthorityDepth)[n]
  BY <1>1, SamePath DEF Shapes
<1>3. \A n \in 0 .. MaxAuthorityDepth : Path(log, p, MaxAuthorityDepth)[n] \in 0 .. Len(log)
  BY <1>1, PathGoesDown DEF Shapes
<1> DEFINE chain == {Path(log, p, MaxAuthorityDepth)[n] : n \in 0 .. (MaxAuthorityDepth - 1)}
                      \ {NoEvent}
           chain2 == {Path(log', p, MaxAuthorityDepth)[n] : n \in 0 .. (MaxAuthorityDepth - 1)}
                      \ {NoEvent}
<1>4. chain2 = chain
  BY <1>2 DEF MaxAuthorityDepth
<1>5. chain \subseteq 1 .. Len(log)
  <2> SUFFICES ASSUME NEW n \in 0 .. (MaxAuthorityDepth - 1),
                      Path(log, p, MaxAuthorityDepth)[n] # NoEvent
               PROVE  Path(log, p, MaxAuthorityDepth)[n] \in 1 .. Len(log)
    OBVIOUS
  <2>1. n \in 0 .. MaxAuthorityDepth
    BY <1>1
  <2>2. Path(log, p, MaxAuthorityDepth)[n] \in 0 .. Len(log)
    BY <1>3, <2>1
  <2> QED BY <1>1, <2>2 DEF NoEvent
<1>6. \A j \in chain : EvidenceOf(j)' = EvidenceOf(j)
  <2> SUFFICES ASSUME NEW j \in 1 .. Len(log) PROVE EvidenceOf(j)' = EvidenceOf(j)
    BY <1>5
  <2>1. log'[j] = log[j]
    OBVIOUS
  <2> QED BY <2>1 DEF EvidenceOf
<1> DEFINE roots == {j \in chain : log[j].parent = NoEvent}
           roots2 == {j \in chain2 : log'[j].parent = NoEvent}
           evidence == {EvidenceOf(j) : j \in roots}
           evidence2 == {EvidenceOf(j)' : j \in roots2}
<1>7. roots2 = roots
  BY <1>4, <1>5
<1>8. evidence2 = evidence
  BY <1>6, <1>7
<1>9. (\A j \in chain2 : CanBeParent(EvidenceOf(j)')) <=> (\A j \in chain : CanBeParent(EvidenceOf(j)))
  BY <1>4, <1>6
<1>10. ResolveAuthorityChain(p) =
         IF \A j \in chain : CanBeParent(EvidenceOf(j))
         THEN {IF ev.creator \in {"Model", "Tool"} THEN [ev EXCEPT !.permission = None] ELSE ev :
                 ev \in evidence}
         ELSE {}
  BY DEF ResolveAuthorityChain
<1>11. ResolveAuthorityChain(p)' =
         IF \A j \in chain2 : CanBeParent(EvidenceOf(j)')
         THEN {IF ev.creator \in {"Model", "Tool"} THEN [ev EXCEPT !.permission = None] ELSE ev :
                 ev \in evidence2}
         ELSE {}
  BY DEF ResolveAuthorityChain, CanBeParent
<1> HIDE DEF chain, chain2, roots, roots2, evidence, evidence2
<1> QED BY <1>8, <1>9, <1>10, <1>11

-----------------------------------------------------------------------------
(***************************************************************************)
(* What recording an event leaves as it was.                               *)
(***************************************************************************)
Extends ==
  /\ log' \in Seq(Entries) /\ Len(log') >= Len(log)
  /\ \A j \in 1 .. Len(log) : log'[j] = log[j]

(* An event with its place in the log is recorded; if it starts a tool     *)
(* there is a basis.                                                       *)
LEMMA OneMoreEvent ==
  ASSUME Shapes, EventsArePlaced(log), StartsHaveBases(log),
         NEW e \in Entries, log' = Append(log, e), Placed(log, Len(log) + 1, e),
         e.kind = "Started" => \E b \in 1 .. Len(log) : IsBasis(log, b, e.proposal)
  PROVE  /\ Extends /\ Len(log') = Len(log) + 1 /\ log'[Len(log) + 1] = e
         /\ EventsArePlaced(log') /\ StartsHaveBases(log')
         /\ \A i \in unrefused : i \in 1 .. Len(log') /\ log'[i].kind \in GatedKinds
<1>1. log \in Seq(Entries) /\ Len(log) \in Nat
  BY LenProperties DEF Shapes
<1>2. /\ log' \in Seq(Entries) /\ Len(log') = Len(log) + 1 /\ log'[Len(log) + 1] = e
      /\ \A j \in 1 .. Len(log) : log'[j] = log[j]
  BY <1>1, AppendProperties
<1>3. ASSUME NEW i \in 1 .. (Len(log) + 1), NEW d, Placed(log, i, d)
      PROVE  Placed(log', i, d)
  <2>1. \A j \in 1 .. (i - 1) : log'[j] = log[j]
    BY <1>1, <1>2
  <2>2. IsAnswer(log, i, d) => IsAnswer(log', i, d)
    BY <2>1 DEF IsAnswer
  <2>3. IsRequest(log, i, d) => IsRequest(log', i, d)
    BY <2>1 DEF IsRequest
  <2>4. IsRefusal(log, i, d) => IsRefusal(log', i, d)
    BY <2>1 DEF IsRefusal
  <2> QED BY <1>3, <2>2, <2>3, <2>4 DEF Placed
<1>4. EventsArePlaced(log')
  <2> SUFFICES ASSUME NEW i \in 1 .. Len(log') PROVE Placed(log', i, log'[i])
    BY DEF EventsArePlaced
  <2>1. CASE i = Len(log) + 1
    BY <1>1, <1>2, <1>3, <2>1
  <2>2. CASE i # Len(log) + 1
    <3>1. i \in 1 .. Len(log) /\ i \in 1 .. (Len(log) + 1) /\ log'[i] = log[i]
      BY <1>1, <1>2, <2>2
    <3>2. Placed(log, i, log[i])
      BY <3>1 DEF EventsArePlaced
    <3> QED BY <1>3, <3>1, <3>2
  <2> QED BY <2>1, <2>2
<1>5. StartsHaveBases(log')
  <2> SUFFICES ASSUME NEW i \in 1 .. Len(log'), log'[i].kind = "Started"
               PROVE  \E b \in 1 .. Len(log') : IsBasis(log', b, log'[i].proposal)
    BY DEF StartsHaveBases
  <2>1. \E b \in 1 .. Len(log) : IsBasis(log, b, log'[i].proposal)
    <3>1. CASE i = Len(log) + 1
      BY <1>2, <3>1
    <3>2. CASE i # Len(log) + 1
      <4>1. i \in 1 .. Len(log) /\ log'[i] = log[i]
        BY <1>1, <1>2, <3>2
      <4> QED BY <4>1 DEF StartsHaveBases
    <3> QED BY <3>1, <3>2
  <2>2. PICK b \in 1 .. Len(log) : IsBasis(log, b, log'[i].proposal)
    BY <2>1
  <2>3. IsBasis(log', b, log'[i].proposal)
    BY <1>1, <1>2, <2>2, BasisStays
  <2>4. b \in 1 .. Len(log')
    BY <1>1, <1>2
  <2> QED BY <2>3, <2>4
<1>6. \A i \in unrefused : i \in 1 .. Len(log') /\ log'[i].kind \in GatedKinds
  BY <1>1, <1>2 DEF Shapes
<1> QED BY <1>1, <1>2, <1>4, <1>5, <1>6 DEF Extends

(* Runs go on holding what they hold. *)
LEMMA RunKeeps ==
  ASSUME Shapes, Extends, NEW run, Holds(log, run)
  PROVE  Holds(log', run)
<1>1. Len(log) \in Nat /\ Len(log') \in Nat /\ 1 .. Len(log) \subseteq 1 .. Len(log')
  BY LenProperties DEF Shapes, Extends
<1>2. HoldsProposal(log, run) => HoldsProposal(log', run)
  BY <1>1 DEF HoldsProposal, Extends
<1>3. HoldsProposal(log, run) /\ HoldsRequest(log, run) => HoldsRequest(log', run)
  BY <1>1 DEF HoldsProposal, HoldsRequest, Extends
<1> QED BY <1>2, <1>3 DEF Holds

LEMMA StaysTooWeak ==
  ASSUME Shapes, EventsArePlaced(log), Extends, NEW p \in 1 .. Len(log), IsTooWeak(p)
  PROVE  IsTooWeak(p)'
<1>1. ResolveAuthorityChain(p)' = ResolveAuthorityChain(p)
  BY ChainStays DEF Extends
<1>2. log'[p] = log[p]
  BY DEF Extends
<1> QED BY <1>1, <1>2 DEF IsTooWeak

LEMMA NoRunChanges ==
  ASSUME IInv, Extends, UNCHANGED loop
  PROVE  RunsHoldTheirTools' /\ AskedForMore'
<1>1. ASSUME NEW t \in Tasks PROVE Holds(log', loop[t])
  <2>1. Holds(log, loop[t])
    BY DEF IInv, RunsHoldTheirTools
  <2> QED BY <2>1, RunKeeps DEF IInv
<1>2. ASSUME NEW t \in Tasks, loop[t].phase \in {"asking", "waiting"},
             NEW p, p = loop[t].proposal
      PROVE  IsTooWeak(p)'
  <2>1. p \in 1 .. Len(log)
    BY <1>2 DEF IInv, RunsHoldTheirTools, Holds, HoldsProposal
  <2>2. IsTooWeak(p)
    BY <1>2 DEF IInv, AskedForMore
  <2> QED BY <2>1, <2>2, StaysTooWeak DEF IInv
<1>3. RunsHoldTheirTools'
  BY <1>1 DEF RunsHoldTheirTools
<1>4. AskedForMore'
  BY <1>2 DEF AskedForMore, IsTooWeak
<1> QED BY <1>3, <1>4

LEMMA OneRunChanges ==
  ASSUME IInv, Extends, NEW t \in Tasks, NEW run \in Runs, loop' = [loop EXCEPT ![t] = run],
         Holds(log', run), run.phase \in {"asking", "waiting"} => IsTooWeak(run.proposal)'
  PROVE  loop' \in [Tasks -> Runs] /\ RunsHoldTheirTools' /\ AskedForMore'
<1>1. /\ loop \in [Tasks -> Runs] /\ loop' \in [Tasks -> Runs] /\ loop'[t] = run
      /\ \A u \in Tasks : u # t => loop'[u] = loop[u]
  BY DEF IInv, Shapes
<1>2. ASSUME NEW u \in Tasks PROVE Holds(log', loop'[u])
  <2>1. Holds(log, loop[u])
    BY DEF IInv, RunsHoldTheirTools
  <2>2. Holds(log', loop[u])
    BY <2>1, RunKeeps DEF IInv
  <2> QED BY <1>1, <2>2
<1>3. ASSUME NEW u \in Tasks, u # t, loop[u].phase \in {"asking", "waiting"},
             NEW p, p = loop[u].proposal
      PROVE  IsTooWeak(p)'
  <2>1. p \in 1 .. Len(log)
    BY <1>3 DEF IInv, RunsHoldTheirTools, Holds, HoldsProposal
  <2>2. IsTooWeak(p)
    BY <1>3 DEF IInv, AskedForMore
  <2> QED BY <2>1, <2>2, StaysTooWeak DEF IInv
<1>4. RunsHoldTheirTools'
  BY <1>2 DEF RunsHoldTheirTools
<1>5. AskedForMore'
  BY <1>1, <1>3 DEF AskedForMore, IsTooWeak
<1> QED BY <1>1, <1>4, <1>5

-----------------------------------------------------------------------------
(***************************************************************************)
(* What comes from outside, and what the core writes of it.                *)
(***************************************************************************)
LEMMA AssessmentFits ==
  ASSUME ConstantsFit, NEW s \in Sources, NEW w \in Principals \cup {Nobody}, NEW l \in Levels
  PROVE  /\ Assess(l, s, w) \in Assessments
         /\ Assess(l, s, w).effective <= Assess(System, s, w).effective
<1>1. SourceMaximum[s] \in Levels /\ SourceDefault[s] \in Levels
      /\ (w # Nobody => Directory[w] \in Levels)
  BY DEF ConstantsFit
<1> DEFINE identity == IF w = Nobody THEN SourceDefault[s] ELSE Directory[w]
<1>2. identity \in 0 .. 4 /\ SourceMaximum[s] \in 0 .. 4 /\ l \in 0 .. 4
  BY <1>1 DEF Levels
<1> HIDE DEF identity
<1>3. Assess(l, s, w) = [source |-> SourceMaximum[s], identity |-> identity,
                         effective |-> Smaller(l, Smaller(SourceMaximum[s], identity))]
  BY DEF Assess, identity
<1>4. Assess(System, s, w) = [source |-> SourceMaximum[s], identity |-> identity,
                         effective |-> Smaller(4, Smaller(SourceMaximum[s], identity))]
  BY DEF Assess, identity, System
<1> QED BY <1>2, <1>3, <1>4 DEF Assessments, Smaller, Levels

(* An event without parts is one the log can hold. *)
LEMMA PlainEvent ==
  ASSUME NEW t \in Tasks, NEW kind \in Kinds, NEW creator \in Sources \cup Insiders
  PROVE  Event(t, kind, creator) \in Entries
BY DEF Event, Entries, Places, NoAssessment, Assessments, Levels, None, NoEvent

(* What is recorded while no run moves. *)
LEMMA RecordedMeanwhile ==
  ASSUME IInv, NEW e \in Entries, log' = Append(log, e), Placed(log, Len(log) + 1, e),
         e.kind # "Started", UNCHANGED loop, minimum' \in [Tasks -> Levels],
         \A i \in unrefused' :
           i \in unrefused \/ (i = Len(log) + 1 /\ e.kind \in GatedKinds)
  PROVE  IInv'
<1>1. /\ Extends /\ Len(log') = Len(log) + 1 /\ log'[Len(log) + 1] = e
      /\ EventsArePlaced(log') /\ StartsHaveBases(log')
      /\ \A i \in unrefused : i \in 1 .. Len(log') /\ log'[i].kind \in GatedKinds
  BY OneMoreEvent DEF IInv
<1>2. Len(log) \in Nat
  BY LenProperties DEF IInv, Shapes
<1>3. RunsHoldTheirTools' /\ AskedForMore'
  BY <1>1, NoRunChanges
<1>4. \A i \in unrefused' : i \in 1 .. Len(log') /\ log'[i].kind \in GatedKinds
  BY <1>1, <1>2
<1>5. Shapes'
  BY <1>1, <1>4 DEF IInv, Shapes, Extends
<1> QED BY <1>1, <1>3, <1>5 DEF IInv

LEMMA RegisterStep ==
  ASSUME ConstantsFit, IInv, NEW d \in Drafts, Register(d)
  PROVE  IInv'
<1> DEFINE suggested == IF d.kind = "ToolResult" THEN None ELSE d.suggested
           a == Assess(suggested, d.source, d.who)
           low == d.kind \in GatedKinds /\ a.effective < minimum[d.task]
           input == [Event(d.task, d.kind, d.source) EXCEPT
                       !.who = d.who, !.place = d.place, !.assessment = a, !.low = low]
<1>1. /\ log' = Append(log, input) /\ UNCHANGED <<minimum, loop>>
      /\ unrefused' = IF low THEN unrefused \cup {Len(log')} ELSE unrefused
  BY DEF Register
<1>2. /\ d.task \in Tasks /\ d.source \in Sources /\ d.who \in Principals \cup {Nobody}
      /\ d.kind \in {"UserMessage", "Alert", "ToolResult", "CancellationRequested"}
      /\ suggested \in Levels /\ d.place \in Places
  BY DEF ConstantsFit, Levels, None, Places
<1>3. a \in Assessments /\ a.effective <= Assess(System, d.source, d.who).effective
  BY <1>2, AssessmentFits
<1>4. low \in BOOLEAN /\ (low => d.kind \in GatedKinds)
  OBVIOUS
<1> HIDE DEF a, low
<1>5. d.kind \in Kinds /\ d.source \in Sources \cup Insiders
  BY <1>2 DEF Kinds
<1>6. Event(d.task, d.kind, d.source) \in Entries
  BY <1>2, <1>5, PlainEvent
<1>7. input \in Entries
  BY <1>2, <1>3, <1>4, <1>6 DEF Entries
<1>8. /\ input.kind = d.kind /\ input.creator = d.source /\ input.who = d.who
      /\ input.assessment = a /\ input.parent = NoEvent /\ input.request = NoEvent
  BY DEF Event
<1> HIDE DEF input
<1>9. Len(log) \in Nat
  BY LenProperties DEF IInv, Shapes
<1>10. Placed(log, Len(log) + 1, input)
  BY <1>2, <1>3, <1>8, <1>9
  DEF Placed, ActsForEarlier, IsAssessed, IsInstruction, Ceiling, NoEvent
<1>11. Len(log') = Len(log) + 1
  BY <1>1, <1>7, AppendProperties DEF IInv, Shapes
<1>12. \A i \in unrefused' : i \in unrefused \/ (i = Len(log) + 1 /\ input.kind \in GatedKinds)
  BY <1>1, <1>4, <1>8, <1>11
<1>13. minimum' \in [Tasks -> Levels] /\ input.kind # "Started"
  BY <1>1, <1>2, <1>8 DEF IInv, Shapes
<1> QED BY <1>1, <1>7, <1>10, <1>12, <1>13, RecordedMeanwhile

LEMMA RejectInputStep ==
  ASSUME ConstantsFit, IInv, NEW i \in unrefused, RejectInput(i)
  PROVE  IInv'
<1> DEFINE plain == Event(log[i].task, "InputRejected", "System")
           e == [plain EXCEPT !.request = i]
<1>1. log' = Append(log, e) /\ UNCHANGED <<minimum, loop>> /\ unrefused' = unrefused \ {i}
  BY DEF RejectInput
<1>2. i \in 1 .. Len(log) /\ log[i].kind \in GatedKinds /\ Len(log) \in Nat
  BY LenProperties DEF IInv, Shapes
<1>3. log[i].task \in Tasks
  <2>1. log[i] \in Entries
    BY <1>2, ElementOfSeq DEF IInv, Shapes
  <2> QED BY <2>1 DEF Entries
<1>4. plain \in Entries
  BY <1>3, PlainEvent DEF Kinds, Insiders
<1>5. e \in Entries
  BY <1>2, <1>4 DEF Entries
<1>6. /\ e.kind = "InputRejected" /\ e.creator = "System" /\ e.parent = NoEvent /\ e.request = i
  BY DEF Event
<1> HIDE DEF e
<1>7. "System" \notin Sources
  BY DEF ConstantsFit
<1>8. Placed(log, Len(log) + 1, e)
  BY <1>2, <1>6, <1>7 DEF Placed, ActsForEarlier, IsAssessed, IsRefusal, External, NoEvent
<1>9. minimum' \in [Tasks -> Levels] /\ e.kind # "Started"
  BY <1>1, <1>6 DEF IInv, Shapes
<1> QED BY <1>1, <1>5, <1>8, <1>9, RecordedMeanwhile

LEMMA ExecuteControlStep ==
  ASSUME ConstantsFit, IInv, NEW c \in Changes, ExecuteControl(c)
  PROVE  IInv'
<1> DEFINE source == SourceOf[c.who]
           a == Assess(Directory[c.who], source, c.who)
           plain == Event(c.task, "MinimumControlPermissionChanged", source)
           e == [plain EXCEPT !.who = c.who, !.assessment = a]
<1>1. /\ log' = Append(log, e) /\ UNCHANGED <<unrefused, loop>>
      /\ minimum' = [minimum EXCEPT ![c.task] = c.level]
  BY DEF ExecuteControl
<1>2. /\ c.task \in Tasks /\ c.who \in Principals \cup {Nobody} /\ c.level \in Levels
      /\ Directory[c.who] \in Levels /\ source \in Sources
  BY DEF ConstantsFit
<1>3. a \in Assessments
  BY <1>2, AssessmentFits
<1>4. plain \in Entries
  BY <1>2, PlainEvent DEF Kinds
<1> HIDE DEF a
<1>5. e \in Entries
  BY <1>2, <1>3, <1>4 DEF Entries
<1>6. /\ e.kind = "MinimumControlPermissionChanged" /\ e.parent = NoEvent /\ e.request = NoEvent
  BY DEF Event
<1> HIDE DEF e
<1>7. Len(log) \in Nat
  BY LenProperties DEF IInv, Shapes
<1>8. Placed(log, Len(log) + 1, e)
  BY <1>6, <1>7 DEF Placed, ActsForEarlier, IsAssessed, NoEvent
<1>9. minimum' \in [Tasks -> Levels] /\ e.kind # "Started"
  BY <1>1, <1>2, <1>6 DEF IInv, Shapes
<1> QED BY <1>1, <1>5, <1>8, <1>9, RecordedMeanwhile

(* An answer to a request, with a grant only of what was asked for. *)
LEMMA AnswerIsRecorded ==
  ASSUME ConstantsFit, IInv, NEW w \in Principals, NEW r \in OfKind("ApprovalRequested"),
         NEW l \in Levels, NEW b \in BOOLEAN, NEW g,
         g \in IF b THEN {AnyOperation, log[r].proposal} ELSE {NoEvent},
         log' = Append(log, Approval(w, r, l, b, g)), UNCHANGED <<minimum, unrefused, loop>>
  PROVE  IInv'
<1> DEFINE source == SourceOf[w]
           a == Assess(l, source, w)
           plain == Event(log[r].task, "ApprovalSubmitted", source)
           e == [plain EXCEPT !.who = w, !.assessment = a, !.request = r,
                              !.approved = b, !.grant = g]
<1>1. log' = Append(log, e)
  BY DEF Approval
<1>2. /\ r \in 1 .. Len(log) /\ log[r].kind = "ApprovalRequested" /\ Len(log) \in Nat
  BY LenProperties DEF OfKind, IInv, Shapes
<1>3. log[r] \in Entries
  BY <1>2, ElementOfSeq DEF IInv, Shapes
<1>4. log[r].task \in Tasks /\ log[r].proposal \in Nat /\ source \in Sources
  BY <1>3 DEF Entries, ConstantsFit
<1>5. a \in Assessments /\ a.effective <= Assess(System, source, w).effective
  BY <1>4, AssessmentFits
<1>6. plain \in Entries
  BY <1>4, PlainEvent DEF Kinds
<1>7. g \in Nat \cup {AnyOperation}
  BY <1>4 DEF NoEvent
<1> HIDE DEF a
<1> HIDE DEF plain, source
<1>8. e \in Entries
  <2> DEFINE theirs == [plain EXCEPT !.who = w, !.assessment = a]
             asked == [theirs EXCEPT !.request = r, !.grant = g]
  <2>1. theirs \in Entries
    BY <1>5, <1>6 DEF Entries
  <2> HIDE DEF theirs
  <2>2. asked \in Entries
    <3>1. r \in Nat
      BY <1>2
    <3> QED BY <1>7, <2>1, <3>1 DEF Entries
  <2>3. e = [asked EXCEPT !.approved = b]
    BY <1>6 DEF Entries, theirs
  <2> HIDE DEF asked
  <2> QED BY <2>2, <2>3 DEF Entries
<1>9. /\ e.kind = "ApprovalSubmitted" /\ e.creator = source /\ e.who = w /\ e.assessment = a
      /\ e.parent = NoEvent /\ e.request = r /\ e.approved = b /\ e.grant = g
  BY DEF Event, plain
<1> HIDE DEF e
<1>10. Placed(log, Len(log) + 1, e)
  <2>1. IsAssessed(e) /\ External(e)
    BY <1>4, <1>5, <1>9 DEF IsAssessed, Ceiling, External
  <2>2. IsAnswer(log, Len(log) + 1, e)
    BY <1>2, <1>9 DEF IsAnswer
  <2> QED BY <1>2, <1>9, <2>1, <2>2 DEF Placed, ActsForEarlier, NoEvent
<1>11. minimum' \in [Tasks -> Levels] /\ e.kind # "Started"
  BY <1>9 DEF IInv, Shapes
<1> QED BY <1>1, <1>8, <1>10, <1>11, RecordedMeanwhile

LEMMA SubmitApprovalStep ==
  ASSUME ConstantsFit, IInv, NEW w \in Principals, NEW r \in OfKind("ApprovalRequested"),
         NEW l \in Suggestions, NEW b \in BOOLEAN, NEW g, SubmitApproval(w, r, l, b, g)
  PROVE  IInv'
<1>1. l \in Levels
  BY DEF ConstantsFit
<1>2. /\ g \in IF b THEN {AnyOperation, log[r].proposal} ELSE {NoEvent}
      /\ log' = Append(log, Approval(w, r, l, b, g)) /\ UNCHANGED <<minimum, unrefused, loop>>
  BY DEF SubmitApproval
<1> QED BY <1>1, <1>2, AnswerIsRecorded

LEMMA ConfirmStep ==
  ASSUME ConstantsFit, IInv, NEW w \in Principals, NEW r \in OfKind("ApprovalRequested"),
         NEW g, Confirm(w, r, g)
  PROVE  IInv'
<1>1. Operator \in Levels /\ TRUE \in BOOLEAN
  BY DEF Operator, Levels
<1>2. /\ g \in IF TRUE THEN {AnyOperation, log[r].proposal} ELSE {NoEvent}
      /\ log' = Append(log, Approval(w, r, Operator, TRUE, g))
      /\ UNCHANGED <<minimum, unrefused, loop>>
  BY DEF Confirm
<1> QED BY <1>1, <1>2, AnswerIsRecorded

-----------------------------------------------------------------------------
(***************************************************************************)
(* What the loop does.                                                     *)
(***************************************************************************)
(* What a run records and how it goes on. *)
LEMMA RecordedByTheRun ==
  ASSUME IInv, NEW e \in Entries, log' = Append(log, e), Placed(log, Len(log) + 1, e),
         e.kind = "Started" => \E b \in 1 .. Len(log) : IsBasis(log, b, e.proposal),
         NEW t \in Tasks, NEW run \in Runs, loop' = [loop EXCEPT ![t] = run],
         Holds(log', run), run.phase \in {"asking", "waiting"} => IsTooWeak(run.proposal)',
         UNCHANGED <<minimum, unrefused>>
  PROVE  IInv'
<1>1. /\ Extends /\ EventsArePlaced(log') /\ StartsHaveBases(log')
      /\ \A i \in unrefused : i \in 1 .. Len(log') /\ log'[i].kind \in GatedKinds
  BY OneMoreEvent DEF IInv
<1>2. loop' \in [Tasks -> Runs] /\ RunsHoldTheirTools' /\ AskedForMore'
  BY <1>1, OneRunChanges
<1>3. Shapes'
  BY <1>1, <1>2 DEF IInv, Shapes, Extends
<1> QED BY <1>1, <1>2, <1>3 DEF IInv

(* A tool is refused, or started with a basis. *)
LEMMA SettleStep ==
  ASSUME ConstantsFit, IInv, NEW t \in Tasks,
         loop[t].phase \in {"proposed", "asking", "waiting"},
         NEW kind \in {"Denied", "Started"}, NEW seen \in SUBSET Nat, Settle(t, kind, seen),
         kind = "Started" => \E b \in 1 .. Len(log) : IsBasis(log, b, loop[t].proposal),
         UNCHANGED <<minimum, unrefused>>
  PROVE  IInv'
<1>1. loop[t] \in Runs /\ loop \in [Tasks -> Runs] /\ Len(log) \in Nat
  BY LenProperties DEF IInv, Shapes
<1>2. loop[t].proposal \in 1 .. Len(log) /\ loop[t].proposal \in Nat
  BY <1>1 DEF IInv, RunsHoldTheirTools, Holds, HoldsProposal
<1> DEFINE plain == Event(t, kind, "Tool")
           e == [plain EXCEPT !.proposal = loop[t].proposal]
<1>3. plain \in Entries
  BY PlainEvent DEF Kinds, Insiders
<1>4. e \in Entries
  BY <1>2, <1>3 DEF Entries
<1>5. /\ e.kind = kind /\ e.creator = "Tool" /\ e.parent = NoEvent /\ e.request = NoEvent
      /\ e.proposal = loop[t].proposal
  BY DEF Event
<1>6. log' = Append(log, e)
  BY DEF Settle
<1> HIDE DEF e, plain
<1>7. Placed(log, Len(log) + 1, e)
  <2>1. ~ External(e)
    BY <1>5 DEF External, ConstantsFit
  <2> QED BY <1>1, <1>5, <2>1 DEF Placed, ActsForEarlier, IsAssessed, NoEvent
<1>8. PICK run : run = [loop[t] EXCEPT !.phase = "turn", !.seen = seen]
  OBVIOUS
<1>9. run \in Runs /\ run.phase = "turn"
  BY <1>1, <1>8 DEF Runs, Phases
<1>10. loop' = [loop EXCEPT ![t] = run]
  BY <1>1, <1>8 DEF Settle
<1>11. Holds(log', run)
  BY <1>9 DEF Holds
<1> QED BY <1>4, <1>5, <1>6, <1>7, <1>9, <1>10, <1>11, RecordedByTheRun

LEMMA StartRunStep ==
  ASSUME ConstantsFit, IInv, NEW t \in Tasks, StartRun(t)
  PROVE  IInv'
<1>1. loop \in [Tasks -> Runs] /\ log \in Seq(Entries) /\ Len(log) \in Nat
  BY LenProperties DEF IInv, Shapes
<1>2. UNCHANGED <<log, minimum, unrefused>>
  BY DEF StartRun
<1>3. PICK run : run = [Idle EXCEPT !.phase = "turn", !.seen = Visible(t),
                                    !.inputs = NewInputs(t), !.mark = Len(log)]
  OBVIOUS
<1>4. loop' = [loop EXCEPT ![t] = run]
  BY <1>3 DEF StartRun
<1>5. loop[t].mark \in Nat
  BY <1>1 DEF Runs
<1>6. Visible(t) \subseteq Nat
  BY <1>1 DEF Visible
<1>7. NewInputs(t) \subseteq Nat
  BY <1>1, <1>5 DEF NewInputs
<1>8. run \in Runs /\ run.phase = "turn"
  BY <1>1, <1>3, <1>6, <1>7 DEF Runs, Phases, Idle, NoEvent
<1>9. Extends
  BY <1>1, <1>2 DEF Extends
<1>10. Holds(log', run)
  BY <1>8 DEF Holds
<1>11. loop' \in [Tasks -> Runs] /\ RunsHoldTheirTools' /\ AskedForMore'
  BY <1>4, <1>8, <1>9, <1>10, OneRunChanges
<1>12. Shapes' /\ EventsArePlaced(log') /\ StartsHaveBases(log')
  BY <1>2, <1>11 DEF IInv, Shapes
<1> QED BY <1>11, <1>12 DEF IInv

LEMMA ProposeStep ==
  ASSUME ConstantsFit, IInv, NEW t \in Tasks, NEW op \in Operations \cup {Delegation},
         NEW parent \in 0 .. Len(log), Propose(t, op, parent)
  PROVE  IInv'
<1>1. loop \in [Tasks -> Runs] /\ log \in Seq(Entries) /\ Len(log) \in Nat /\ loop[t] \in Runs
  BY LenProperties DEF IInv, Shapes
<1> DEFINE plain == Event(t, "Proposed", "Model")
           e == [plain EXCEPT !.op = op, !.parent = parent]
<1>2. plain \in Entries
  BY PlainEvent DEF Kinds, Insiders
<1> HIDE DEF plain
<1>3. e \in Entries
  <2>1. parent \in Nat
    BY <1>1
  <2> QED BY <1>2, <2>1 DEF Entries
<1>4. /\ e.kind = "Proposed" /\ e.creator = "Model" /\ e.parent = parent /\ e.request = NoEvent
  BY DEF Event, plain
<1>5. log' = Append(log, e) /\ UNCHANGED <<minimum, unrefused>>
  BY DEF Propose, plain
<1> HIDE DEF e
<1>6. Placed(log, Len(log) + 1, e)
  <2>1. ~ External(e)
    BY <1>4 DEF External, ConstantsFit
  <2> QED BY <1>1, <1>4, <2>1 DEF Placed, ActsForEarlier, IsAssessed
<1>7. /\ log' \in Seq(Entries) /\ Len(log') = Len(log) + 1 /\ log'[Len(log) + 1] = e
  BY <1>1, <1>3, <1>5, AppendProperties
<1>8. PICK run : run = [loop[t] EXCEPT !.phase = "proposed", !.proposal = Len(log) + 1]
  OBVIOUS
<1>9. run \in Runs /\ run.phase = "proposed" /\ run.proposal = Len(log) + 1
  <2>1. loop[t] \in Runs /\ Len(log) + 1 \in Nat
    BY <1>1
  <2> QED BY <1>8, <2>1 DEF Runs, Phases
<1>10. loop' = [loop EXCEPT ![t] = run]
  BY <1>1, <1>7, <1>8 DEF Propose
<1>11. Holds(log', run)
  BY <1>1, <1>4, <1>7, <1>9 DEF Holds, HoldsProposal
<1> QED BY <1>3, <1>4, <1>5, <1>6, <1>9, <1>10, <1>11, RecordedByTheRun

LEMMA SourceDefersStep ==
  ASSUME ConstantsFit, IInv, NEW t \in Tasks, SourceDefers(t)
  PROVE  IInv'
<1>1. loop \in [Tasks -> Runs] /\ log \in Seq(Entries) /\ Len(log) \in Nat /\ loop[t] \in Runs
  BY LenProperties DEF IInv, Shapes
<1>2. UNCHANGED <<log, minimum, unrefused>> /\ loop[t].phase = "asking"
  BY DEF SourceDefers
<1>3. PICK run : run = [loop[t] EXCEPT !.phase = "waiting"]
  OBVIOUS
<1>4. loop' = [loop EXCEPT ![t] = run]
  BY <1>1, <1>3 DEF SourceDefers
<1>5. run \in Runs /\ run.proposal = loop[t].proposal /\ run.request = loop[t].request
  BY <1>1, <1>3 DEF Runs, Phases
<1>6. Extends
  BY <1>1, <1>2 DEF Extends
<1>7. HoldsProposal(log, loop[t]) /\ HoldsRequest(log, loop[t])
  BY <1>2 DEF IInv, RunsHoldTheirTools, Holds
<1>8. Holds(log', run)
  BY <1>2, <1>5, <1>7 DEF Holds, HoldsProposal, HoldsRequest
<1>9. IsTooWeak(run.proposal)'
  <2>1. run.proposal \in 1 .. Len(log)
    BY <1>5, <1>7 DEF HoldsProposal
  <2>2. IsTooWeak(run.proposal)
    BY <1>2, <1>5 DEF IInv, AskedForMore, IsTooWeak
  <2> QED BY <1>6, <2>1, <2>2, StaysTooWeak DEF IInv
<1>10. loop' \in [Tasks -> Runs] /\ RunsHoldTheirTools' /\ AskedForMore'
  BY <1>4, <1>5, <1>6, <1>8, <1>9, OneRunChanges
<1>11. Shapes' /\ EventsArePlaced(log') /\ StartsHaveBases(log')
  BY <1>2, <1>10 DEF IInv, Shapes
<1> QED BY <1>10, <1>11 DEF IInv

LEMMA SourceDeniesStep ==
  ASSUME ConstantsFit, IInv, NEW t \in Tasks, SourceDenies(t)
  PROVE  IInv'
<1>1. loop[t].seen \in SUBSET Nat
  BY DEF IInv, Shapes, Runs
<1>2. /\ loop[t].phase = "asking" /\ Settle(t, "Denied", loop[t].seen)
      /\ UNCHANGED <<minimum, unrefused>>
  BY DEF SourceDenies, Deny
<1>3. PICK seen \in SUBSET Nat : Settle(t, "Denied", seen)
  BY <1>1, <1>2
<1> QED BY <1>2, <1>3, SettleStep

(* What a chain gives is a level, and a proposal is an event of the log. *)
LEMMA HeldProposal ==
  ASSUME ConstantsFit, IInv, NEW t \in Tasks,
         loop[t].phase \in {"proposed", "asking", "waiting"}, NEW p, p = loop[t].proposal
  PROVE  /\ p \in 1 .. Len(log) /\ log[p] \in Entries /\ log[p].kind = "Proposed"
         /\ log[p].parent \in 0 .. Len(log)
         /\ log[p].op \in Operations \cup {Delegation}
         /\ \A ev \in ResolveAuthorityChain(p) : ev.permission \in Levels
<1>1. p \in 1 .. Len(log) /\ log[p].kind = "Proposed"
  BY DEF IInv, RunsHoldTheirTools, Holds, HoldsProposal
<1>2. log[p] \in Entries /\ Len(log) \in Nat
  BY <1>1, ElementOfSeq, LenProperties DEF IInv, Shapes
<1>3. log[p].parent \in 0 .. Len(log)
  BY <1>1, <1>2 DEF IInv, EventsArePlaced, Placed, ActsForEarlier
<1>4. log[p].op \in Operations \cup {Delegation}
  BY <1>2 DEF Entries
<1>5. \A ev \in ResolveAuthorityChain(p) : ev.permission \in Levels
  BY <1>1, ChainEndsAtAnInstruction DEF IInv
<1> QED BY <1>1, <1>2, <1>3, <1>4, <1>5

(* A child is told only what a direct input of the main conversation says. *)
LEMMA DelegateStep ==
  ASSUME ConstantsFit, IInv, NEW t \in Tasks, loop[t].phase = "proposed",
         Delegate(t), UNCHANGED <<minimum, unrefused>>
  PROVE  IInv'
<1>1. loop \in [Tasks -> Runs] /\ log \in Seq(Entries) /\ Len(log) \in Nat /\ loop[t] \in Runs
  BY LenProperties DEF IInv, Shapes
<1> DEFINE p == loop[t].proposal
           parent == log[p].parent
           plain == Event("child", "UserMessage", "Model")
           e == [plain EXCEPT !.parent = parent, !.assessment = log[parent].assessment]
           usable == {ev \in IF parent = NoEvent THEN {} ELSE ResolveAuthorityChain(parent) :
                        ev.permission # None}
<1>2. p \in 1 .. Len(log) /\ parent \in 0 .. Len(log)
  BY HeldProposal
<1>3. CASE usable # {} /\ IsDirectInput(parent)
  <2>1. parent \in 1 .. Len(log)
    BY <1>1, <1>2, <1>3 DEF NoEvent
  <2>2. log[parent].assessment \in Assessments /\ parent \in Nat
    <3>1. log[parent] \in Entries
      BY <1>1, <2>1, ElementOfSeq
    <3> QED BY <1>1, <2>1, <3>1 DEF Entries
  <2>3. log' = Append(log, e) /\ loop' = [loop EXCEPT ![t].phase = "turn"]
    BY <1>3 DEF Delegate
  <2>4. plain \in Entries
    BY PlainEvent DEF Kinds, Tasks, Insiders
  <2>5. /\ e.kind = "UserMessage" /\ e.creator = "Model" /\ e.parent = parent
        /\ e.request = NoEvent
    BY DEF Event
  <2> HIDE DEF plain, parent
  <2>6. e \in Entries
    BY <2>2, <2>4 DEF Entries
  <2> HIDE DEF e
  <2>7. Placed(log, Len(log) + 1, e)
    <3>1. ~ External(e)
      BY <2>5 DEF External, ConstantsFit
    <3> QED BY <1>1, <1>2, <2>5, <3>1 DEF Placed, ActsForEarlier, IsAssessed
  <2>8. PICK run : run = [loop[t] EXCEPT !.phase = "turn"]
    OBVIOUS
  <2>9. run \in Runs /\ run.phase = "turn"
    BY <1>1, <2>8 DEF Runs, Phases
  <2>10. loop' = [loop EXCEPT ![t] = run]
    BY <1>1, <2>3, <2>8
  <2>11. Holds(log', run)
    BY <2>9 DEF Holds
  <2> QED BY <2>3, <2>5, <2>6, <2>7, <2>9, <2>10, <2>11, RecordedByTheRun
<1>4. CASE ~ (usable # {} /\ IsDirectInput(parent))
  <2>1. Settle(t, "Denied", loop[t].seen)
    BY <1>4 DEF Delegate, Deny
  <2>2. loop[t].seen \in SUBSET Nat
    BY <1>1 DEF Runs
  <2>3. PICK seen \in SUBSET Nat : Settle(t, "Denied", seen)
    BY <2>1, <2>2
  <2> QED BY <2>3, SettleStep
<1> QED BY <1>3, <1>4

(* An approval is asked for when nothing on the chain is strong enough. *)
LEMMA AskStep ==
  ASSUME ConstantsFit, IInv, NEW t \in Tasks, loop[t].phase = "proposed",
         NEW p, p = loop[t].proposal, log[p].op \in Operations,
         ~ Allowed(log[p].op, ResolveAuthorityChain(p)),
         log' = Append(log, [Event(t, "ApprovalRequested", "System") EXCEPT !.proposal = p]),
         loop' = [loop EXCEPT ![t].phase = "asking", ![t].request = Len(log')],
         UNCHANGED <<minimum, unrefused>>
  PROVE  IInv'
<1>1. loop \in [Tasks -> Runs] /\ log \in Seq(Entries) /\ Len(log) \in Nat /\ loop[t] \in Runs
  BY LenProperties DEF IInv, Shapes
<1>2. /\ p \in 1 .. Len(log) /\ log[p].kind = "Proposed"
      /\ \A ev \in ResolveAuthorityChain(p) : ev.permission \in Levels
  BY HeldProposal
<1> DEFINE plain == Event(t, "ApprovalRequested", "System")
           e == [plain EXCEPT !.proposal = p]
<1>3. plain \in Entries
  BY PlainEvent DEF Kinds, Insiders
<1>4. /\ e.kind = "ApprovalRequested" /\ e.creator = "System" /\ e.parent = NoEvent
      /\ e.request = NoEvent /\ e.proposal = p
  BY <1>3 DEF Event
<1>5. log' = Append(log, e)
  OBVIOUS
<1> HIDE DEF plain
<1>6. e \in Entries
  <2>1. p \in Nat
    BY <1>2
  <2> QED BY <1>3, <2>1 DEF Entries
<1> HIDE DEF e
<1>7. Placed(log, Len(log) + 1, e)
  <2>1. ~ External(e)
    BY <1>4 DEF External, ConstantsFit
  <2>2. IsRequest(log, Len(log) + 1, e)
    BY <1>1, <1>2, <1>4 DEF IsRequest
  <2> QED BY <1>1, <1>4, <2>1, <2>2 DEF Placed, ActsForEarlier, IsAssessed, NoEvent
<1>8. Extends /\ Len(log') = Len(log) + 1 /\ log'[Len(log) + 1] = e
  BY <1>4, <1>5, <1>6, <1>7, OneMoreEvent DEF IInv
<1>9. PICK run : run = [loop[t] EXCEPT !.phase = "asking", !.request = Len(log) + 1]
  OBVIOUS
<1>10. /\ run \in Runs /\ run.phase = "asking" /\ run.request = Len(log) + 1
       /\ run.proposal = p
  <2>1. loop[t] \in Runs /\ Len(log) + 1 \in Nat
    BY <1>1
  <2> QED BY <1>9, <2>1 DEF Runs, Phases
<1>11. loop' = [loop EXCEPT ![t] = run]
  BY <1>1, <1>8, <1>9
<1>12. Holds(log', run)
  <2>1. p \in 1 .. Len(log') /\ log'[p] = log[p] /\ run.request \in 1 .. Len(log')
    BY <1>1, <1>2, <1>8, <1>10 DEF Extends
  <2> QED BY <1>2, <1>4, <1>8, <1>10, <2>1 DEF Holds, HoldsProposal, HoldsRequest
<1>13. IsTooWeak(run.proposal)'
  <2>1. Required[log[p].op] \in Levels
    BY DEF ConstantsFit
  <2>2. IsTooWeak(p)
    BY <1>2, <2>1, TheRestIsTooWeak DEF IsTooWeak
  <2>3. IsTooWeak(p)'
    BY <1>2, <1>8, <2>2, StaysTooWeak DEF IInv
  <2> QED BY <1>10, <2>3
<1> QED BY <1>4, <1>5, <1>6, <1>7, <1>10, <1>11, <1>12, <1>13, RecordedByTheRun

LEMMA CheckToolStep ==
  ASSUME ConstantsFit, IInv, NEW t \in Tasks, CheckTool(t)
  PROVE  IInv'
<1>1. PICK p : p = loop[t].proposal
  OBVIOUS
<1> DEFINE op == log[p].op
           evidence == ResolveAuthorityChain(p)
           inContext == log[p].parent \in loop[t].seen \cup {NoEvent}
           granted == \A ev \in evidence : GrantMatches(ev, op)
<1>2. loop[t].phase = "proposed" /\ UNCHANGED <<minimum, unrefused>>
  BY DEF CheckTool
<1>3. /\ p \in 1 .. Len(log) /\ op \in Operations \cup {Delegation}
      /\ \A ev \in evidence : ev.permission \in Levels
  BY <1>1, <1>2, HeldProposal
<1>4. loop[t].seen \in SUBSET Nat
  BY DEF IInv, Shapes, Runs
<1>5. ASSUME Deny(t) PROVE IInv'
  <2>1. PICK seen \in SUBSET Nat : Settle(t, "Denied", seen)
    BY <1>4, <1>5 DEF Deny
  <2> QED BY <1>2, <2>1, SettleStep
<1>6. ASSUME op \in Operations, granted, Allowed(op, evidence), Start(t) PROVE IInv'
  <2>1. Required[op] \in Levels /\ Required[op] # None
    BY <1>6 DEF ConstantsFit
  <2>2. PICK ev \in evidence : ev.permission >= Required[op]
    BY <1>3, <1>6, <2>1, StrongestCounts
  <2>3. \E b \in 1 .. Len(log) : IsBasis(log, b, p)
    BY <1>3, <1>6, <2>2, ChainIsABasis DEF IInv
  <2>4. PICK seen \in SUBSET Nat : Settle(t, "Started", seen)
    BY <1>4, <1>6 DEF Start
  <2> QED BY <1>1, <1>2, <2>3, <2>4, SettleStep
<1>7. CASE ~ inContext \/ ~ granted
  BY <1>1, <1>5, <1>7 DEF CheckTool
<1>8. CASE inContext /\ granted /\ op = Delegation
  <2>1. Delegate(t)
    BY <1>1, <1>8 DEF CheckTool
  <2> QED BY <1>2, <2>1, DelegateStep
<1>9. CASE inContext /\ granted /\ op # Delegation
  <2>1. op \in Operations
    BY <1>3, <1>9
  <2>2. CASE Allowed(op, evidence)
    <3>1. Start(t)
      BY <1>1, <1>9, <2>2 DEF CheckTool
    <3> QED BY <1>6, <1>9, <2>1, <2>2, <3>1
  <2>3. CASE ~ Allowed(op, evidence) /\ AuthorizationSources(op, evidence) = {}
    BY <1>1, <1>5, <1>9, <2>3 DEF CheckTool
  <2>4. CASE ~ Allowed(op, evidence) /\ AuthorizationSources(op, evidence) # {}
    <3>1. /\ log' = Append(log, [Event(t, "ApprovalRequested", "System") EXCEPT !.proposal = p])
          /\ loop' = [loop EXCEPT ![t].phase = "asking", ![t].request = Len(log')]
      BY <1>1, <1>9, <2>4 DEF CheckTool
    <3> QED BY <1>1, <1>2, <2>1, <2>4, <3>1, AskStep
  <2> QED BY <2>2, <2>3, <2>4
<1> QED BY <1>7, <1>8, <1>9

(* What a run that asks or waits holds. *)
LEMMA HeldRequest ==
  ASSUME ConstantsFit, IInv, NEW t \in Tasks, loop[t].phase \in {"asking", "waiting"},
         NEW p, p = loop[t].proposal, NEW r, r = loop[t].request
  PROVE  /\ log[p].op \in Operations /\ r \in 1 .. Len(log)
         /\ log[r].kind = "ApprovalRequested" /\ log[r].proposal = p
         /\ Required[log[p].op] \in Levels /\ Required[log[p].op] # None
         /\ \A ev \in ResolveAuthorityChain(p) : ev.permission < Required[log[p].op]
<1>1. /\ log[p].op \in Operations /\ r \in 1 .. Len(log)
      /\ log[r].kind = "ApprovalRequested" /\ log[r].proposal = p
  BY DEF IInv, RunsHoldTheirTools, Holds, HoldsRequest
<1>2. Required[log[p].op] \in Levels /\ Required[log[p].op] # None
  BY <1>1 DEF ConstantsFit
<1>3. \A ev \in ResolveAuthorityChain(p) : ev.permission < Required[log[p].op]
  BY DEF IInv, AskedForMore, IsTooWeak
<1> QED BY <1>1, <1>2, <1>3

(* The source names an event the core checks itself: it counts only as the *)
(* answer to this request.                                                 *)
LEMMA SourceAuthorizesStep ==
  ASSUME ConstantsFit, IInv, NEW t \in Tasks, NEW a \in 1 .. Len(log), SourceAuthorizes(t, a)
  PROVE  IInv'
<1>1. PICK p, r : p = loop[t].proposal /\ r = loop[t].request
  OBVIOUS
<1> DEFINE level == Required[log[p].op]
           own == ResolveAuthorityChain(p)
           evidence == own \cup {EvidenceOf(a)}
<1>2. loop[t].phase = "asking" /\ UNCHANGED <<minimum, unrefused>>
  BY DEF SourceAuthorizes
<1>3. /\ p \in 1 .. Len(log) /\ log[p].op \in Operations /\ r \in 1 .. Len(log)
      /\ log[r].kind = "ApprovalRequested" /\ log[r].proposal = p
      /\ level \in Levels /\ level # None
      /\ \A ev \in own : ev.permission \in Levels /\ ev.permission < level
  BY <1>1, <1>2, HeldProposal, HeldRequest
<1>4. PICK seen : seen = loop[t].seen
  OBVIOUS
<1>5. seen \in SUBSET Nat
  BY <1>4 DEF IInv, Shapes, Runs
<1>6. CASE log[a].request = r /\ Allowed(log[p].op, evidence)
  <2>1. Settle(t, "Started", seen)
    BY <1>1, <1>4, <1>6 DEF SourceAuthorizes, Start
  <2>2. /\ EvidenceOf(a).permission \in Levels
        /\ EvidenceOf(a).permission # None /\ CanBeParent(EvidenceOf(a)) =>
             IsInstruction(log[a]) /\ EvidenceOf(a).permission <= Ceiling(log[a])
    BY EvidenceOfOneEvent DEF IInv
  <2>3. PICK ev \in evidence : ev.permission >= level
    <3>1. \A ev \in evidence : ev.permission \in Levels
      BY <1>3, <2>2
    <3> QED BY <1>3, <1>6, <3>1, StrongestCounts
  <2>4. EvidenceOf(a).permission >= level /\ EvidenceOf(a).permission # None
    <3>1. ev = EvidenceOf(a)
      <4>1. ASSUME ev \in own PROVE FALSE
        BY <1>3, <2>3, <4>1 DEF Levels
      <4> QED BY <4>1
    <3> QED BY <1>3, <2>3, <3>1 DEF Levels, None
  <2>5. Placed(log, a, log[a])
    BY DEF IInv, EventsArePlaced
  <2>6. log[a].kind = "ApprovalSubmitted" /\ External(log[a])
    <3>1. log[a].kind \in {"ApprovalSubmitted", "InputRejected"}
      BY <1>3, <1>6, <2>5 DEF Placed, NoEvent
    <3>2. log[a].kind # "InputRejected"
      BY <1>3, <1>6, <2>5 DEF Placed, IsRefusal, GatedKinds
    <3> QED BY <2>5, <3>1, <3>2 DEF Placed
  <2>7. CanBeParent(EvidenceOf(a))
    <3>1. log[a].creator # "System"
      BY <2>6 DEF External, ConstantsFit
    <3>2. EventClass(log[a]) = "Ingress"
      BY <2>6 DEF EventClass
    <3> QED BY <3>1, <3>2 DEF CanBeParent, EvidenceOf
  <2>8. Ceiling(log[a]) >= level
    <3>1. Ceiling(log[a]) \in Levels
      <4>1. log[a].who \in Principals \cup {Nobody}
        <5>1. log[a] \in Entries
          BY ElementOfSeq DEF IInv, Shapes
        <5> QED BY <5>1 DEF Entries
      <4>2. log[a].creator \in Sources /\ System \in Levels
        BY <2>6 DEF External, System, Levels
      <4>3. Assess(System, log[a].creator, log[a].who) \in Assessments
        BY <4>1, <4>2, AssessmentFits
      <4> QED BY <4>3 DEF Ceiling, Assessments
    <3> QED BY <1>3, <2>2, <2>4, <2>7, <3>1 DEF Levels
  <2>9. \E b \in 1 .. Len(log) : IsBasis(log, b, p)
    BY <1>3, <1>6, <2>2, <2>4, <2>6, <2>7, <2>8, AnswerIsABasis DEF IInv
  <2> QED BY <1>1, <1>2, <1>5, <2>1, <2>9, SettleStep
<1>7. CASE ~ (log[a].request = r /\ Allowed(log[p].op, evidence))
  <2>1. Settle(t, "Denied", seen)
    BY <1>1, <1>4, <1>7 DEF SourceAuthorizes, Deny
  <2> QED BY <1>2, <1>5, <2>1, SettleStep
<1> QED BY <1>6, <1>7

(* The answer that was waited for starts the tool it was asked for. *)
LEMMA ResumeStep ==
  ASSUME ConstantsFit, IInv, NEW t \in Tasks, NEW a \in 1 .. Len(log), Resume(t, a)
  PROVE  IInv'
<1>1. PICK p, r : p = loop[t].proposal /\ r = loop[t].request
  OBVIOUS
<1> DEFINE level == Required[log[p].op]
           own == ResolveAuthorityChain(p)
           evidence == {ev \in ResolveAuthorityChain(a) : ev.request = r}
           kind == IF Suffices(t, log[a], evidence) THEN "Started" ELSE "Denied"
<1>2. /\ loop[t].phase = "waiting" /\ UNCHANGED <<minimum, unrefused>>
      /\ log[a].kind = "ApprovalSubmitted" /\ log[a].request = r
      /\ Settle(t, kind, Visible(t))
  BY <1>1 DEF Resume
<1>3. /\ p \in 1 .. Len(log) /\ log[p].op \in Operations /\ r \in 1 .. Len(log)
      /\ log[r].kind = "ApprovalRequested" /\ log[r].proposal = p
      /\ level \in Levels /\ level # None
      /\ \A ev \in own : ev.permission \in Levels /\ ev.permission < level
  BY <1>1, <1>2, HeldProposal, HeldRequest
<1>4. PICK seen : seen = Visible(t)
  OBVIOUS
<1>5. seen \in SUBSET Nat
  <2>1. Len(log) \in Nat
    BY LenProperties DEF IInv, Shapes
  <2> QED BY <1>4, <2>1 DEF Visible
<1>6. CASE Suffices(t, log[a], evidence)
  <2>1. Settle(t, "Started", seen)
    BY <1>2, <1>4, <1>6
  <2>2. Allowed(log[p].op, own \cup evidence)
    BY <1>1, <1>6 DEF Suffices
  <2>3. \A ev \in ResolveAuthorityChain(a) : ev.permission \in Levels
    BY ChainEndsAtAnInstruction DEF IInv
  <2>4. PICK ev \in own \cup evidence : ev.permission >= level
    <3> DEFINE all == own \cup evidence
    <3>1. \A ev \in all : ev.permission \in Levels
      BY <1>3, <2>3
    <3> HIDE DEF all
    <3>2. Allowed(log[p].op, all)
      BY <2>2 DEF all
    <3>3. \E ev \in all : ev.permission >= level
      BY <1>3, <3>1, <3>2, StrongestCounts
    <3> QED BY <3>3 DEF all
  <2>5. ev \in ResolveAuthorityChain(a) /\ ev.permission # None /\ ev.permission \in Levels
    <3>1. ASSUME ev \in own PROVE FALSE
      BY <1>3, <2>4, <3>1 DEF Levels
    <3> QED BY <1>3, <2>3, <2>4, <3>1 DEF Levels, None
  <2>6. IsInstruction(log[a]) /\ ev.permission <= Ceiling(log[a])
    BY <1>2, <2>5, ChainOfAnAnswer DEF IInv
  <2>7. Ceiling(log[a]) >= level
    <3>1. Ceiling(log[a]) \in Levels
      <4>1. log[a].who \in Principals \cup {Nobody}
        <5>1. log[a] \in Entries
          BY ElementOfSeq DEF IInv, Shapes
        <5> QED BY <5>1 DEF Entries
      <4>2. log[a].creator \in Sources /\ System \in Levels
        BY <2>6 DEF IsInstruction, External, System, Levels
      <4>3. Assess(System, log[a].creator, log[a].who) \in Assessments
        BY <4>1, <4>2, AssessmentFits
      <4> QED BY <4>3 DEF Ceiling, Assessments
    <3> QED BY <1>3, <2>4, <2>5, <2>6, <3>1 DEF Levels
  <2>8. \E b \in 1 .. Len(log) : IsBasis(log, b, p)
    BY <1>2, <1>3, <2>6, <2>7, AnswerIsABasis DEF IInv
  <2> QED BY <1>1, <1>2, <1>5, <2>1, <2>8, SettleStep
<1>7. CASE ~ Suffices(t, log[a], evidence)
  <2>1. Settle(t, "Denied", seen)
    BY <1>2, <1>4, <1>7
  <2> QED BY <1>2, <1>5, <2>1, SettleStep
<1> QED BY <1>6, <1>7

-----------------------------------------------------------------------------
(***************************************************************************)
(* The invariant, and what it is for.                                      *)
(***************************************************************************)
LEMMA InitHolds ==
  ASSUME ConstantsFit, Init
  PROVE  IInv
<1> DEFINE e == [Event("main", "SystemEvent", "System") EXCEPT
                   !.assessment = [source |-> System, identity |-> System, effective |-> System]]
<1>1. log = <<e>> /\ Len(log) = 1 /\ log[1] = e
  BY DEF Init
<1>2. e \in Entries
  <2>1. Event("main", "SystemEvent", "System") \in Entries
    BY PlainEvent DEF Kinds, Insiders, Tasks
  <2>2. [source |-> System, identity |-> System, effective |-> System] \in Assessments
    BY DEF Assessments, System, Levels
  <2> QED BY <2>1, <2>2 DEF Entries
<1>3. /\ e.kind = "SystemEvent" /\ e.creator = "System" /\ e.parent = NoEvent
      /\ e.request = NoEvent
  BY DEF Event
<1> HIDE DEF e
<1>4. log \in Seq(Entries)
  BY <1>1, <1>2
<1>5. Placed(log, 1, e)
  <2>1. ~ External(e)
    BY <1>3 DEF External, ConstantsFit
  <2> QED BY <1>3, <2>1 DEF Placed, ActsForEarlier, IsAssessed, NoEvent
<1>6. EventsArePlaced(log) /\ StartsHaveBases(log)
  BY <1>1, <1>3, <1>5 DEF EventsArePlaced, StartsHaveBases
<1>7. [Idle EXCEPT !.mark = 1] \in Runs /\ [Idle EXCEPT !.mark = 1].phase = "idle"
  BY DEF Idle, Runs, Phases, NoEvent
<1>8. loop \in [Tasks -> Runs] /\ \A t \in Tasks : loop[t].phase = "idle"
  BY <1>7 DEF Init
<1>9. RunsHoldTheirTools /\ AskedForMore
  BY <1>8 DEF RunsHoldTheirTools, Holds, AskedForMore
<1>10. Shapes
  BY <1>4, <1>8 DEF Shapes, Init, Levels, User
<1> QED BY <1>6, <1>9, <1>10 DEF IInv

LEMMA NextKeeps ==
  ASSUME ConstantsFit, IInv, [Next]_vars
  PROVE  IInv'
<1>1. ASSUME Inputs PROVE IInv'
  <2>1. ASSUME NEW d \in Drafts, Register(d) PROVE IInv'
    BY <2>1, RegisterStep
  <2>2. ASSUME NEW i \in unrefused, RejectInput(i) PROVE IInv'
    BY <2>2, RejectInputStep
  <2>3. ASSUME NEW c \in Changes, ExecuteControl(c) PROVE IInv'
    BY <2>3, ExecuteControlStep
  <2>4. ASSUME NEW w \in Principals, NEW r \in OfKind("ApprovalRequested"),
               NEW l \in Suggestions, NEW b \in BOOLEAN,
               NEW g \in {NoEvent, AnyOperation} \cup OfKind("Proposed"),
               SubmitApproval(w, r, l, b, g)
        PROVE IInv'
    BY <2>4, SubmitApprovalStep
  <2>5. ASSUME NEW w \in Principals, NEW r \in OfKind("ApprovalRequested"),
               NEW g \in {AnyOperation} \cup OfKind("Proposed"), Confirm(w, r, g)
        PROVE IInv'
    BY <2>5, ConfirmStep
  <2> QED BY <1>1, <2>1, <2>2, <2>3, <2>4, <2>5 DEF Inputs
<1>2. ASSUME Loop PROVE IInv'
  <2> PICK t \in Tasks :
        \/ StartRun(t) \/ CheckTool(t) \/ SourceDefers(t) \/ SourceDenies(t)
        \/ \E op \in Operations \cup {Delegation}, parent \in 0..Len(log) : Propose(t, op, parent)
        \/ \E a \in 1..Len(log) : SourceAuthorizes(t, a) \/ Resume(t, a)
    BY <1>2 DEF Loop
  <2>1. CASE StartRun(t)
    BY <2>1, StartRunStep
  <2>2. CASE CheckTool(t)
    BY <2>2, CheckToolStep
  <2>3. CASE SourceDefers(t)
    BY <2>3, SourceDefersStep
  <2>4. CASE SourceDenies(t)
    BY <2>4, SourceDeniesStep
  <2>5. ASSUME NEW op \in Operations \cup {Delegation}, NEW parent \in 0..Len(log),
               Propose(t, op, parent)
        PROVE IInv'
    BY <2>5, ProposeStep
  <2>6. ASSUME NEW a \in 1..Len(log), SourceAuthorizes(t, a) PROVE IInv'
    BY <2>6, SourceAuthorizesStep
  <2>7. ASSUME NEW a \in 1..Len(log), Resume(t, a) PROVE IInv'
    BY <2>7, ResumeStep
  <2> QED BY <2>1, <2>2, <2>3, <2>4, <2>5, <2>6, <2>7
<1>3. CASE UNCHANGED vars
  <2>1. UNCHANGED <<log, minimum, unrefused, loop>>
    BY <1>3 DEF vars
  <2>2. Extends
    BY <2>1, LenProperties DEF IInv, Shapes, Extends
  <2>3. RunsHoldTheirTools' /\ AskedForMore'
    BY <2>1, <2>2, NoRunChanges
  <2>4. Shapes' /\ EventsArePlaced(log') /\ StartsHaveBases(log')
    BY <2>1 DEF IInv, Shapes
  <2> QED BY <2>3, <2>4 DEF IInv
<1> QED BY <1>1, <1>2, <1>3 DEF Next

(* The log is ordered, runs hold what they ask for, and every tool that    *)
(* was started has a basis, whatever the configuration and the inputs.     *)
THEOREM InductiveInvariant ==
  ASSUME ConstantsFit
  PROVE  Spec => []IInv
<1>1. Init => IInv
  BY InitHolds
<1>2. IInv /\ [Next]_vars => IInv'
  BY NextKeeps
<1> QED BY <1>1, <1>2, PTL DEF Spec

LEMMA BasisIsABasis ==
  ASSUME ConstantsFit, IInv, NEW b \in 1 .. Len(log), NEW p, IsBasis(log, b, p)
  PROVE  b \in Bases(p)
<1>1. IsAncestor(log, b, p) => b \in Ancestors(p)
  <2>1. b # NoEvent
    BY DEF NoEvent
  <2> QED BY <2>1 DEF IsAncestor, Ancestors
<1> QED BY <1>1 DEF IsBasis, IsInstruction, Ceiling, Bases, Answered

(* A tool is started only on the instruction of a user or an alert who may *)
(* order it: no chain through what the model, a tool, the core or a        *)
(* refused approval wrote adds up to a permission                          *)
(* (AgentLoop::handle_tool_call, resume_after_approval).                   *)
THEOREM ToolsHaveABasis ==
  ASSUME ConstantsFit
  PROVE  Spec => []ToolHasABasis
<1>1. IInv => ToolHasABasis
  <2> SUFFICES ASSUME IInv, NEW i \in OfKind("Started")
               PROVE  Bases(log[i].proposal) # {}
    BY DEF ToolHasABasis, StartedProposals
  <2>1. PICK b \in 1 .. Len(log) : IsBasis(log, b, log[i].proposal)
    BY DEF OfKind, IInv, StartsHaveBases
  <2> QED BY <2>1, BasisIsABasis
<1> QED BY <1>1, InductiveInvariant, PTL

(* An approval for one operation starts that operation and no other,       *)
(* whatever event the model names later                                    *)
(* (approval_grant_matches_tool_call).                                     *)
THEOREM GrantsStayWithTheirOperation ==
  ASSUME ConstantsFit
  PROVE  Spec => []GrantsAreForTheirOperation
<1>1. IInv => GrantsAreForTheirOperation
  <2> SUFFICES ASSUME IInv, NEW i \in OfKind("Started"), NEW p, p = log[i].proposal
               PROVE  \E b \in Bases(p) : \/ log[b].kind # "ApprovalSubmitted"
                                          \/ log[b].grant = AnyOperation
                                          \/ log[log[b].grant].op = log[p].op
    BY DEF GrantsAreForTheirOperation, StartedProposals
  <2>1. PICK b \in 1 .. Len(log) : IsBasis(log, b, p)
    BY DEF OfKind, IInv, StartsHaveBases
  <2>2. b \in Bases(p)
    BY <2>1, BasisIsABasis
  <2> QED BY <2>1, <2>2 DEF IsBasis, GrantFits
<1> QED BY <1>1, InductiveInvariant, PTL

(* Both: every tool was ordered, and by an order for it.                   *)
THEOREM ToolsStayOrdered ==
  ASSUME ConstantsFit
  PROVE  Spec => []ToolsAreOrdered
<1>1. ToolHasABasis /\ GrantsAreForTheirOperation => ToolsAreOrdered
  BY DEF ToolsAreOrdered
<1> QED BY <1>1, ToolsHaveABasis, GrantsStayWithTheirOperation, PTL
=============================================================================
