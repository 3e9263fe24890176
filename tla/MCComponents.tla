----------------------------- MODULE MCComponents -----------------------------
(***************************************************************************)
(* Small instances of the components whose properties are about states and *)
(* steps.  A behaviour is one of one component: "part" says of which.  The *)
(* variables x1 to x15 are that component's; those it does not need are 0. *)
(* The event file has the variables of JsonlStore, which stay as they      *)
(* start in the behaviours of the others.                                  *)
(***************************************************************************)
EXTENDS MCJsonlStore, Integers, FiniteSets

CONSTANTS
  AuthEvents, AuthInputs, \* events of ToolAuthorization, inputs of a task
  ContextEvents,   \* events of ContextAssembly
  ModelTurns,      \* requests of ModelCalls
  MainEvents,      \* events of MainSession
  Faults           \* requests and answers QqDelivery may lose

VARIABLES part, x1, x2, x3, x4, x5, x6, x7, x8, x9, x10, x11, x12, x13, x14, x15
all == <<vars, part, x1, x2, x3, x4, x5, x6, x7, x8, x9, x10, x11, x12, x13, x14, x15>>

from12 == <<x12, x13, x14, x15>>
from10 == <<x10, x11, from12>>
from9 == <<x9, from10>>
from8 == <<x8, from9>>
from7 == <<x7, from8>>
from5 == <<x5, x6, from7>>
from1 == <<x1, x2, x3, x4, from5>>
From12IsUnused == x12 = 0 /\ x13 = 0 /\ x14 = 0 /\ x15 = 0
From10IsUnused == x10 = 0 /\ x11 = 0 /\ From12IsUnused
From9IsUnused == x9 = 0 /\ From10IsUnused
From8IsUnused == x8 = 0 /\ From9IsUnused
From7IsUnused == x7 = 0 /\ From8IsUnused
From5IsUnused == x5 = 0 /\ x6 = 0 /\ From7IsUnused
From1IsUnused == x1 = 0 /\ x2 = 0 /\ x3 = 0 /\ x4 = 0 /\ From5IsUnused

-----------------------------------------------------------------------------
(* Who may order a tool: users of the web and of QQ, and a monitor whose   *)
(* alerts may order little.                                                *)

None == 0
User == 1
Operator == 2
Admin == 3
Draft(task, kind, source, who, suggested, place) ==
  [task |-> task, kind |-> kind, source |-> source, who |-> who, suggested |-> suggested,
   place |-> place]
InputDrafts ==
  {Draft("main", "UserMessage", "web", "ann", User, "nowhere"),
   Draft("main", "UserMessage", "web", "root", User, "nowhere"),
   Draft("main", "Alert", "monitor", "nobody", User, "nowhere"),
   Draft("main", "ToolResult", "web", "root", Admin, "nowhere"),
   Draft("child", "UserMessage", "web", "root", Admin, "nowhere"),
   Draft("main", "CancellationRequested", "web", "root", Admin, "nowhere"),
   Draft("main", "UserMessage", "qq", "qiu", User, "g1")}

Authorization(inputs, events) == INSTANCE ToolAuthorization WITH
  log <- x1, minimum <- x2, unrefused <- x3, loop <- x4,
  Sources <- {"web", "monitor", "qq"},
  SourceMaximum <- "web" :> Admin @@ "monitor" :> User @@ "qq" :> Operator,
  Principals <- {"root", "ann", "qiu"},
  SourceOf <- "root" :> "web" @@ "ann" :> "web" @@ "qiu" :> "qq",
  Directory <- "root" :> Admin @@ "ann" :> User @@ "qiu" :> Operator,
  SourceDefault <- "web" :> None @@ "monitor" :> User @@ "qq" :> User,
  Providers <- {"web", "qq"}, Operations <- {"restart", "stop"},
  Required <- "restart" :> Admin @@ "stop" :> Operator @@ "task.input" :> None,
  Drafts <- InputDrafts, Groups <- {"g1"},
  Changes <- {[task |-> "main", who |-> "root", level |-> Admin]},
  Suggestions <- {User, Admin}, MaxInputs <- inputs, MaxProposals <- 2, MaxEvents <- events
\* What the theorems about the component suppose of its constants.
ASSUME AuthorizationIsConfigured == Authorization(AuthInputs, AuthEvents)!ConstantsFit
\* Long behaviours after few inputs, and short ones with two: two people talk, or the
\* minimum permission is raised and an input refused.
InAuthorization == part \in {"authorization", "inputs"}
StartAuthorization == InAuthorization /\ Authorization(AuthInputs, AuthEvents)!Init
  /\ From5IsUnused
AuthorizationNext ==
  \/ part = "authorization" /\ Authorization(AuthInputs, AuthEvents)!Next
  \/ part = "inputs" /\ Authorization(2, 6)!Next

\* Every tool that was started was ordered by somebody who may, and an approval
\* of one operation starts no other.
ToolsAreOrdered == InAuthorization =>
  Authorization(AuthInputs, AuthEvents)!ToolsAreOrdered
\* A request that is shown has somebody who can answer it.
RequestsCanBeAnswered == InAuthorization =>
  Authorization(AuthInputs, AuthEvents)!RequestsCanBeAnswered
\* Promised by a comment, and not so: no run is started for inputs the core refuses.
RefusedInputStartsNothing == InAuthorization =>
  Authorization(AuthInputs, AuthEvents)!RefusedInputStartsNothing

-----------------------------------------------------------------------------
(* A window that holds a few items beside the prompt and the reserve.      *)

Context == INSTANCE ContextAssembly WITH
  stream <- x1, context <- x2, known <- x3, given <- x4, phase <- x5, restarts <- x6,
  Window <- 10, Reserved <- 2, Margin <- 1, Fixed <- 2, DefaultWindow <- 20,
  Sizes <- {2}, SummarySizes <- {1}, MaxEvents <- ContextEvents, MaxRestarts <- 1
InContext == part = "context"
StartContext == InContext /\ Context!Init
  /\ From7IsUnused
ASSUME ContextFits == Context!ConstantsFit

\* The context of a run is what a restart would read, everything the run knows is
\* in it or in a summary, and one compaction makes it fit.
ContextIsTheStreams ==
  /\ [](InContext => Context!RestartShowsTheSame /\ Context!NothingIsLost)
  /\ [][InContext => Context!OneRoundIsEnough]_all

-----------------------------------------------------------------------------
(* An answer of up to two calls and a piece of text, over both protocols.  *)

Stream == INSTANCE ModelStream WITH
  protocol <- x1, answer <- x2, server <- x3, buffer <- x4, body <- x5, acc <- x6, queue <- x7,
  shown <- x8, done <- x9, dropped <- x10, pending <- x11,
  Protocols <- {"responses", "chat"}, Calls <- {0, 1}, MaxPieces <- 1, MaxBuffer <- 1
InStream == part = "stream"
StartStream == InStream /\ Stream!Init
  /\ From12IsUnused

\* The outcome of a stream is one, the last item, and decides what the next request
\* goes on with; its calls are whole, and what was shown is its text.
StreamsEndWhole == InStream => Stream!StreamsEndWhole

-----------------------------------------------------------------------------
(* Two models to switch between, answers of up to two calls, a failure and *)
(* a restart.                                                              *)

ModelTasks == INSTANCE ModelCalls WITH
  proxied <- x1, provider <- x2, resets <- x3, lastModel <- x4, run <- x5, call <- x6, old <- x7,
  fresh <- x8, waiting <- x9, turns <- x10, last <- x11, kept <- x12, request <- x13,
  faults <- x14, restarts <- x15,
  Models <- {"a", "b"}, MaxCalls <- 2, MaxTurns <- ModelTurns, MaxFaults <- 1, MaxRestarts <- 1
\* What the theorems about the component suppose of its constants.
ASSUME ModelsAreNamedApart == ModelTasks!ModelsAreNamed
InCalls == part = "calls"
StartCalls == InCalls /\ ModelTasks!Init

\* A result goes out as the result of its call, unless its turn was broken off,
\* and never as that of another.
ResultsMeetTheirCalls == InCalls => ModelTasks!ResultsMeetTheirCalls

-----------------------------------------------------------------------------
(* A message that mentions the bot and a command, which comes in two       *)
(* forms, to a bot that wants mentions and has room for all keys; or two   *)
(* direct messages and the command, to one that takes every message and    *)
(* has room for two keys.                                                  *)

FormsOf(mentionOnly) ==
  IF mentionOnly THEN "hi" :> {"at"} @@ "stop" :> {"at", "plain"}
  ELSE "hi" :> {"direct"} @@ "yes" :> {"direct"} @@ "stop" :> {"marked", "plain"}
MessagesTo(mentionOnly) == INSTANCE QqMessages WITH
  handlers <- x1, known <- x2, dedup <- x3, stored <- x4, left <- x5,
  dispatched <- x6, failures <- x7, life <- x8,
  Messages <- DOMAIN FormsOf(mentionOnly), Forms <- FormsOf(mentionOnly), Commands <- {"stop"},
  MentionOnly <- mentionOnly, DedupSize <- IF mentionOnly THEN 6 ELSE 2, MaxDispatches <- 4,
  MaxFailures <- 1, MaxRestarts <- 1
InMessages(mentionOnly) == part = IF mentionOnly THEN "mentions" ELSE "messages"
StartMessages == \E mentionOnly \in BOOLEAN :
  /\ InMessages(mentionOnly) /\ MessagesTo(mentionOnly)!Init
  /\ From9IsUnused
MessagesNext == \E mentionOnly \in BOOLEAN :
  InMessages(mentionOnly) /\ MessagesTo(mentionOnly)!Next

\* What is dispatched in several copies and forms becomes one input or one command,
\* as long as its key is in the cache, and none that was not lost in a failed write
\* is missing.
MessagesArriveOnce == \A mentionOnly \in BOOLEAN :
  InMessages(mentionOnly) => MessagesTo(mentionOnly)!MessagesArriveOnce

-----------------------------------------------------------------------------
(* A reply in two chunks and a notice to the same message of a group; or   *)
(* the notice and a reply in a channel, whose requests have no number.     *)

DeliveryOf(deliveries) == INSTANCE QqDelivery WITH
  work <- x1, cache <- x2, numbers <- x3, good <- x4,
  used <- x5, shown <- x6, faults <- x7, life <- x8,
  Deliveries <- deliveries, Numbered <- deliveries \ {"channel"},
  ReplyTo <- [d \in deliveries |-> IF d = "channel" THEN "c1" ELSE "m1"],
  Chunks <- [d \in deliveries |-> IF d = "notice" THEN 1 ELSE 2], Tools <- deliveries \ {"notice"},
  MaxRetries <- 1, MaxFaults <- Faults, MaxRestarts <- 1
\* What the theorems about the component suppose of its constants.
ASSUME DeliveriesFit ==
  DeliveryOf({"reply", "notice"})!ConstantsFit /\ DeliveryOf({"channel", "notice"})!ConstantsFit
InGroup == part = "group"
InChannel == part = "channel"
StartDelivery ==
  /\ \/ InGroup /\ DeliveryOf({"reply", "notice"})!Init
     \/ InChannel /\ DeliveryOf({"channel", "notice"})!Init
  /\ From9IsUnused
DeliveryNext ==
  \/ InGroup /\ DeliveryOf({"reply", "notice"})!Next
  \/ InChannel /\ DeliveryOf({"channel", "notice"})!Next

\* Readers see each chunk in order, those with a number once and the others at most
\* once for each try; the platform refuses none it did not show; and the late refusal
\* of an old token does not drop the new one.
DeliveriesReadWell ==
  /\ [](InGroup => DeliveryOf({"reply", "notice"})!ReadsWell)
  /\ [](InChannel => DeliveryOf({"channel", "notice"})!ReadsWell)
  /\ [][InGroup => DeliveryOf({"reply", "notice"})!KeepsGoodToken]_all
  /\ [][InChannel => DeliveryOf({"channel", "notice"})!KeepsGoodToken]_all

-----------------------------------------------------------------------------
(* Four names, of which one is in a directory and one is a link; z is not UTF-8. *)

Above == [p \in {"a", "b", "d", "c"} |-> IF p = "c" THEN "d" ELSE "root"]
Text(lines) == [kind |-> "file", lines |-> lines]
Directory == [kind |-> "dir", lines |-> <<>>]
Link == [kind |-> "link", lines |-> <<>>]
Nothing == [kind |-> "none", lines |-> <<>>]
Below(a, b, c) == "a" :> a @@ "b" :> b @@ "c" :> c @@ "d" :> Directory
Files == INSTANCE FileTools WITH
  tree <- x1, call <- x2, scan <- x3, outcome <- x4, touched <- x5, calls <- x6, changes <- x7,
  Root <- "root", Parent <- Above,
  Trees <- {Below(Text(<<"x">>), Text(<<"y", "x">>), Text(<<"x", "y">>)),
            Below(Link, Text(<<"x", "x">>), Text(<<"z", "x">>))},
  Lines <- {"x", "y", "z"}, Garbled <- {"z"},
  Writes <- {<<"x", "y", "x">>, <<"y">>, <<"z">>}, Named <- {"a", "c"}, Sought <- "x",
  MaxFileLines <- 2, MaxScanned <- 4, MaxResults <- 2, MaxCalls <- 1, MaxChanges <- 1
\* What the theorems about the component suppose of its constants.
ASSUME FilesFit == Files!ConstantsFit
InFiles == part = "files"
StartFiles == InFiles /\ Files!Init
  /\ From8IsUnused

\* A transfer that stops anywhere has lost nothing; a find or a search that does not
\* say so has left out nothing of what it could read.
FilesAreKeptAndFound == InFiles => Files!FilesAreKeptAndFound

-----------------------------------------------------------------------------
(* A console that ends, queues, compacts or deletes the main conversation. *)

Main == INSTANCE MainSession WITH
  stream <- x1, server <- x2, console <- x3, outcome <- x4, source <- x5, run <- x6,
  overlapped <- x7, clears <- x8, crashes <- x9,
  Commands <- {"TaskCompleted", "TaskQueued", "ContextCompacted"},
  MaxEvents <- MainEvents, MaxClears <- 1, MaxCrashes <- 1
InMain == part = "main"
StartMain == InMain /\ Main!Init
  /\ From10IsUnused

\* The main conversation is queued and readable once it is said to have been created,
\* whatever is written meanwhile, unless a writer outlived the stream before it.
CreatedIsServed == InMain => Main!CreatedIsServed

-----------------------------------------------------------------------------
(* The file of a task, with two callers of append.                         *)

InFile == part = "file"
StartFile == InFile
  /\ From1IsUnused

-----------------------------------------------------------------------------
ComponentsInit ==
  /\ Init
  /\ \/ StartAuthorization \/ StartContext \/ StartStream \/ StartCalls
     \/ StartMessages \/ StartDelivery \/ StartFiles \/ StartMain \/ StartFile

OtherNext ==
  \/ AuthorizationNext /\ UNCHANGED <<part, from5>>
  \/ part = "context" /\ Context!Next /\ UNCHANGED <<part, from7>>
  \/ part = "stream" /\ Stream!Next /\ UNCHANGED <<part, from12>>
  \/ part = "calls" /\ ModelTasks!Next /\ UNCHANGED <<part>>
  \/ MessagesNext /\ UNCHANGED <<part, from9>>
  \/ DeliveryNext /\ UNCHANGED <<part, from9>>
  \/ part = "files" /\ Files!Next /\ UNCHANGED <<part, from8>>
  \/ part = "main" /\ Main!Next /\ UNCHANGED <<part, from10>>
ComponentsNext ==
  \/ InFile /\ Next /\ UNCHANGED <<part, from1>>
  \/ OtherNext /\ UNCHANGED vars
ComponentsSpec == ComponentsInit /\ [][ComponentsNext]_all
=============================================================================
