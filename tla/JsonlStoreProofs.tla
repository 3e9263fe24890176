--------------------------- MODULE JsonlStoreProofs ---------------------------
(***************************************************************************)
(* What the event store promises about a task's file, for any callers and  *)
(* any number of appends, failures and crashes.  The lock keeps the pieces *)
(* of one line together from the check of the sequence to the event that   *)
(* is sent; an event is acknowledged and sent only when its whole line is  *)
(* durable; and a file that can be read gives every line that is whole, in *)
(* the order of the sequences.                                             *)
(*                                                                         *)
(* Reading is a recursive function of the pieces.  That it exists, and     *)
(* what it gives for a longer file, is proved here by taking the first     *)
(* position where it would fail.                                           *)
(***************************************************************************)
EXTENDS JsonlStore, SequenceTheorems, WellFoundedInduction, TLAPS

Parts == {"head", "tail", "end"}
Events == [seq : Nat, id : Nat]
Pieces == [part : Parts, event : Events]
Readings == [events : Seq(Events), line : Seq(Pieces), ok : BOOLEAN]
AppendSteps == {"head", "tail", "end", "sync", "publish"}

Shapes ==
  /\ file \in Seq(Pieces) /\ heard \in Seq(Events) /\ acked \subseteq Events
  /\ synced \in 0 .. Len(file)
  /\ lock \in Callers \cup {Nobody}
  /\ pc \in [Callers -> {"idle", "called"} \cup AppendSteps]
  /\ known \in [Callers -> Nat] /\ event \in [Callers -> Events]
  /\ used \in [appends : Nat, failures : Nat, crashes : Nat]

(* No sequence is larger than the number of appends. *)
Numbered(e) == e.seq \in 1 .. used.appends
Bounded ==
  /\ used.appends <= MaxAppends
  /\ \A i \in DOMAIN file : Numbered(file[i].event)
  /\ \A c \in Callers :
       known[c] <= used.appends /\ (pc[c] # "idle" => Numbered(event[c]))

(* One append at a time, and it holds the lock. *)
OneAppend == \A c \in Callers : lock = c <=> pc[c] \in AppendSteps

(* The last pieces of the line of an event, as far as it is written. *)
Ends(pieces, n, e) ==
  /\ n >= 3
  /\ pieces[n - 2] = Piece("head", e)
  /\ pieces[n - 1] = Piece("tail", e)
  /\ pieces[n] = Piece("end", e)

(* The whole line of the event is durable. *)
IsKept(e) == \E n \in 1 .. synced : Ends(file, n, e)

LineInPlace ==
  \A c \in Callers :
    /\ pc[c] = "tail" =>
         Len(file) >= 1 /\ file[Len(file)] = Piece("head", event[c])
    /\ pc[c] = "end" =>
         /\ Len(file) >= 2
         /\ file[Len(file) - 1] = Piece("head", event[c])
         /\ file[Len(file)] = Piece("tail", event[c])
    /\ pc[c] = "sync" => Ends(file, Len(file), event[c])
    /\ pc[c] = "publish" => IsKept(event[c])

AckedAreKept == \A e \in acked : IsKept(e)
HeardAreAcked == \A i \in DOMAIN heard : heard[i] \in acked

-----------------------------------------------------------------------------
(* What the first n pieces read as, and the whole of what is read. *)
Here(pieces, n) == Reads(pieces)[n]
Found(pieces, n) == EndOfLine(Here(pieces, n))

(* However much of the file is left, what can be read of it is in order.   *)
InOrder(read) == read.ok => \A i \in DOMAIN read.events : read.events[i].seq = i
ReadsInOrder == \A n \in 0 .. Len(file) : InOrder(Found(file, n))

(* The event that is being appended is the next one of what was read       *)
(* before its line, and follows all that the subscribers were sent.        *)
IsNext(read, e) == read.ok /\ e.seq = Len(read.events) + 1
NextIsAppended ==
  \A c \in Callers :
    /\ pc[c] = "head" => IsNext(Found(file, Len(file)), event[c])
    /\ pc[c] = "tail" => IsNext(Found(file, Len(file) - 1), event[c])
    /\ pc[c] \in AppendSteps => \A i \in DOMAIN heard : heard[i].seq < event[c].seq

(* As long as nothing fails the file is readable between the appends, and  *)
(* an append finds the beginning of a line.                                *)
Undisturbed == used.failures = 0 /\ used.crashes = 0
Reading(line) == Here(file, Len(file)).ok /\ Here(file, Len(file)).line = line
CleanLines ==
  Undisturbed =>
    /\ lock = Nobody => Reading(<<>>)
    /\ \A c \in Callers :
         /\ pc[c] \in {"head", "sync", "publish"} => Reading(<<>>)
         /\ pc[c] = "tail" => Reading(<<Piece("head", event[c])>>)
         /\ pc[c] = "end" => Reading(<<Piece("head", event[c]), Piece("tail", event[c])>>)

IInv ==
  /\ Shapes /\ Bounded /\ OneAppend /\ LineInPlace
  /\ AckedAreKept /\ HeardAreAcked
  /\ ReadsInOrder /\ NextIsAppended /\ CleanLines /\ HeardInOrder

-----------------------------------------------------------------------------
(***************************************************************************)
(* Positions and sequences.                                                *)
(***************************************************************************)
Less == {p \in Nat \X Nat : p[1] < p[2]}

(* A set of positions has a first one. *)
LEMMA FirstExists ==
  ASSUME NEW S, S \subseteq Nat, S # {}
  PROVE  \E x \in S : \A y \in S : x <= y
<1>1. Less = OpToRel(<, Nat)
  BY DEF Less, OpToRel
<1>2. IsWellFoundedOn(Less, Nat)
  BY <1>1, NatLessThanWellFounded
<1>3. PICK x \in S : \A y \in S : ~ (<<y, x>> \in Less)
  BY <1>2, WFMin
<1>4. ASSUME NEW y \in S, ~ (<<y, x>> \in Less) PROVE x <= y
  BY <1>4 DEF Less
<1> QED BY <1>3, <1>4

(* Appending to a sequence keeps what is in it. *)
LEMMA AppendKeeps ==
  ASSUME NEW S, NEW s \in Seq(S), NEW x \in S
  PROVE  /\ Append(s, x) \in Seq(S)
         /\ Len(s) \in Nat /\ DOMAIN s = 1 .. Len(s)
         /\ Len(Append(s, x)) = Len(s) + 1
         /\ DOMAIN Append(s, x) = 1 .. (Len(s) + 1)
         /\ \A i \in 1 .. Len(s) : Append(s, x)[i] = s[i] /\ s[i] \in S
         /\ Append(s, x)[Len(s) + 1] = x
BY AppendProperties, LenProperties, ElementOfSeq

(* A prefix keeps what is in it. *)
LEMMA PrefixKeeps ==
  ASSUME NEW S, NEW s \in Seq(S), NEW n \in 0 .. Len(s)
  PROVE  /\ SubSeq(s, 1, n) \in Seq(S)
         /\ Len(SubSeq(s, 1, n)) = n
         /\ Len(s) \in Nat
         /\ \A i \in 1 .. n : SubSeq(s, 1, n)[i] = s[i]
<1>1. Len(s) \in Nat
  BY LenProperties
<1> QED BY <1>1, SubSeqProperties

-----------------------------------------------------------------------------
(***************************************************************************)
(* Reading.                                                                *)
(***************************************************************************)
IsReading(pieces, read, n) ==
  read = [i \in 0 .. n |->
            IF i = 0 THEN NothingRead ELSE ReadPiece(read[i - 1], pieces[i])]

(* There is something to be read after every number of pieces. *)
LEMMA ReadingExists ==
  ASSUME NEW pieces, NEW n \in Nat
  PROVE  \E read : IsReading(pieces, read, n)
<1> DEFINE Bad == {k \in Nat : ~ \E read : IsReading(pieces, read, k)}
<1> SUFFICES ASSUME Bad # {} PROVE FALSE
  OBVIOUS
<1>1. PICK k \in Bad : \A j \in Bad : k <= j
  BY FirstExists
<1>2. CASE k = 0
  <2>1. IsReading(pieces, [i \in 0 .. 0 |-> NothingRead], 0)
    BY DEF IsReading
  <2> QED BY <1>1, <1>2, <2>1
<1>3. CASE k # 0
  <2>1. k - 1 \in Nat /\ k - 1 \notin Bad
    BY <1>1, <1>3
  <2>2. PICK shorter : IsReading(pieces, shorter, k - 1)
    BY <2>1
  <2> DEFINE longer == [i \in 0 .. k |-> IF i = k THEN ReadPiece(shorter[k - 1], pieces[k])
                                                  ELSE shorter[i]]
  <2>3. \A i \in 0 .. k :
          longer[i] = IF i = 0 THEN NothingRead ELSE ReadPiece(longer[i - 1], pieces[i])
    <3> SUFFICES ASSUME NEW i \in 0 .. k
                 PROVE  longer[i] = IF i = 0 THEN NothingRead
                                    ELSE ReadPiece(longer[i - 1], pieces[i])
      OBVIOUS
    <3>1. CASE i = k
      <4>1. longer[i - 1] = shorter[k - 1]
        BY <1>3, <2>1, <3>1
      <4> QED BY <1>3, <3>1, <4>1
    <3>2. CASE i # k
      <4>1. i \in 0 .. (k - 1) /\ longer[i] = shorter[i]
        BY <2>1, <3>2
      <4>2. shorter[i] = IF i = 0 THEN NothingRead ELSE ReadPiece(shorter[i - 1], pieces[i])
        BY <2>2, <4>1 DEF IsReading
      <4>3. i # 0 => longer[i - 1] = shorter[i - 1]
        BY <2>1, <3>2
      <4> QED BY <4>1, <4>2, <4>3
    <3> QED BY <3>1, <3>2
  <2>4. IsReading(pieces, longer, k)
    <3> DEFINE again == [i \in 0 .. k |-> IF i = 0 THEN NothingRead
                                          ELSE ReadPiece(longer[i - 1], pieces[i])]
    <3>1. DOMAIN longer = 0 .. k /\ DOMAIN again = 0 .. k
      OBVIOUS
    <3>2. \A i \in 0 .. k : again[i] = IF i = 0 THEN NothingRead
                                       ELSE ReadPiece(longer[i - 1], pieces[i])
      OBVIOUS
    <3>3. longer = [i \in 0 .. k |-> longer[i]] /\ again = [i \in 0 .. k |-> again[i]]
      OBVIOUS
    <3> HIDE DEF longer, again
    <3>4. longer = again
      BY <2>3, <3>2, <3>3
    <3> QED BY <3>4 DEF IsReading, again
  <2> QED BY <1>1, <2>4
<1> QED BY <1>2, <1>3

(* What is read after each piece, from what was read before it. *)
LEMMA ReadsStepByStep ==
  ASSUME NEW pieces \in Seq(Pieces)
  PROVE  /\ Here(pieces, 0) = NothingRead
         /\ \A n \in 1 .. Len(pieces) :
              Here(pieces, n) = ReadPiece(Here(pieces, n - 1), pieces[n])
<1>1. Len(pieces) \in Nat
  BY LenProperties
<1>2. Reads(pieces) = CHOOSE read : IsReading(pieces, read, Len(pieces))
  BY DEF Reads, IsReading
<1>3. IsReading(pieces, Reads(pieces), Len(pieces))
  BY <1>1, <1>2, ReadingExists
<1>4. \A n \in 0 .. Len(pieces) :
        Reads(pieces)[n] = IF n = 0 THEN NothingRead
                           ELSE ReadPiece(Reads(pieces)[n - 1], pieces[n])
  BY <1>3 DEF IsReading
<1> QED BY <1>1, <1>4 DEF Here

(* A piece that is read, and the end of a line. *)
LEMMA EndOfLineIsAReading ==
  ASSUME NEW read \in Readings
  PROVE  /\ EndOfLine(read) \in Readings
         /\ EndOfLine(read).line = <<>>
         /\ EndOfLine(read).ok => read.ok
         /\ read.line = <<>> => EndOfLine(read) = read
         /\ \A e \in Events :
              read.line = <<Piece("head", e), Piece("tail", e)>> =>
                /\ EndOfLine(read).ok = read.ok
                /\ EndOfLine(read).events = Append(read.events, e)
         /\ EndOfLine(read).ok /\ read.line # <<>> =>
              \E e \in Events :
                /\ read.line = <<Piece("head", e), Piece("tail", e)>>
                /\ EndOfLine(read).events = Append(read.events, e)
<1>1. CASE read.line = <<>>
  <2>1. EndOfLine(read) = read
    BY <1>1 DEF EndOfLine
  <2>2. \A e : <<Piece("head", e), Piece("tail", e)>> # <<>>
    OBVIOUS
  <2> QED BY <1>1, <2>1, <2>2
<1>2. CASE read.line # <<>>
  <2> DEFINE e == Head(read.line).event
             whole == <<Piece("head", e), Piece("tail", e)>>
  <2>1. read.line \in Seq(Pieces) /\ Head(read.line) \in Pieces
    BY <1>2, HeadTailProperties DEF Readings
  <2>2. e \in Events
    BY <2>1 DEF Pieces
  <2>3. \A f \in Events : read.line = <<Piece("head", f), Piece("tail", f)>> => f = e
    BY DEF Piece
  <2>4. EndOfLine(read) =
          IF read.line = whole
          THEN [read EXCEPT !.events = Append(@, e), !.line = <<>>]
          ELSE [read EXCEPT !.ok = FALSE, !.line = <<>>]
    BY <1>2 DEF EndOfLine
  <2>5. Append(read.events, e) \in Seq(Events) /\ <<>> \in Seq(Pieces)
    BY <2>2, AppendProperties, EmptySeq DEF Readings
  <2> HIDE DEF e
  <2>6. CASE read.line = whole
    <3>1. EndOfLine(read) = [read EXCEPT !.events = Append(@, e), !.line = <<>>]
      BY <2>4, <2>6
    <3>2. /\ EndOfLine(read) \in Readings /\ EndOfLine(read).line = <<>>
          /\ EndOfLine(read).ok = read.ok
          /\ EndOfLine(read).events = Append(read.events, e)
      BY <2>5, <3>1 DEF Readings
    <3> QED BY <1>2, <2>2, <2>3, <2>6, <3>2
  <2>7. CASE read.line # whole
    <3>1. EndOfLine(read) = [read EXCEPT !.ok = FALSE, !.line = <<>>]
      BY <2>4, <2>7
    <3>2. /\ EndOfLine(read) \in Readings /\ EndOfLine(read).line = <<>>
          /\ EndOfLine(read).ok = FALSE
      BY <2>5, <3>1 DEF Readings
    <3>3. \A f \in Events : read.line # <<Piece("head", f), Piece("tail", f)>>
      BY <2>3, <2>7
    <3> QED BY <1>2, <3>2, <3>3
  <2> QED BY <2>6, <2>7
<1> QED BY <1>1, <1>2

(* One piece more. *)
LEMMA ReadPieceIsAReading ==
  ASSUME NEW read \in Readings, NEW piece \in Pieces
  PROVE  /\ ReadPiece(read, piece) \in Readings
         /\ piece.part = "end" => ReadPiece(read, piece) = EndOfLine(read)
         /\ piece.part # "end" =>
              /\ ReadPiece(read, piece).line = Append(read.line, piece)
              /\ ReadPiece(read, piece).events = read.events
              /\ ReadPiece(read, piece).ok = read.ok
<1>1. CASE piece.part = "end"
  BY <1>1, EndOfLineIsAReading DEF ReadPiece
<1>2. CASE piece.part # "end"
  <2>1. ReadPiece(read, piece) = [read EXCEPT !.line = Append(@, piece)]
    BY <1>2 DEF ReadPiece
  <2>2. Append(read.line, piece) \in Seq(Pieces)
    BY AppendProperties DEF Readings
  <2> QED BY <1>2, <2>1, <2>2 DEF Readings
<1> QED BY <1>1, <1>2

(* However many pieces are read, it is a reading. *)
LEMMA ReadsAreReadings ==
  ASSUME NEW pieces \in Seq(Pieces), NEW n \in 0 .. Len(pieces)
  PROVE  Here(pieces, n) \in Readings /\ Found(pieces, n) \in Readings
<1> DEFINE Bad == {k \in 0 .. Len(pieces) : Here(pieces, k) \notin Readings}
<1>1. Len(pieces) \in Nat /\ \A i \in 1 .. Len(pieces) : pieces[i] \in Pieces
  BY LenProperties, ElementOfSeq
<1>2. Bad = {}
  <2> SUFFICES ASSUME Bad # {} PROVE FALSE
    OBVIOUS
  <2>0. Bad \subseteq Nat
    BY <1>1
  <2>1. PICK k \in Bad : \A j \in Bad : k <= j
    BY <2>0, FirstExists
  <2>2. CASE k = 0
    <3>1. NothingRead \in Readings
      BY EmptySeq DEF NothingRead, Readings
    <3> QED BY <2>1, <2>2, <3>1, ReadsStepByStep
  <2>3. CASE k # 0
    <3>1. k - 1 \in 0 .. Len(pieces) /\ k - 1 \notin Bad /\ k \in 1 .. Len(pieces)
      BY <1>1, <2>1, <2>3
    <3>2. Here(pieces, k) = ReadPiece(Here(pieces, k - 1), pieces[k])
      BY <3>1, ReadsStepByStep
    <3> QED BY <1>1, <2>1, <3>1, <3>2, ReadPieceIsAReading
  <2> QED BY <2>2, <2>3
<1> QED BY <1>2, EndOfLineIsAReading DEF Found

(* What is read depends on nothing that comes later. *)
LEMMA SamePiecesSameReading ==
  ASSUME NEW s \in Seq(Pieces), NEW t \in Seq(Pieces),
         NEW n \in Nat, n <= Len(s), n <= Len(t),
         \A i \in 1 .. n : s[i] = t[i]
  PROVE  \A k \in 0 .. n : Here(s, k) = Here(t, k) /\ Found(s, k) = Found(t, k)
<1> DEFINE Bad == {k \in 0 .. n : Here(s, k) # Here(t, k)}
<1>1. Len(s) \in Nat /\ Len(t) \in Nat
  BY LenProperties
<1>2. Bad = {}
  <2> SUFFICES ASSUME Bad # {} PROVE FALSE
    OBVIOUS
  <2>0. Bad \subseteq Nat
    OBVIOUS
  <2>1. PICK k \in Bad : \A j \in Bad : k <= j
    BY <2>0, FirstExists
  <2>2. CASE k = 0
    BY <2>1, <2>2, ReadsStepByStep
  <2>3. CASE k # 0
    <3>1. k - 1 \in 0 .. n /\ k - 1 \notin Bad /\ k \in 1 .. Len(s) /\ k \in 1 .. Len(t)
      BY <1>1, <2>1, <2>3
    <3>2. /\ Here(s, k) = ReadPiece(Here(s, k - 1), s[k])
          /\ Here(t, k) = ReadPiece(Here(t, k - 1), t[k])
      BY <3>1, ReadsStepByStep
    <3> QED BY <2>1, <2>3, <3>1, <3>2
  <2> QED BY <2>2, <2>3
<1> QED BY <1>2 DEF Found

(* Reading on loses nothing: an error stays, and events are only added.    *)
Continues(a, b) ==
  b.ok => /\ a.ok
          /\ Len(a.events) <= Len(b.events)
          /\ \A i \in 1 .. Len(a.events) : b.events[i] = a.events[i]

LEMMA EndOfLineContinues ==
  ASSUME NEW read \in Readings
  PROVE  Continues(read, EndOfLine(read))
<1>1. read.events \in Seq(Events) /\ Len(read.events) \in Nat
  BY LenProperties DEF Readings
<1>2. CASE read.line = <<>>
  BY <1>1, <1>2, EndOfLineIsAReading DEF Continues
<1>3. CASE read.line # <<>>
  <2> SUFFICES ASSUME EndOfLine(read).ok PROVE Continues(read, EndOfLine(read))
    BY DEF Continues
  <2>1. PICK e \in Events : EndOfLine(read).events = Append(read.events, e)
    BY <1>3, EndOfLineIsAReading
  <2>2. read.ok
    BY EndOfLineIsAReading
  <2> QED BY <1>1, <2>1, <2>2, AppendKeeps DEF Continues
<1> QED BY <1>2, <1>3

LEMMA ReadPieceContinues ==
  ASSUME NEW read \in Readings, NEW piece \in Pieces
  PROVE  Continues(read, ReadPiece(read, piece))
<1>1. Len(read.events) \in Nat
  BY LenProperties DEF Readings
<1> QED BY <1>1, ReadPieceIsAReading, EndOfLineContinues DEF Continues

LEMMA ContinuesIsTransitive ==
  ASSUME NEW a \in Readings, NEW b \in Readings, NEW c \in Readings,
         Continues(a, b), Continues(b, c)
  PROVE  Continues(a, c)
<1>1. Len(a.events) \in Nat /\ Len(b.events) \in Nat /\ Len(c.events) \in Nat
  BY LenProperties DEF Readings
<1> QED BY <1>1 DEF Continues

LEMMA ReadingOnContinues ==
  ASSUME NEW pieces \in Seq(Pieces), NEW n \in 0 .. Len(pieces), NEW m \in n .. Len(pieces)
  PROVE  Continues(Here(pieces, n), Here(pieces, m))
<1> DEFINE Bad == {k \in n .. Len(pieces) : ~ Continues(Here(pieces, n), Here(pieces, k))}
<1>1. Len(pieces) \in Nat /\ \A i \in 1 .. Len(pieces) : pieces[i] \in Pieces
  BY LenProperties, ElementOfSeq
<1>2. \A k \in 0 .. Len(pieces) : Here(pieces, k) \in Readings
  BY ReadsAreReadings
<1>3. Bad = {}
  <2> SUFFICES ASSUME Bad # {} PROVE FALSE
    OBVIOUS
  <2>0. Bad \subseteq Nat
    BY <1>1
  <2>1. PICK k \in Bad : \A j \in Bad : k <= j
    BY <2>0, FirstExists
  <2>2. CASE k = n
    <3>1. Len(Here(pieces, n).events) \in Nat
      BY <1>2, LenProperties DEF Readings
    <3> QED BY <2>1, <2>2, <3>1 DEF Continues
  <2>3. CASE k # n
    <3>1. k - 1 \in n .. Len(pieces) /\ k - 1 \notin Bad /\ k \in 1 .. Len(pieces)
          /\ k - 1 \in 0 .. Len(pieces)
      BY <1>1, <2>1, <2>3
    <3>2. Here(pieces, k) = ReadPiece(Here(pieces, k - 1), pieces[k])
      BY <3>1, ReadsStepByStep
    <3>3. Continues(Here(pieces, k - 1), Here(pieces, k))
      BY <1>1, <1>2, <3>1, <3>2, ReadPieceContinues
    <3> QED BY <1>1, <1>2, <2>1, <3>1, <3>3, ContinuesIsTransitive
  <2> QED BY <2>2, <2>3
<1> QED BY <1>3

(* The line of an event, if it is no error, is its text and nothing else.  *)
LEMMA LastTwoPieces ==
  ASSUME NEW line \in Seq(Pieces), NEW h \in Pieces, NEW t \in Pieces, NEW a, NEW b,
         Append(Append(line, h), t) = <<a, b>>
  PROVE  line = <<>> /\ h = a /\ t = b
<1> DEFINE first == Append(line, h)
<1>1. first \in Seq(Pieces) /\ Len(line) \in Nat
      /\ Len(first) = Len(line) + 1
      /\ first[Len(line) + 1] = h
  BY AppendKeeps
<1> HIDE DEF first
<1>2. /\ Len(Append(first, t)) = Len(line) + 2
      /\ Append(first, t)[Len(line) + 1] = h
      /\ Append(first, t)[Len(line) + 2] = t
  BY <1>1, AppendKeeps
<1>3. Len(<<a, b>>) = 2 /\ <<a, b>>[1] = a /\ <<a, b>>[2] = b
  OBVIOUS
<1>4. Len(line) = 0
  BY <1>1, <1>2, <1>3 DEF first
<1>5. line = <<>>
  BY <1>4, EmptySeq
<1> QED BY <1>2, <1>3, <1>4, <1>5 DEF first

(* An event whose whole line is in a file that can be read is found.       *)
LEMMA WholeLineIsFound ==
  ASSUME NEW pieces \in Seq(Pieces), NEW e \in Events, NEW n \in 1 .. Len(pieces),
         Ends(pieces, n, e), Found(pieces, Len(pieces)).ok
  PROVE  LET events == Found(pieces, Len(pieces)).events IN
         \E j \in 1 .. Len(events) : events[j] = e
<1> DEFINE last == Len(pieces)
           h == Piece("head", e)
           t == Piece("tail", e)
           line == Here(pieces, n - 3).line
<1>1. /\ last \in Nat /\ n >= 3 /\ n \in 1 .. last
      /\ n - 1 \in 1 .. last /\ n - 2 \in 1 .. last /\ n - 3 \in 0 .. last
      /\ (n - 1) - 1 = n - 2 /\ (n - 2) - 1 = n - 3
  BY LenProperties DEF Ends
<1>2. \A k \in 0 .. last : Here(pieces, k) \in Readings
  BY ReadsAreReadings
<1>3. h \in Pieces /\ t \in Pieces /\ Piece("end", e) \in Pieces
      /\ h.part = "head" /\ t.part = "tail" /\ Piece("end", e).part = "end"
  BY DEF Piece, Pieces, Parts
<1>4. /\ Here(pieces, n - 2) = ReadPiece(Here(pieces, n - 3), h)
      /\ Here(pieces, n - 1) = ReadPiece(Here(pieces, n - 2), t)
      /\ Here(pieces, n) = ReadPiece(Here(pieces, n - 1), Piece("end", e))
  BY <1>1, ReadsStepByStep DEF Ends
<1>9. /\ line \in Seq(Pieces)
      /\ Here(pieces, n - 3) \in Readings /\ Here(pieces, n - 2) \in Readings
      /\ Here(pieces, n - 1) \in Readings
  <2>1. n - 1 \in 0 .. last /\ n - 2 \in 0 .. last
    BY <1>1
  <2> QED BY <1>1, <1>2, <2>1 DEF Readings
<1>0. \A f : h = Piece("head", f) => e = f
  BY DEF Piece
<1> HIDE DEF h, t
<1>5. Here(pieces, n - 2).line = Append(line, h)
  <2>1. ReadPiece(Here(pieces, n - 3), h).line = Append(Here(pieces, n - 3).line, h)
    <3> HIDE DEF line
    <3>1. h.part # "end"
      BY <1>3
    <3> QED BY <1>3, <1>9, <3>1, ReadPieceIsAReading
  <2> QED BY <1>4, <2>1
<1>6. Here(pieces, n - 1).line = Append(Append(line, h), t)
  <2>1. ReadPiece(Here(pieces, n - 2), t).line = Append(Here(pieces, n - 2).line, t)
    <3> HIDE DEF line
    <3>1. t.part # "end"
      BY <1>3
    <3> QED BY <1>3, <1>9, <3>1, ReadPieceIsAReading
  <2> QED BY <1>4, <1>5, <2>1
<1>7. Here(pieces, n) = EndOfLine(Here(pieces, n - 1))
  BY <1>3, <1>4, <1>9, ReadPieceIsAReading
<1> HIDE DEF line
<1>8. Continues(Here(pieces, n), Found(pieces, last))
  <2>1. Continues(Here(pieces, n), Here(pieces, last))
    BY <1>1, ReadingOnContinues
  <2>2. Continues(Here(pieces, last), Found(pieces, last))
    BY <1>1, <1>2, EndOfLineContinues DEF Found
  <2> QED BY <1>1, <1>2, <2>1, <2>2, ReadsAreReadings, ContinuesIsTransitive
<1>10. PICK f \in Events : /\ Here(pieces, n - 1).line = <<Piece("head", f), Piece("tail", f)>>
                           /\ Here(pieces, n).events = Append(Here(pieces, n - 1).events, f)
  <2>1. Here(pieces, n - 1).line # <<>>
    <3>1. Append(line, h) \in Seq(Pieces)
      BY <1>3, <1>9, AppendProperties
    <3> QED BY <1>3, <1>6, <3>1, AppendProperties
  <2>2. EndOfLine(Here(pieces, n - 1)).ok
    BY <1>7, <1>8 DEF Continues
  <2> QED BY <1>7, <1>9, <2>1, <2>2, EndOfLineIsAReading
<1>11. f = e
  <2>1. h = Piece("head", f)
    <3>1. Append(Append(line, h), t) = <<Piece("head", f), Piece("tail", f)>>
      BY <1>6, <1>10
    <3>2. line \in Seq(Pieces) /\ h \in Pieces /\ t \in Pieces
      BY <1>3, <1>9
    <3> QED BY ONLY <3>1, <3>2, LastTwoPieces
  <2> QED BY <1>0, <2>1
<1>12. /\ Len(Here(pieces, n).events) \in 1 .. Len(Here(pieces, n).events)
       /\ Here(pieces, n).events[Len(Here(pieces, n).events)] = e
  <2>1. Here(pieces, n - 1).events \in Seq(Events)
    BY <1>9 DEF Readings
  <2> QED BY <1>10, <1>11, <2>1, AppendKeeps
<1>13. Len(Found(pieces, last).events) \in Nat
  <2>1. Found(pieces, last) \in Readings
    BY <1>1, ReadsAreReadings
  <2> QED BY <2>1, LenProperties DEF Readings
<1> QED BY <1>8, <1>12, <1>13 DEF Continues

(* Of a file in order, the next event has a larger sequence than any event *)
(* whose whole line is there.                                              *)
LEMMA NextIsLater ==
  ASSUME Shapes, ReadsInOrder, NEW e \in Events, NEW next,
         IsNext(Found(file, Len(file)), next), IsKept(e)
  PROVE  e.seq < next.seq
<1> DEFINE events == Found(file, Len(file)).events
<1>1. PICK n \in 1 .. synced : Ends(file, n, e)
  BY DEF IsKept
<1>2. file \in Seq(Pieces) /\ Len(file) \in Nat /\ n \in 1 .. Len(file)
  BY LenProperties DEF Shapes
<1>3. PICK j \in 1 .. Len(events) : events[j] = e
  BY <1>1, <1>2, WholeLineIsFound DEF IsNext
<1>4. events \in Seq(Events) /\ Len(events) \in Nat /\ DOMAIN events = 1 .. Len(events)
  <2>1. Found(file, Len(file)) \in Readings
    BY <1>2, ReadsAreReadings
  <2> QED BY <2>1, LenProperties DEF Readings
<1>5. e.seq = j
  BY <1>2, <1>3, <1>4 DEF ReadsInOrder, InOrder, IsNext
<1> QED BY <1>3, <1>4, <1>5 DEF IsNext

(* In a file in order, ExpectedSequence counts the events.                 *)
LEMMA ExpectedIsNext ==
  ASSUME Shapes, ReadsInOrder, ReadTaskFile.ok, NEW e, e.seq = ExpectedSequence
  PROVE  IsNext(Found(file, Len(file)), e)
<1> DEFINE events == Found(file, Len(file)).events
<1>1. ReadTaskFile = Found(file, Len(file))
  BY DEF ReadTaskFile, Found, Here
<1>2. file \in Seq(Pieces) /\ Len(file) \in Nat
  BY LenProperties DEF Shapes
<1>3. events \in Seq(Events) /\ Len(events) \in Nat /\ DOMAIN events = 1 .. Len(events)
  <2>1. Found(file, Len(file)) \in Readings
    BY <1>2, ReadsAreReadings
  <2> QED BY <2>1, LenProperties DEF Readings
<1>4. events = <<>> => Len(events) = 0
  OBVIOUS
<1>5. events # <<>> => events[Len(events)].seq = Len(events)
  <2>1. events # <<>> => Len(events) # 0
    BY <1>3, EmptySeq
  <2> QED BY <1>1, <1>2, <1>3, <2>1 DEF ReadsInOrder, InOrder
<1> QED BY <1>1, <1>3, <1>4, <1>5 DEF IsNext, ExpectedSequence

(* Whatever can be read loads. *)
LEMMA ReadableLoads ==
  ASSUME Shapes, ReadsInOrder
  PROVE  Loads <=> Found(file, Len(file)).ok
<1>1. ReadTaskFile = Found(file, Len(file))
  BY DEF ReadTaskFile, Found, Here
<1>2. Len(file) \in Nat
  BY LenProperties DEF Shapes
<1> QED BY <1>1, <1>2 DEF Loads, ReadsInOrder, InOrder

(* Nothing is found that was not written. *)
LEMMA FoundWasWritten ==
  ASSUME NEW pieces \in Seq(Pieces), NEW S,
         \A i \in 1 .. Len(pieces) : pieces[i].event \in S,
         NEW n \in 0 .. Len(pieces)
  PROVE  \A i \in 1 .. Len(Found(pieces, n).events) : Found(pieces, n).events[i] \in S
<1> DEFINE Written(read) ==
             /\ \A i \in 1 .. Len(read.events) : read.events[i] \in S
             /\ \A i \in 1 .. Len(read.line) : read.line[i].event \in S
           Bad == {k \in 0 .. Len(pieces) : ~ Written(Here(pieces, k))}
<1>1. Len(pieces) \in Nat /\ \A i \in 1 .. Len(pieces) : pieces[i] \in Pieces
  BY LenProperties, ElementOfSeq
<1>2. \A k \in 0 .. Len(pieces) : Here(pieces, k) \in Readings
  BY ReadsAreReadings
<1>3. ASSUME NEW read \in Readings, Written(read) PROVE Written(EndOfLine(read))
  <2>1. read.events \in Seq(Events) /\ read.line \in Seq(Pieces)
    BY DEF Readings
  <2>2. CASE read.line = <<>>
    BY <1>3, <2>2 DEF EndOfLine
  <2>3. CASE read.line # <<>>
    <3> DEFINE e == Head(read.line).event
    <3>1. e \in S /\ e \in Events
      <4>1. Len(read.line) \in Nat /\ Len(read.line) # 0
        BY <2>1, <2>3, EmptySeq, LenProperties
      <4>2. Head(read.line) = read.line[1] /\ read.line[1] \in Pieces
        BY <2>1, <2>3, <4>1, HeadTailProperties, ElementOfSeq
      <4> QED BY <1>3, <4>1, <4>2 DEF Pieces
    <3>2. /\ Len(EndOfLine(read).line) = 0
          /\ \/ EndOfLine(read).events = Append(read.events, e)
             \/ EndOfLine(read).events = read.events
      BY <2>3 DEF EndOfLine, Readings
    <3> HIDE DEF e
    <3>3. Len(read.events) \in Nat /\ Len(Append(read.events, e)) = Len(read.events) + 1
          /\ \A i \in 1 .. Len(read.events) : Append(read.events, e)[i] = read.events[i]
          /\ Append(read.events, e)[Len(read.events) + 1] = e
      BY <2>1, <3>1, AppendKeeps
    <3>4. \A i \in 1 .. (Len(read.events) + 1) : Append(read.events, e)[i] \in S
      BY <1>3, <3>1, <3>3
    <3>5. \A i \in 1 .. Len(EndOfLine(read).events) : EndOfLine(read).events[i] \in S
      <4>1. CASE EndOfLine(read).events = Append(read.events, e)
        BY <3>3, <3>4, <4>1
      <4>2. CASE EndOfLine(read).events = read.events
        BY <1>3, <4>2
      <4> QED BY <3>2, <4>1, <4>2
    <3>6. \A i \in 1 .. Len(EndOfLine(read).line) : EndOfLine(read).line[i].event \in S
      BY <3>2
    <3> QED BY <3>5, <3>6
  <2> QED BY <2>2, <2>3
<1>4. ASSUME NEW read \in Readings, NEW piece \in Pieces, piece.event \in S, Written(read)
      PROVE  Written(ReadPiece(read, piece))
  <2>1. CASE piece.part = "end"
    BY <1>3, <1>4, <2>1 DEF ReadPiece
  <2>2. CASE piece.part # "end"
    <3>1. /\ ReadPiece(read, piece).line = Append(read.line, piece)
          /\ ReadPiece(read, piece).events = read.events
      BY <1>4, <2>2, ReadPieceIsAReading
    <3>2. read.line \in Seq(Pieces)
      BY DEF Readings
    <3>3. Len(read.line) \in Nat /\ Len(Append(read.line, piece)) = Len(read.line) + 1
          /\ \A i \in 1 .. Len(read.line) : Append(read.line, piece)[i] = read.line[i]
          /\ Append(read.line, piece)[Len(read.line) + 1] = piece
      BY <1>4, <3>2, AppendKeeps
    <3>4. \A i \in 1 .. (Len(read.line) + 1) : Append(read.line, piece)[i].event \in S
      BY <1>4, <3>3
    <3> QED BY <1>4, <3>1, <3>3, <3>4
  <2> QED BY <2>1, <2>2
<1> HIDE DEF Written
<1>5. Bad = {}
  <2> SUFFICES ASSUME Bad # {} PROVE FALSE
    OBVIOUS
  <2>0. Bad \subseteq Nat
    BY <1>1
  <2>1. PICK k \in Bad : \A j \in Bad : k <= j
    BY <2>0, FirstExists
  <2>2. CASE k = 0
    <3>1. Len(NothingRead.events) = 0 /\ Len(NothingRead.line) = 0
      BY DEF NothingRead
    <3> QED BY <2>1, <2>2, <3>1, ReadsStepByStep DEF Written
  <2>3. CASE k # 0
    <3>1. k - 1 \in 0 .. Len(pieces) /\ k - 1 \notin Bad /\ k \in 1 .. Len(pieces)
      BY <1>1, <2>1, <2>3
    <3>2. Here(pieces, k) = ReadPiece(Here(pieces, k - 1), pieces[k])
      BY <3>1, ReadsStepByStep
    <3>3. Here(pieces, k - 1) \in Readings /\ Written(Here(pieces, k - 1))
      BY <1>2, <3>1
    <3>4. pieces[k] \in Pieces /\ pieces[k].event \in S
      BY <1>1, <3>1
    <3>5. Written(Here(pieces, k))
      BY <1>4, <3>2, <3>3, <3>4
    <3> QED BY <2>1, <3>5
  <2> QED BY <2>2, <2>3
<1>6. Here(pieces, n) \in Readings /\ Written(Here(pieces, n))
  BY <1>2, <1>5
<1>7. Written(Found(pieces, n))
  BY <1>3, <1>6 DEF Found
<1> QED BY <1>7 DEF Written

-----------------------------------------------------------------------------
(***************************************************************************)
(* Every step keeps the invariant.                                         *)
(***************************************************************************)
(* While one append is on its way no other is.                             *)
LEMMA OnlyOneAppends ==
  ASSUME Shapes, OneAppend, NEW c \in Callers, pc[c] \in AppendSteps
  PROVE  /\ lock = c /\ lock # Nobody
         /\ \A d \in Callers \ {c} : pc[d] \notin AppendSteps
BY NobodyIsNoCaller DEF OneAppend

(* Initially the file is empty. *)
LEMMA InitEstablishesIInv == Init => IInv
<1> SUFFICES ASSUME Init PROVE IInv
  OBVIOUS
<1>1. file = <<>> /\ heard = <<>> /\ acked = {} /\ used.appends = 0 /\ synced = 0
      /\ lock = Nobody
      /\ \A c \in Callers : pc[c] = "idle" /\ known[c] = 0
  BY DEF Init
<1>2. file \in Seq(Pieces) /\ Len(file) = 0 /\ DOMAIN file = {}
      /\ heard \in Seq(Events) /\ DOMAIN heard = {}
  BY <1>1, EmptySeq
<1>3. Shapes
  BY <1>2 DEF Init, Shapes, NoEvent, Events
<1>4. Bounded
  BY <1>1, <1>2, BoundsAreNat DEF Bounded
<1>5. OneAppend /\ LineInPlace /\ AckedAreKept /\ HeardAreAcked /\ HeardInOrder
  BY <1>1, <1>2, NobodyIsNoCaller
     DEF OneAppend, LineInPlace, AckedAreKept, HeardAreAcked, HeardInOrder, AppendSteps
<1>6. Here(file, 0) = NothingRead /\ Found(file, 0) = NothingRead
  <2>1. EndOfLine(NothingRead) = NothingRead
    BY DEF EndOfLine, NothingRead
  <2> QED BY <1>2, <2>1, ReadsStepByStep DEF Found
<1>7. ReadsInOrder
  BY <1>2, <1>6 DEF ReadsInOrder, InOrder, NothingRead
<1>8. NextIsAppended
  BY <1>1 DEF NextIsAppended, AppendSteps
<1>9. CleanLines
  BY <1>1, <1>2, <1>6 DEF CleanLines, Reading, NothingRead
<1> QED
  BY <1>3, <1>4, <1>5, <1>7, <1>8, <1>9 DEF IInv


(* What the invariant says does not depend on what a step leaves alone. *)
LEMMA StutterKeepsIInv ==
  ASSUME IInv, UNCHANGED vars
  PROVE  IInv'
BY DEF IInv, vars, Shapes, Bounded, Numbered, OneAppend, LineInPlace, AckedAreKept, IsKept,
       HeardAreAcked, ReadsInOrder, NextIsAppended, CleanLines, Undisturbed, Reading,
       HeardInOrder

(* The largest sequence that can be read is one that was given out. *)
LEMMA LoadedIsNumbered ==
  ASSUME IInv, Loads
  PROVE  Len(ReadTaskFile.events) \in Nat /\ Len(ReadTaskFile.events) <= used.appends
<1> DEFINE events == ReadTaskFile.events
           S == {e \in Events : Numbered(e)}
<1>1. ReadTaskFile = Found(file, Len(file))
  BY DEF ReadTaskFile, Found, Here
<1>2. file \in Seq(Pieces) /\ Len(file) \in Nat /\ used.appends \in Nat
      /\ Len(file) \in 0 .. Len(file)
  BY LenProperties DEF IInv, Shapes
<1>3. events \in Seq(Events) /\ Len(events) \in Nat /\ DOMAIN events = 1 .. Len(events)
  <2>1. Found(file, Len(file)) \in Readings
    BY <1>2, ReadsAreReadings
  <2> QED BY <1>1, <2>1, LenProperties DEF Readings
<1>4. \A i \in 1 .. Len(file) : file[i].event \in S
  <2>1. \A i \in 1 .. Len(file) : file[i] \in Pieces /\ i \in DOMAIN file
    BY <1>2, ElementOfSeq
  <2> QED BY <2>1 DEF IInv, Bounded, Pieces
<1>5. \A i \in 1 .. Len(events) : events[i] \in S
  <2> HIDE DEF S
  <2>1. \A i \in 1 .. Len(Found(file, Len(file)).events) :
          Found(file, Len(file)).events[i] \in S
    BY <1>2, <1>4, FoundWasWritten
  <2> QED BY <1>1, <2>1
<1>6. CASE Len(events) = 0
  BY <1>2, <1>6
<1>7. CASE Len(events) # 0
  <2>1. Len(events) \in 1 .. Len(events)
    BY <1>3, <1>7
  <2>2. events[Len(events)].seq = Len(events) /\ Numbered(events[Len(events)])
    BY <1>3, <1>5, <2>1 DEF Loads
  <2> QED BY <1>2, <1>3, <2>2 DEF Numbered
<1> QED BY <1>6, <1>7

LEMMA LoadTaskKeepsIInv ==
  ASSUME IInv, NEW c \in Callers, LoadTask(c)
  PROVE  IInv'
<1>1. Len(ReadTaskFile.events) \in Nat /\ Len(ReadTaskFile.events) <= used.appends
  BY LoadedIsNumbered DEF LoadTask
<1> DEFINE n == Len(ReadTaskFile.events)
<1>2. known' = [known EXCEPT ![c] = n]
      /\ UNCHANGED <<file, synced, lock, pc, event, acked, heard, used>>
  BY DEF LoadTask
<1> HIDE DEF n
<1>3. Shapes'
  BY <1>1, <1>2 DEF IInv, Shapes, n
<1>4. Bounded'
  BY <1>1, <1>2 DEF IInv, Shapes, Bounded, Numbered, n
<1>5. OneAppend' /\ LineInPlace' /\ AckedAreKept' /\ HeardAreAcked' /\ ReadsInOrder'
      /\ NextIsAppended' /\ CleanLines' /\ HeardInOrder'
  BY <1>2 DEF IInv, OneAppend, LineInPlace, AckedAreKept, IsKept, HeardAreAcked,
              ReadsInOrder, NextIsAppended, CleanLines, Undisturbed, Reading, HeardInOrder
<1> QED BY <1>3, <1>4, <1>5 DEF IInv

LEMMA CallAppendKeepsIInv ==
  ASSUME IInv, NEW c \in Callers, CallAppend(c)
  PROVE  IInv'
<1> DEFINE id == used.appends + 1
           e == [seq |-> known[c] + 1, id |-> id]
<1>1. used' = [used EXCEPT !.appends = id] /\ used.appends \in Nat /\ known[c] \in Nat
      /\ used.appends < MaxAppends /\ pc[c] = "idle"
      /\ used'.appends = id /\ used'.failures = used.failures /\ used'.crashes = used.crashes
  BY DEF CallAppend, IInv, Shapes
<1>2. /\ event' = [event EXCEPT ![c] = e] /\ pc' = [pc EXCEPT ![c] = "called"]
      /\ UNCHANGED <<file, synced, lock, known, acked, heard>>
  BY <1>1 DEF CallAppend
<1>3. e \in Events /\ e.seq \in 1 .. id
  BY <1>1 DEF Events, IInv, Bounded
<1>4. /\ \A d \in Callers : pc'[d] = IF d = c THEN "called" ELSE pc[d]
      /\ \A d \in Callers \ {c} : event'[d] = event[d]
      /\ event'[c] = e
  BY <1>2 DEF IInv, Shapes
<1> HIDE DEF e
<1>5. Shapes'
  <2>1. used' \in [appends : Nat, failures : Nat, crashes : Nat]
    BY <1>1 DEF IInv, Shapes
  <2>2. event' \in [Callers -> Events]
    BY <1>2, <1>3 DEF IInv, Shapes
  <2>3. pc' \in [Callers -> {"idle", "called"} \cup AppendSteps]
    BY <1>2 DEF IInv, Shapes
  <2> QED BY <1>2, <2>1, <2>2, <2>3 DEF IInv, Shapes
<1>6. Bounded'
  <2>1. MaxAppends \in Nat
    BY BoundsAreNat
  <2>2. \A f : Numbered(f) => Numbered(f)'
    BY <1>1 DEF Numbered
  <2>3. \A i \in DOMAIN file' : Numbered(file[i].event)'
    BY <1>2, <2>2 DEF IInv, Bounded
  <2>4. \A d \in Callers : known'[d] <= used'.appends
    BY <1>1, <1>2 DEF IInv, Bounded, Shapes
  <2>5. \A d \in Callers : pc'[d] # "idle" => event'[d].seq \in 1 .. used'.appends
    BY <1>1, <1>3, <1>4 DEF IInv, Bounded, Numbered
  <2>6. \A i \in DOMAIN file' : file'[i].event.seq \in 1 .. used'.appends
    BY <1>1, <1>2 DEF IInv, Bounded, Numbered
  <2> QED BY <1>1, <2>1, <2>4, <2>5, <2>6 DEF Bounded, Numbered
<1>7. \A d \in Callers : pc'[d] \in AppendSteps => pc'[d] = pc[d] /\ event'[d] = event[d]
  BY <1>4 DEF AppendSteps
<1>8. \A d \in Callers : pc'[d] \in AppendSteps <=> pc[d] \in AppendSteps
  BY <1>1, <1>4 DEF AppendSteps
<1>9. OneAppend'
  BY <1>2, <1>8 DEF IInv, OneAppend
<1>10. LineInPlace'
  BY <1>2, <1>7 DEF IInv, LineInPlace, IsKept, AppendSteps
<1>11. NextIsAppended'
  BY <1>2, <1>7 DEF IInv, NextIsAppended, AppendSteps
<1>12. CleanLines'
  BY <1>1, <1>2, <1>7 DEF IInv, CleanLines, Undisturbed, Reading, AppendSteps
<1>13. AckedAreKept' /\ HeardAreAcked' /\ ReadsInOrder' /\ HeardInOrder'
  BY <1>2 DEF IInv, AckedAreKept, IsKept, HeardAreAcked, ReadsInOrder, HeardInOrder
<1> QED BY <1>5, <1>6, <1>9, <1>10, <1>11, <1>12, <1>13 DEF IInv

LEMMA CheckSequenceKeepsIInv ==
  ASSUME IInv, NEW c \in Callers, CheckSequence(c)
  PROVE  IInv'
<1>1. /\ pc[c] = "called" /\ lock = Nobody /\ lock' = c
      /\ pc' = [pc EXCEPT ![c] = "head"]
      /\ UNCHANGED <<file, synced, known, event, acked, heard, used>>
  BY DEF CheckSequence
<1>2. \A d \in Callers : pc'[d] = IF d = c THEN "head" ELSE pc[d]
  BY <1>1 DEF IInv, Shapes
<1>3. \A d \in Callers : pc[d] \notin AppendSteps
  BY <1>1, NobodyIsNoCaller DEF IInv, OneAppend
<1>4. \A d \in Callers : pc'[d] \in AppendSteps <=> d = c
  BY <1>2, <1>3 DEF AppendSteps
<1>5. IsNext(Found(file, Len(file)), event[c])
  BY ExpectedIsNext DEF CheckSequence, IInv
<1>6. \A i \in DOMAIN heard : heard[i].seq < event[c].seq
  <2> SUFFICES ASSUME NEW i \in DOMAIN heard PROVE heard[i].seq < event[c].seq
    OBVIOUS
  <2>1. heard[i] \in acked /\ acked \subseteq Events
    BY DEF IInv, HeardAreAcked, Shapes
  <2>2. heard[i] \in Events /\ IsKept(heard[i])
    BY <2>1 DEF IInv, AckedAreKept
  <2>3. Shapes /\ ReadsInOrder
    BY DEF IInv
  <2> QED BY <1>5, <2>2, <2>3, NextIsLater
<1>7. Shapes'
  BY <1>1, <1>4 DEF IInv, Shapes, AppendSteps
<1>8. Bounded'
  BY <1>1, <1>2 DEF IInv, Bounded, Numbered
<1>9. OneAppend'
  BY <1>1, <1>4 DEF OneAppend
<1>10. LineInPlace'
  BY <1>2, <1>4 DEF LineInPlace, AppendSteps
<1>11. NextIsAppended'
  BY <1>1, <1>2, <1>4, <1>5, <1>6 DEF NextIsAppended, AppendSteps
<1>12. CleanLines'
  BY <1>1, <1>2, <1>4, NobodyIsNoCaller DEF IInv, CleanLines, Undisturbed, Reading, AppendSteps
<1>13. AckedAreKept' /\ HeardAreAcked' /\ ReadsInOrder' /\ HeardInOrder'
  BY <1>1 DEF IInv, AckedAreKept, IsKept, HeardAreAcked, ReadsInOrder, HeardInOrder
<1> QED BY <1>7, <1>8, <1>9, <1>10, <1>11, <1>12, <1>13 DEF IInv

LEMMA RefuseKeepsIInv ==
  ASSUME IInv, NEW c \in Callers, Refuse(c)
  PROVE  IInv'
<1>1. /\ pc[c] = "called" /\ pc' = [pc EXCEPT ![c] = "idle"]
      /\ UNCHANGED <<file, synced, lock, known, event, acked, heard, used>>
  BY DEF Refuse
<1>2. \A d \in Callers : pc'[d] = IF d = c THEN "idle" ELSE pc[d]
  BY <1>1 DEF IInv, Shapes
<1>3. \A d \in Callers : pc'[d] \in AppendSteps => pc'[d] = pc[d]
  BY <1>2 DEF AppendSteps
<1>4. \A d \in Callers : pc'[d] \in AppendSteps <=> pc[d] \in AppendSteps
  BY <1>1, <1>2 DEF AppendSteps
<1>5. Shapes'
  BY <1>1 DEF IInv, Shapes
<1>6. Bounded'
  BY <1>1, <1>2 DEF IInv, Bounded, Numbered
<1>7. OneAppend'
  BY <1>1, <1>4 DEF IInv, OneAppend
<1>8. LineInPlace'
  BY <1>1, <1>3 DEF IInv, LineInPlace, IsKept, AppendSteps
<1>9. NextIsAppended'
  BY <1>1, <1>3 DEF IInv, NextIsAppended, AppendSteps
<1>10. CleanLines'
  BY <1>1, <1>3 DEF IInv, CleanLines, Undisturbed, Reading, AppendSteps
<1>11. AckedAreKept' /\ HeardAreAcked' /\ ReadsInOrder' /\ HeardInOrder'
  BY <1>1 DEF IInv, AckedAreKept, IsKept, HeardAreAcked, ReadsInOrder, HeardInOrder
<1> QED BY <1>5, <1>6, <1>7, <1>8, <1>9, <1>10, <1>11 DEF IInv

(* The event whose line is complete becomes durable with it. *)
LEMMA SyncDataKeepsIInv ==
  ASSUME IInv, NEW c \in Callers, SyncData(c)
  PROVE  IInv'
<1>1. /\ pc[c] = "sync" /\ synced' = Len(file) /\ pc' = [pc EXCEPT ![c] = "publish"]
      /\ UNCHANGED <<file, lock, known, event, acked, heard, used>>
  BY DEF SyncData
<1>2. \A d \in Callers : pc'[d] = IF d = c THEN "publish" ELSE pc[d]
  BY <1>1 DEF IInv, Shapes
<1>3. \A d \in Callers \ {c} : pc[d] \notin AppendSteps
  BY <1>1, OnlyOneAppends DEF IInv, AppendSteps
<1>4. \A d \in Callers : pc'[d] \in AppendSteps <=> d = c
  BY <1>2, <1>3 DEF AppendSteps
<1>5. Len(file) \in Nat /\ synced \in 0 .. Len(file)
  BY LenProperties DEF IInv, Shapes
<1>6. \A e : IsKept(e) => IsKept(e)'
  <2> SUFFICES ASSUME NEW e, IsKept(e) PROVE IsKept(e)'
    OBVIOUS
  <2>1. PICK n \in 1 .. synced : Ends(file, n, e)
    BY DEF IsKept
  <2>2. n \in 1 .. synced' /\ Ends(file', n, e)
    BY <1>1, <1>5, <2>1
  <2> QED BY <2>2 DEF IsKept
<1>7. \E n \in 1 .. synced' : Ends(file', n, event'[c])
  <2>1. Ends(file, Len(file), event[c])
    BY <1>1 DEF IInv, LineInPlace
  <2>2. Len(file) \in 1 .. synced'
    BY <1>1, <1>5, <2>1 DEF Ends
  <2> QED BY <1>1, <2>1, <2>2
<1>8. Shapes'
  BY <1>1, <1>5 DEF IInv, Shapes, AppendSteps
<1>9. Bounded'
  BY <1>1, <1>2 DEF IInv, Bounded, Numbered
<1>10. OneAppend'
  BY <1>1, <1>2 DEF IInv, OneAppend, AppendSteps
<1>11. LineInPlace'
  BY <1>1, <1>2, <1>4, <1>7 DEF LineInPlace, IsKept, AppendSteps
<1>12. NextIsAppended'
  BY <1>1, <1>2, <1>4 DEF IInv, NextIsAppended, AppendSteps
<1>13. CleanLines'
  BY <1>1, <1>2, <1>4 DEF IInv, CleanLines, Undisturbed, Reading, AppendSteps
<1>14. AckedAreKept' /\ HeardAreAcked' /\ ReadsInOrder' /\ HeardInOrder'
  BY <1>1, <1>6 DEF IInv, AckedAreKept, HeardAreAcked, ReadsInOrder, HeardInOrder
<1> QED BY <1>8, <1>9, <1>10, <1>11, <1>12, <1>13, <1>14 DEF IInv

(* An event is acknowledged and sent that is durable, and the next one. *)
LEMMA PublishKeepsIInv ==
  ASSUME IInv, NEW c \in Callers, Publish(c)
  PROVE  IInv'
<1>1. /\ pc[c] = "publish" /\ lock' = Nobody /\ pc' = [pc EXCEPT ![c] = "idle"]
      /\ heard' = Append(heard, event[c]) /\ acked' = acked \cup {event[c]}
      /\ known' = [known EXCEPT ![c] = event[c].seq]
      /\ UNCHANGED <<file, synced, event, used>>
  BY DEF Publish
<1>2. \A d \in Callers : pc'[d] = IF d = c THEN "idle" ELSE pc[d]
  BY <1>1 DEF IInv, Shapes
<1>3. \A d \in Callers \ {c} : pc[d] \notin AppendSteps
  BY <1>1, OnlyOneAppends DEF IInv, AppendSteps
<1>4. \A d \in Callers : pc'[d] \notin AppendSteps
  BY <1>2, <1>3 DEF AppendSteps
<1>5. event[c] \in Events /\ Numbered(event[c]) /\ used.appends \in Nat
  BY <1>1 DEF IInv, Shapes, Bounded
<1>6. heard \in Seq(Events) /\ heard' \in Seq(Events)
      /\ Len(heard) \in Nat /\ DOMAIN heard = 1 .. Len(heard)
      /\ DOMAIN heard' = 1 .. (Len(heard) + 1)
      /\ \A i \in 1 .. Len(heard) : heard'[i] = heard[i]
      /\ heard'[Len(heard) + 1] = event[c]
  <2>1. heard \in Seq(Events)
    BY DEF IInv, Shapes
  <2> QED BY <1>1, <1>5, <2>1, AppendKeeps
<1>7. Shapes'
  BY <1>1, <1>5, <1>6 DEF IInv, Shapes, Events
<1>8. Bounded'
  BY <1>1, <1>2, <1>5 DEF IInv, Bounded, Numbered, Shapes
<1>9. OneAppend'
  BY <1>1, <1>4, NobodyIsNoCaller DEF OneAppend
<1>10. LineInPlace' /\ NextIsAppended'
  BY <1>4 DEF LineInPlace, NextIsAppended, AppendSteps
<1>11. CleanLines'
  BY <1>1, <1>4 DEF IInv, CleanLines, Undisturbed, Reading, AppendSteps
<1>12. AckedAreKept'
  BY <1>1 DEF IInv, AckedAreKept, IsKept, LineInPlace
<1>13. HeardAreAcked'
  <2> SUFFICES ASSUME NEW i \in DOMAIN heard' PROVE heard'[i] \in acked'
    BY DEF HeardAreAcked
  <2>1. i \in 1 .. Len(heard) \/ i = Len(heard) + 1
    BY <1>6
  <2> QED BY <1>1, <1>6, <2>1 DEF IInv, HeardAreAcked
<1>14. HeardInOrder'
  <2> SUFFICES ASSUME NEW i \in DOMAIN heard', NEW j \in DOMAIN heard', i < j
               PROVE  heard'[i].seq < heard'[j].seq
    BY DEF HeardInOrder
  <2>1. i \in 1 .. Len(heard) /\ heard'[i] = heard[i]
    BY <1>6
  <2>2. CASE j \in 1 .. Len(heard)
    BY <1>6, <2>1, <2>2 DEF IInv, HeardInOrder
  <2>3. CASE j = Len(heard) + 1
    <3>1. heard[i].seq < event[c].seq
      BY <1>1, <1>6, <2>1 DEF IInv, NextIsAppended, AppendSteps
    <3> QED BY <1>6, <2>1, <2>3, <3>1
  <2> QED BY <1>6, <2>2, <2>3
<1>15. ReadsInOrder'
  BY <1>1 DEF IInv, ReadsInOrder
<1> QED
  BY <1>7, <1>8, <1>9, <1>10, <1>11, <1>12, <1>13, <1>14, <1>15 DEF IInv

LEMMA FailKeepsIInv ==
  ASSUME IInv, NEW c \in Callers, Fail(c)
  PROVE  IInv'
<1>1. /\ pc[c] \in AppendSteps /\ lock' = Nobody /\ pc' = [pc EXCEPT ![c] = "idle"]
      /\ used' = [used EXCEPT !.failures = @ + 1]
      /\ UNCHANGED <<file, synced, known, event, acked, heard>>
  BY DEF Fail, After, AppendSteps
<1>2. \A d \in Callers : pc'[d] = IF d = c THEN "idle" ELSE pc[d]
  BY <1>1 DEF IInv, Shapes
<1>3. \A d \in Callers \ {c} : pc[d] \notin AppendSteps
  BY <1>1, OnlyOneAppends DEF IInv
<1>4. \A d \in Callers : pc'[d] \notin AppendSteps
  BY <1>2, <1>3 DEF AppendSteps
<1>5. used.failures \in Nat /\ used'.failures = used.failures + 1
      /\ used'.appends = used.appends
      /\ used' \in [appends : Nat, failures : Nat, crashes : Nat]
  BY <1>1 DEF IInv, Shapes
<1>6. Shapes'
  BY <1>1, <1>5 DEF IInv, Shapes
<1>7. Bounded'
  BY <1>1, <1>2, <1>5 DEF IInv, Bounded, Numbered
<1>8. OneAppend'
  BY <1>1, <1>4, NobodyIsNoCaller DEF OneAppend
<1>9. LineInPlace' /\ NextIsAppended'
  BY <1>4 DEF LineInPlace, NextIsAppended, AppendSteps
<1>10. CleanLines'
  BY <1>5 DEF CleanLines, Undisturbed
<1>11. AckedAreKept' /\ HeardAreAcked' /\ ReadsInOrder' /\ HeardInOrder'
  BY <1>1 DEF IInv, AckedAreKept, IsKept, HeardAreAcked, ReadsInOrder, HeardInOrder
<1> QED BY <1>6, <1>7, <1>8, <1>9, <1>10, <1>11 DEF IInv

(* What is durable stays, and a file cut short reads as its first part. *)
LEMMA CrashKeepsIInv ==
  ASSUME IInv, Crash
  PROVE  IInv'
<1>1. PICK kept \in synced .. Len(file) : file' = SubSeq(file, 1, kept)
  BY DEF Crash
<1>2. /\ used' = [used EXCEPT !.crashes = @ + 1] /\ lock' = Nobody
      /\ pc' = [c \in Callers |-> "idle"] /\ known' = [c \in Callers |-> 0]
      /\ heard' = <<>>
      /\ UNCHANGED <<synced, event, acked>>
  BY DEF Crash
<1>3. file \in Seq(Pieces) /\ Len(file) \in Nat /\ synced \in 0 .. Len(file)
      /\ kept \in 0 .. Len(file) /\ kept \in Nat /\ kept <= Len(file)
  BY <1>1, LenProperties DEF IInv, Shapes
<1>4. file' \in Seq(Pieces) /\ Len(file') = kept /\ DOMAIN file' = 1 .. kept
      /\ DOMAIN file = 1 .. Len(file)
      /\ \A i \in 1 .. kept : file'[i] = file[i]
  BY <1>1, <1>3, PrefixKeeps, LenProperties
<1>5. used.crashes \in Nat /\ used'.crashes = used.crashes + 1
      /\ used'.appends = used.appends /\ used.appends \in Nat
      /\ used' \in [appends : Nat, failures : Nat, crashes : Nat]
  BY <1>2 DEF IInv, Shapes
<1>6. heard' \in Seq(Events) /\ DOMAIN heard' = {}
  BY <1>2, EmptySeq
<1>7. Shapes'
  BY <1>1, <1>2, <1>3, <1>4, <1>5, <1>6 DEF IInv, Shapes
<1>8. Bounded'
  BY <1>2, <1>3, <1>4, <1>5 DEF IInv, Bounded, Numbered
<1>9. OneAppend' /\ LineInPlace' /\ NextIsAppended'
  BY <1>2, NobodyIsNoCaller DEF OneAppend, LineInPlace, NextIsAppended, AppendSteps
<1>10. CleanLines'
  BY <1>5 DEF CleanLines, Undisturbed
<1>11. AckedAreKept'
  <2> SUFFICES ASSUME NEW e \in acked PROVE IsKept(e)'
    BY <1>2 DEF AckedAreKept
  <2>1. PICK n \in 1 .. synced : Ends(file, n, e)
    BY DEF IInv, AckedAreKept, IsKept
  <2>2. n \in 1 .. kept
    BY <1>1, <1>3, <2>1
  <2>3. Ends(file', n, e)
    BY <1>3, <1>4, <2>1, <2>2 DEF Ends
  <2> QED BY <1>2, <2>1, <2>3 DEF IsKept
<1>12. HeardAreAcked' /\ HeardInOrder'
  BY <1>6 DEF HeardAreAcked, HeardInOrder
<1>13. ReadsInOrder'
  <2>1. \A k \in 0 .. kept : Found(file', k) = Found(file, k)
    BY <1>3, <1>4, SamePiecesSameReading
  <2>2. \A k \in 0 .. kept : InOrder(Found(file, k))
    BY <1>3 DEF IInv, ReadsInOrder
  <2> QED BY <1>4, <2>1, <2>2 DEF ReadsInOrder
<1> QED BY <1>7, <1>8, <1>9, <1>10, <1>11, <1>12, <1>13 DEF IInv

-----------------------------------------------------------------------------
(***************************************************************************)
(* Write: the one step that changes what is read.                          *)
(***************************************************************************)
(* One more piece leaves what was read before it, and is read after it.    *)
LEMMA OneMorePiece ==
  ASSUME NEW s \in Seq(Pieces), NEW piece \in Pieces
  PROVE  LET longer == Append(s, piece) IN
         /\ \A k \in 0 .. Len(s) :
              Here(longer, k) = Here(s, k) /\ Found(longer, k) = Found(s, k)
         /\ Here(longer, Len(s) + 1) = ReadPiece(Here(s, Len(s)), piece)
         /\ Found(longer, Len(s) + 1) = EndOfLine(ReadPiece(Here(s, Len(s)), piece))
<1> DEFINE longer == Append(s, piece)
<1>1. longer \in Seq(Pieces) /\ Len(s) \in Nat /\ Len(longer) = Len(s) + 1
      /\ longer[Len(s) + 1] = piece /\ \A i \in 1 .. Len(s) : longer[i] = s[i]
  BY AppendKeeps
<1> HIDE DEF longer
<1>2. \A k \in 0 .. Len(s) : Here(longer, k) = Here(s, k) /\ Found(longer, k) = Found(s, k)
  BY <1>1, SamePiecesSameReading
<1>3. Here(longer, Len(s) + 1) = ReadPiece(Here(longer, Len(s)), piece)
  <2>1. Len(s) + 1 \in 1 .. Len(longer) /\ (Len(s) + 1) - 1 = Len(s)
    BY <1>1
  <2> QED BY <1>1, <2>1, ReadsStepByStep
<1>4. Here(longer, Len(s) + 1) = ReadPiece(Here(s, Len(s)), piece)
  BY <1>1, <1>2, <1>3
<1> QED BY <1>2, <1>4 DEF Found, longer

(* A line that ends in half an event is an error. *)
LEMMA HalfALineIsNoEvent ==
  ASSUME NEW read \in Readings, NEW e \in Events
  PROVE  ~ EndOfLine(ReadPiece(read, Piece("head", e))).ok
<1> DEFINE h == Piece("head", e)
           after == ReadPiece(read, h)
<1>1. h \in Pieces /\ h.part = "head" /\ read.line \in Seq(Pieces)
  BY DEF Piece, Pieces, Parts, Readings
<1>2. \A f : h # Piece("tail", f)
  BY DEF Piece
<1> HIDE DEF h
<1>3. after \in Readings /\ after.line = Append(read.line, h)
  <2>1. h.part # "end"
    BY <1>1
  <2> QED BY <1>1, <2>1, ReadPieceIsAReading
<1> HIDE DEF after
<1>4. Len(read.line) \in Nat /\ Len(after.line) = Len(read.line) + 1
      /\ after.line[Len(read.line) + 1] = h
  BY <1>1, <1>3, AppendKeeps
<1>5. after.line # <<>>
  BY <1>4
<1>6. \A f \in Events : after.line # <<Piece("head", f), Piece("tail", f)>>
  <2> SUFFICES ASSUME NEW f \in Events, after.line = <<Piece("head", f), Piece("tail", f)>>
               PROVE  FALSE
    OBVIOUS
  <2>1. Len(after.line) = 2 /\ after.line[2] = Piece("tail", f)
    OBVIOUS
  <2> QED BY <1>2, <1>4, <2>1
<1>7. ~ EndOfLine(after).ok
  BY <1>3, <1>5, <1>6, EndOfLineIsAReading
<1> QED BY <1>7 DEF after, h

(* The text of an event is an event of its own or an error. *)
LEMMA WholeTextIsOneEvent ==
  ASSUME NEW read \in Readings, NEW e \in Events,
         LET text == ReadPiece(ReadPiece(read, Piece("head", e)), Piece("tail", e)) IN
         EndOfLine(text).ok
  PROVE  LET text == ReadPiece(ReadPiece(read, Piece("head", e)), Piece("tail", e)) IN
         read.line = <<>> /\ read.ok /\ EndOfLine(text).events = Append(read.events, e)
<1> DEFINE h == Piece("head", e)
           t == Piece("tail", e)
           half == ReadPiece(read, h)
           text == ReadPiece(half, t)
<1>1. /\ h \in Pieces /\ h.part # "end" /\ t \in Pieces /\ t.part # "end"
      /\ read.line \in Seq(Pieces)
  BY DEF Piece, Pieces, Parts, Readings
<1>2. \A f : h = Piece("head", f) => f = e
  BY DEF Piece
<1> HIDE DEF h, t
<1>3. half \in Readings /\ half.line = Append(read.line, h)
      /\ half.events = read.events /\ half.ok = read.ok
  BY <1>1, ReadPieceIsAReading
<1> HIDE DEF half
<1>4. text \in Readings /\ text.line = Append(half.line, t)
      /\ text.events = half.events /\ text.ok = half.ok
  BY <1>1, <1>3, ReadPieceIsAReading
<1>5. EndOfLine(text).ok
  BY DEF half, h, t
<1> HIDE DEF text
<1>6. text.line # <<>>
  <2>1. half.line \in Seq(Pieces)
    BY <1>3 DEF Readings
  <2>2. Len(half.line) \in Nat /\ Len(text.line) = Len(half.line) + 1
    BY <1>1, <1>4, <2>1, AppendKeeps
  <2> QED BY <2>2
<1>7. PICK f \in Events : /\ text.line = <<Piece("head", f), Piece("tail", f)>>
                          /\ EndOfLine(text).events = Append(text.events, f)
  BY <1>4, <1>5, <1>6, EndOfLineIsAReading
<1>8. read.line = <<>> /\ h = Piece("head", f)
  <2>1. Append(Append(read.line, h), t) = <<Piece("head", f), Piece("tail", f)>>
    BY <1>3, <1>4, <1>7
  <2> QED BY <1>1, <2>1, LastTwoPieces
<1>9. text.ok
  BY <1>4, <1>5, EndOfLineIsAReading
<1>10. f = e
  BY <1>2, <1>8
<1>11. read.line = <<>> /\ read.ok /\ EndOfLine(text).events = Append(read.events, e)
  BY <1>3, <1>4, <1>7, <1>8, <1>9, <1>10
<1> QED BY <1>11 DEF text, half, h, t

(* Writing: the file is one piece longer, and one caller is a step on. *)
WritesPiece(c, piece) ==
  /\ pc[c] \in {"head", "tail", "end"}
  /\ piece = Piece(pc[c], event[c]) /\ piece \in Pieces /\ event[c] \in Events
  /\ file \in Seq(Pieces) /\ file' = Append(file, piece)
  /\ pc' = [pc EXCEPT ![c] = After[pc[c]]]
  /\ UNCHANGED <<synced, lock, known, event, acked, heard, used>>

LEMMA WriteIsWritesPiece ==
  ASSUME IInv, NEW c \in Callers, Write(c)
  PROVE  \E piece \in Pieces : WritesPiece(c, piece)
<1>1. pc[c] \in {"head", "tail", "end"} /\ event[c] \in Events /\ file \in Seq(Pieces)
  BY DEF Write, After, IInv, Shapes
<1>2. Piece(pc[c], event[c]) \in Pieces
  BY <1>1 DEF Piece, Pieces, Parts
<1> QED BY <1>1, <1>2 DEF Write, WritesPiece

(* The line of an event leaves the file in order: its first part is an     *)
(* error, its text is the next event or an error, its end changes nothing. *)
LEMMA WriteKeepsOrder ==
  ASSUME IInv, NEW c \in Callers, NEW piece \in Pieces, WritesPiece(c, piece)
  PROVE  InOrder(EndOfLine(ReadPiece(Here(file, Len(file)), piece)))
<1> DEFINE last == Len(file)
           e == event[c]
<1>1. file \in Seq(Pieces) /\ last \in Nat /\ last \in 0 .. last /\ e \in Events
      /\ piece = Piece(pc[c], e)
  BY LenProperties DEF WritesPiece
<1>2. \A k \in 0 .. last : Here(file, k) \in Readings
  BY <1>1, ReadsAreReadings
<1>3. CASE pc[c] = "head"
  <2>1. Here(file, last) \in Readings
    BY <1>1, <1>2
  <2> HIDE DEF e
  <2> QED BY <1>1, <1>3, <2>1, HalfALineIsNoEvent DEF InOrder
<1>4. CASE pc[c] = "tail"
  <2> DEFINE before == Here(file, last - 1)
             text == ReadPiece(ReadPiece(before, Piece("head", e)), Piece("tail", e))
  <2>1. last >= 1 /\ file[last] = Piece("head", e) /\ IsNext(Found(file, last - 1), e)
    BY <1>4 DEF IInv, LineInPlace, NextIsAppended
  <2>2. last - 1 \in 0 .. last /\ last \in 1 .. last /\ before \in Readings
    BY <1>1, <1>2, <2>1
  <2>3. Here(file, last) = ReadPiece(before, Piece("head", e))
    BY <1>1, <2>1, <2>2, ReadsStepByStep
  <2>4. ReadPiece(Here(file, last), piece) = text
    BY <1>1, <1>4, <2>3
  <2>5. InOrder(Found(file, last - 1))
    BY <2>2 DEF IInv, ReadsInOrder
  <2>6. ASSUME EndOfLine(text).ok PROVE InOrder(EndOfLine(text))
    <3> HIDE DEF e
    <3>1. before.line = <<>> /\ before.ok /\ EndOfLine(text).events = Append(before.events, e)
      <4> HIDE DEF before
      <4> QED BY <1>1, <2>2, <2>6, WholeTextIsOneEvent
    <3>2. Found(file, last - 1) = before
      BY <2>2, <3>1, EndOfLineIsAReading DEF Found
    <3>3. before.events \in Seq(Events)
      BY <2>2 DEF Readings
    <3> HIDE DEF before, text
    <3>4. /\ Len(before.events) \in Nat
          /\ DOMAIN before.events = 1 .. Len(before.events)
          /\ DOMAIN EndOfLine(text).events = 1 .. (Len(before.events) + 1)
          /\ \A i \in 1 .. Len(before.events) :
               EndOfLine(text).events[i] = before.events[i]
          /\ EndOfLine(text).events[Len(before.events) + 1] = e
      BY <1>1, <3>1, <3>3, AppendKeeps
    <3>5. e.seq = Len(before.events) + 1
      BY <2>1, <3>2 DEF IsNext, e
    <3>6. \A i \in 1 .. Len(before.events) : before.events[i].seq = i
      BY <2>5, <3>1, <3>2, <3>4 DEF InOrder
    <3> QED BY <3>4, <3>5, <3>6 DEF InOrder
  <2>7. InOrder(EndOfLine(text))
    <3> HIDE DEF text
    <3> QED BY <2>6 DEF InOrder
  <2> QED BY <2>4, <2>7
<1>5. CASE pc[c] = "end"
  <2>1. piece.part = "end"
    BY <1>1, <1>5 DEF Piece
  <2>2. Here(file, last) \in Readings
    BY <1>1, <1>2
  <2>3. ReadPiece(Here(file, last), piece) = Found(file, last)
    BY <2>1, <2>2, ReadPieceIsAReading DEF Found
  <2>4. EndOfLine(Found(file, last)) = Found(file, last)
    BY <2>2, EndOfLineIsAReading DEF Found
  <2>5. InOrder(Found(file, last))
    BY <1>1 DEF IInv, ReadsInOrder
  <2> QED BY <2>3, <2>4, <2>5
<1> QED BY <1>3, <1>4, <1>5 DEF WritesPiece

(* A line that was begun cleanly goes on and ends cleanly. *)
LEMMA WriteKeepsLinesClean ==
  ASSUME IInv, NEW c \in Callers, NEW piece \in Pieces, WritesPiece(c, piece), Undisturbed
  PROVE  LET read == ReadPiece(Here(file, Len(file)), piece) IN
         /\ read.ok
         /\ pc[c] = "head" => read.line = <<Piece("head", event[c])>>
         /\ pc[c] = "tail" => read.line = <<Piece("head", event[c]), Piece("tail", event[c])>>
         /\ pc[c] = "end" => read.line = <<>>
<1> DEFINE before == Here(file, Len(file))
           h == Piece("head", event[c])
           t == Piece("tail", event[c])
<1>1. file \in Seq(Pieces) /\ Len(file) \in 0 .. Len(file) /\ event[c] \in Events
      /\ piece = Piece(pc[c], event[c])
  BY LenProperties DEF WritesPiece
<1>2. before \in Readings
  BY <1>1, ReadsAreReadings
<1>3. /\ pc[c] = "head" => before.ok /\ before.line = <<>>
      /\ pc[c] = "tail" => before.ok /\ before.line = <<h>>
      /\ pc[c] = "end" => before.ok /\ before.line = <<h, t>>
  BY DEF IInv, CleanLines, Reading
<1>4. /\ pc[c] = "head" => piece.part # "end" /\ piece = h
      /\ pc[c] = "tail" => piece.part # "end" /\ piece = t
      /\ pc[c] = "end" => piece.part = "end"
  BY <1>1 DEF Piece
<1> HIDE DEF before
<1>5. CASE pc[c] = "head"
  <2>1. ReadPiece(before, piece).ok /\ ReadPiece(before, piece).line = Append(<<>>, h)
    BY <1>2, <1>3, <1>4, <1>5, ReadPieceIsAReading
  <2>2. Append(<<>>, h) = <<h>>
    OBVIOUS
  <2> QED BY <1>5, <2>1, <2>2 DEF before
<1>6. CASE pc[c] = "tail"
  <2>1. ReadPiece(before, piece).ok /\ ReadPiece(before, piece).line = Append(<<h>>, t)
    BY <1>2, <1>3, <1>4, <1>6, ReadPieceIsAReading
  <2>2. Append(<<h>>, t) = <<h, t>>
    <3>1. h \in Pieces /\ t \in Pieces
      BY <1>1 DEF Piece, Pieces, Parts
    <3> HIDE DEF h, t
    <3>2. <<h>> \in Seq(Pieces) /\ <<h, t>> \in Seq(Pieces)
          /\ Len(<<h>>) = 1 /\ <<h>>[1] = h
          /\ Len(<<h, t>>) = 2 /\ <<h, t>>[1] = h /\ <<h, t>>[2] = t
      BY <3>1
    <3>3. /\ Append(<<h>>, t) \in Seq(Pieces) /\ Len(Append(<<h>>, t)) = 2
          /\ Append(<<h>>, t)[1] = h /\ Append(<<h>>, t)[2] = t
      BY <3>1, <3>2, AppendKeeps
    <3>4. \A i \in 1 .. 2 : Append(<<h>>, t)[i] = <<h, t>>[i]
      <4> SUFFICES ASSUME NEW i \in 1 .. 2 PROVE Append(<<h>>, t)[i] = <<h, t>>[i]
        OBVIOUS
      <4>1. i = 1 \/ i = 2
        OBVIOUS
      <4> QED BY <3>2, <3>3, <4>1
    <3> QED BY <3>2, <3>3, <3>4, SeqEqual
  <2> QED BY <1>6, <2>1, <2>2 DEF before
<1>7. CASE pc[c] = "end"
  <2>1. ReadPiece(before, piece) = EndOfLine(before)
    BY <1>2, <1>4, <1>7, ReadPieceIsAReading
  <2>2. EndOfLine(before).ok = before.ok /\ EndOfLine(before).line = <<>>
    BY <1>1, <1>2, <1>3, <1>7, EndOfLineIsAReading
  <2> QED BY <1>3, <1>7, <2>1, <2>2 DEF before
<1> QED BY <1>5, <1>6, <1>7 DEF WritesPiece

LEMMA WriteKeepsIInv ==
  ASSUME IInv, NEW c \in Callers, Write(c)
  PROVE  IInv'
<1>1. PICK piece \in Pieces : WritesPiece(c, piece)
  BY WriteIsWritesPiece
<1> DEFINE last == Len(file)
<1>2. /\ pc[c] \in {"head", "tail", "end"} /\ piece = Piece(pc[c], event[c])
      /\ pc' = [pc EXCEPT ![c] = After[pc[c]]]
      /\ UNCHANGED <<synced, lock, known, event, acked, heard, used>>
  BY <1>1 DEF WritesPiece
<1>3. /\ file \in Seq(Pieces) /\ file' \in Seq(Pieces)
      /\ last \in Nat /\ Len(file') = last + 1
      /\ DOMAIN file = 1 .. last /\ DOMAIN file' = 1 .. (last + 1)
      /\ \A i \in 1 .. last : file'[i] = file[i]
      /\ file'[last + 1] = piece
  BY <1>1, AppendKeeps DEF WritesPiece
<1>4. /\ \A k \in 0 .. last : Here(file', k) = Here(file, k) /\ Found(file', k) = Found(file, k)
      /\ Here(file', last + 1) = ReadPiece(Here(file, last), piece)
      /\ Found(file', last + 1) = EndOfLine(ReadPiece(Here(file, last), piece))
  BY <1>1, OneMorePiece DEF WritesPiece
<1>5. /\ pc'[c] = After[pc[c]] /\ pc'[c] \in {"tail", "end", "sync"}
      /\ pc[c] = "head" <=> pc'[c] = "tail"
      /\ pc[c] = "tail" <=> pc'[c] = "end"
      /\ pc[c] = "end" <=> pc'[c] = "sync"
      /\ \A d \in Callers \ {c} : pc'[d] = pc[d]
  BY <1>2 DEF After, IInv, Shapes
<1>6. \A d \in Callers \ {c} : pc[d] \notin AppendSteps
  BY <1>2, OnlyOneAppends DEF IInv, AppendSteps
<1>7. \A d \in Callers : pc'[d] \in AppendSteps => d = c
  BY <1>5, <1>6
<1>8. synced \in 0 .. last
  BY DEF IInv, Shapes
<1>9. Shapes'
  <2>1. pc' \in [Callers -> {"idle", "called"} \cup AppendSteps]
    BY <1>2, <1>5 DEF IInv, Shapes, AppendSteps
  <2>2. synced' \in 0 .. Len(file')
    BY <1>2, <1>3, <1>8
  <2> QED BY <1>2, <1>3, <2>1, <2>2 DEF IInv, Shapes
<1>10. Bounded'
  <2>1. Numbered(event[c])
    BY <1>2 DEF IInv, Bounded
  <2>2. piece.event = event[c]
    BY <1>2 DEF Piece
  <2>3. \A i \in DOMAIN file' : Numbered(file'[i].event)
    BY <1>3, <2>1, <2>2 DEF IInv, Bounded
  <2> QED BY <1>2, <1>5, <2>1, <2>3 DEF IInv, Bounded, Numbered
<1>11. OneAppend'
  BY <1>2, <1>5 DEF IInv, OneAppend, AppendSteps
<1>12. LineInPlace'
  <2>1. CASE pc[c] = "head"
    <3>1. Len(file') >= 1 /\ file'[Len(file')] = Piece("head", event'[c])
      BY <1>2, <1>3, <2>1
    <3> QED BY <1>5, <1>7, <2>1, <3>1 DEF LineInPlace, AppendSteps
  <2>2. CASE pc[c] = "tail"
    <3>1. last >= 1 /\ file[last] = Piece("head", event[c])
      BY <2>2 DEF IInv, LineInPlace
    <3>2. /\ Len(file') >= 2 /\ file'[Len(file') - 1] = Piece("head", event'[c])
          /\ file'[Len(file')] = Piece("tail", event'[c])
      BY <1>2, <1>3, <2>2, <3>1
    <3> QED BY <1>5, <1>7, <2>2, <3>2 DEF LineInPlace, AppendSteps
  <2>3. CASE pc[c] = "end"
    <3>1. last >= 2 /\ file[last - 1] = Piece("head", event[c])
          /\ file[last] = Piece("tail", event[c])
      BY <2>3 DEF IInv, LineInPlace
    <3>2. Ends(file', Len(file'), event'[c])
      BY <1>2, <1>3, <2>3, <3>1 DEF Ends
    <3> QED BY <1>5, <1>7, <2>3, <3>2 DEF LineInPlace, AppendSteps
  <2> QED BY <1>2, <2>1, <2>2, <2>3
<1>13. AckedAreKept'
  <2> SUFFICES ASSUME NEW e \in acked PROVE IsKept(e)'
    BY <1>2 DEF AckedAreKept
  <2>1. PICK n \in 1 .. synced : Ends(file, n, e)
    BY DEF IInv, AckedAreKept, IsKept
  <2>2. n \in 1 .. last
    BY <1>3, <1>8
  <2>3. Ends(file', n, e)
    BY <1>3, <2>1, <2>2 DEF Ends
  <2> QED BY <1>2, <2>1, <2>3 DEF IsKept
<1>14. HeardAreAcked' /\ HeardInOrder'
  BY <1>2 DEF IInv, HeardAreAcked, HeardInOrder
<1>15. ReadsInOrder'
  <2> SUFFICES ASSUME NEW n \in 0 .. Len(file') PROVE InOrder(Found(file', n))
    BY DEF ReadsInOrder
  <2>1. CASE n \in 0 .. last
    BY <1>4, <2>1 DEF IInv, ReadsInOrder
  <2>2. CASE n = last + 1
    BY <1>1, <1>4, <2>2, WriteKeepsOrder
  <2> QED BY <1>3, <2>1, <2>2
<1>16. NextIsAppended'
  <2>1. pc[c] = "head" => IsNext(Found(file', Len(file') - 1), event'[c])
    <3>1. Found(file', Len(file') - 1) = Found(file, last)
      BY <1>3, <1>4
    <3> QED BY <1>2, <3>1 DEF IInv, NextIsAppended
  <2>2. \A i \in DOMAIN heard' : heard'[i].seq < event'[c].seq
    BY <1>2 DEF IInv, NextIsAppended, AppendSteps
  <2> QED BY <1>5, <1>7, <2>1, <2>2 DEF NextIsAppended, AppendSteps
<1>17. CleanLines'
  <2> SUFFICES ASSUME Undisturbed' PROVE CleanLines'
    BY DEF CleanLines
  <2>1. Undisturbed
    BY <1>2 DEF Undisturbed
  <2> DEFINE read == ReadPiece(Here(file, Len(file)), piece)
  <2>2. /\ read.ok
        /\ pc[c] = "head" => read.line = <<Piece("head", event[c])>>
        /\ pc[c] = "tail" => read.line = <<Piece("head", event[c]), Piece("tail", event[c])>>
        /\ pc[c] = "end" => read.line = <<>>
    BY <1>1, <2>1, WriteKeepsLinesClean
  <2>3. Here(file', Len(file')) = read
    BY <1>3, <1>4
  <2> HIDE DEF read
  <2>4. lock' # Nobody
    BY <1>2, OnlyOneAppends DEF IInv, AppendSteps
  <2> QED BY <1>2, <1>5, <1>7, <2>2, <2>3, <2>4 DEF CleanLines, Reading, AppendSteps
<1> QED
  BY <1>9, <1>10, <1>11, <1>12, <1>13, <1>14, <1>15, <1>16, <1>17 DEF IInv

-----------------------------------------------------------------------------
(***************************************************************************)
(* Results.                                                                *)
(***************************************************************************)
LEMMA NextKeepsIInv == IInv /\ [Next]_vars => IInv'
<1> SUFFICES ASSUME IInv, [Next]_vars PROVE IInv'
  OBVIOUS
<1>1. CASE Crash
  BY <1>1, CrashKeepsIInv
<1>2. ASSUME NEW c \in Callers,
             \/ LoadTask(c) \/ CallAppend(c) \/ CheckSequence(c) \/ Refuse(c)
             \/ Write(c) \/ SyncData(c) \/ Publish(c) \/ Fail(c)
      PROVE  IInv'
  BY <1>2, LoadTaskKeepsIInv, CallAppendKeepsIInv, CheckSequenceKeepsIInv, RefuseKeepsIInv,
     WriteKeepsIInv, SyncDataKeepsIInv, PublishKeepsIInv, FailKeepsIInv
<1>3. CASE UNCHANGED vars
  BY <1>3, StutterKeepsIInv
<1> QED BY <1>1, <1>2, <1>3 DEF Next

(* The lock keeps a line together, what is acknowledged is durable and     *)
(* what can be read is in order (JsonlEventStore::append and read_task_file *)
(* in event_store.rs).                                                     *)
THEOREM InductiveInvariant == Spec => []IInv
<1> QED BY InitEstablishesIInv, NextKeepsIInv, PTL DEF Spec

(* Every part of the state has its type, the lock belongs to the append    *)
(* that is between the check of the sequence and its return, and no        *)
(* sequence is larger than the number of appends.                          *)
THEOREM TypeCorrectness == Spec => []TypeOK
<1>1. IInv => TypeOK
  <2> SUFFICES ASSUME IInv PROVE TypeOK
    OBVIOUS
  <2>1. MaxAppends \in Nat /\ used.appends \in Nat /\ used.appends <= MaxAppends
    BY BoundsAreNat DEF IInv, Shapes, Bounded
  <2>2. DOMAIN After = {"head", "tail", "end"}
    BY DEF After
  <2>3. \A i \in DOMAIN file : file[i].part \in {"head", "tail", "end"}
                               /\ file[i].event.seq \in 1 .. MaxAppends
    <3> SUFFICES ASSUME NEW i \in DOMAIN file
                 PROVE  file[i].part \in {"head", "tail", "end"}
                        /\ file[i].event.seq \in 1 .. MaxAppends
      OBVIOUS
    <3>1. file[i] \in Pieces /\ Numbered(file[i].event)
      <4>1. file \in Seq(Pieces)
        BY DEF IInv, Shapes
      <4> QED BY <4>1, LenProperties, ElementOfSeq DEF IInv, Bounded
    <3> QED BY <2>1, <3>1 DEF Pieces, Parts, Events, Numbered
  <2>4. pc \in [Callers -> {"idle", "called", "sync", "publish"} \cup DOMAIN After]
    BY <2>2 DEF IInv, Shapes, AppendSteps
  <2>5. known \in [Callers -> 0 .. MaxAppends]
    BY <2>1 DEF IInv, Shapes, Bounded
  <2>6. \A c \in Callers : lock = c <=> pc[c] \notin {"idle", "called"}
    BY DEF IInv, Shapes, OneAppend, AppendSteps
  <2> QED BY <2>3, <2>4, <2>5, <2>6 DEF IInv, Shapes, TypeOK
<1> QED BY <1>1, InductiveInvariant, PTL

(* An event the supervisor or a subscriber of the web page has been sent   *)
(* is on the disk with its line complete: no crash takes it back           *)
(* (JsonlEventStore::append sends after sync_data, under the lock).        *)
THEOREM HeardSurvives == Spec => []HeardIsDurable
<1>1. IInv => HeardIsDurable
  <2> SUFFICES ASSUME IInv, NEW i \in DOMAIN heard
               PROVE  \E n \in 1 .. synced : file[n] = Piece("end", heard[i])
    BY DEF HeardIsDurable
  <2>1. IsKept(heard[i])
    BY DEF IInv, HeardAreAcked, AckedAreKept
  <2> QED BY <2>1 DEF IsKept, Ends
<1> QED BY <1>1, InductiveInvariant, PTL

(* Whoever can load the task finds every event whose append has returned   *)
(* Ok, whatever was cut short or failed since: a damaged file is an error  *)
(* and never a shorter history (load_task and read_task_file).             *)
THEOREM LoadsAreComplete == Spec => []LoadIsComplete
<1>1. IInv => LoadIsComplete
  <2> SUFFICES ASSUME IInv, Loads, NEW e \in acked
               PROVE  \E i \in DOMAIN ReadTaskFile.events : ReadTaskFile.events[i] = e
    BY DEF LoadIsComplete
  <2>1. ReadTaskFile = Found(file, Len(file))
    BY DEF ReadTaskFile, Found, Here
  <2>2. file \in Seq(Pieces) /\ Len(file) \in Nat /\ synced \in 0 .. Len(file)
        /\ e \in Events
    BY LenProperties DEF IInv, Shapes
  <2>3. PICK n \in 1 .. synced : Ends(file, n, e)
    BY DEF IInv, AckedAreKept, IsKept
  <2>4. n \in 1 .. Len(file) /\ Found(file, Len(file)).ok
    BY <2>1, <2>2, <2>3 DEF Loads
  <2>5. \E j \in 1 .. Len(Found(file, Len(file)).events) :
          Found(file, Len(file)).events[j] = e
    BY <2>2, <2>3, <2>4, WholeLineIsFound
  <2>6. DOMAIN Found(file, Len(file)).events = 1 .. Len(Found(file, Len(file)).events)
    <3>1. Found(file, Len(file)) \in Readings
      BY <2>2, ReadsAreReadings
    <3> QED BY <3>1, LenProperties DEF Readings
  <2> QED BY <2>1, <2>5, <2>6
<1> QED BY <1>1, InductiveInvariant, PTL

(* Subscribers are sent the events of a task in the order of the stream:   *)
(* append sends while it still holds the write lock.                       *)
THEOREM EventsAreSentInOrder == Spec => []HeardInOrder
<1>1. IInv => HeardInOrder
  BY DEF IInv
<1> QED BY <1>1, InductiveInvariant, PTL

(* Until something fails the file is readable whenever no append is on its *)
(* way: appends never spoil each other's lines.                            *)
THEOREM AppendsDoNoDamage == Spec => []OnlyFailuresDamage
<1>1. IInv => OnlyFailuresDamage
  <2> SUFFICES ASSUME IInv, lock = Nobody, used.failures = 0, used.crashes = 0
               PROVE  Loads
    BY DEF OnlyFailuresDamage
  <2>1. Here(file, Len(file)).ok /\ Here(file, Len(file)).line = <<>>
    BY DEF IInv, CleanLines, Undisturbed, Reading
  <2>2. file \in Seq(Pieces) /\ Len(file) \in 0 .. Len(file)
    BY LenProperties DEF IInv, Shapes
  <2>3. Found(file, Len(file)).ok
    <3>1. Here(file, Len(file)) \in Readings
      BY <2>2, ReadsAreReadings
    <3> QED BY <2>1, <3>1, EndOfLineIsAReading DEF Found
  <2> QED BY <2>3, ReadableLoads DEF IInv
<1> QED BY <1>1, InductiveInvariant, PTL

=============================================================================
