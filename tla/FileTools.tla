-------------------------------- MODULE FileTools --------------------------------
(***************************************************************************)
(* The fs.* tools (koi-infra/src/tools/filesystem.rs), call by call to the *)
(* file system, while other processes use the same files.  The file system *)
(* is external: what it is asked to write it may write half of.            *)
(*                                                                         *)
(* A file is the sequence of its lines.  fs.list, fs.stat and fs.read look *)
(* once and change nothing: left out.  Others change files, not            *)
(* directories or links.                                                   *)
(***************************************************************************)
EXTENDS Integers, Sequences, FiniteSets

CONSTANTS
  Root,            \* a directory nobody removes
  Parent,          \* of every path below it
  Trees,           \* what the root may hold at the start: functions from paths to nodes
  Lines,           \* what a line may be
  Garbled,         \* those of them that are not UTF-8
  Writes,          \* the texts that are written, by calls and by others
  Named,           \* the paths whose names fs.find looks for
  Sought,          \* the line fs.search looks for
  MaxFileLines, MaxScanned, MaxResults,   \* the limits of the policy and of the call
  MaxCalls, MaxChanges                    \* bounds: calls, and changes by others

VARIABLES
  tree,
  call,            \* [op, source, dest, flag, text, phase, held]: held is the node it found
  scan,            \* [pending, files, scanned, cut, results, unread]: collect_paths and what
                   \* follows; unread are the files of a search whose reading failed
  outcome,         \* of the last call: "none", "ok", "error"
  touched,         \* what others changed since the call began
  calls, changes

vars == <<tree, call, scan, outcome, touched, calls, changes>>

Paths == DOMAIN Parent
Node(kind, lines) == [kind |-> kind, lines |-> lines]
None == Node("none", <<>>)
At(p) == IF p = Root THEN Node("dir", <<>>) ELSE tree[p]
Is(p, kind) == At(p).kind = kind
Children(p) == {q \in Paths : Parent[q] = p /\ ~Is(q, "none")}

\* The paths at or below one; a directory is above what is in it at any time.
Inside(top) ==
  {p \in Paths : \A S \in SUBSET (Paths \cup {Root}) :
     top \in S /\ (\A q \in Paths : Parent[q] \in S => q \in S) => p \in S}

TreeShapes == [Paths -> [kind : {"none", "file", "dir", "link"}, lines : Seq(Lines)]]
ConstantsFit ==
  /\ IsFiniteSet(Paths) /\ Root \notin Paths /\ Parent \in [Paths -> Paths \cup {Root}]
  /\ Garbled \subseteq Lines /\ Writes \subseteq Seq(Lines) /\ Trees \subseteq TreeShapes
  /\ \A t \in Trees, p \in Paths :
       t[p].kind # "none" => Parent[p] = Root \/ t[Parent[p]].kind = "dir"
  /\ MaxScanned \in Nat /\ MaxResults \in Nat /\ MaxFileLines \in Nat

NoScan == [pending |-> <<>>, files |-> <<>>, scanned |-> 0, cut |-> FALSE, results |-> {},
           unread |-> {}]
Init ==
  /\ tree \in Trees
  /\ call = [op |-> "none", source |-> Root, dest |-> Root, flag |-> FALSE, text |-> <<>>,
             phase |-> "idle", held |-> None]
  /\ scan = NoScan /\ outcome = "none" /\ touched = {} /\ calls = 0 /\ changes = 0

In(phase) == call.phase = phase /\ UNCHANGED <<touched, calls, changes>>
Goes(phase) == call' = [call EXCEPT !.phase = phase] /\ UNCHANGED outcome
Ends(result) == call' = [call EXCEPT !.phase = "idle"] /\ outcome' = result
Stores(p, node) == tree' = [tree EXCEPT ![p] = node]

-----------------------------------------------------------------------------
Others(p, node) ==
  /\ changes < MaxChanges /\ changes' = changes + 1
  /\ ~Is(p, "dir") /\ ~Is(p, "link") /\ Is(Parent[p], "dir") /\ node # At(p)
  /\ Stores(p, node) /\ touched' = touched \cup {p}
  /\ UNCHANGED <<call, scan, outcome, calls>>

\* existing_entry and new_path: what is to be there, and the directory of what may
\* not be; the arguments are checked too.
Resolves(op, source, dest) ==
  /\ op \in {"copy", "move", "delete", "find", "search"} => ~Is(source, "none")
  /\ op \in {"copy", "move", "write", "mkdir"} => Is(Parent[dest], "dir")
Begin(op, source, dest, flag, text) ==
  /\ call.phase = "idle" /\ calls < MaxCalls /\ calls' = calls + 1
  /\ LET good == Resolves(op, source, dest)
     IN /\ call' = [op |-> op, source |-> source, dest |-> dest, flag |-> flag, text |-> text,
                    phase |-> IF good THEN op ELSE "idle", held |-> None]
        /\ outcome' = IF good THEN "none" ELSE "error"
        /\ scan' = IF good /\ op \in {"find", "search"} THEN [NoScan EXCEPT !.pending = <<source>>]
                   ELSE NoScan
  /\ touched' = {} /\ UNCHANGED <<tree, changes>>

\* copy_move looks at both ends,
Inspect ==
  LET fits == /\ Is(call.source, "file") /\ ~Is(call.dest, "link") /\ ~Is(call.dest, "dir")
              /\ Is(call.dest, "file") => call.flag
  IN /\ In("copy") \/ In("move")
     /\ call' = [call EXCEPT !.phase = IF ~fits THEN "idle"
                                       ELSE IF Is(call.dest, "file") THEN "remove" ELSE "put",
                             !.held = IF fits THEN At(call.source) ELSE None]
     /\ outcome' = IF fits THEN "none" ELSE "error"
     /\ UNCHANGED <<tree, scan>>
\* removes what is to be overwritten,
\* Mutant: the wrong end.
TheSource == call.source
Replaced == call.dest
RemoveOld ==
  /\ In("remove")
  /\ IF Is(Replaced, "none") THEN Ends("error") /\ UNCHANGED tree
     ELSE Goes("put") /\ Stores(Replaced, None)
  /\ UNCHANGED scan
\* and renames or copies.
Put ==
  LET done == IF call.op = "move" THEN [tree EXCEPT ![call.source] = None, ![call.dest] = At(call.source)]
              ELSE [tree EXCEPT ![call.dest] = At(call.source)]
  IN /\ In("put") /\ UNCHANGED scan
     /\ \/ ~Is(call.source, "none") /\ Ends("ok") /\ tree' = done
        \/ Ends("error") /\ UNCHANGED tree
        \/ call.op = "copy" /\ Ends("error") /\ Stores(call.dest, Node("file", <<>>))

\* write: the file is opened, emptied unless this appends,
Open ==
  /\ In("write") /\ UNCHANGED scan
  /\ IF Is(call.dest, "link") \/ Is(call.dest, "dir") THEN Ends("error") /\ UNCHANGED tree
     ELSE Goes("fill") /\ Stores(call.dest, Node("file", IF call.flag THEN At(call.dest).lines ELSE <<>>))
\* then written; a file that was removed meanwhile takes the text along.
Fill ==
  /\ In("fill") /\ UNCHANGED scan
  /\ \E n \in 0..Len(call.text) :
       /\ IF Is(call.dest, "none") THEN UNCHANGED tree
          ELSE Stores(call.dest, Node("file", At(call.dest).lines \o SubSeq(call.text, 1, n)))
       /\ Ends(IF n = Len(call.text) THEN "ok" ELSE "error")
Mkdir ==
  /\ In("mkdir") /\ UNCHANGED scan
  /\ IF Is(call.dest, "link") \/ Is(call.dest, "file") THEN Ends("error") /\ UNCHANGED tree
     ELSE Ends("ok") /\ Stores(call.dest, Node("dir", <<>>))

\* delete; a directory goes after what is in it, and may be left half removed.
Delete ==
  /\ In("delete") /\ UNCHANGED scan
  /\ IF ~Is(call.source, "dir") THEN
       /\ Ends(IF Is(call.source, "none") THEN "error" ELSE "ok") /\ Stores(call.source, None)
     ELSE IF ~call.flag THEN Ends("error") /\ UNCHANGED tree
     ELSE \E gone \in SUBSET Inside(call.source) :
            /\ \A p \in gone : Children(p) \subseteq gone
            /\ tree' = [p \in Paths |-> IF p \in gone THEN None ELSE tree[p]]
            /\ Ends(IF call.source \in gone THEN "ok" ELSE "error")

-----------------------------------------------------------------------------
(* fs.find and fs.search *)

Scanning == \/ In("find") /\ UNCHANGED tree
            \/ In("search") /\ UNCHANGED tree
\* collect_paths: the last pending path; a limit ends the collection and says so.
Cut(s) == [s EXCEPT !.pending = <<>>, !.cut = TRUE]
Collect ==
  LET last == Len(scan.pending)
      p == scan.pending[last]
      popped == [scan EXCEPT !.pending = SubSeq(@, 1, last - 1), !.scanned = @ + 1]
      room == MaxScanned - Len(popped.pending)
      inside == {q \in Children(p) : ~Is(q, "link")}
  IN /\ Scanning /\ scan.pending # <<>>
     /\ IF scan.scanned = MaxScanned THEN scan' = Cut(scan) /\ UNCHANGED <<call, outcome>>
        ELSE CASE Is(p, "none") -> Ends("error") /\ UNCHANGED scan
               [] Is(p, "link") -> scan' = popped /\ UNCHANGED <<call, outcome>>
               [] Is(p, "file") -> scan' = [popped EXCEPT !.files = Append(@, p)] /\ UNCHANGED <<call, outcome>>
               [] Is(p, "dir") ->
                    /\ \/ Cardinality(inside) > room /\ scan' = Cut(popped)
                       \/ /\ Cardinality(inside) <= room
                          /\ \E order \in [1 .. Cardinality(inside) -> inside] :
                               /\ \A q \in inside : \E i \in DOMAIN order : order[i] = q
                               /\ scan' = [popped EXCEPT !.pending = @ \o order]
                    /\ UNCHANGED <<call, outcome>>
\* The first n of a set of positions.
FirstOf(n, positions) ==
  {i \in positions : Cardinality({j \in positions : j <= i}) <= n}
\* find keeps the first results and looks whether there is one more.
Pick ==
  LET found == {i \in DOMAIN scan.files : scan.files[i] \in Named}
  IN /\ In("find") /\ UNCHANGED tree /\ scan.pending = <<>>
     /\ scan' = [scan EXCEPT !.results = {scan.files[i] : i \in FirstOf(MaxResults, found)},
                             !.cut = @ \/ Cardinality(found) > MaxResults]
     /\ Ends("ok")
\* What a search can read of: a file that is not too big and is UTF-8 throughout.
IsText(lines) == \A i \in DOMAIN lines : lines[i] \notin Garbled
IsSearchable(lines) == Len(lines) <= MaxFileLines /\ IsText(lines)
\* search reads file by file.  One that is too big, is not text or cannot be read is
\* passed over without a word, one that is gone fails the call; lines left when the
\* results are full cut them.
SearchFile == \E fails \in BOOLEAN :
  LET p == Head(scan.files)
      lines == IF IsSearchable(At(p).lines) /\ ~fails THEN At(p).lines ELSE <<>>
      hits == {i \in DOMAIN lines : lines[i] = Sought}
      room == MaxResults - Cardinality(scan.results)
      taken == FirstOf(room, hits)
      full == /\ Cardinality(hits) >= room
              /\ \E i \in DOMAIN lines : \A j \in taken : j < i
  IN /\ In("search") /\ UNCHANGED tree /\ scan.pending = <<>> /\ scan.files # <<>>
     /\ \/ /\ room = 0
           /\ scan' = [scan EXCEPT !.files = <<>>, !.cut = TRUE] /\ UNCHANGED <<call, outcome>>
        \/ room # 0 /\ Is(p, "none") /\ Ends("error") /\ UNCHANGED scan
        \/ /\ room # 0 /\ ~Is(p, "none")
           /\ scan' = [scan EXCEPT !.files = Tail(@), !.cut = @ \/ full,
                                   !.results = @ \cup {<<p, i>> : i \in taken},
                                   !.unread = IF fails THEN @ \cup {p} ELSE @]
           /\ UNCHANGED <<call, outcome>>
SearchEnds ==
  /\ In("search") /\ UNCHANGED <<tree, scan>> /\ scan.pending = <<>> /\ scan.files = <<>>
  /\ Ends("ok")

-----------------------------------------------------------------------------
Arguments == {a \in [op : {"copy", "move"}, source : Paths, dest : Paths, flag : BOOLEAN, text : {<<>>}]
                 \cup [op : {"write"}, source : {Root}, dest : Paths, flag : BOOLEAN,
                       text : {w \in Writes : IsText(w)}]
                 \cup [op : {"mkdir"}, source : {Root}, dest : Paths, flag : {FALSE}, text : {<<>>}]
                 \cup [op : {"delete"}, source : Paths, dest : {Root}, flag : BOOLEAN, text : {<<>>}]
                 \cup [op : {"find", "search"}, source : Paths \cup {Root}, dest : {Root},
                       flag : {FALSE}, text : {<<>>}] :
                a.op \in {"find", "search"} => ~Is(a.source, "link")}
Next ==
  \/ \E p \in Paths, node \in {None} \cup {Node("file", w) : w \in Writes} : Others(p, node)
  \/ \E a \in Arguments : Begin(a.op, a.source, a.dest, a.flag, a.text)
  \/ Inspect \/ RemoveOld \/ Put \/ Open \/ Fill \/ Mkdir \/ Delete
  \/ Collect \/ Pick \/ SearchFile \/ SearchEnds
Spec == Init /\ [][Next]_vars

-----------------------------------------------------------------------------
\* A copy or a move between two files nobody else touches never loses what it
\* transfers, wherever it stops, and says it is done only when it is.
TransferIsSafe ==
  call.op \in {"copy", "move"} /\ call.held # None /\ call.source # call.dest
    /\ touched \cap {call.source, call.dest} = {} =>
    /\ \/ At(call.source) = call.held
       \/ call.op = "move" /\ At(call.dest) = call.held
    /\ outcome = "ok" => /\ At(call.dest) = call.held
                         /\ call.op = "move" => Is(call.source, "none")

\* A result that is not called truncated has every path whose name was looked for, and
\* every match in the files that could be read as text and are not too big, of what
\* stayed as it was, also while others change the rest.  Of the other files search says
\* nothing, and it does not say that it passed them over.
ResultIsComplete ==
  outcome = "ok" /\ ~scan.cut =>
    \A p \in Inside(call.source) \ touched : Is(p, "file") =>
      /\ call.op = "find" /\ p \in Named => p \in scan.results
      /\ call.op = "search" /\ IsSearchable(At(p).lines) /\ p \notin scan.unread =>
           \A i \in DOMAIN At(p).lines : At(p).lines[i] = Sought => <<p, i>> \in scan.results

\* A transfer that stops anywhere has lost nothing; a find or a search that does not
\* say so has left out nothing of what it could read.
FilesAreKeptAndFound == TransferIsSafe /\ ResultIsComplete
=============================================================================
