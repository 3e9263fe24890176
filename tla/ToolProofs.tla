------------------------------- MODULE ToolProofs -------------------------------
(***************************************************************************)
(* Calls of a program, for any programs, any limits and any size of the    *)
(* pipes: one that is given up leaves nothing of its group running, and    *)
(* one that is answered says what was printed, or that it is not all.      *)
(*                                                                         *)
(* The argument: what was taken and what is in the pipe is what was        *)
(* written; the reader stops only at the limit or when nobody is left who  *)
(* could write, and a leader that ends by itself before the limit was      *)
(* reached has taken its input to the end.                                 *)
(*                                                                         *)
(* And calls of the fs.* tools (Files!): what a transfer has found it      *)
(* still has, and a search has seen, at its end, all nobody touched.       *)
(***************************************************************************)
EXTENDS CommandRunner, Sequences, FiniteSetTheorems, TLAPS

Programs == [reads : BOOLEAN, says : Nat, ends : BOOLEAN, helper : BOOLEAN]
Results == {"none", "invalid", "unavailable", "error", "truncated", "whole", "cancelled", "timeout"}

TypeOK ==
  /\ call \in [phase : {"idle", "running", "term", "kill", "done"}, result : Results,
               sudo : BOOLEAN, program : Programs]
  /\ group \in [Processes -> {"none", "running", "ended"}]
  /\ status \in {"none", "success", "failure"} /\ waited \in BOOLEAN
  /\ input \in [left : Nat, pipe : Nat, open : BOOLEAN, failed : BOOLEAN]
  /\ output \in [pipe : Nat, reading : BOOLEAN, taken : Nat]
  /\ owed \in Nat /\ written \in Nat

(* A result belongs to a phase; before the call nothing has happened. *)
PhasesAreInOrder ==
  /\ call.phase = "idle" =>
       /\ call.result = "none" /\ waited = FALSE /\ written = 0
       /\ output.taken = 0 /\ output.pipe = 0 /\ ~ Held
  /\ call.phase = "running" => call.result = "none"
  /\ call.phase \in {"term", "kill"} => call.result \in {"cancelled", "timeout"}
  /\ call.phase = "done" => call.result # "none"

(* What was written was taken or is in the pipe. *)
OutputIsConserved == output.taken + output.pipe = written

(* A call the join decides about: it is running or has its answer. *)
Joined == call.phase = "running" \/ call.result \in {"error", "truncated", "whole"}

(* The reader stops at the limit or when the pipe is empty and no process  *)
(* can write to it; a leader ends with its input at its end, except when   *)
(* the reader stopped before.                                              *)
ReaderSeesTheEnd ==
  Joined /\ ~ output.reading => Truncated \/ (output.pipe = 0 /\ ~ Held)
LeaderTakesItsInput ==
  Joined /\ group["leader"] = "ended" =>
    \/ Truncated
    \/ call.program.reads => input.pipe = 0 /\ ~ input.open
WaitedForTheEnd == waited => group["leader"] = "ended"

(* An answer is given when the reader and the leader are through. *)
AnswersAreFinal ==
  call.result \in {"whole", "truncated"} =>
    /\ ~ output.reading /\ group["leader"] = "ended"
    /\ Truncated <=> call.result = "truncated"

IInv ==
  /\ TypeOK /\ PhasesAreInOrder /\ OutputIsConserved
  /\ ReaderSeesTheEnd /\ LeaderTakesItsInput /\ WaitedForTheEnd /\ AnswersAreFinal
  /\ NothingIsLeftRunning

-----------------------------------------------------------------------------
(***************************************************************************)
(* The steps.                                                              *)
(***************************************************************************)
LEMMA RefuseStep ==
  ASSUME IInv, NEW reason \in {"invalid", "unavailable"}, Refuse(reason)
  PROVE  IInv'
<1>1. TypeOK'
  BY DEF Refuse, IInv, TypeOK, Results
<1>2. PhasesAreInOrder'
  BY DEF Refuse, IInv, TypeOK, PhasesAreInOrder
<1>3. OutputIsConserved'
  BY DEF Refuse, IInv, TypeOK, OutputIsConserved
<1>4. ReaderSeesTheEnd'
  BY DEF Refuse, IInv, TypeOK, ReaderSeesTheEnd, Joined
<1>5. LeaderTakesItsInput'
  BY DEF Refuse, IInv, TypeOK, LeaderTakesItsInput, Joined
<1>6. WaitedForTheEnd'
  BY DEF Refuse, IInv, TypeOK, WaitedForTheEnd
<1>7. AnswersAreFinal'
  BY DEF Refuse, IInv, TypeOK, AnswersAreFinal
<1>8. NothingIsLeftRunning'
  BY DEF Refuse, IInv, TypeOK, NothingIsLeftRunning
<1> QED BY <1>1, <1>2, <1>3, <1>4, <1>5, <1>6, <1>7, <1>8 DEF IInv

LEMMA SpawnStep ==
  ASSUME IInv, NEW b \in Behaviours, NEW sudo \in BOOLEAN,
         NEW size \in 0 .. MaxInputBytes, Spawn(b, sudo, size)
  PROVE  IInv'
<1>1. TypeOK'
  BY ProgramsAreKnown DEF Spawn, IInv, TypeOK, Results, Programs
<1>2. PhasesAreInOrder'
  BY DEF Spawn, IInv, TypeOK, PhasesAreInOrder
<1>3. OutputIsConserved'
  BY DEF Spawn, IInv, TypeOK, PhasesAreInOrder, OutputIsConserved
<1>4. ReaderSeesTheEnd'
  BY DEF Spawn, IInv, TypeOK, ReaderSeesTheEnd
<1>5. LeaderTakesItsInput'
  BY DEF Spawn, IInv, TypeOK, LeaderTakesItsInput, Processes
<1>6. WaitedForTheEnd'
  BY DEF Spawn, IInv, TypeOK, PhasesAreInOrder, WaitedForTheEnd
<1>7. AnswersAreFinal'
  BY DEF Spawn, IInv, TypeOK, AnswersAreFinal
<1>8. NothingIsLeftRunning'
  BY DEF Spawn, IInv, TypeOK, NothingIsLeftRunning
<1> QED BY <1>1, <1>2, <1>3, <1>4, <1>5, <1>6, <1>7, <1>8 DEF IInv

LEMMA FeedStep ==
  ASSUME IInv, Feed
  PROVE  IInv'
<1>1. input.left - 1 \in Nat /\ input.pipe + 1 \in Nat
  BY DEF Feed, IInv, TypeOK
<1>2. TypeOK'
  BY <1>1 DEF Feed, IInv, TypeOK
<1>3. PhasesAreInOrder'
  BY DEF Feed, IInv, TypeOK, PhasesAreInOrder
<1>4. OutputIsConserved'
  BY DEF Feed, IInv, TypeOK, OutputIsConserved
<1>5. ReaderSeesTheEnd'
  BY DEF Feed, IInv, TypeOK, ReaderSeesTheEnd, Joined, Truncated
<1>6. LeaderTakesItsInput'
  BY DEF Feed, IInv, TypeOK, LeaderTakesItsInput, Joined, Truncated
<1>7. WaitedForTheEnd'
  BY DEF Feed, IInv, TypeOK, WaitedForTheEnd
<1>8. AnswersAreFinal'
  BY DEF Feed, IInv, TypeOK, AnswersAreFinal, Truncated
<1>9. NothingIsLeftRunning'
  BY DEF Feed, IInv, TypeOK, NothingIsLeftRunning
<1> QED BY <1>2, <1>3, <1>4, <1>5, <1>6, <1>7, <1>8, <1>9 DEF IInv

LEMMA FeedFailsStep ==
  ASSUME IInv, FeedFails
  PROVE  IInv'
<1>1. TypeOK'
  BY DEF FeedFails, IInv, TypeOK
<1>2. PhasesAreInOrder'
  BY DEF FeedFails, IInv, TypeOK, PhasesAreInOrder, Running
<1>3. OutputIsConserved'
  BY DEF FeedFails, IInv, TypeOK, OutputIsConserved
<1>4. ReaderSeesTheEnd'
  BY DEF FeedFails, IInv, TypeOK, ReaderSeesTheEnd, Joined, Truncated, Alive, Held
<1>5. LeaderTakesItsInput'
  BY DEF FeedFails, IInv, TypeOK, LeaderTakesItsInput, Joined, Truncated
<1>6. WaitedForTheEnd'
  BY DEF FeedFails, IInv, TypeOK, WaitedForTheEnd
<1>7. AnswersAreFinal'
  BY DEF FeedFails, IInv, TypeOK, AnswersAreFinal, Truncated
<1>8. NothingIsLeftRunning'
  BY DEF FeedFails, IInv, TypeOK, NothingIsLeftRunning, Running
<1> QED BY <1>1, <1>2, <1>3, <1>4, <1>5, <1>6, <1>7, <1>8 DEF IInv

LEMMA CloseInputStep ==
  ASSUME IInv, CloseInput
  PROVE  IInv'
<1>1. TypeOK'
  BY DEF CloseInput, IInv, TypeOK
<1>2. PhasesAreInOrder'
  BY DEF CloseInput, IInv, TypeOK, PhasesAreInOrder, Running
<1>3. OutputIsConserved'
  BY DEF CloseInput, IInv, TypeOK, OutputIsConserved
<1>4. ReaderSeesTheEnd'
  BY DEF CloseInput, IInv, TypeOK, ReaderSeesTheEnd, Joined, Truncated, Alive, Held
<1>5. LeaderTakesItsInput'
  BY DEF CloseInput, IInv, TypeOK, LeaderTakesItsInput, Joined, Truncated
<1>6. WaitedForTheEnd'
  BY DEF CloseInput, IInv, TypeOK, WaitedForTheEnd
<1>7. AnswersAreFinal'
  BY DEF CloseInput, IInv, TypeOK, AnswersAreFinal, Truncated
<1>8. NothingIsLeftRunning'
  BY DEF CloseInput, IInv, TypeOK, NothingIsLeftRunning, Running
<1> QED BY <1>1, <1>2, <1>3, <1>4, <1>5, <1>6, <1>7, <1>8 DEF IInv

LEMMA TakeStep ==
  ASSUME IInv, Take
  PROVE  IInv'
<1>1. /\ call.phase = "running" /\ output.pipe > 0
      /\ UNCHANGED <<call, group, status, waited, input, owed, written>>
  BY DEF Take, Running
<1>2. /\ output.pipe \in Nat /\ output.taken \in Nat
      /\ output \in [pipe : Nat, reading : BOOLEAN, taken : Nat]
  BY DEF IInv, TypeOK
<1>3. output' \in [pipe : Nat, reading : BOOLEAN, taken : Nat]
  <2> DEFINE p == output.pipe - 1
             t == output.taken + 1
             r == output.taken < MaxOutputBytes
  <2>1. output' = [output EXCEPT !.pipe = p, !.taken = t, !.reading = r]
    BY DEF Take, Taken
  <2>2. p \in Nat /\ t \in Nat /\ r \in BOOLEAN
    BY <1>1, <1>2
  <2> HIDE DEF p, t, r
  <2> QED BY <1>2, <2>1, <2>2
<1>4. output'.pipe = output.pipe - 1 /\ output'.taken = output.taken + 1
  BY <1>2 DEF Take, Taken
<1>5. ~ output'.reading => output.taken >= MaxOutputBytes
  BY <1>2, LimitsAreNat DEF Take, Taken
<1>6. TypeOK'
  BY <1>1, <1>3 DEF IInv, TypeOK
<1>7. PhasesAreInOrder'
  BY <1>1 DEF IInv, TypeOK, PhasesAreInOrder
<1>8. OutputIsConserved'
  BY <1>1, <1>4 DEF IInv, TypeOK, OutputIsConserved
<1>9. ReaderSeesTheEnd'
  BY <1>4, <1>5, LimitsAreNat DEF IInv, TypeOK, ReaderSeesTheEnd, Truncated
<1>10. LeaderTakesItsInput'
  BY <1>1, <1>4, LimitsAreNat DEF IInv, TypeOK, LeaderTakesItsInput, Joined, Truncated
<1>11. WaitedForTheEnd'
  BY <1>1 DEF IInv, TypeOK, WaitedForTheEnd
<1>12. AnswersAreFinal'
  BY <1>1 DEF IInv, TypeOK, PhasesAreInOrder, AnswersAreFinal
<1>13. NothingIsLeftRunning'
  BY <1>1 DEF IInv, TypeOK, NothingIsLeftRunning
<1> QED BY <1>6, <1>7, <1>8, <1>9, <1>10, <1>11, <1>12, <1>13 DEF IInv

LEMMA OutputEndsStep ==
  ASSUME IInv, OutputEnds
  PROVE  IInv'
<1>1. TypeOK'
  BY DEF OutputEnds, IInv, TypeOK
<1>2. PhasesAreInOrder'
  BY DEF OutputEnds, IInv, TypeOK, PhasesAreInOrder, Running
<1>3. OutputIsConserved'
  BY DEF OutputEnds, IInv, TypeOK, OutputIsConserved
<1>4. ReaderSeesTheEnd'
  BY DEF OutputEnds, IInv, TypeOK, ReaderSeesTheEnd, Alive, Held
<1>5. LeaderTakesItsInput'
  BY DEF OutputEnds, IInv, TypeOK, LeaderTakesItsInput, Joined, Truncated
<1>6. WaitedForTheEnd'
  BY DEF OutputEnds, IInv, TypeOK, WaitedForTheEnd
<1>7. AnswersAreFinal'
  BY DEF OutputEnds, IInv, TypeOK, AnswersAreFinal
<1>8. NothingIsLeftRunning'
  BY DEF OutputEnds, IInv, TypeOK, NothingIsLeftRunning, Running
<1> QED BY <1>1, <1>2, <1>3, <1>4, <1>5, <1>6, <1>7, <1>8 DEF IInv

LEMMA WaitStep ==
  ASSUME IInv, Wait
  PROVE  IInv'
<1>1. TypeOK'
  BY DEF Wait, IInv, TypeOK
<1>2. PhasesAreInOrder'
  BY DEF Wait, IInv, TypeOK, PhasesAreInOrder, Running
<1>3. OutputIsConserved'
  BY DEF Wait, IInv, TypeOK, OutputIsConserved
<1>4. ReaderSeesTheEnd'
  BY DEF Wait, IInv, TypeOK, ReaderSeesTheEnd, Joined, Truncated, Alive, Held
<1>5. LeaderTakesItsInput'
  BY DEF Wait, IInv, TypeOK, LeaderTakesItsInput, Joined, Truncated
<1>6. WaitedForTheEnd'
  BY DEF Wait, IInv, TypeOK, WaitedForTheEnd
<1>7. AnswersAreFinal'
  BY DEF Wait, IInv, TypeOK, AnswersAreFinal, Truncated
<1>8. NothingIsLeftRunning'
  BY DEF Wait, IInv, TypeOK, NothingIsLeftRunning, Running
<1> QED BY <1>1, <1>2, <1>3, <1>4, <1>5, <1>6, <1>7, <1>8 DEF IInv

LEMMA ReturnStep ==
  ASSUME IInv, Return
  PROVE  IInv'
<1>1. TypeOK'
  BY DEF Return, IInv, TypeOK, Results
<1>2. PhasesAreInOrder'
  BY DEF Return, IInv, TypeOK, PhasesAreInOrder
<1>3. OutputIsConserved'
  BY DEF Return, IInv, TypeOK, OutputIsConserved
<1>4. ReaderSeesTheEnd'
  BY DEF Return, IInv, TypeOK, ReaderSeesTheEnd, Joined, Truncated, Running, Alive, Held
<1>5. LeaderTakesItsInput'
  BY DEF Return, IInv, TypeOK, LeaderTakesItsInput, Joined, Truncated, Running
<1>6. WaitedForTheEnd'
  BY DEF Return, IInv, TypeOK, WaitedForTheEnd
<1>7. AnswersAreFinal'
  BY DEF Return, AllEnded, IInv, TypeOK, WaitedForTheEnd, AnswersAreFinal, Truncated
<1>8. NothingIsLeftRunning'
  BY DEF Return, IInv, TypeOK, NothingIsLeftRunning
<1> QED BY <1>1, <1>2, <1>3, <1>4, <1>5, <1>6, <1>7, <1>8 DEF IInv

LEMMA StopStep ==
  ASSUME IInv, NEW result \in {"cancelled", "timeout"}, Stop(result)
  PROVE  IInv'
<1>1. TypeOK'
  BY DEF Stop, Signalled, IInv, TypeOK, Results
<1>2. PhasesAreInOrder'
  BY DEF Stop, IInv, TypeOK, PhasesAreInOrder
<1>3. OutputIsConserved'
  BY DEF Stop, IInv, TypeOK, OutputIsConserved
<1>4. ReaderSeesTheEnd'
  BY DEF Stop, IInv, TypeOK, ReaderSeesTheEnd, Joined
<1>5. LeaderTakesItsInput'
  BY DEF Stop, IInv, TypeOK, LeaderTakesItsInput, Joined
<1>6. WaitedForTheEnd'
  BY DEF Stop, Signalled, IInv, TypeOK, WaitedForTheEnd
<1>7. AnswersAreFinal'
  BY DEF Stop, IInv, TypeOK, AnswersAreFinal
<1>8. NothingIsLeftRunning'
  BY DEF Stop, IInv, TypeOK, NothingIsLeftRunning
<1> QED BY <1>1, <1>2, <1>3, <1>4, <1>5, <1>6, <1>7, <1>8 DEF IInv

LEMMA TermStep ==
  ASSUME IInv, Term
  PROVE  IInv'
<1>1. TypeOK'
  BY DEF Term, Signalled, IInv, TypeOK
<1>2. PhasesAreInOrder'
  BY DEF Term, IInv, TypeOK, PhasesAreInOrder
<1>3. OutputIsConserved'
  BY DEF Term, IInv, TypeOK, OutputIsConserved
<1>4. ReaderSeesTheEnd'
  BY DEF Term, Signalled, IInv, TypeOK, ReaderSeesTheEnd, Joined, Truncated, Alive, Held
<1>5. LeaderTakesItsInput'
  BY DEF Term, IInv, TypeOK, PhasesAreInOrder, LeaderTakesItsInput, Joined
<1>6. WaitedForTheEnd'
  BY DEF Term, Signalled, IInv, TypeOK, WaitedForTheEnd, Processes
<1>7. AnswersAreFinal'
  BY DEF Term, Signalled, IInv, TypeOK, AnswersAreFinal, Truncated, Processes
<1>8. NothingIsLeftRunning'
  BY DEF Term, IInv, TypeOK, NothingIsLeftRunning
<1> QED BY <1>1, <1>2, <1>3, <1>4, <1>5, <1>6, <1>7, <1>8 DEF IInv

LEMMA KillStep ==
  ASSUME IInv, Kill
  PROVE  IInv'
<1>1. TypeOK'
  BY DEF Kill, Signalled, IInv, TypeOK
<1>2. PhasesAreInOrder'
  BY DEF Kill, IInv, TypeOK, PhasesAreInOrder
<1>3. OutputIsConserved'
  BY DEF Kill, IInv, TypeOK, OutputIsConserved
<1>4. ReaderSeesTheEnd'
  BY DEF Kill, Signalled, IInv, TypeOK, ReaderSeesTheEnd, Joined, Truncated, Alive, Held
<1>5. LeaderTakesItsInput'
  BY DEF Kill, IInv, TypeOK, PhasesAreInOrder, LeaderTakesItsInput, Joined
<1>6. WaitedForTheEnd'
  BY DEF Kill, Signalled, IInv, TypeOK, WaitedForTheEnd, Processes
<1>7. AnswersAreFinal'
  BY DEF Kill, Signalled, IInv, TypeOK, AnswersAreFinal, Truncated, Processes
<1>8. NothingIsLeftRunning'
  BY DEF Kill, Signalled, IInv, TypeOK, NothingIsLeftRunning, Alive, Held
<1> QED BY <1>1, <1>2, <1>3, <1>4, <1>5, <1>6, <1>7, <1>8 DEF IInv

LEMMA ReadsStep ==
  ASSUME IInv, Reads
  PROVE  IInv'
<1>1. TypeOK'
  BY DEF Reads, IInv, TypeOK
<1>2. PhasesAreInOrder'
  BY DEF Reads, IInv, TypeOK, PhasesAreInOrder, Held, Processes
<1>3. OutputIsConserved'
  BY DEF Reads, IInv, TypeOK, OutputIsConserved
<1>4. ReaderSeesTheEnd'
  BY DEF Reads, IInv, TypeOK, ReaderSeesTheEnd, Joined, Truncated, Held, Processes
<1>5. LeaderTakesItsInput'
  BY DEF Reads, IInv, TypeOK, LeaderTakesItsInput, Alive
<1>6. WaitedForTheEnd'
  BY DEF Reads, IInv, TypeOK, WaitedForTheEnd
<1>7. AnswersAreFinal'
  BY DEF Reads, IInv, TypeOK, AnswersAreFinal, Alive
<1>8. NothingIsLeftRunning'
  BY DEF Reads, IInv, TypeOK, NothingIsLeftRunning, Held, Processes
<1> QED BY <1>1, <1>2, <1>3, <1>4, <1>5, <1>6, <1>7, <1>8 DEF IInv

LEMMA PrintsStep ==
  ASSUME IInv, Prints
  PROVE  IInv'
<1>1. TypeOK'
  BY DEF Prints, IInv, TypeOK
<1>2. PhasesAreInOrder'
  BY DEF Prints, IInv, TypeOK, PhasesAreInOrder, Held, Processes
<1>3. OutputIsConserved'
  BY DEF Prints, IInv, TypeOK, OutputIsConserved
<1>4. ReaderSeesTheEnd'
  BY DEF Prints, IInv, TypeOK, ReaderSeesTheEnd
<1>5. LeaderTakesItsInput'
  BY DEF Prints, IInv, TypeOK, LeaderTakesItsInput, Alive
<1>6. WaitedForTheEnd'
  BY DEF Prints, IInv, TypeOK, WaitedForTheEnd
<1>7. AnswersAreFinal'
  BY DEF Prints, IInv, TypeOK, AnswersAreFinal
<1>8. NothingIsLeftRunning'
  BY DEF Prints, IInv, TypeOK, NothingIsLeftRunning, Held, Processes
<1> QED BY <1>1, <1>2, <1>3, <1>4, <1>5, <1>6, <1>7, <1>8 DEF IInv

LEMMA BrokenPipeStep ==
  ASSUME IInv, BrokenPipe
  PROVE  IInv'
<1>1. TypeOK'
  BY DEF BrokenPipe, IInv, TypeOK
<1>2. PhasesAreInOrder'
  BY DEF BrokenPipe, IInv, TypeOK, PhasesAreInOrder, Held, Processes
<1>3. OutputIsConserved'
  BY DEF BrokenPipe, IInv, TypeOK, OutputIsConserved
<1>4. ReaderSeesTheEnd'
  BY DEF BrokenPipe, IInv, TypeOK, ReaderSeesTheEnd, Joined, Truncated, Held, Processes
<1>5. LeaderTakesItsInput'
  BY DEF BrokenPipe, IInv, TypeOK, ReaderSeesTheEnd, LeaderTakesItsInput, Joined, Truncated,
       Held
<1>6. WaitedForTheEnd'
  BY DEF BrokenPipe, IInv, TypeOK, WaitedForTheEnd
<1>7. AnswersAreFinal'
  BY DEF BrokenPipe, IInv, TypeOK, AnswersAreFinal, Alive
<1>8. NothingIsLeftRunning'
  BY DEF BrokenPipe, IInv, TypeOK, NothingIsLeftRunning, Held, Processes
<1> QED BY <1>1, <1>2, <1>3, <1>4, <1>5, <1>6, <1>7, <1>8 DEF IInv

LEMMA ExitStep ==
  ASSUME IInv, NEW code \in {"success", "failure"}, Exit(code)
  PROVE  IInv'
<1>1. TypeOK'
  BY DEF Exit, IInv, TypeOK
<1>2. PhasesAreInOrder'
  BY DEF Exit, IInv, TypeOK, PhasesAreInOrder, Held, Processes
<1>3. OutputIsConserved'
  BY DEF Exit, IInv, TypeOK, OutputIsConserved
<1>4. ReaderSeesTheEnd'
  BY DEF Exit, IInv, TypeOK, ReaderSeesTheEnd, Joined, Truncated, Held, Processes
<1>5. LeaderTakesItsInput'
  BY DEF Exit, IInv, TypeOK, LeaderTakesItsInput
<1>6. WaitedForTheEnd'
  BY DEF Exit, IInv, TypeOK, WaitedForTheEnd
<1>7. AnswersAreFinal'
  BY DEF Exit, IInv, TypeOK, AnswersAreFinal, Alive
<1>8. NothingIsLeftRunning'
  BY DEF Exit, IInv, TypeOK, NothingIsLeftRunning, Held, Processes
<1> QED BY <1>1, <1>2, <1>3, <1>4, <1>5, <1>6, <1>7, <1>8 DEF IInv

LEMMA HelperExitsStep ==
  ASSUME IInv, HelperExits
  PROVE  IInv'
<1>1. TypeOK'
  BY DEF HelperExits, IInv, TypeOK
<1>2. PhasesAreInOrder'
  BY DEF HelperExits, IInv, TypeOK, PhasesAreInOrder, Held, Processes
<1>3. OutputIsConserved'
  BY DEF HelperExits, IInv, TypeOK, OutputIsConserved
<1>4. ReaderSeesTheEnd'
  BY DEF HelperExits, IInv, TypeOK, ReaderSeesTheEnd, Joined, Truncated, Held, Processes
<1>5. LeaderTakesItsInput'
  BY DEF HelperExits, IInv, TypeOK, LeaderTakesItsInput, Joined, Truncated
<1>6. WaitedForTheEnd'
  BY DEF HelperExits, IInv, TypeOK, WaitedForTheEnd
<1>7. AnswersAreFinal'
  BY DEF HelperExits, IInv, TypeOK, AnswersAreFinal, Truncated
<1>8. NothingIsLeftRunning'
  BY DEF HelperExits, IInv, TypeOK, NothingIsLeftRunning, Held, Processes
<1> QED BY <1>1, <1>2, <1>3, <1>4, <1>5, <1>6, <1>7, <1>8 DEF IInv

LEMMA InitSetsUp ==
  ASSUME Init
  PROVE  IInv
<1>1. (CHOOSE b \in Behaviours : TRUE) \in Programs
  BY ProgramsAreKnown DEF Programs
<1>2. TypeOK
  BY <1>1 DEF Init, TypeOK, Results
<1>3. ~ Held
  BY DEF Init, Held, Alive
<1>4. /\ PhasesAreInOrder /\ OutputIsConserved /\ ReaderSeesTheEnd /\ LeaderTakesItsInput
      /\ WaitedForTheEnd /\ AnswersAreFinal /\ NothingIsLeftRunning
  BY <1>3 DEF Init, PhasesAreInOrder, OutputIsConserved, ReaderSeesTheEnd, LeaderTakesItsInput,
              WaitedForTheEnd, AnswersAreFinal, NothingIsLeftRunning, Joined
<1> QED BY <1>2, <1>4 DEF IInv

LEMMA Stutters ==
  ASSUME IInv, UNCHANGED vars
  PROVE  IInv'
BY DEF IInv, vars, TypeOK, PhasesAreInOrder, OutputIsConserved, ReaderSeesTheEnd,
       LeaderTakesItsInput, WaitedForTheEnd, AnswersAreFinal, NothingIsLeftRunning,
       Joined, Truncated, Held, Alive

LEMMA NextKeeps ==
  ASSUME IInv, [Next]_vars
  PROVE  IInv'
<1>1. CASE \/ \E reason \in {"invalid", "unavailable"} : Refuse(reason)
           \/ \E b \in Behaviours, sudo \in BOOLEAN, size \in 0 .. MaxInputBytes :
                Spawn(b, sudo, size)
  BY <1>1, RefuseStep, SpawnStep
<1>2. CASE Feed \/ FeedFails \/ CloseInput \/ Take \/ OutputEnds \/ Wait \/ Return
  BY <1>2, FeedStep, FeedFailsStep, CloseInputStep, TakeStep, OutputEndsStep, WaitStep, ReturnStep
<1>3. CASE Term \/ Kill \/ \E result \in {"cancelled", "timeout"} : Stop(result)
  BY <1>3, TermStep, KillStep, StopStep
<1>4. CASE Reads \/ Prints \/ BrokenPipe \/ HelperExits
           \/ \E code \in {"success", "failure"} : Exit(code)
  BY <1>4, ReadsStep, PrintsStep, BrokenPipeStep, HelperExitsStep, ExitStep
<1>5. CASE UNCHANGED vars
  BY <1>5, Stutters
<1> QED BY <1>1, <1>2, <1>3, <1>4, <1>5 DEF Next

-----------------------------------------------------------------------------
(***************************************************************************)
(* The theorems.                                                           *)
(***************************************************************************)
(* The join, the pipes and the group of processes fit together. *)
THEOREM InductiveInvariant == Spec => []IInv
<1>1. Init => IInv
  BY InitSetsUp
<1>2. IInv /\ [Next]_vars => IInv'
  BY NextKeeps
<1> QED BY <1>1, <1>2, PTL DEF Spec

(* runner.rs, run: a call that was cancelled or too late leaves nothing of *)
(* its group running, and an answer that is not called truncated is all    *)
(* that was printed by a program that had all its input.                   *)
THEOREM CallsAreCleanAndWhole == Spec => []CallIsCleanAndWhole
<1>1. IInv => ResultIsWhole
  <2> SUFFICES ASSUME IInv PROVE ResultIsWhole
    OBVIOUS
  <2>1. /\ output.taken \in Nat /\ output.pipe \in Nat /\ written \in Nat
        /\ output.taken + output.pipe = written /\ MaxOutputBytes \in Nat
    BY LimitsAreNat DEF IInv, TypeOK, OutputIsConserved
  <2>2. CASE call.result = "whole"
    <3>1. ~ Truncated /\ ~ output.reading /\ group["leader"] = "ended" /\ Joined
      BY <2>2 DEF IInv, AnswersAreFinal, Joined
    <3>2. output.pipe = 0 /\ (call.program.reads => input.pipe = 0)
      BY <3>1 DEF IInv, ReaderSeesTheEnd, LeaderTakesItsInput
    <3> QED BY <2>1, <2>2, <3>2 DEF ResultIsWhole
  <2>3. CASE call.result = "truncated"
    <3>1. output.taken > MaxOutputBytes
      BY <2>3 DEF IInv, AnswersAreFinal, Truncated
    <3> QED BY <2>1, <2>3, <3>1 DEF ResultIsWhole
  <2> QED BY <2>2, <2>3 DEF ResultIsWhole
<1>2. IInv => CallIsCleanAndWhole
  BY <1>1 DEF IInv, CallIsCleanAndWhole
<1> QED BY <1>2, InductiveInvariant, PTL
-----------------------------------------------------------------------------
(***************************************************************************)
(* The fs.* tools (FileTools), for any tree, any texts, any limits and any *)
(* number of calls and of changes by other processes: a copy or a move     *)
(* never loses what it transfers, and a result that is not called          *)
(* truncated has left out no path that was looked for and no match in a    *)
(* file that could be read as text.                                        *)
(*                                                                         *)
(* The argument: what is there is in a directory.  A transfer that is past *)
(* its look at both ends has what it found still at the source.  There is  *)
(* a set of paths, the source of the scan among them, that holds whatever  *)
(* is pending and, of every other path in it, the children it had when the *)
(* scan came by; of its files those nobody touched are listed, or searched *)
(* to the end.  When nothing is pending, whatever is below the source and  *)
(* was not touched is in that set.                                         *)
(***************************************************************************)
CONSTANTS Root, Parent, Trees, Lines, Garbled, Writes, Named, Sought, MaxFileLines, MaxScanned, MaxResults,
          MaxCalls, MaxChanges
VARIABLES tree, request, scan, outcome, touched, calls, changes
Files == INSTANCE FileTools WITH call <- request

(* What is at a path, and what calls and scans look like.                  *)
Nodes == [kind : {"none", "file", "dir", "link"}, lines : Seq(Lines)]
Ops == {"none", "copy", "move", "write", "mkdir", "delete", "find", "search"}
IsScan == request.op \in {"find", "search"}
IsTransfer == request.op \in {"copy", "move"}

CallShapes ==
  [op : Ops, source : Files!Paths \cup {Root}, dest : Files!Paths \cup {Root}, flag : BOOLEAN,
   text : Seq(Lines), phase : Ops \cup {"idle", "remove", "put", "fill"}, held : Nodes]
ScanShapes ==
  [pending : Seq(Files!Paths \cup {Root}), files : Seq(Files!Paths), scanned : Nat, cut : BOOLEAN,
   results : SUBSET (Files!Paths \cup (Files!Paths \X Nat)), unread : SUBSET Files!Paths]
Shapes ==
  /\ tree \in Files!TreeShapes
  /\ request \in CallShapes
  /\ scan \in ScanShapes
  /\ Files!IsFiniteSet(scan.results)
  /\ outcome \in {"none", "ok", "error"}
  /\ touched \subseteq Files!Paths

(* A phase belongs to a call that says so; its outcome is open.            *)
PhasesBelong ==
  /\ request.phase # "idle" => outcome = "none"
  /\ request.phase \in Ops => request.op = request.phase /\ request.held = Files!None
  /\ request.phase \in {"remove", "put"} => IsTransfer /\ request.held.kind = "file"
  /\ request.phase = "fill" => request.op = "write"
  /\ request.op \in {"copy", "move", "write", "mkdir"} /\ request.phase # "idle" =>
       request.dest \in Files!Paths
  /\ request.op \in {"copy", "move", "delete"} /\ request.phase # "idle" =>
       request.source \in Files!Paths

(* What is there is in a directory.                                        *)
TreeIsRooted == \A p \in Files!Paths : ~Files!Is(p, "none") => Files!Is(Parent[p], "dir")

(* Nobody puts a directory where a call is about to write, or takes one    *)
(* away.                                                                   *)
CallHasItsPlace ==
  /\ request.op \in {"copy", "move", "write", "mkdir"} /\ request.phase # "idle" =>
       Files!Is(Parent[request.dest], "dir")
  /\ request.phase \in {"remove", "put"} => ~Files!Is(request.dest, "dir")
  /\ request.phase \in {"remove", "put"} => ~Files!Is(request.source, "dir")
  /\ request.phase = "fill" => ~Files!Is(request.dest, "dir")

(* Past its look at both ends a transfer has lost nothing yet.             *)
TransferInHand ==
  request.phase \in {"remove", "put"} /\ request.source # request.dest
    /\ touched \cap {request.source, request.dest} = {} => Files!At(request.source) = request.held

(* V is seen: what of it is not pending was walked through or listed, and  *)
(* of a search the files that are listed no more are told about.           *)
Listed(s, p) == \E i \in DOMAIN s : s[i] = p
Told(p) ==
  request.op = "search" /\ (Files!IsSearchable(Files!At(p).lines) /\ p \notin scan.unread =>
    \A i \in DOMAIN Files!At(p).lines : Files!At(p).lines[i] = Sought => <<p, i>> \in scan.results)
Seen(V) ==
  /\ request.source \in V
  /\ \A p \in Files!Paths \cup {Root} : Listed(scan.pending, p) => p \in V
  /\ \A p \in V : ~Listed(scan.pending, p) =>
       /\ Files!Is(p, "dir") =>
            \A q \in Files!Children(p) : q \in V \/ q \in touched \/ Files!Is(q, "link")
       /\ Files!Is(p, "file") /\ p \notin touched => Listed(scan.files, p) \/ Told(p)
ScanIsOnItsWay ==
  request.phase \in {"find", "search"} /\ ~scan.cut =>
    \E V \in SUBSET (Files!Paths \cup {Root}) : Seen(V)
OthersTouchFiles == IsScan => \A p \in touched : ~Files!Is(p, "dir")

FilesIInv ==
  /\ Shapes /\ PhasesBelong /\ TreeIsRooted /\ CallHasItsPlace /\ TransferInHand
  /\ Files!TransferIsSafe
  /\ ScanIsOnItsWay /\ OthersTouchFiles /\ Files!ResultIsComplete

-----------------------------------------------------------------------------
(***************************************************************************)
(* Finite sets of positions.                                               *)
(***************************************************************************)
LEMMA FileCounts ==
  /\ \A S : Files!IsFiniteSet(S) <=> IsFiniteSet(S)
  /\ \A S : Files!Cardinality(S) = Cardinality(S)
BY DEF Files!IsFiniteSet, IsFiniteSet, Files!Cardinality, Cardinality

LEMMA CountsAreNat ==
  ASSUME NEW S, Files!IsFiniteSet(S)
  PROVE  Files!Cardinality(S) \in Nat
BY FileCounts, FS_CardinalityType

LEMMA PartsCountLess ==
  ASSUME NEW S, Files!IsFiniteSet(S), NEW T \in SUBSET S
  PROVE  Files!IsFiniteSet(T) /\ Files!Cardinality(T) <= Files!Cardinality(S)
<1>1. IsFiniteSet(S)
  BY FileCounts
<1>2. IsFiniteSet(T) /\ Cardinality(T) <= Cardinality(S)
  BY <1>1, FS_Subset
<1> QED BY <1>2, FileCounts

LEMMA PositionsAreFinite ==
  ASSUME NEW len \in Nat
  PROVE  Files!IsFiniteSet(1 .. len)
BY FileCounts, FS_Interval

LEMMA PairsAreFinite ==
  ASSUME NEW S, Files!IsFiniteSet(S), NEW p, NEW T, Files!IsFiniteSet(T)
  PROVE  Files!IsFiniteSet(S \cup {<<p, i>> : i \in T})
<1> DEFINE image == {<<p, i>> : i \in T}
           f == [i \in T |-> <<p, i>>]
<1>1. IsFiniteSet(S) /\ IsFiniteSet(T)
  BY FileCounts
<1>2. f \in Surjection(T, image)
  BY DEF Surjection
<1>3. IsFiniteSet(image)
  BY <1>1, <1>2, FS_Surjection
<1>4. IsFiniteSet(S \cup image)
  BY <1>1, <1>3, FS_Union
<1> QED BY <1>4, FileCounts

-----------------------------------------------------------------------------
(***************************************************************************)
(* Places.                                                                 *)
(***************************************************************************)
LEMMA Basics ==
  ASSUME Files!ConstantsFit
  PROVE  /\ Root \notin Files!Paths /\ Parent \in [Files!Paths -> Files!Paths \cup {Root}]
         /\ Files!None \in Nodes /\ Files!None.kind = "none" /\ Files!None.lines = <<>>
         /\ \A k \in {"none", "file", "dir", "link"}, l \in Seq(Lines) :
              Files!Node(k, l) \in Nodes /\ Files!Node(k, l).kind = k /\ Files!Node(k, l).lines = l
         /\ Files!TreeShapes = [Files!Paths -> Nodes]
         /\ Files!At(Root) = Files!Node("dir", <<>>) /\ Files!Is(Root, "dir")
         /\ \A p \in Files!Paths : Files!At(p) = tree[p]
BY DEF Files!ConstantsFit, Files!None, Files!Node, Nodes, Files!TreeShapes, Files!At, Files!Is

LEMMA Places ==
  ASSUME Files!ConstantsFit, Shapes, NEW p \in Files!Paths \cup {Root}
  PROVE  Files!At(p) \in Nodes /\ Files!At(p).kind \in {"none", "file", "dir", "link"}
         /\ Files!At(p).lines \in Seq(Lines)
<1>1. CASE p = Root
  BY <1>1, Basics DEF Nodes
<1>2. CASE p \in Files!Paths
  <2>1. Files!At(p) = tree[p] /\ tree \in [Files!Paths -> Nodes]
    BY <1>2, Basics DEF Shapes
  <2> QED BY <1>2, <2>1 DEF Nodes
<1> QED BY <1>1, <1>2

(* What a write of one place, that is no directory, does to the tree.      *)
LEMMA Storing ==
  ASSUME Files!ConstantsFit, Shapes, TreeIsRooted, NEW p \in Files!Paths, NEW node \in Nodes,
         ~ Files!Is(p, "dir"), Files!Stores(p, node),
         node.kind # "none" => Files!Is(Parent[p], "dir")
  PROVE  /\ tree' \in Files!TreeShapes /\ TreeIsRooted'
         /\ Files!At(p)' = node
         /\ \A q \in Files!Paths \cup {Root} : q # p => Files!At(q)' = Files!At(q)
<1>1. tree \in [Files!Paths -> Nodes] /\ tree' \in [Files!Paths -> Nodes]
      /\ Files!TreeShapes = [Files!Paths -> Nodes]
  BY Basics DEF Shapes, Files!Stores
<1>2. Files!At(p)' = node /\ \A q \in Files!Paths \cup {Root} : q # p => Files!At(q)' = Files!At(q)
  BY <1>1, Basics DEF Files!Stores, Files!At
<1>3. ASSUME NEW q \in Files!Paths, ~ Files!Is(q, "none")' PROVE Files!Is(Parent[q], "dir")'
  <2>1. CASE q = p
    <3>1. node.kind # "none"
      BY <1>2, <1>3, <2>1 DEF Files!Is
    <3>2. Files!Is(Parent[p], "dir") /\ Parent[p] # p
      BY <3>1
    <3> QED BY <1>2, <2>1, <3>2, Basics DEF Files!Is
  <2>2. CASE q # p
    <3>1. ~ Files!Is(q, "none")
      BY <1>2, <1>3, <2>2 DEF Files!Is
    <3>2. Files!Is(Parent[q], "dir") /\ Parent[q] # p
      BY <3>1 DEF TreeIsRooted
    <3> QED BY <1>2, <3>2, Basics DEF Files!Is
  <2> QED BY <2>1, <2>2
<1> QED BY <1>1, <1>2, <1>3 DEF TreeIsRooted

LEMMA SameTree ==
  ASSUME UNCHANGED tree
  PROVE  /\ \A p : Files!At(p)' = Files!At(p)
         /\ TreeIsRooted => TreeIsRooted'
         /\ \A p : Files!Children(p)' = Files!Children(p)
BY DEF Files!At, TreeIsRooted, Files!Is, Files!Children, Files!Paths

(* Nothing is promised of a scan, or of a transfer, by another call.       *)
LEMMA NoScanNoPromise ==
  ASSUME ~ IsScan'
  PROVE  /\ PhasesBelong' => ScanIsOnItsWay'
         /\ OthersTouchFiles' /\ Files!ResultIsComplete'
BY DEF IsScan, PhasesBelong, ScanIsOnItsWay, OthersTouchFiles, Files!ResultIsComplete, Ops

LEMMA NoTransferNoPromise ==
  ASSUME ~ IsTransfer'
  PROVE  (PhasesBelong' => TransferInHand') /\ Files!TransferIsSafe'
BY DEF IsTransfer, PhasesBelong, TransferInHand, Files!TransferIsSafe

-----------------------------------------------------------------------------
(***************************************************************************)
(* The steps.                                                              *)
(***************************************************************************)
LEMMA FilesInitSetsUp ==
  ASSUME Files!ConstantsFit, Files!Init
  PROVE  FilesIInv
<1>1. Shapes
  <2>1. tree \in Files!TreeShapes
    BY DEF Files!Init, Files!ConstantsFit
  <2>2. <<>> \in Seq(Lines) /\ Files!None \in Nodes /\ scan = Files!NoScan
    BY Basics DEF Files!Init
  <2>3. Files!IsFiniteSet(scan.results)
    BY <2>2, FileCounts, FS_EmptySet DEF Files!NoScan
  <2> QED BY <2>1, <2>2, <2>3 DEF Shapes, CallShapes, ScanShapes, Files!Init, Files!NoScan, Ops
<1>2. TreeIsRooted
  <2> SUFFICES ASSUME NEW p \in Files!Paths, ~ Files!Is(p, "none") PROVE Files!Is(Parent[p], "dir")
    BY DEF TreeIsRooted
  <2>1. tree[p].kind # "none"
    BY Basics DEF Files!Is
  <2>2. Parent[p] = Root \/ tree[Parent[p]].kind = "dir"
    BY <2>1 DEF Files!Init, Files!ConstantsFit
  <2>3. Parent[p] \in Files!Paths \/ Parent[p] = Root
    BY Basics
  <2> QED BY <2>2, <2>3, Basics DEF Files!Is
<1>3. PhasesBelong /\ CallHasItsPlace /\ TransferInHand /\ Files!TransferIsSafe
  BY DEF Files!Init, PhasesBelong, CallHasItsPlace, TransferInHand, Files!TransferIsSafe, Ops
<1>4. ScanIsOnItsWay /\ OthersTouchFiles /\ Files!ResultIsComplete
  BY DEF Files!Init, ScanIsOnItsWay, OthersTouchFiles, IsScan, Files!ResultIsComplete
<1> QED BY <1>1, <1>2, <1>3, <1>4 DEF FilesIInv

-----------------------------------------------------------------------------
LEMMA OthersStep ==
  ASSUME Files!ConstantsFit, FilesIInv, NEW p \in Files!Paths,
         NEW node \in {Files!None} \cup {Files!Node("file", w) : w \in Writes},
         Files!Others(p, node)
  PROVE  FilesIInv'
<1>1. node \in Nodes /\ node.kind \in {"none", "file"}
  BY Basics DEF Files!ConstantsFit
<1>2. /\ ~ Files!Is(p, "dir") /\ ~ Files!Is(p, "link") /\ Files!Is(Parent[p], "dir")
      /\ Files!Stores(p, node)
      /\ touched' = touched \cup {p} /\ UNCHANGED <<request, scan, outcome>>
  BY DEF Files!Others
<1>3. /\ tree' \in Files!TreeShapes /\ TreeIsRooted' /\ Files!At(p)' = node
      /\ \A q \in Files!Paths \cup {Root} : q # p => Files!At(q)' = Files!At(q)
  BY <1>1, <1>2, Storing DEF FilesIInv
<1>4. \A q \in Files!Paths \cup {Root} :
        /\ Files!Is(q, "dir")' <=> Files!Is(q, "dir")
        /\ Files!Is(q, "link")' <=> Files!Is(q, "link")
        /\ q \notin touched' => Files!At(q)' = Files!At(q) /\ q \notin touched
  BY <1>1, <1>2, <1>3 DEF Files!Is
<1>5. Shapes'
  BY <1>2, <1>3 DEF FilesIInv, Shapes
<1>6. PhasesBelong'
  BY <1>2 DEF FilesIInv, PhasesBelong, IsTransfer
<1>7. CallHasItsPlace'
  <2>1. request.source \in Files!Paths \cup {Root} /\ request.dest \in Files!Paths \cup {Root}
    BY DEF FilesIInv, Shapes, CallShapes
  <2>2. request.op \in {"copy", "move", "write", "mkdir"} /\ request.phase # "idle" =>
          Parent[request.dest] \in Files!Paths \cup {Root}
    BY Basics DEF FilesIInv, PhasesBelong
  <2> QED BY <1>2, <1>4, <2>1, <2>2 DEF FilesIInv, CallHasItsPlace
<1>8. TransferInHand' /\ Files!TransferIsSafe'
  <2>1. request.source \in Files!Paths \cup {Root} /\ request.dest \in Files!Paths \cup {Root}
    BY DEF FilesIInv, Shapes, CallShapes
  <2>2. touched' \cap {request.source, request.dest} = {} =>
          /\ touched \cap {request.source, request.dest} = {}
          /\ Files!At(request.source)' = Files!At(request.source)
          /\ Files!At(request.dest)' = Files!At(request.dest)
    BY <1>2, <1>4, <2>1
  <2>3. TransferInHand'
    BY <1>2, <2>2 DEF FilesIInv, TransferInHand
  <2>4. Files!TransferIsSafe'
    BY <1>2, <2>2 DEF FilesIInv, Files!TransferIsSafe, Files!Is
  <2> QED BY <2>3, <2>4
<1>9. ScanIsOnItsWay'
  <2> SUFFICES ASSUME request.phase \in {"find", "search"}, ~ scan.cut
               PROVE  \E V \in SUBSET (Files!Paths \cup {Root}) : Seen(V)'
    BY <1>2 DEF ScanIsOnItsWay
  <2>1. PICK V \in SUBSET (Files!Paths \cup {Root}) : Seen(V)
    BY DEF FilesIInv, ScanIsOnItsWay
  <2>2. /\ request.source \in V
        /\ \A q \in Files!Paths \cup {Root} : Listed(scan.pending, q) => q \in V
    BY <2>1 DEF Seen
  <2>3. ASSUME NEW q \in V, ~ Listed(scan.pending, q), Files!Is(q, "dir")',
               NEW r \in Files!Children(q)'
        PROVE  r \in V \/ r \in touched' \/ Files!Is(r, "link")'
    <3>1. Files!Is(q, "dir") /\ r \in Files!Paths /\ Parent[r] = q /\ ~ Files!Is(r, "none")'
      BY <1>4, <2>3 DEF Files!Children, Files!Paths
    <3>2. CASE r \in touched'
      BY <3>2
    <3>3. CASE r \notin touched'
      <4>1. Files!At(r)' = Files!At(r) /\ r \notin touched
        BY <1>4, <3>1, <3>3
      <4>2. r \in Files!Children(q)
        BY <3>1, <4>1 DEF Files!Children, Files!Is
      <4>3. r \in V \/ Files!Is(r, "link")
        BY <2>1, <2>3, <3>1, <4>1, <4>2 DEF Seen
      <4> QED BY <4>1, <4>3 DEF Files!Is
    <3> QED BY <3>2, <3>3
  <2>4. ASSUME NEW q \in V, ~ Listed(scan.pending, q), Files!Is(q, "file")', q \notin touched'
        PROVE  Listed(scan.files, q) \/ Told(q)'
    <3>1. Files!At(q)' = Files!At(q) /\ q \notin touched /\ Files!Is(q, "file")
      BY <1>4, <2>4 DEF Files!Is
    <3>2. Listed(scan.files, q) \/ Told(q)
      BY <2>1, <2>4, <3>1 DEF Seen
    <3> QED BY <1>2, <3>1, <3>2 DEF Told
  <2> QED BY <1>2, <2>2, <2>3, <2>4 DEF Seen, Listed
<1>10. OthersTouchFiles'
  <2> SUFFICES ASSUME IsScan, NEW q \in touched' PROVE ~ Files!Is(q, "dir")'
    BY <1>2 DEF OthersTouchFiles, IsScan
  <2>1. q \in Files!Paths /\ (q = p \/ q \in touched)
    BY <1>2 DEF FilesIInv, Shapes
  <2> QED BY <1>2, <1>4, <2>1 DEF FilesIInv, OthersTouchFiles
<1>11. Files!ResultIsComplete'
  <2> SUFFICES ASSUME outcome = "ok", ~ scan.cut,
                      NEW q \in Files!Inside(request.source) \ touched', Files!Is(q, "file")'
               PROVE  /\ request.op = "find" /\ q \in Named => q \in scan.results
                      /\ request.op = "search" /\ Files!IsSearchable(Files!At(q).lines)' /\ q \notin scan.unread =>
                           \A i \in DOMAIN Files!At(q)'.lines :
                             Files!At(q)'.lines[i] = Sought => <<q, i>> \in scan.results
    BY <1>2 DEF Files!ResultIsComplete, Files!Inside, Files!Paths
  <2>1. q \in Files!Paths /\ q \in Files!Inside(request.source) \ touched
    BY <1>2 DEF Files!Inside
  <2>2. Files!At(q)' = Files!At(q) /\ Files!Is(q, "file")
    BY <1>4, <2>1 DEF Files!Is
  <2> QED BY <2>1, <2>2 DEF FilesIInv, Files!ResultIsComplete
<1> QED BY <1>3, <1>5, <1>6, <1>7, <1>8, <1>9, <1>10, <1>11 DEF FilesIInv

LEMMA BeginStep ==
  ASSUME Files!ConstantsFit, FilesIInv, NEW a \in Files!Arguments,
         Files!Begin(a.op, a.source, a.dest, a.flag, a.text)
  PROVE  FilesIInv'
<1> DEFINE good == Files!Resolves(a.op, a.source, a.dest)
<1>1. /\ a.op \in Ops \ {"none"} /\ a.source \in Files!Paths \cup {Root}
      /\ a.dest \in Files!Paths \cup {Root}
      /\ a.flag \in BOOLEAN /\ a.text \in Seq(Lines)
      /\ a.op \in {"copy", "move", "write", "mkdir"} => a.dest \in Files!Paths
      /\ a.op \in {"copy", "move", "delete"} => a.source \in Files!Paths
  <2>1. <<>> \in Seq(Lines) /\ Writes \subseteq Seq(Lines)
    BY DEF Files!ConstantsFit
  <2>2. \/ a \in [op : {"copy", "move"}, source : Files!Paths, dest : Files!Paths, flag : BOOLEAN,
                  text : {<<>>}]
        \/ a \in [op : {"write"}, source : {Root}, dest : Files!Paths, flag : BOOLEAN,
                  text : Writes]
        \/ a \in [op : {"mkdir"}, source : {Root}, dest : Files!Paths, flag : {FALSE},
                  text : {<<>>}]
        \/ a \in [op : {"delete"}, source : Files!Paths, dest : {Root}, flag : BOOLEAN,
                  text : {<<>>}]
        \/ a \in [op : {"find", "search"}, source : Files!Paths \cup {Root}, dest : {Root},
                  flag : {FALSE}, text : {<<>>}]
    BY DEF Files!Arguments
  <2> QED BY <2>1, <2>2 DEF Ops
<1>2. /\ request.phase = "idle" /\ UNCHANGED tree /\ touched' = {}
      /\ request' = [op |-> a.op, source |-> a.source, dest |-> a.dest, flag |-> a.flag,
                     text |-> a.text, phase |-> IF good THEN a.op ELSE "idle", held |-> Files!None]
      /\ outcome' = IF good THEN "none" ELSE "error"
      /\ scan' = IF good /\ a.op \in {"find", "search"}
                 THEN [Files!NoScan EXCEPT !.pending = <<a.source>>]
                 ELSE Files!NoScan
  BY DEF Files!Begin
<1> HIDE DEF good
<1>3. \A p : Files!At(p)' = Files!At(p)
  BY <1>2, SameTree
<1>4. TreeIsRooted'
  BY <1>2, SameTree DEF FilesIInv
<1>5. Shapes'
  <2>9. <<a.source>> \in Seq(Files!Paths \cup {Root}) /\ <<>> \in Seq(Files!Paths)
        /\ <<>> \in Seq(Files!Paths \cup {Root})
    BY <1>1
  <2>1. \E s \in Seq(Files!Paths \cup {Root}) :
          scan' = [pending |-> s, files |-> <<>>, scanned |-> 0, cut |-> FALSE, results |-> {},
                    unread |-> {}]
    <3>1. scan' = Files!NoScan \/ scan' = [Files!NoScan EXCEPT !.pending = <<a.source>>]
      BY <1>2
    <3>2. CASE scan' = Files!NoScan
      BY <2>9, <3>2 DEF Files!NoScan
    <3>3. CASE scan' = [Files!NoScan EXCEPT !.pending = <<a.source>>]
      BY <2>9, <3>3 DEF Files!NoScan
    <3> QED BY <3>1, <3>2, <3>3
  <2>2. /\ scan' \in ScanShapes
        /\ scan'.results = {}
    BY <2>1, <2>9 DEF ScanShapes
  <2>3. request' \in CallShapes
    BY <1>1, <1>2, Basics DEF CallShapes
  <2>4. Files!IsFiniteSet(scan'.results)
    BY <2>2, FileCounts, FS_EmptySet
  <2> QED BY <1>2, <2>2, <2>3, <2>4 DEF FilesIInv, Shapes, Files!Paths
<1>6. PhasesBelong'
  BY <1>1, <1>2 DEF PhasesBelong, Ops, Files!Paths, Files!None, Files!Node
<1>7. CallHasItsPlace'
  <2>1. a.op \in {"copy", "move", "write", "mkdir"} /\ good => Files!Is(Parent[a.dest], "dir")
    BY DEF good, Files!Resolves
  <2> QED BY <1>1, <1>2, <1>3, <2>1 DEF CallHasItsPlace, Files!Is, Ops
<1>8. TransferInHand' /\ Files!TransferIsSafe'
  BY <1>1, <1>2 DEF TransferInHand, Files!TransferIsSafe, Ops, Files!None
<1>9. ScanIsOnItsWay'
  <2> SUFFICES ASSUME request'.phase \in {"find", "search"} PROVE Seen({a.source})'
    BY <1>1 DEF ScanIsOnItsWay, Files!Paths
  <2>1. good /\ a.op \in {"find", "search"} /\ scan'.pending = <<a.source>>
        /\ request'.source = a.source
    BY <1>2 DEF Files!NoScan
  <2>2. Listed(<<a.source>>, a.source) /\ \A p : Listed(<<a.source>>, p) => p = a.source
    BY DEF Listed
  <2> QED BY <2>1, <2>2 DEF Seen, Listed
<1>10. OthersTouchFiles' /\ Files!ResultIsComplete'
  BY <1>2 DEF OthersTouchFiles, Files!ResultIsComplete
<1> QED BY <1>4, <1>5, <1>6, <1>7, <1>8, <1>9, <1>10 DEF FilesIInv

-----------------------------------------------------------------------------
(***************************************************************************)
(* copy and move.                                                          *)
(***************************************************************************)
LEMMA InspectStep ==
  ASSUME Files!ConstantsFit, FilesIInv, Files!Inspect
  PROVE  FilesIInv'
<1> DEFINE fits ==
      /\ Files!Is(request.source, "file") /\ ~Files!Is(request.dest, "link")
      /\ ~Files!Is(request.dest, "dir")
      /\ Files!Is(request.dest, "file") => request.flag
<1>1. /\ request.phase \in {"copy", "move"} /\ UNCHANGED <<tree, touched, scan>>
      /\ request' = [request EXCEPT !.phase = IF ~fits THEN "idle"
                                           ELSE IF Files!Is(request.dest, "file") THEN "remove"
                                           ELSE "put",
                                 !.held = IF fits THEN Files!At(request.source) ELSE Files!None]
      /\ outcome' = IF fits THEN "none" ELSE "error"
  BY DEF Files!Inspect, Files!In
<1>2. fits => Files!Is(request.source, "file") /\ ~ Files!Is(request.dest, "dir")
  OBVIOUS
<1> HIDE DEF fits
<1>3. /\ IsTransfer /\ request.op = request.phase /\ request.source \in Files!Paths
      /\ request.dest \in Files!Paths
      /\ Files!Is(Parent[request.dest], "dir")
  BY <1>1 DEF FilesIInv, PhasesBelong, CallHasItsPlace, IsTransfer, Ops
<1>4. Files!At(request.source) \in Nodes
  BY <1>3, Places DEF FilesIInv
<1>5. /\ request' \in CallShapes
      /\ request'.op = request.op /\ request'.source = request.source
      /\ request'.dest = request.dest
      /\ request'.phase \in {"idle", "remove", "put"}
      /\ request'.phase # "idle" => fits /\ outcome' = "none"
      /\ request'.held = IF fits THEN Files!At(request.source) ELSE Files!None
  BY <1>1, <1>4, Basics DEF FilesIInv, Shapes, CallShapes
<1>6. \A p : Files!At(p)' = Files!At(p)
  BY <1>1, SameTree
<1>7. TreeIsRooted'
  BY <1>1, SameTree DEF FilesIInv
<1>8. Shapes'
  BY <1>1, <1>5 DEF FilesIInv, Shapes, Files!Paths
<1>9. PhasesBelong'
  BY <1>2, <1>3, <1>5 DEF PhasesBelong, IsTransfer, Files!Is, Ops, Files!Paths
<1>10. CallHasItsPlace'
  BY <1>2, <1>3, <1>5, <1>6 DEF CallHasItsPlace, Files!Is
<1>11. TransferInHand' /\ Files!TransferIsSafe'
  BY <1>1, <1>5, <1>6 DEF TransferInHand, Files!TransferIsSafe
<1>12. ~ IsScan'
  BY <1>3, <1>5 DEF IsScan, IsTransfer
<1> QED BY <1>7, <1>8, <1>9, <1>10, <1>11, <1>12, NoScanNoPromise DEF FilesIInv

(* What a call that works on its place does to the call and the outcome.   *)
LEMMA Moving ==
  ASSUME Shapes, NEW phase \in {"put", "fill"}, Files!Goes(phase)
  PROVE  /\ request' \in CallShapes
         /\ request'.op = request.op /\ request'.source = request.source
         /\ request'.dest = request.dest
         /\ request'.phase = phase /\ request'.held = request.held /\ outcome' = outcome
BY DEF Shapes, CallShapes, Files!Goes
LEMMA Ending ==
  ASSUME Shapes, NEW result \in {"ok", "error"}, Files!Ends(result)
  PROVE  /\ request' \in CallShapes
         /\ request'.op = request.op /\ request'.source = request.source
         /\ request'.dest = request.dest
         /\ request'.phase = "idle" /\ request'.held = request.held /\ outcome' = result
         /\ PhasesBelong' /\ CallHasItsPlace' /\ TransferInHand' /\ ScanIsOnItsWay'
BY DEF Shapes, CallShapes, Files!Ends, PhasesBelong, CallHasItsPlace, TransferInHand,
   ScanIsOnItsWay, Ops

LEMMA RemoveOldStep ==
  ASSUME Files!ConstantsFit, FilesIInv, Files!RemoveOld
  PROVE  FilesIInv'
<1>1. request.phase = "remove" /\ UNCHANGED <<touched, scan>> /\ Files!Replaced = request.dest
  BY DEF Files!RemoveOld, Files!In, Files!Replaced
<1>2. /\ IsTransfer /\ request.held.kind = "file" /\ request.source \in Files!Paths
      /\ request.dest \in Files!Paths
      /\ outcome = "none" /\ ~ Files!Is(request.dest, "dir") /\ ~ Files!Is(request.source, "dir")
      /\ Files!Is(Parent[request.dest], "dir")
  BY <1>1 DEF FilesIInv, PhasesBelong, CallHasItsPlace, IsTransfer, Ops
<1>3. CASE Files!Is(request.dest, "none")
  <2>1. Files!Ends("error") /\ UNCHANGED tree
    BY <1>1, <1>3 DEF Files!RemoveOld
  <2>2. Shapes' /\ PhasesBelong' /\ CallHasItsPlace' /\ TransferInHand' /\ ScanIsOnItsWay'
    BY <1>1, <2>1, Ending DEF FilesIInv, Shapes, Files!Paths
  <2>3. TreeIsRooted' /\ \A p : Files!At(p)' = Files!At(p)
    BY <2>1, SameTree DEF FilesIInv
  <2>4. /\ request'.op = request.op /\ request'.source = request.source
        /\ request'.dest = request.dest
        /\ request'.held = request.held /\ outcome' = "error" /\ touched' = touched
    BY <1>1, <2>1, Ending DEF FilesIInv
  <2>5. Files!TransferIsSafe'
    BY <1>1, <2>3, <2>4 DEF FilesIInv, TransferInHand, Files!TransferIsSafe
  <2>6. ~ IsScan'
    BY <1>2, <2>4 DEF IsScan, IsTransfer
  <2> QED BY <2>2, <2>3, <2>5, <2>6, NoScanNoPromise DEF FilesIInv
<1>4. CASE ~ Files!Is(request.dest, "none")
  <2>1. Files!Goes("put") /\ Files!Stores(request.dest, Files!None)
    BY <1>1, <1>4 DEF Files!RemoveOld
  <2>2. Files!None \in Nodes /\ Files!None.kind = "none"
    BY Basics
  <2>12. PICK d \in Files!Paths : d = request.dest
    BY <1>2
  <2>3. /\ tree' \in Files!TreeShapes /\ TreeIsRooted' /\ Files!At(d)' = Files!None
        /\ \A q \in Files!Paths \cup {Root} : q # d => Files!At(q)' = Files!At(q)
    BY <1>2, <2>1, <2>2, <2>12, Storing DEF FilesIInv
  <2>4. /\ Shapes' /\ request'.phase = "put" /\ request'.held = request.held /\ outcome' = "none"
        /\ request'.op = request.op /\ request'.source = request.source
        /\ request'.dest = request.dest
    BY <1>1, <1>2, <2>1, <2>3, Moving DEF FilesIInv, Shapes, Files!Paths
  <2>5. PhasesBelong'
    BY <1>2, <2>4 DEF PhasesBelong, IsTransfer, Ops, Files!Paths
  <2>6. \A q \in Files!Paths \cup {Root} : Files!Is(q, "dir") => q # request.dest
    BY <1>2
  <2>7. Parent[request.dest] \in Files!Paths \cup {Root} /\ Parent[request.dest] # request.dest
    BY <1>2, <2>6, Basics
  <2>8. CallHasItsPlace'
    BY <1>2, <2>2, <2>3, <2>4, <2>7, <2>12 DEF CallHasItsPlace, Files!Is
  <2>9. request.source # request.dest =>
          (Files!At(request.source) = request.held => Files!At(request.source)' = request.held)
    BY <1>2, <2>3, <2>4, <2>12, Basics DEF Files!At
  <2>10. TransferInHand' /\ Files!TransferIsSafe'
    BY <1>1, <1>2, <2>4, <2>9 DEF FilesIInv, TransferInHand, Files!TransferIsSafe
  <2>11. ~ IsScan'
    BY <1>2, <2>4 DEF IsScan, IsTransfer
  <2> QED BY <2>3, <2>4, <2>5, <2>8, <2>10, <2>11, NoScanNoPromise DEF FilesIInv
<1> QED BY <1>3, <1>4

LEMMA PutStep ==
  ASSUME Files!ConstantsFit, FilesIInv, Files!Put
  PROVE  FilesIInv'
<1>1. request.phase = "put" /\ UNCHANGED <<touched, scan>>
  BY DEF Files!Put, Files!In
<1>2. /\ IsTransfer /\ request.held.kind = "file" /\ request.source \in Files!Paths
      /\ request.dest \in Files!Paths
      /\ outcome = "none" /\ ~ Files!Is(request.dest, "dir") /\ ~ Files!Is(request.source, "dir")
      /\ Files!Is(Parent[request.dest], "dir") /\ Files!None \in Nodes
  BY <1>1, Basics DEF FilesIInv, PhasesBelong, CallHasItsPlace, IsTransfer, Ops
<1>3. PICK r \in {"ok", "error"} : Files!Ends(r)
  BY <1>1 DEF Files!Put
<1>4. /\ request'.op = request.op /\ request'.source = request.source
      /\ request'.dest = request.dest
      /\ request'.held = request.held /\ outcome' = r
      /\ PhasesBelong' /\ CallHasItsPlace' /\ TransferInHand' /\ ScanIsOnItsWay'
  BY <1>3, Ending DEF FilesIInv
<1>5. tree' \in Files!TreeShapes => Shapes'
  BY <1>1, <1>3, Ending DEF FilesIInv, Shapes, Files!Paths
<1>6. OthersTouchFiles' /\ Files!ResultIsComplete'
  BY <1>2, <1>4, NoScanNoPromise DEF IsScan, IsTransfer
<1>7. SUFFICES tree' \in Files!TreeShapes /\ TreeIsRooted' /\ Files!TransferIsSafe'
  BY <1>4, <1>5, <1>6 DEF FilesIInv
<1>8. PICK s \in Files!Paths, d \in Files!Paths : s = request.source /\ d = request.dest
  BY <1>2
<1>9. Files!At(s) \in Nodes /\ Files!At(d) \in Nodes
      /\ Files!At(s).kind \in {"none", "file", "link"}
  BY <1>2, <1>8, Places DEF FilesIInv, Files!Is
<1>10. s # d /\ touched \cap {s, d} = {} => Files!At(s) = request.held
  BY <1>1, <1>8 DEF FilesIInv, TransferInHand
<1>11. ASSUME NEW node \in Nodes, Files!Stores(d, node)
       PROVE  /\ tree' \in Files!TreeShapes /\ TreeIsRooted' /\ Files!At(d)' = node
              /\ (s # d => Files!At(s)' = Files!At(s))
  BY <1>2, <1>8, <1>11, Storing DEF FilesIInv
<1>12. Files!TransferIsSafe' <=>
         (s # d /\ touched \cap {s, d} = {} =>
            /\ Files!At(s)' = request.held \/ (request.op = "move" /\ Files!At(d)' = request.held)
            /\ r = "ok" => /\ Files!At(d)' = request.held
                           /\ request.op = "move" => Files!Is(s, "none")')
  <2>1. request.held # Files!None /\ request.op \in {"copy", "move"}
    BY <1>2, Basics DEF IsTransfer
  <2>2. Files!At(request.source)' = Files!At(s)' /\ Files!At(request.dest)' = Files!At(d)'
        /\ (Files!Is(request.source, "none")' <=> Files!Is(s, "none")')
    BY <1>4, <1>8 DEF Files!At, Files!Is
  <2> QED BY <1>1, <1>4, <1>8, <2>1, <2>2 DEF Files!TransferIsSafe
<1>13. CASE UNCHANGED tree /\ r = "error"
  <2>1. Files!At(s)' = Files!At(s) /\ TreeIsRooted' /\ tree' \in Files!TreeShapes
    BY <1>13, SameTree DEF FilesIInv, Shapes
  <2> QED BY <1>10, <1>12, <1>13, <2>1
<1>14. CASE request.op = "copy" /\ r = "error" /\ Files!Stores(d, Files!Node("file", <<>>))
  <2>1. Files!Node("file", <<>>) \in Nodes
    BY DEF Files!Node, Nodes
  <2> QED BY <1>10, <1>11, <1>12, <1>14, <2>1
<1>15. CASE request.op = "copy" /\ tree' = [tree EXCEPT ![d] = Files!At(s)]
  <2>1. Files!Stores(d, Files!At(s))
    BY <1>15 DEF Files!Stores
  <2>2. /\ tree' \in Files!TreeShapes /\ TreeIsRooted'
        /\ Files!At(d)' = Files!At(s) /\ (s # d => Files!At(s)' = Files!At(s))
    BY <1>8, <1>9, <1>2, <2>1, Storing DEF FilesIInv
  <2> QED BY <1>10, <1>12, <1>15, <2>2
<1>16. CASE request.op = "move" /\ tree' = [tree EXCEPT ![s] = Files!None, ![d] = Files!At(s)]
  <2>1. tree \in [Files!Paths -> Nodes] /\ Files!TreeShapes = [Files!Paths -> Nodes]
    BY Basics DEF FilesIInv, Shapes
  <2>2. tree' \in [Files!Paths -> Nodes]
    BY <1>2, <1>9, <1>16, <2>1
  <2>3. /\ Files!At(d)' = Files!At(s) /\ (s # d => Files!At(s)' = Files!None)
        /\ \A q \in Files!Paths \cup {Root} : q \notin {s, d} => Files!At(q)' = Files!At(q)
    BY <1>16, <2>1, Basics DEF Files!At
  <2>4. ASSUME NEW q \in Files!Paths, ~ Files!Is(q, "none")' PROVE Files!Is(Parent[q], "dir")'
    <3>1. q = d \/ (q # s /\ ~ Files!Is(q, "none"))
      BY <1>16, <2>3, <2>4, Basics DEF Files!Is
    <3>2. Files!Is(Parent[q], "dir")
      BY <1>2, <1>8, <3>1 DEF FilesIInv, TreeIsRooted
    <3>3. Parent[q] \in Files!Paths \cup {Root} /\ Parent[q] \notin {s, d}
      BY <1>2, <1>8, <3>2, Basics
    <3> QED BY <2>3, <3>2, <3>3 DEF Files!Is
  <2>5. TreeIsRooted'
    BY <2>4 DEF TreeIsRooted
  <2> QED BY <1>10, <1>12, <1>16, <2>1, <2>2, <2>3, <2>5, Basics DEF Files!Is
<1>17. \/ UNCHANGED tree /\ r = "error"
       \/ request.op = "copy" /\ r = "error" /\ Files!Stores(d, Files!Node("file", <<>>))
       \/ request.op = "copy" /\ tree' = [tree EXCEPT ![d] = Files!At(s)]
       \/ request.op = "move" /\ tree' = [tree EXCEPT ![s] = Files!None, ![d] = Files!At(s)]
  <2>1. \/ Files!Ends("ok") /\ \/ request.op = "copy" /\ tree' = [tree EXCEPT ![d] = Files!At(s)]
                               \/ request.op = "move"
                                  /\ tree' = [tree EXCEPT ![s] = Files!None, ![d] = Files!At(s)]
        \/ Files!Ends("error") /\ UNCHANGED tree
        \/ request.op = "copy" /\ Files!Ends("error") /\ Files!Stores(d, Files!Node("file", <<>>))
    BY <1>2, <1>8 DEF Files!Put, IsTransfer
  <2>2. Files!Ends("error") => r = "error"
    BY <1>3 DEF Files!Ends
  <2> QED BY <2>1, <2>2
<1> QED BY <1>13, <1>14, <1>15, <1>16, <1>17

-----------------------------------------------------------------------------
(***************************************************************************)
(* write, mkdir and delete.                                                *)
(***************************************************************************)
(* What is left to show of a step of these calls.                          *)
LEMMA OtherCalls ==
  ASSUME Files!ConstantsFit, FilesIInv, request.op \in {"write", "mkdir", "delete"},
         UNCHANGED <<touched, scan>>, tree' \in Files!TreeShapes, TreeIsRooted',
         \/ \E r \in {"ok", "error"} : Files!Ends(r)
         \/ Files!Goes("fill") /\ request.phase = "write"
            /\ Files!Is(Parent[request.dest], "dir")' /\ ~ Files!Is(request.dest, "dir")'
  PROVE  FilesIInv'
<1>1. CASE \E r \in {"ok", "error"} : Files!Ends(r)
  <2>1. PICK r \in {"ok", "error"} : Files!Ends(r)
    BY <1>1
  <2>2. /\ request'.op = request.op /\ PhasesBelong' /\ CallHasItsPlace' /\ TransferInHand'
        /\ ScanIsOnItsWay' /\ Shapes'
    BY <2>1, Ending DEF FilesIInv, Shapes, Files!Paths
  <2> QED BY <2>2, NoScanNoPromise, NoTransferNoPromise DEF FilesIInv, IsScan, IsTransfer
<1>2. CASE Files!Goes("fill") /\ request.phase = "write" /\ Files!Is(Parent[request.dest], "dir")'
           /\ ~ Files!Is(request.dest, "dir")'
  <2>1. /\ request'.op = request.op /\ request'.phase = "fill" /\ request'.dest = request.dest
        /\ Shapes'
        /\ outcome' = outcome
    BY <1>2, Moving DEF FilesIInv, Shapes, Files!Paths
  <2>2. request.op = "write" /\ request.dest \in Files!Paths /\ outcome = "none"
    BY <1>2 DEF FilesIInv, PhasesBelong, Ops
  <2>3. PhasesBelong' /\ CallHasItsPlace'
    BY <1>2, <2>1, <2>2 DEF PhasesBelong, CallHasItsPlace, Ops, Files!Paths
  <2> QED BY <2>1, <2>2, <2>3, NoScanNoPromise, NoTransferNoPromise DEF FilesIInv, IsScan,
      IsTransfer
<1> QED BY <1>1, <1>2

LEMMA OpenStep ==
  ASSUME Files!ConstantsFit, FilesIInv, Files!Open
  PROVE  FilesIInv'
<1>1. request.phase = "write" /\ UNCHANGED <<touched, scan>>
  BY DEF Files!Open, Files!In
<1>2. request.op = "write" /\ request.dest \in Files!Paths /\ Files!Is(Parent[request.dest], "dir")
  BY <1>1 DEF FilesIInv, PhasesBelong, CallHasItsPlace, Ops
<1>3. CASE Files!Is(request.dest, "link") \/ Files!Is(request.dest, "dir")
  <2>1. Files!Ends("error") /\ UNCHANGED tree
    BY <1>3 DEF Files!Open
  <2>2. tree' \in Files!TreeShapes /\ TreeIsRooted'
    BY <2>1, SameTree DEF FilesIInv, Shapes
  <2> QED BY <1>1, <1>2, <2>1, <2>2, OtherCalls
<1>4. CASE ~ (Files!Is(request.dest, "link") \/ Files!Is(request.dest, "dir"))
  <2>1. PICK d \in Files!Paths : d = request.dest
    BY <1>2
  <2>2. PICK l \in Seq(Lines) : Files!Goes("fill") /\ Files!Stores(d, Files!Node("file", l))
    <3>1. Files!At(d).lines \in Seq(Lines) /\ <<>> \in Seq(Lines)
      BY Places DEF FilesIInv
    <3> QED BY <1>4, <2>1, <3>1 DEF Files!Open
  <2>3. Files!Node("file", l) \in Nodes /\ Files!Node("file", l).kind = "file"
    BY Basics
  <2>4. /\ tree' \in Files!TreeShapes /\ TreeIsRooted' /\ Files!At(d)' = Files!Node("file", l)
        /\ \A q \in Files!Paths \cup {Root} : q # d => Files!At(q)' = Files!At(q)
    BY <1>2, <1>4, <2>1, <2>2, <2>3, Storing DEF FilesIInv
  <2>5. Parent[d] \in Files!Paths \cup {Root} /\ Parent[d] # d
    BY <1>2, <1>4, <2>1, Basics
  <2>6. Files!Is(Parent[d], "dir")' /\ ~ Files!Is(d, "dir")'
    BY <1>2, <2>1, <2>3, <2>4, <2>5 DEF Files!Is
  <2>7. request'.dest = request.dest
    BY <2>2, Moving DEF FilesIInv
  <2>8. Files!Is(Parent[request.dest], "dir")' /\ ~ Files!Is(request.dest, "dir")'
    BY <2>1, <2>6, <2>7 DEF Files!Is, Files!At
  <2> QED BY <1>1, <1>2, <2>2, <2>4, <2>8, OtherCalls
<1> QED BY <1>3, <1>4

LEMMA FillStep ==
  ASSUME Files!ConstantsFit, FilesIInv, Files!Fill
  PROVE  FilesIInv'
<1>1. request.phase = "fill" /\ UNCHANGED <<touched, scan>>
  BY DEF Files!Fill, Files!In
<1>2. /\ request.op = "write" /\ request.dest \in Files!Paths
      /\ Files!Is(Parent[request.dest], "dir")
      /\ ~ Files!Is(request.dest, "dir")
  BY <1>1 DEF FilesIInv, PhasesBelong, CallHasItsPlace, Ops
<1>3. PICK d \in Files!Paths : d = request.dest
  BY <1>2
<1>4. PICK n \in 0 .. Len(request.text) :
        /\ IF Files!Is(d, "none") THEN UNCHANGED tree
           ELSE Files!Stores(d, Files!Node("file", Files!At(d).lines \o SubSeq(request.text, 1, n)))
        /\ Files!Ends(IF n = Len(request.text) THEN "ok" ELSE "error")
  BY <1>3 DEF Files!Fill
<1>5. \E r \in {"ok", "error"} : Files!Ends(r)
  BY <1>4
<1>6. tree' \in Files!TreeShapes /\ TreeIsRooted'
  <2>1. CASE Files!Is(d, "none")
    <3>1. UNCHANGED tree
      BY <1>4, <2>1
    <3> QED BY <3>1, SameTree DEF FilesIInv, Shapes
  <2>2. CASE ~ Files!Is(d, "none")
    <3>1. Files!At(d).lines \in Seq(Lines) /\ request.text \in Seq(Lines)
      BY Places DEF FilesIInv, Shapes, CallShapes
    <3>2. Files!At(d).lines \o SubSeq(request.text, 1, n) \in Seq(Lines)
      BY <3>1
    <3>3. PICK l \in Seq(Lines) : Files!Stores(d, Files!Node("file", l))
      BY <1>4, <2>2, <3>2
    <3>4. Files!Node("file", l) \in Nodes
      BY Basics
    <3> QED BY <1>2, <1>3, <3>3, <3>4, Storing DEF FilesIInv
  <2> QED BY <2>1, <2>2
<1> QED BY <1>1, <1>2, <1>5, <1>6, OtherCalls

LEMMA MkdirStep ==
  ASSUME Files!ConstantsFit, FilesIInv, Files!Mkdir
  PROVE  FilesIInv'
<1>1. request.phase = "mkdir" /\ UNCHANGED <<touched, scan>>
      /\ \E r \in {"ok", "error"} : Files!Ends(r)
  BY DEF Files!Mkdir, Files!In
<1>2. request.op = "mkdir" /\ request.dest \in Files!Paths /\ Files!Is(Parent[request.dest], "dir")
  BY <1>1 DEF FilesIInv, PhasesBelong, CallHasItsPlace, Ops
<1>3. PICK d \in Files!Paths : d = request.dest
  BY <1>2
<1>4. CASE UNCHANGED tree
  <2>1. tree' \in Files!TreeShapes /\ TreeIsRooted'
    BY <1>4, SameTree DEF FilesIInv, Shapes
  <2> QED BY <1>1, <1>2, <2>1, OtherCalls
<1>5. CASE ~ Files!Is(d, "dir") /\ Files!Stores(d, Files!Node("dir", <<>>))
  <2>1. Files!Node("dir", <<>>) \in Nodes
    BY DEF Files!Node, Nodes
  <2>2. tree' \in Files!TreeShapes /\ TreeIsRooted'
    BY <1>2, <1>3, <1>5, <2>1, Storing DEF FilesIInv
  <2> QED BY <1>1, <1>2, <2>2, OtherCalls
<1>6. CASE Files!Is(d, "dir") /\ Files!Stores(d, Files!Node("dir", <<>>))
  <2>1. tree \in [Files!Paths -> Nodes] /\ Files!TreeShapes = [Files!Paths -> Nodes]
        /\ Files!At(d) = tree[d] /\ tree[d] \in Nodes
    BY Basics DEF FilesIInv, Shapes
  <2>2. tree' \in [Files!Paths -> Nodes] /\ tree'[d].kind = "dir" /\ tree[d].kind = "dir"
        /\ \A q \in Files!Paths : q # d => tree'[q] = tree[q]
    BY <1>6, <2>1 DEF Files!Stores, Files!Node, Nodes, Files!Is
  <2>3. \A q \in Files!Paths \cup {Root} : Files!At(q)'.kind = Files!At(q).kind
    BY <2>1, <2>2, Basics DEF Files!At
  <2>4. TreeIsRooted'
    BY <2>3, Basics DEF FilesIInv, TreeIsRooted, Files!Is
  <2> QED BY <1>1, <1>2, <2>1, <2>2, <2>4, OtherCalls
<1>7. UNCHANGED tree \/ Files!Stores(d, Files!Node("dir", <<>>))
  BY <1>3 DEF Files!Mkdir
<1> QED BY <1>4, <1>5, <1>6, <1>7

LEMMA DeleteStep ==
  ASSUME Files!ConstantsFit, FilesIInv, Files!Delete
  PROVE  FilesIInv'
<1>1. request.phase = "delete" /\ UNCHANGED <<touched, scan>>
  BY DEF Files!Delete, Files!In
<1>2. request.op = "delete" /\ request.source \in Files!Paths
  BY <1>1 DEF FilesIInv, PhasesBelong, Ops
<1>3. PICK s \in Files!Paths : s = request.source
  BY <1>2
<1>4. CASE ~ Files!Is(s, "dir")
  <2>1. \E r \in {"ok", "error"} : Files!Ends(r)
    BY <1>3, <1>4 DEF Files!Delete
  <2>2. Files!Stores(s, Files!None) /\ Files!None \in Nodes /\ Files!None.kind = "none"
    BY <1>3, <1>4, Basics DEF Files!Delete
  <2>3. tree' \in Files!TreeShapes /\ TreeIsRooted'
    BY <1>4, <2>2, Storing DEF FilesIInv
  <2> QED BY <1>1, <1>2, <2>1, <2>3, OtherCalls
<1>5. CASE Files!Is(s, "dir") /\ ~ request.flag
  <2>1. Files!Ends("error") /\ UNCHANGED tree
    BY <1>3, <1>5 DEF Files!Delete
  <2>2. tree' \in Files!TreeShapes /\ TreeIsRooted'
    BY <2>1, SameTree DEF FilesIInv, Shapes
  <2> QED BY <1>1, <1>2, <2>1, <2>2, OtherCalls
<1>6. CASE Files!Is(s, "dir") /\ request.flag
  <2>1. PICK gone \in SUBSET Files!Inside(s) :
          /\ \A p \in gone : Files!Children(p) \subseteq gone
          /\ tree' = [p \in Files!Paths |-> IF p \in gone THEN Files!None ELSE tree[p]]
          /\ Files!Ends(IF s \in gone THEN "ok" ELSE "error")
    BY <1>3, <1>6 DEF Files!Delete
  <2>2. \E r \in {"ok", "error"} : Files!Ends(r)
    BY <2>1
  <2>3. gone \subseteq Files!Paths
    BY DEF Files!Inside
  <2>4. tree \in [Files!Paths -> Nodes] /\ tree' \in [Files!Paths -> Nodes]
        /\ Files!TreeShapes = [Files!Paths -> Nodes]
    BY <2>1, Basics DEF FilesIInv, Shapes
  <2>5. \A q \in Files!Paths \cup {Root} : Files!At(q)' = IF q \in gone THEN Files!None
        ELSE Files!At(q)
    BY <2>1, <2>3, Basics DEF Files!At
  <2>6. ASSUME NEW q \in Files!Paths, ~ Files!Is(q, "none")' PROVE Files!Is(Parent[q], "dir")'
    <3>1. q \notin gone /\ ~ Files!Is(q, "none")
      BY <2>5, <2>6, Basics DEF Files!Is
    <3>2. q \in Files!Children(Parent[q]) /\ Files!Is(Parent[q], "dir")
          /\ Parent[q] \in Files!Paths \cup {Root}
      BY <3>1, Basics DEF Files!Children, FilesIInv, TreeIsRooted
    <3>3. Parent[q] \notin gone
      BY <2>1, <3>1, <3>2
    <3> QED BY <2>5, <3>2, <3>3 DEF Files!Is
  <2>7. TreeIsRooted'
    BY <2>6 DEF TreeIsRooted
  <2> QED BY <1>1, <1>2, <2>2, <2>4, <2>7, OtherCalls
<1> QED BY <1>4, <1>5, <1>6

-----------------------------------------------------------------------------
(***************************************************************************)
(* find and search.                                                        *)
(***************************************************************************)
(* What the first n leave out is behind them, and there are more than n.   *)
LEMMA FirstOfMisses ==
  ASSUME NEW n \in Int, NEW len \in Nat, NEW positions \in SUBSET (1 .. len),
         NEW k \in positions, k \notin Files!FirstOf(n, positions)
  PROVE  /\ Files!Cardinality(positions) > n
         /\ \A i \in Files!FirstOf(n, positions) : i < k
<1> DEFINE upto(i) == {j \in positions : j <= i}
<1>1. Files!IsFiniteSet(positions) /\ positions \subseteq Int
  <2>1. Files!IsFiniteSet(1 .. len)
    BY PositionsAreFinite
  <2>2. Files!IsFiniteSet(positions)
    BY <2>1, PartsCountLess
  <2> QED BY <2>2
<1>2. \A i \in positions : Files!IsFiniteSet(upto(i)) /\ Files!Cardinality(upto(i)) \in Nat
  BY <1>1, PartsCountLess, CountsAreNat
<1>3. Files!Cardinality(upto(k)) > n
  <2>1. ~ (Files!Cardinality(upto(k)) <= n)
    BY DEF Files!FirstOf
  <2> QED BY <1>2, <2>1
<1>4. Files!Cardinality(positions) \in Nat
      /\ Files!Cardinality(upto(k)) <= Files!Cardinality(positions)
  BY <1>1, PartsCountLess, CountsAreNat
<1>5. ASSUME NEW i \in Files!FirstOf(n, positions) PROVE i < k
  <2>1. i \in positions /\ Files!Cardinality(upto(i)) <= n
    BY DEF Files!FirstOf
  <2>4. i \in Int /\ k \in Int
    BY <1>1, <2>1
  <2> SUFFICES ASSUME i >= k PROVE FALSE
    BY <2>4
  <2>2. ASSUME NEW j \in upto(k) PROVE j \in upto(i)
    BY <1>1, <2>4
  <2>3. Files!Cardinality(upto(k)) <= Files!Cardinality(upto(i))
    BY <1>2, <2>1, <2>2, PartsCountLess
  <2> QED BY <1>2, <1>3, <2>1, <2>3
<1> QED BY <1>2, <1>3, <1>4, <1>5

(* A scan that ends as an answer has seen every file that stayed.          *)
LEMMA EverythingWasSeen ==
  ASSUME Files!ConstantsFit, FilesIInv, IsScan, NEW V \in SUBSET (Files!Paths \cup {Root}), Seen(V),
         scan.pending = <<>>, NEW p \in Files!Inside(request.source) \ touched, Files!Is(p, "file")
  PROVE  Listed(scan.files, p) \/ Told(p)
<1> DEFINE S ==
      V \cup {q \in Files!Paths : q \in touched \/ Files!Is(q, "none") \/ Files!Is(q, "link")}
<1>1. \A q : ~ Listed(scan.pending, q)
  BY DEF Listed
<1>2. request.source \in S /\ S \in SUBSET (Files!Paths \cup {Root})
  BY DEF Seen
<1>3. ASSUME NEW q \in Files!Paths, Parent[q] \in S PROVE q \in S
  <2>1. CASE Files!Is(q, "none")
    BY <2>1
  <2>2. CASE ~ Files!Is(q, "none")
    <3>1. Files!Is(Parent[q], "dir") /\ Parent[q] \in Files!Paths \cup {Root}
      BY <2>2, Basics DEF FilesIInv, TreeIsRooted
    <3>2. Parent[q] \notin touched \/ Parent[q] \notin Files!Paths
      BY <3>1 DEF FilesIInv, OthersTouchFiles
    <3>3. Parent[q] \in V
      BY <1>3, <3>1, <3>2 DEF Files!Is
    <3>4. q \in Files!Children(Parent[q])
      BY <2>2 DEF Files!Children
    <3>5. q \in V \/ q \in touched \/ Files!Is(q, "link")
      BY <1>1, <3>1, <3>3, <3>4 DEF Seen
    <3> QED BY <3>5
  <2> QED BY <2>1, <2>2
<1>4. p \in Files!Paths /\ p \in S
  BY <1>2, <1>3 DEF Files!Inside
<1>5. p \in V
  BY <1>4 DEF Files!Is
<1> QED BY <1>1, <1>5 DEF Seen

(* What a step of the scan leaves as it is.                                *)
LEMMA ScanGoesOn ==
  ASSUME Files!ConstantsFit, FilesIInv, request.phase \in {"find", "search"},
         UNCHANGED <<tree, touched, request, outcome>>,
         scan' \in ScanShapes,
         Files!IsFiniteSet(scan'.results),
         ScanIsOnItsWay'
  PROVE  FilesIInv'
<1>1. request.op \in {"find", "search"} /\ outcome = "none"
  BY DEF FilesIInv, PhasesBelong, Ops
<1>2. Shapes'
  BY DEF FilesIInv, Shapes, Files!Paths
<1>3. TreeIsRooted' /\ \A p : Files!At(p)' = Files!At(p)
  BY SameTree DEF FilesIInv
<1>4. PhasesBelong' /\ CallHasItsPlace'
  BY <1>1, <1>3 DEF FilesIInv, PhasesBelong, CallHasItsPlace, IsTransfer, Files!Is
<1>5. OthersTouchFiles' /\ Files!ResultIsComplete'
  BY <1>1, <1>3 DEF FilesIInv, OthersTouchFiles, IsScan, Files!Is, Files!ResultIsComplete
<1>6. TransferInHand' /\ Files!TransferIsSafe'
  BY <1>1, <1>4, NoTransferNoPromise DEF IsTransfer
<1> QED BY <1>2, <1>3, <1>4, <1>5, <1>6 DEF FilesIInv

LEMMA ScanEnds ==
  ASSUME Files!ConstantsFit, FilesIInv, request.phase \in {"find", "search"},
         NEW r \in {"ok", "error"},
         UNCHANGED <<tree, touched>>, Files!Ends(r),
         scan' \in ScanShapes,
         Files!IsFiniteSet(scan'.results),
         r = "ok" => Files!ResultIsComplete'
  PROVE  FilesIInv'
<1>1. request.op \in {"find", "search"}
  BY DEF FilesIInv, PhasesBelong, Ops
<1>2. /\ request'.op = request.op /\ outcome' = r
      /\ PhasesBelong' /\ CallHasItsPlace' /\ TransferInHand' /\ ScanIsOnItsWay' /\ Shapes'
  BY Ending DEF FilesIInv, Shapes, Files!Paths
<1>3. TreeIsRooted' /\ \A p : Files!At(p)' = Files!At(p)
  BY SameTree DEF FilesIInv
<1>4. OthersTouchFiles' /\ Files!ResultIsComplete'
  BY <1>1, <1>2, <1>3 DEF FilesIInv, OthersTouchFiles, IsScan, Files!Is, Files!ResultIsComplete
<1>5. Files!TransferIsSafe'
  BY <1>1, <1>2, NoTransferNoPromise DEF IsTransfer
<1> QED BY <1>2, <1>3, <1>4, <1>5 DEF FilesIInv

LEMMA PickStep ==
  ASSUME Files!ConstantsFit, FilesIInv, Files!Pick
  PROVE  FilesIInv'
<1> DEFINE found == {i \in DOMAIN scan.files : scan.files[i] \in Named}
           first == Files!FirstOf(MaxResults, found)
<1>1. /\ request.phase = "find" /\ UNCHANGED <<tree, touched>> /\ scan.pending = <<>>
      /\ Files!Ends("ok")
      /\ scan' = [scan EXCEPT !.results = {scan.files[i] : i \in first},
                              !.cut = @ \/ Files!Cardinality(found) > MaxResults]
  BY DEF Files!Pick, Files!In
<1>2. request.op = "find" /\ IsScan
  BY <1>1 DEF FilesIInv, PhasesBelong, Ops, IsScan
<1>3. /\ scan.files \in Seq(Files!Paths) /\ DOMAIN scan.files = 1 .. Len(scan.files)
      /\ Len(scan.files) \in Nat
      /\ scan.cut \in BOOLEAN
  BY DEF FilesIInv, Shapes, ScanShapes
<1>4. first \subseteq found /\ found \subseteq 1 .. Len(scan.files)
  BY <1>3 DEF Files!FirstOf
<1>5. Files!IsFiniteSet({scan.files[i] : i \in first})
      /\ {scan.files[i] : i \in first} \subseteq Files!Paths
  <2>2. \A i \in first : scan.files[i] \in Files!Paths
    BY <1>3, <1>4
  <2> HIDE DEF first
  <2>1. {scan.files[i] : i \in first} \subseteq Files!Paths
    BY <2>2
  <2> QED BY <2>1, PartsCountLess DEF Files!ConstantsFit
<1> HIDE DEF first
<1>6. /\ scan' \in ScanShapes
      /\ scan'.results = {scan.files[i] : i \in first}
      /\ scan'.cut <=> scan.cut \/ Files!Cardinality(found) > MaxResults
  BY <1>1, <1>5 DEF FilesIInv, Shapes, ScanShapes
<1>7. Files!ResultIsComplete'
  <2> SUFFICES ASSUME ~ scan'.cut, NEW p \in Files!Inside(request.source) \ touched,
      Files!Is(p, "file"), p \in Named
               PROVE  p \in scan'.results
    <3>1. request'.op = "find" /\ request'.source = request.source
      BY <1>1, <1>2, Ending DEF FilesIInv
    <3>2. Files!Inside(request.source)' = Files!Inside(request.source)
          /\ \A p : Files!Is(p, "file")' <=> Files!Is(p, "file")
      BY <1>1, <3>1, SameTree DEF Files!Inside, Files!Paths, Files!Is
    <3> QED BY <1>1, <3>1, <3>2 DEF Files!ResultIsComplete
  <2>1. ~ scan.cut /\ ~ (Files!Cardinality(found) > MaxResults)
    BY <1>6
  <2>2. PICK V \in SUBSET (Files!Paths \cup {Root}) : Seen(V)
    BY <1>1, <2>1 DEF FilesIInv, ScanIsOnItsWay
  <2>3. Listed(scan.files, p) \/ Told(p)
    BY <1>1, <1>2, <2>2, EverythingWasSeen
  <2>4. PICK i \in found : scan.files[i] = p
    BY <1>2, <2>3 DEF Told, Listed
  <2>5. i \in first
    <3>1. MaxResults \in Int /\ found \in SUBSET (1 .. Len(scan.files))
      BY <1>4 DEF Files!ConstantsFit
    <3> QED BY <1>3, <2>1, <3>1, FirstOfMisses DEF first
  <2> QED BY <1>6, <2>4, <2>5
<1> QED BY <1>1, <1>5, <1>6, <1>7, ScanEnds

LEMMA SearchEndsStep ==
  ASSUME Files!ConstantsFit, FilesIInv, Files!SearchEnds
  PROVE  FilesIInv'
<1>1. /\ request.phase = "search" /\ UNCHANGED <<tree, touched, scan>> /\ Files!Ends("ok")
      /\ scan.pending = <<>> /\ scan.files = <<>>
  BY DEF Files!SearchEnds, Files!In
<1>2. request.op = "search" /\ IsScan
  BY <1>1 DEF FilesIInv, PhasesBelong, Ops, IsScan
<1>3. Files!ResultIsComplete'
  <2> SUFFICES ASSUME ~ scan.cut, NEW p \in Files!Inside(request.source) \ touched,
      Files!Is(p, "file")
               PROVE  Told(p)
    <3>1. request'.op = "search" /\ request'.source = request.source
      BY <1>1, <1>2, Ending DEF FilesIInv
    <3>2. Files!Inside(request.source)' = Files!Inside(request.source)
          /\ \A p : Files!At(p)' = Files!At(p) /\ (Files!Is(p, "file")' <=> Files!Is(p, "file"))
      BY <1>1, <3>1, SameTree DEF Files!Inside, Files!Paths, Files!Is
    <3> QED BY <1>1, <1>2, <3>1, <3>2 DEF Files!ResultIsComplete, Told
  <2>1. PICK V \in SUBSET (Files!Paths \cup {Root}) : Seen(V)
    BY <1>1 DEF FilesIInv, ScanIsOnItsWay
  <2> QED BY <1>1, <1>2, <2>1, EverythingWasSeen DEF Listed
<1>4. /\ scan' \in ScanShapes
      /\ Files!IsFiniteSet(scan'.results)
  BY <1>1 DEF FilesIInv, Shapes
<1> QED BY <1>1, <1>3, <1>4, ScanEnds

LEMMA SearchFileStep ==
  ASSUME Files!ConstantsFit, FilesIInv, Files!SearchFile
  PROVE  FilesIInv'
<1> DEFINE p == Head(scan.files)
           room == MaxResults - Files!Cardinality(scan.results)
           read(f) == IF Files!IsSearchable(Files!At(p).lines) /\ ~f THEN Files!At(p).lines ELSE <<>>
           found(f) == {i \in DOMAIN read(f) : read(f)[i] = Sought}
           first(f) == Files!FirstOf(room, found(f))
           more(f) == /\ Files!Cardinality(found(f)) >= room
                      /\ \E i \in DOMAIN read(f) : \A j \in first(f) : j < i
<1>0. PICK fails \in BOOLEAN :
      \/ /\ room = 0 /\ scan' = [scan EXCEPT !.files = <<>>, !.cut = TRUE]
         /\ UNCHANGED <<request, outcome>>
      \/ Files!Ends("error") /\ UNCHANGED scan
      \/ /\ room # 0 /\ UNCHANGED <<request, outcome>>
         /\ scan' = [scan EXCEPT !.files = Tail(@), !.cut = @ \/ more(fails),
                                 !.results = @ \cup {<<p, i>> : i \in first(fails)},
                                 !.unread = IF fails THEN @ \cup {p} ELSE @]
  BY DEF Files!SearchFile
<1> DEFINE lines == read(fails)
           hits == found(fails)
           taken == first(fails)
           full == more(fails)
<1>1. /\ request.phase = "search" /\ UNCHANGED <<tree, touched>> /\ scan.pending = <<>>
      /\ scan.files # <<>>
  BY DEF Files!SearchFile, Files!In
<1>2. request.op = "search" /\ IsScan
  BY <1>1 DEF FilesIInv, PhasesBelong, Ops, IsScan
<1>3. /\ scan \in ScanShapes
      /\ Files!IsFiniteSet(scan.results)
  BY DEF FilesIInv, Shapes
<1>4. CASE /\ room = 0 /\ scan' = [scan EXCEPT !.files = <<>>, !.cut = TRUE]
           /\ UNCHANGED <<request, outcome>>
  <2>3. <<>> \in Seq(Files!Paths)
    OBVIOUS
  <2>1. /\ scan' \in ScanShapes
        /\ scan'.results = scan.results /\ scan'.cut
    <3>1. scan' = [scan EXCEPT !.files = <<>>, !.cut = TRUE]
      BY <1>4
    <3> HIDE DEF room
    <3> QED BY <1>3, <2>3, <3>1 DEF ScanShapes
  <2>2. ScanIsOnItsWay'
    BY <2>1 DEF ScanIsOnItsWay
  <2> QED BY <1>1, <1>3, <1>4, <2>1, <2>2, ScanGoesOn
<1>5. CASE Files!Ends("error") /\ UNCHANGED scan
  BY <1>1, <1>3, <1>5, ScanEnds
<1>6. CASE /\ room # 0 /\ UNCHANGED <<request, outcome>>
           /\ scan' = [scan EXCEPT !.files = Tail(@), !.cut = @ \/ full,
                                   !.results = @ \cup {<<p, i>> : i \in taken},
                                   !.unread = IF fails THEN @ \cup {p} ELSE @]
  <2>1. p \in Files!Paths /\ Files!At(p).lines \in Seq(Lines)
    BY <1>1, <1>3, Places DEF FilesIInv, ScanShapes
  <2>2. lines \in Seq(Lines) /\ Len(lines) \in Nat /\ DOMAIN lines = 1 .. Len(lines)
    BY <2>1
  <2>3. hits \in SUBSET (1 .. Len(lines)) /\ taken \subseteq hits
    BY <2>2 DEF Files!FirstOf
  <2>4. room \in Int
    BY <1>3, CountsAreNat DEF Files!ConstantsFit
  <2>5. Files!IsFiniteSet(scan.results \cup {<<p, i>> : i \in taken})
    <3>1. Files!IsFiniteSet(1 .. Len(lines))
      BY <2>2, PositionsAreFinite
    <3>2. Files!IsFiniteSet(taken)
      BY <2>3, <3>1, PartsCountLess
    <3> QED BY <1>3, <3>2, PairsAreFinite
  <2>6. /\ scan' \in ScanShapes
        /\ scan'.pending = scan.pending /\ scan'.files = Tail(scan.files)
        /\ scan'.results = scan.results \cup {<<p, i>> : i \in taken}
        /\ scan'.unread = IF fails THEN scan.unread \cup {p} ELSE scan.unread
        /\ scan'.cut <=> scan.cut \/ full
    <3>1. {<<p, i>> : i \in taken} \subseteq Files!Paths \X Nat
      <4>1. p \in Files!Paths /\ \A i \in taken : i \in Nat
        BY <2>1, <2>2, <2>3
      <4> HIDE DEF p, taken
      <4> QED BY <4>1
    <3>2. Tail(scan.files) \in Seq(Files!Paths)
      BY <1>1, <1>3 DEF ScanShapes
    <3>3. full \in BOOLEAN
      OBVIOUS
    <3>4. (IF fails THEN scan.unread \cup {p} ELSE scan.unread) \in SUBSET Files!Paths
      <4>1. p \in Files!Paths
        BY <2>1
      <4> HIDE DEF p
      <4> QED BY <1>3, <4>1 DEF ScanShapes
    <3> HIDE DEF full, taken, p
    <3> QED BY <1>3, <1>6, <3>1, <3>2, <3>3, <3>4 DEF ScanShapes
  <2>7. full \/ hits = taken
    <3> SUFFICES ASSUME NEW k \in hits, k \notin taken PROVE full
      BY <2>3
    <3>1. Files!Cardinality(hits) > room /\ \A i \in taken : i < k
      BY <2>2, <2>3, <2>4, FirstOfMisses
    <3>2. Files!Cardinality(hits) \in Nat
      <4>1. Files!IsFiniteSet(1 .. Len(lines))
        BY <2>2, PositionsAreFinite
      <4>2. Files!IsFiniteSet(hits)
        BY <2>3, <4>1, PartsCountLess
      <4> QED BY <4>2, CountsAreNat
    <3>3. k \in DOMAIN lines
      OBVIOUS
    <3>4. Files!Cardinality(hits) >= room
      <4> HIDE DEF hits, room
      <4> QED BY <2>4, <3>1, <3>2
    <3> HIDE DEF read, found, first, room
    <3> QED BY <3>1, <3>3, <3>4
  <2>8. ScanIsOnItsWay'
    <3> SUFFICES ASSUME ~ scan.cut, hits = taken
                 PROVE  \E V \in SUBSET (Files!Paths \cup {Root}) : Seen(V)'
      BY <2>6, <2>7 DEF ScanIsOnItsWay, Files!Paths
    <3>1. PICK V \in SUBSET (Files!Paths \cup {Root}) : Seen(V)
      BY <1>1 DEF FilesIInv, ScanIsOnItsWay
    <3>2. \A q : Files!At(q)' = Files!At(q) /\ Files!Children(q)' = Files!Children(q)
      BY <1>1, SameTree
    <3>3. \A q : Listed(scan.pending, q) <=> Listed(scan'.pending, q)
      BY <2>6
    <3>4. ASSUME NEW q \in V, Listed(scan.files, q) \/ Told(q)
          PROVE  Listed(scan'.files, q) \/ Told(q)'
      <4>1. CASE Told(q)
        <5>1. Files!At(q)' = Files!At(q) /\ request' = request
              /\ scan.results \subseteq scan'.results /\ scan.unread \subseteq scan'.unread
          <6> HIDE DEF p, lines, hits, room, taken, full
          <6> QED BY <1>6, <2>6, <3>2
        <5> HIDE DEF p, lines, hits, room, taken, full
        <5> QED BY <4>1, <5>1 DEF Told, Files!IsSearchable, Files!IsText
      <4>2. CASE Listed(scan.files, q) /\ q # p
        <5>1. PICK i \in DOMAIN scan.files : scan.files[i] = q
          BY <4>2 DEF Listed
        <5>2. i # 1 /\ i - 1 \in DOMAIN Tail(scan.files) /\ Tail(scan.files)[i - 1] = q
          BY <1>1, <1>3, <4>2, <5>1 DEF ScanShapes
        <5> QED BY <2>6, <5>2 DEF Listed
      <4>3. CASE q = p
        <5>1. ASSUME Files!IsSearchable(Files!At(p).lines), p \notin scan'.unread,
                     NEW i \in DOMAIN Files!At(p).lines, Files!At(p).lines[i] = Sought
              PROVE  <<p, i>> \in scan'.results
          <6>1. lines = Files!At(p).lines
            BY <2>6, <5>1
          <6>2. i \in hits
            BY <5>1, <6>1
          <6> QED BY <2>6, <6>2
        <5>2. request'.op = "search" /\ Files!At(q)' = Files!At(p)
          BY <1>2, <1>6, <3>2, <4>3
        <5> QED BY <4>3, <5>1, <5>2 DEF Told
      <4> QED BY <3>4, <4>1, <4>2, <4>3
    <3>5. ASSUME NEW q \in V, ~ Listed(scan.pending, q), Files!Is(q, "dir"),
                 NEW r \in Files!Children(q)
          PROVE  r \in V \/ r \in touched \/ Files!Is(r, "link")
      BY <3>1, <3>5 DEF Seen
    <3>6. ASSUME NEW q \in V, ~ Listed(scan.pending, q), Files!Is(q, "file"), q \notin touched
          PROVE  Listed(scan'.files, q) \/ Told(q)'
      BY <3>1, <3>4, <3>6 DEF Seen
    <3>7. /\ request.source \in V
          /\ \A q \in Files!Paths \cup {Root} : Listed(scan.pending, q) => q \in V
      BY <3>1 DEF Seen
    <3>8. /\ \A q : Files!Is(q, "dir")' <=> Files!Is(q, "dir")
          /\ \A q : Files!Is(q, "file")' <=> Files!Is(q, "file")
          /\ \A q : Files!Is(q, "link")' <=> Files!Is(q, "link")
      BY <3>2 DEF Files!Is
    <3>9. /\ \A q : Listed(scan.pending, q)' <=> Listed(scan.pending, q)
          /\ \A q : Listed(scan.files, q)' <=> Listed(scan'.files, q)
      BY <3>3 DEF Listed
    <3>10. request' = request /\ touched' = touched
      BY <1>1, <1>6
    <3> HIDE DEF p, lines, hits, room, taken, full
    <3>11. Seen(V)'
      BY <3>2, <3>5, <3>6, <3>7, <3>8, <3>9, <3>10 DEF Seen, Files!Paths
    <3> QED BY <3>11
  <2> QED BY <1>1, <1>6, <2>5, <2>6, <2>8, ScanGoesOn
<1> QED BY <1>0, <1>4, <1>5, <1>6

LEMMA CollectStep ==
  ASSUME Files!ConstantsFit, FilesIInv, Files!Collect
  PROVE  FilesIInv'
<1> DEFINE last == Len(scan.pending)
           popped == [scan EXCEPT !.pending = SubSeq(@, 1, last - 1), !.scanned = @ + 1]
<1>1. request.phase \in {"find", "search"} /\ UNCHANGED <<tree, touched>> /\ scan.pending # <<>>
  BY DEF Files!Collect, Files!Scanning, Files!In
<1>2. scan \in ScanShapes /\ Files!IsFiniteSet(scan.results)
  BY DEF FilesIInv, Shapes
<1>3. /\ scan.pending \in Seq(Files!Paths \cup {Root}) /\ last \in Nat /\ last # 0
      /\ DOMAIN scan.pending = 1 .. last
  BY <1>1, <1>2 DEF ScanShapes
<1>4. PICK p \in Files!Paths \cup {Root} : p = scan.pending[last]
  BY <1>3
<1> DEFINE inside == {q \in Files!Children(p) : ~Files!Is(q, "link")}
<1>5. /\ popped \in ScanShapes /\ popped.results = scan.results /\ popped.cut = scan.cut
      /\ popped.files = scan.files /\ popped.unread = scan.unread
      /\ popped.pending \in Seq(Files!Paths \cup {Root})
      /\ \A q : Listed(scan.pending, q) <=> q = p \/ Listed(popped.pending, q)
  <2>1. /\ SubSeq(scan.pending, 1, last - 1) \in Seq(Files!Paths \cup {Root})
        /\ Len(SubSeq(scan.pending, 1, last - 1)) = last - 1
        /\ \A i \in 1 .. last - 1 : SubSeq(scan.pending, 1, last - 1)[i] = scan.pending[i]
    BY <1>3
  <2>2. DOMAIN SubSeq(scan.pending, 1, last - 1) = 1 .. last - 1
    BY <2>1, <1>3
  <2>3. /\ popped \in ScanShapes /\ popped.results = scan.results /\ popped.cut = scan.cut
        /\ popped.files = scan.files /\ popped.unread = scan.unread
        /\ popped.pending = SubSeq(scan.pending, 1, last - 1)
    <3>1. PICK rest \in Seq(Files!Paths \cup {Root}) : rest = SubSeq(scan.pending, 1, last - 1)
      BY <2>1
    <3>2. popped = [scan EXCEPT !.pending = rest, !.scanned = @ + 1]
      BY <3>1
    <3> HIDE DEF last, popped
    <3>3. /\ popped \in ScanShapes /\ popped.results = scan.results /\ popped.cut = scan.cut
          /\ popped.files = scan.files /\ popped.unread = scan.unread /\ popped.pending = rest
      <4>1. scan.scanned \in Nat /\ scan.scanned + 1 \in Nat
        BY <1>2 DEF ScanShapes
      <4>2. \A n \in Nat : [scan EXCEPT !.pending = rest, !.scanned = n] \in ScanShapes
        BY <1>2 DEF ScanShapes
      <4>3. popped \in ScanShapes
        BY <3>2, <4>1, <4>2
      <4> QED BY <1>2, <3>2, <4>3
    <3> QED BY <3>1, <3>3
  <2>4. ASSUME NEW q PROVE Listed(scan.pending, q) <=> q = p \/ Listed(popped.pending, q)
    <3>1. \A i \in 1 .. last : i = last \/ i \in 1 .. last - 1
      BY <1>3
    <3>2. last \in 1 .. last /\ 1 .. last - 1 \subseteq 1 .. last
      BY <1>3
    <3> HIDE DEF popped, last
    <3> QED BY <1>3, <1>4, <2>1, <2>2, <2>3, <3>1, <3>2 DEF Listed
  <2> QED BY <2>1, <2>3, <2>4
<1>6. Parent \in [Files!Paths -> Files!Paths \cup {Root}] /\ inside \subseteq Files!Paths
  BY Basics DEF Files!Children
<1>7. CASE UNCHANGED <<request, outcome>> /\ \E s \in {scan, popped} : scan' = Files!Cut(s)
  <2>1. /\ scan' \in ScanShapes /\ scan'.results = scan.results /\ scan'.cut
    <3>1. PICK s \in ScanShapes : scan' = Files!Cut(s) /\ s.results = scan.results
      BY <1>2, <1>5, <1>7
    <3>2. <<>> \in Seq(Files!Paths \cup {Root})
      OBVIOUS
    <3> HIDE DEF popped
    <3> QED BY <3>1, <3>2 DEF Files!Cut, ScanShapes
  <2>2. ScanIsOnItsWay'
    BY <2>1 DEF ScanIsOnItsWay
  <2> QED BY <1>1, <1>2, <1>7, <2>1, <2>2, ScanGoesOn
<1>8. CASE Files!Is(p, "none") /\ Files!Ends("error") /\ UNCHANGED scan
  BY <1>1, <1>2, <1>8, ScanEnds
<1>9. ASSUME NEW more \in Seq(Files!Paths \cup {Root}), NEW files \in Seq(Files!Paths),
             UNCHANGED <<request, outcome>>,
             scan' = [popped EXCEPT !.pending = @ \o more, !.files = @ \o files],
             Files!Is(p, "dir") =>
               \A q \in Files!Children(p) : Listed(more, q) \/ Files!Is(q, "link"),
             Files!Is(p, "file") => Listed(files, p)
      PROVE  FilesIInv'
  <2> HIDE DEF popped, last
  <2>1. /\ scan' \in ScanShapes /\ scan'.results = scan.results /\ scan'.cut = scan.cut
        /\ scan'.unread = scan.unread
        /\ scan'.pending = popped.pending \o more /\ scan'.files = scan.files \o files
    <3>5. popped.files \in Seq(Files!Paths) /\ popped.pending \in Seq(Files!Paths \cup {Root})
      BY <1>2, <1>5 DEF ScanShapes
    <3>6. \A T : \A s \in Seq(T), t \in Seq(T) : s \o t \in Seq(T)
      OBVIOUS
    <3>1. PICK f \in Seq(Files!Paths) : f = popped.files \o files
      BY <1>9, <3>5, <3>6
    <3>2. PICK m \in Seq(Files!Paths \cup {Root}) : m = popped.pending \o more
      BY <1>9, <3>5, <3>6
    <3>3. scan' = [popped EXCEPT !.pending = m, !.files = f]
      BY <1>9, <3>1, <3>2
    <3>4. /\ scan' \in ScanShapes /\ scan'.results = popped.results /\ scan'.cut = popped.cut
          /\ scan'.unread = popped.unread
          /\ scan'.pending = m /\ scan'.files = f
      BY <1>5, <3>3 DEF ScanShapes
    <3> QED BY <1>5, <3>1, <3>2, <3>4
  <2>2. /\ \A q : Listed(scan'.pending, q) <=> Listed(popped.pending, q) \/ Listed(more, q)
        /\ \A q : Listed(scan'.files, q) <=> Listed(scan.files, q) \/ Listed(files, q)
    <3>1. ASSUME NEW T, NEW s \in Seq(T), NEW t \in Seq(T), NEW q
          PROVE  Listed(s \o t, q) <=> Listed(s, q) \/ Listed(t, q)
      <4>1. /\ Len(s \o t) = Len(s) + Len(t) /\ Len(s) \in Nat /\ Len(t) \in Nat
            /\ DOMAIN (s \o t) = 1 .. Len(s) + Len(t)
            /\ DOMAIN s = 1 .. Len(s) /\ DOMAIN t = 1 .. Len(t)
            /\ \A i \in 1 .. Len(s) + Len(t) :
                 (s \o t)[i] = IF i <= Len(s) THEN s[i] ELSE t[i - Len(s)]
        OBVIOUS
      <4>2. ASSUME Listed(s \o t, q) PROVE Listed(s, q) \/ Listed(t, q)
        <5>1. PICK i \in 1 .. Len(s) + Len(t) : (s \o t)[i] = q
          BY <4>1, <4>2 DEF Listed
        <5>2. CASE i <= Len(s)
          <6>1. i \in 1 .. Len(s) /\ s[i] = q
            BY <4>1, <5>1, <5>2
          <6> QED BY <4>1, <6>1 DEF Listed
        <5>3. CASE i > Len(s)
          <6>1. i - Len(s) \in 1 .. Len(t) /\ t[i - Len(s)] = q
            BY <4>1, <5>1, <5>3
          <6> QED BY <4>1, <6>1 DEF Listed
        <5> QED BY <4>1, <5>2, <5>3
      <4>3. ASSUME Listed(s, q) PROVE Listed(s \o t, q)
        <5>1. PICK i \in 1 .. Len(s) : s[i] = q
          BY <4>1, <4>3 DEF Listed
        <5>2. i \in 1 .. Len(s) + Len(t) /\ (s \o t)[i] = q
          BY <4>1, <5>1
        <5> QED BY <4>1, <5>2 DEF Listed
      <4>4. ASSUME Listed(t, q) PROVE Listed(s \o t, q)
        <5>1. PICK i \in 1 .. Len(t) : t[i] = q
          BY <4>1, <4>4 DEF Listed
        <5>2. i + Len(s) \in 1 .. Len(s) + Len(t) /\ (s \o t)[i + Len(s)] = q
          BY <4>1, <5>1
        <5> QED BY <4>1, <5>2 DEF Listed
      <4> QED BY <4>2, <4>3, <4>4
    <3>2. scan.files \in Seq(Files!Paths)
      BY <1>2 DEF ScanShapes
    <3> QED BY <1>5, <2>1, <3>1, <3>2
  <2>3. ScanIsOnItsWay'
    <3> SUFFICES ASSUME ~ scan.cut PROVE \E V \in SUBSET (Files!Paths \cup {Root}) : Seen(V)'
      BY <2>1 DEF ScanIsOnItsWay, Files!Paths
    <3>1. PICK V \in SUBSET (Files!Paths \cup {Root}) : Seen(V)
      BY <1>1 DEF FilesIInv, ScanIsOnItsWay
    <3> DEFINE W == V \cup {q \in Files!Paths \cup {Root} : Listed(more, q)}
    <3>2. /\ \A q : Files!At(q)' = Files!At(q) /\ Files!Children(q)' = Files!Children(q)
          /\ \A q : Files!Is(q, "dir")' <=> Files!Is(q, "dir")
          /\ \A q : Files!Is(q, "file")' <=> Files!Is(q, "file")
          /\ \A q : Files!Is(q, "link")' <=> Files!Is(q, "link")
      BY <1>1, SameTree DEF Files!Is
    <3>3. \A q : Listed(scan.files, q) \/ Told(q) => Listed(scan'.files, q) \/ Told(q)'
      BY <1>9, <2>1, <2>2, <3>2 DEF Told, Files!IsSearchable, Files!IsText
    <3>4. /\ request.source \in W
          /\ \A q \in Files!Paths \cup {Root} : Listed(scan'.pending, q) => q \in W
      BY <1>5, <2>2, <3>1 DEF Seen
    <3>5. ASSUME NEW q \in W, ~ Listed(scan'.pending, q)
          PROVE  /\ Files!Is(q, "dir") =>
                      \A r \in Files!Children(q) : r \in W \/ r \in touched \/ Files!Is(r, "link")
                 /\ Files!Is(q, "file") /\ q \notin touched => Listed(scan'.files, q) \/ Told(q)'
      <4>1. q \in V /\ (q = p \/ ~ Listed(scan.pending, q))
        BY <1>5, <2>2, <3>5
      <4>2. CASE q = p
        <5>1. Files!Is(p, "dir") => \A r \in Files!Children(p) : r \in W \/ Files!Is(r, "link")
          BY <1>9 DEF Files!Children
        <5>2. Files!Is(p, "file") => Listed(scan'.files, p)
          BY <1>9, <2>2
        <5> QED BY <4>2, <5>1, <5>2
      <4>3. CASE ~ Listed(scan.pending, q)
        BY <3>1, <3>3, <4>1, <4>3 DEF Seen
      <4> QED BY <4>1, <4>2, <4>3
    <3>6. /\ \A q : Listed(scan.pending, q)' <=> Listed(scan'.pending, q)
          /\ \A q : Listed(scan.files, q)' <=> Listed(scan'.files, q)
          /\ request' = request /\ touched' = touched
      BY <1>1, <1>9 DEF Listed
    <3> HIDE DEF W
    <3>7. Seen(W)'
      BY <3>2, <3>4, <3>5, <3>6 DEF Seen, Files!Paths
    <3>8. W \in SUBSET (Files!Paths \cup {Root})
      BY DEF W
    <3> QED BY <3>7, <3>8
  <2> QED BY <1>1, <1>2, <1>9, <2>1, <2>3, ScanGoesOn
<1>10. CASE Files!Is(p, "link") /\ scan' = popped /\ UNCHANGED <<request, outcome>>
  <2>1. <<>> \in Seq(Files!Paths \cup {Root}) /\ <<>> \in Seq(Files!Paths)
    OBVIOUS
  <2>2. scan' = [popped EXCEPT !.pending = @ \o <<>>, !.files = @ \o <<>>]
    <3> HIDE DEF popped
    <3>1. popped.pending \o <<>> = popped.pending /\ popped.files \o <<>> = popped.files
      BY <1>5
    <3> QED BY <1>5, <1>10, <3>1 DEF ScanShapes
  <2>3. ~ Files!Is(p, "dir") /\ ~ Files!Is(p, "file")
    BY <1>10 DEF Files!Is
  <2> QED BY <1>9, <1>10, <2>1, <2>2, <2>3
<1>11. CASE /\ Files!Is(p, "file") /\ scan' = [popped EXCEPT !.files = Append(@, p)]
            /\ UNCHANGED <<request, outcome>>
  <2>1. p \in Files!Paths /\ ~ Files!Is(p, "dir")
    BY <1>11, Basics DEF Files!Is
  <2>2. <<>> \in Seq(Files!Paths \cup {Root}) /\ <<p>> \in Seq(Files!Paths) /\ Listed(<<p>>, p)
    BY <2>1 DEF Listed
  <2>3. scan' = [popped EXCEPT !.pending = @ \o <<>>, !.files = @ \o <<p>>]
    <3> HIDE DEF popped
    <3>1. /\ popped.pending \o <<>> = popped.pending /\ popped.files \in Seq(Files!Paths)
          /\ popped.files \o <<p>> = Append(popped.files, p)
      BY <1>5, <2>1 DEF ScanShapes
    <3> QED BY <1>5, <1>11, <3>1
  <2> QED BY <1>9, <1>11, <2>1, <2>2, <2>3
<1>12. CASE /\ Files!Is(p, "dir") /\ UNCHANGED <<request, outcome>>
            /\ \E order \in [1 .. Files!Cardinality(inside) -> inside] :
                 /\ \A q \in inside : \E i \in DOMAIN order : order[i] = q
                 /\ scan' = [popped EXCEPT !.pending = @ \o order]
  <2>1. PICK order \in [1 .. Files!Cardinality(inside) -> inside] :
          /\ \A q \in inside : \E i \in DOMAIN order : order[i] = q
          /\ scan' = [popped EXCEPT !.pending = @ \o order]
    BY <1>12
  <2>2. Files!Cardinality(inside) \in Nat
    BY <1>6, PartsCountLess, CountsAreNat DEF Files!ConstantsFit
  <2> HIDE DEF popped
  <2>3. order \in Seq(Files!Paths \cup {Root}) /\ <<>> \in Seq(Files!Paths)
    <3>1. PICK n \in Nat : n = Files!Cardinality(inside)
      BY <2>2
    <3>2. order \in [1 .. n -> Files!Paths \cup {Root}]
      BY <1>6, <3>1
    <3> QED BY <3>2
  <2>4. scan' = [popped EXCEPT !.pending = @ \o order, !.files = @ \o <<>>]
    <3>1. popped.files \in Seq(Files!Paths)
      BY <1>5 DEF ScanShapes
    <3>2. popped.files \o <<>> = popped.files
      BY <3>1
    <3> QED BY <1>5, <2>1, <3>2
  <2>5. \A q \in Files!Children(p) : Listed(order, q) \/ Files!Is(q, "link")
    BY <2>1 DEF Listed
  <2>6. ~ Files!Is(p, "file")
    BY <1>12 DEF Files!Is
  <2> QED BY <1>9, <1>12, <2>3, <2>4, <2>5, <2>6
<1>13. \/ UNCHANGED <<request, outcome>> /\ \E s \in {scan, popped} : scan' = Files!Cut(s)
       \/ Files!Is(p, "none") /\ Files!Ends("error") /\ UNCHANGED scan
       \/ Files!Is(p, "link") /\ scan' = popped /\ UNCHANGED <<request, outcome>>
       \/ /\ Files!Is(p, "file") /\ scan' = [popped EXCEPT !.files = Append(@, p)]
          /\ UNCHANGED <<request, outcome>>
       \/ /\ Files!Is(p, "dir") /\ UNCHANGED <<request, outcome>>
          /\ \E order \in [1 .. Files!Cardinality(inside) -> inside] :
               /\ \A q \in inside : \E i \in DOMAIN order : order[i] = q
               /\ scan' = [popped EXCEPT !.pending = @ \o order]
  <2>1. Files!Is(p, "none") \/ Files!Is(p, "link") \/ Files!Is(p, "file") \/ Files!Is(p, "dir")
    BY Places DEF FilesIInv, Files!Is
  <2>2. CASE scan.scanned = MaxScanned
    BY <2>2 DEF Files!Collect
  <2>3. CASE scan.scanned # MaxScanned
    BY <1>4, <2>1, <2>3 DEF Files!Collect
  <2> QED BY <2>2, <2>3
<1> HIDE DEF popped, inside, last
<1> QED BY <1>7, <1>8, <1>10, <1>11, <1>12, <1>13

LEMMA FilesStutters ==
  ASSUME FilesIInv, UNCHANGED Files!vars
  PROVE  FilesIInv'
<1>1. /\ tree' = tree /\ request' = request /\ scan' = scan /\ outcome' = outcome
      /\ touched' = touched
      /\ \A p : Files!At(p)' = Files!At(p) /\ Files!Children(p)' = Files!Children(p)
      /\ TreeIsRooted'
  BY SameTree DEF FilesIInv, Files!vars
<1>2. Shapes' /\ PhasesBelong' /\ CallHasItsPlace' /\ TransferInHand' /\ Files!TransferIsSafe'
  BY <1>1 DEF FilesIInv, Shapes, PhasesBelong, CallHasItsPlace, TransferInHand,
     Files!TransferIsSafe, Files!Is, Files!Paths, IsTransfer
<1>3. ScanIsOnItsWay' /\ OthersTouchFiles' /\ Files!ResultIsComplete'
  <2>1. \A q : Told(q)' <=> Told(q)
    BY <1>1 DEF Told
  <2>2. \A V : Seen(V)' <=> Seen(V)
    BY <1>1, <2>1 DEF Seen, Listed, Files!Is, Files!Paths
  <2> QED BY <1>1, <2>2 DEF FilesIInv, ScanIsOnItsWay, OthersTouchFiles, Files!ResultIsComplete,
      Files!Is, IsScan, Files!Inside, Files!Paths
<1> QED BY <1>1, <1>2, <1>3 DEF FilesIInv

LEMMA FilesNextKeeps ==
  ASSUME Files!ConstantsFit, FilesIInv, [Files!Next]_(Files!vars)
  PROVE  FilesIInv'
<1>1. CASE \E p \in Files!Paths,
           node \in {Files!None} \cup {Files!Node("file", w) : w \in Writes} : Files!Others(p, node)
  BY <1>1, OthersStep
<1>2. CASE \E a \in Files!Arguments : Files!Begin(a.op, a.source, a.dest, a.flag, a.text)
  BY <1>2, BeginStep
<1>3. CASE Files!Inspect \/ Files!RemoveOld \/ Files!Put \/ Files!Open \/ Files!Fill
           \/ Files!Mkdir \/ Files!Delete
  BY <1>3, InspectStep, RemoveOldStep, PutStep, OpenStep, FillStep, MkdirStep, DeleteStep
<1>4. CASE Files!Collect \/ Files!Pick \/ Files!SearchFile \/ Files!SearchEnds
  BY <1>4, CollectStep, PickStep, SearchFileStep, SearchEndsStep
<1>5. CASE UNCHANGED Files!vars
  BY <1>5, FilesStutters
<1> QED BY <1>1, <1>2, <1>3, <1>4, <1>5 DEF Files!Next

-----------------------------------------------------------------------------
(* The tree, the call and its scan fit together.                           *)
THEOREM FilesInductiveInvariant == Files!ConstantsFit => (Files!Spec => []FilesIInv)
<1> SUFFICES ASSUME Files!ConstantsFit PROVE Files!Spec => []FilesIInv
  OBVIOUS
<1>1. Files!Init => FilesIInv
  BY FilesInitSetsUp
<1>2. FilesIInv /\ [Files!Next]_(Files!vars) => FilesIInv'
  BY FilesNextKeeps
<1> QED BY <1>1, <1>2, PTL DEF Files!Spec

(* filesystem.rs, copy_move: a copy or a move between two files nobody     *)
(* else touches never loses what it transfers, wherever it stops, and says *)
(* it is done only when it is.                                             *)
THEOREM TransfersLoseNothing == Files!ConstantsFit => (Files!Spec => []Files!TransferIsSafe)
<1>1. FilesIInv => Files!TransferIsSafe
  BY DEF FilesIInv
<1> QED BY <1>1, FilesInductiveInvariant, PTL

(* filesystem.rs, find, search and collect_paths: an answer that is not    *)
(* called truncated has every path looked for, and every match of the      *)
(* files that are text, not too big and could be read, of what is below    *)
(* its source and nobody touched.                                          *)
THEOREM ResultsAreComplete == Files!ConstantsFit => (Files!Spec => []Files!ResultIsComplete)
<1>1. FilesIInv => Files!ResultIsComplete
  BY DEF FilesIInv
<1> QED BY <1>1, FilesInductiveInvariant, PTL

(* Both: what is transferred is kept, and what could be read is searched.  *)
THEOREM FilesStaySafe == Files!ConstantsFit => (Files!Spec => []Files!FilesAreKeptAndFound)
<1>1. Files!TransferIsSafe /\ Files!ResultIsComplete => Files!FilesAreKeptAndFound
  BY DEF Files!FilesAreKeptAndFound
<1> QED BY <1>1, TransfersLoseNothing, ResultsAreComplete, PTL
=============================================================================
