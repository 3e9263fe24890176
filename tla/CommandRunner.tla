----------------------------- MODULE CommandRunner -----------------------------
(***************************************************************************)
(* How the tools run a program (koi-infra/src/tools/runner.rs): the join   *)
(* of feeding its input, reading its output and waiting for it, the limit  *)
(* on what is read, and how a call that is cancelled or too late ends the  *)
(* processes it started.                                                   *)
(*                                                                         *)
(* Standard error is read as standard output is, and left out.  Programs   *)
(* are external: a leader that may copy its input to its output, print     *)
(* more than is read, never end, or leave a helper behind in its group.    *)
(***************************************************************************)
EXTENDS Integers

CONSTANTS
  Behaviours,      \* programs: [reads, says, ends, helper]
  MaxInputBytes,   \* policy.max_input_bytes
  MaxOutputBytes,  \* policy.max_output_bytes
  PipeSize         \* what a pipe of the system holds

ASSUME ProgramsAreKnown ==
  /\ Behaviours # {}
  /\ Behaviours \subseteq [reads : BOOLEAN, says : Nat, ends : BOOLEAN, helper : BOOLEAN]
ASSUME LimitsAreNat == {MaxInputBytes, MaxOutputBytes, PipeSize} \subseteq Nat

VARIABLES
  call,            \* [phase, result, sudo, program]: phase of run()
  group,           \* the processes of the group: [leader, helper -> "none", "running", "ended"]
  status,          \* the exit status of the leader: "none", "success", "failure"
  waited,          \* wait() has returned
  input,           \* [left, pipe, open, failed]: the future `write` and the pipe it fills
  output,          \* [pipe, reading, taken]: the pipe and read_limited
  owed, written    \* what the leader has to print, what was put into the pipe

vars == <<call, group, status, waited, input, output, owed, written>>
Processes == {"leader", "helper"}

Init ==
  /\ call = [phase |-> "idle", result |-> "none", sudo |-> FALSE,
             program |-> CHOOSE b \in Behaviours : TRUE]
  /\ group = [p \in Processes |-> "none"] /\ status = "none" /\ waited = FALSE
  /\ input = [left |-> 0, pipe |-> 0, open |-> FALSE, failed |-> FALSE]
  /\ output = [pipe |-> 0, reading |-> FALSE, taken |-> 0]
  /\ owed = 0 /\ written = 0

-----------------------------------------------------------------------------
(* The call *)

\* What the checks of the tools and of run() refuse, the timeout included, and a
\* program that cannot be started.
Refuse(reason) ==
  /\ call.phase = "idle" /\ call' = [call EXCEPT !.phase = "done", !.result = reason]
  /\ UNCHANGED <<group, status, waited, input, output, owed, written>>

\* spawn: in a process group of its own, with sudo when the operation needs it.
Spawn(program, sudo, size) ==
  /\ call.phase = "idle" /\ size <= MaxInputBytes
  /\ call' = [phase |-> "running", result |-> "none", sudo |-> sudo, program |-> program]
  /\ group' = [p \in Processes |-> IF p = "leader" \/ program.helper THEN "running" ELSE "none"]
  /\ input' = [left |-> size, pipe |-> 0, open |-> size > 0, failed |-> FALSE]
  /\ output' = [pipe |-> 0, reading |-> TRUE, taken |-> 0]
  /\ owed' = program.says
  /\ UNCHANGED <<status, waited, written>>

Running == call.phase = "running"
Alive(p) == group[p] = "running"
Held == \E p \in Processes : Alive(p)

Feed ==
  /\ Running /\ input.open /\ input.left > 0 /\ input.pipe < PipeSize /\ Held
  /\ input' = [input EXCEPT !.left = @ - 1, !.pipe = @ + 1]
  /\ UNCHANGED <<call, group, status, waited, output, owed, written>>
\* write_all fails when nobody can read any more,
FeedFails ==
  /\ Running /\ input.open /\ input.left > 0 /\ ~Held
  /\ input' = [input EXCEPT !.open = FALSE, !.failed = TRUE]
  /\ UNCHANGED <<call, group, status, waited, output, owed, written>>
\* and shutdown tells the program that its input ends.
CloseInput ==
  /\ Running /\ input.open /\ input.left = 0 /\ input' = [input EXCEPT !.open = FALSE]
  /\ UNCHANGED <<call, group, status, waited, output, owed, written>>

\* read_limited: one byte more than the limit tells that there was more; the reader
\* is dropped with it.
\* Mutant: the output is read when the input is written.
Taken == [output EXCEPT !.pipe = @ - 1, !.taken = @ + 1,
                        !.reading = output.taken < MaxOutputBytes]
TakeAfterInput ==
  /\ Running /\ output.reading /\ output.pipe > 0 /\ ~input.open /\ output' = Taken
  /\ UNCHANGED <<call, group, status, waited, input, owed, written>>
Take ==
  /\ Running /\ output.reading /\ output.pipe > 0 /\ output' = Taken
  /\ UNCHANGED <<call, group, status, waited, input, owed, written>>
OutputEnds ==
  /\ Running /\ output.reading /\ output.pipe = 0 /\ ~Held
  /\ output' = [output EXCEPT !.reading = FALSE]
  /\ UNCHANGED <<call, group, status, waited, input, owed, written>>
Wait ==
  /\ Running /\ ~waited /\ group["leader"] = "ended" /\ waited' = TRUE
  /\ UNCHANGED <<call, group, status, input, output, owed, written>>

\* All four of the join have ended.
AllEnded == waited /\ ~input.open /\ ~output.reading
Truncated == output.taken > MaxOutputBytes
Return ==
  /\ Running /\ AllEnded
  /\ call' = [call EXCEPT !.phase = "done",
                          !.result = IF input.failed THEN "error"
                                     ELSE IF Truncated THEN "truncated" ELSE "whole"]
  /\ UNCHANGED <<group, status, waited, input, output, owed, written>>

\* Cancelled or late: the future is dropped, which closes the pipes and kills the
\* leader if it was not waited for, then terminate_process_tree.  What runs as root
\* takes no signal from this account.
Signalled(g, ps) == IF call.sudo THEN g
                    ELSE [p \in Processes |-> IF p \in ps /\ g[p] = "running" THEN "ended" ELSE g[p]]
Stop(result) ==
  /\ Running /\ call' = [call EXCEPT !.phase = "term", !.result = result]
  /\ group' = Signalled(group, {"leader"})
  /\ input' = [input EXCEPT !.open = FALSE] /\ output' = [output EXCEPT !.reading = FALSE]
  /\ UNCHANGED <<status, waited, owed, written>>
\* TERM may be ignored,
Term ==
  /\ call.phase = "term" /\ call' = [call EXCEPT !.phase = "kill"]
  /\ \E heard \in SUBSET Processes : group' = Signalled(group, heard)
  /\ UNCHANGED <<status, waited, input, output, owed, written>>
\* KILL may not.
\* Mutant: only the process that was started is killed.
KillLeader ==
  /\ call.phase = "kill" /\ call' = [call EXCEPT !.phase = "done"]
  /\ group' = Signalled(group, {"leader"})
  /\ UNCHANGED <<status, waited, input, output, owed, written>>
Kill ==
  /\ call.phase = "kill" /\ call' = [call EXCEPT !.phase = "done"]
  /\ group' = Signalled(group, Processes)
  /\ UNCHANGED <<status, waited, input, output, owed, written>>

-----------------------------------------------------------------------------
(* The program *)

Reads ==
  /\ Alive("leader") /\ call.program.reads /\ owed = 0 /\ input.pipe > 0
  /\ input' = [input EXCEPT !.pipe = @ - 1] /\ owed' = 1
  /\ UNCHANGED <<call, group, status, waited, output, written>>
Prints ==
  /\ Alive("leader") /\ owed > 0 /\ output.reading /\ output.pipe < PipeSize
  /\ output' = [output EXCEPT !.pipe = @ + 1] /\ owed' = owed - 1 /\ written' = written + 1
  /\ UNCHANGED <<call, group, status, waited, input>>
\* Nobody reads any more: SIGPIPE, or an error the program goes on after.
BrokenPipe ==
  /\ Alive("leader") /\ owed > 0 /\ ~output.reading
  /\ \/ /\ group' = [group EXCEPT !["leader"] = "ended"] /\ status' = "failure" /\ owed' = owed
     \/ /\ owed' = owed - 1 /\ UNCHANGED <<group, status>>
  /\ UNCHANGED <<call, waited, input, output, written>>
Exit(code) ==
  /\ Alive("leader") /\ owed = 0 /\ call.program.ends
  /\ call.program.reads => input.pipe = 0 /\ ~input.open
  /\ group' = [group EXCEPT !["leader"] = "ended"] /\ status' = code
  /\ UNCHANGED <<call, waited, input, output, owed, written>>
HelperExits ==
  /\ Alive("helper") /\ group' = [group EXCEPT !["helper"] = "ended"]
  /\ UNCHANGED <<call, status, waited, input, output, owed, written>>

-----------------------------------------------------------------------------
Next ==
  \/ \E reason \in {"invalid", "unavailable"} : Refuse(reason)
  \/ \E b \in Behaviours, sudo \in BOOLEAN, size \in 0..MaxInputBytes : Spawn(b, sudo, size)
  \/ Feed \/ FeedFails \/ CloseInput \/ Take \/ OutputEnds \/ Wait \/ Return
  \/ \E result \in {"cancelled", "timeout"} : Stop(result)
  \/ Term \/ Kill
  \/ Reads \/ Prints \/ BrokenPipe \/ HelperExits \/ \E code \in {"success", "failure"} : Exit(code)

\* The futures of the join are polled while they can go on, and the program runs.
\* The timeout is longer than what a program takes that ends and leaves nobody
\* behind, so it is counted on for the others only.
Hangs == ~call.program.ends \/ call.program.helper
Program == Reads \/ Prints \/ BrokenPipe \/ \E code \in {"success", "failure"} : Exit(code)
Fairness ==
  /\ WF_vars(Feed) /\ WF_vars(FeedFails) /\ WF_vars(CloseInput)
  /\ WF_vars(Take) /\ WF_vars(OutputEnds) /\ WF_vars(Wait)
  /\ WF_vars(Return) /\ WF_vars(Term) /\ WF_vars(Kill)
  /\ WF_vars(Program) /\ WF_vars(Hangs /\ Stop("timeout"))
Spec == Init /\ [][Next]_vars /\ Fairness

-----------------------------------------------------------------------------
\* A call that was cancelled or took too long leaves no process of its group
\* behind, the program's children included, unless they run as root.
NothingIsLeftRunning ==
  call.phase = "done" /\ call.result \in {"cancelled", "timeout"} /\ ~call.sudo => ~Held

\* A result that is not called truncated has all that was printed, by a program that
\* has taken all its input or did not want it; a truncated one is cut at the limit.
ResultIsWhole ==
  /\ call.result = "whole" => output.taken = written /\ (call.program.reads => input.pipe = 0)
  /\ call.result = "truncated" => written > MaxOutputBytes

\* Both, of a call however it ends.
CallIsCleanAndWhole == NothingIsLeftRunning /\ ResultIsWhole

\* Every call ends; one of a program that ends by itself does so without the timeout,
\* however full the pipes are on both sides.
CallEnds == Running ~> call.phase = "done"
=============================================================================
