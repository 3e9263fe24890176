------------------------- MODULE MCAgentSupervisor -------------------------
(***************************************************************************)
(* Values for small instances of AgentSupervisor.                          *)
(***************************************************************************)
EXTENDS AgentSupervisor

StopRequests == {"PauseRequested", "CancellationRequested"}
AllControls == StopRequests \cup {"ResumeRequested", "TaskCancelled"}
NoControls == {}
NoTools == {}
Asking == {"ask"}
Allowing == {"allow"}
AnyVerdict == {"deny", "allow", "ask"}

=============================================================================
