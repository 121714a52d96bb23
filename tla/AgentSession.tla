---------------------------- MODULE AgentSession ----------------------------
(* The agent loop implements the session it promises: the refinement mapping   *)
(* from the loop's program counter and the tools' flags.                       *)
EXTENDS Agent

SessionPhase ==
  CASE pc = "finish"   -> "decided"
    [] pc = "report"   -> "written"
    [] pc = "returned" -> "returned"
    [] pc = "raised"   -> "raised"
    [] pc = "exited"   -> "exited"
    [] OTHER           -> "open"

Accepted == IF flag THEN "flag" ELSE IF runbook THEN "runbook" ELSE "nothing"

Promise == INSTANCE Session
  WITH phase <- SessionPhase, accepted <- Accepted, status <- status

(* Whatever the model answers, whichever tools and requests fail and whatever  *)
(* happens to the agent's files, a run that no tool exits is decided once, by  *)
(* the first thing a tool accepted, and result.json is written once, after     *)
(* that.                                                                       *)
ImplementsSession == Promise!Spec
=============================================================================
