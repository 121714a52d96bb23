------------------------------- MODULE Session -------------------------------
(* What one run of the agent promises to whoever started it: it is open until  *)
(* a tool accepts something or a limit is hit, it is decided once, result.json *)
(* is written once, after the decision and according to what was accepted, and *)
(* nothing is returned that was not written; only a tool that exits the        *)
(* program leaves it undecided.  Agent implements this module (AgentSession);  *)
(* SolveRun, the command line, is built on it.                                 *)
VARIABLES
  phase,        \* "open", "decided", "written", then "returned" or "raised";
                \* "exited" when the program ended in the middle of the run
  accepted,     \* what the tools accepted: "flag", "runbook" or "nothing"
  status        \* the decision; meaningless while the run is open

sessionVars == <<phase, accepted, status>>

StatusOf(outcome) ==
  CASE outcome = "flag"    -> "solved"
    [] outcome = "runbook" -> "runbook"
    [] OTHER               -> "unsolved"

Init == phase = "open" /\ accepted = "nothing" /\ status = "unsolved"

(* submit_flag or handoff_runbook, whichever comes first. *)
Accept(outcome) ==
  /\ phase = "open" /\ accepted = "nothing"
  /\ accepted' = outcome
  /\ UNCHANGED <<phase, status>>

(* The loop is left: after an acceptance, at a limit, or on an error. *)
Decide ==
  /\ phase = "open"
  /\ phase' = "decided" /\ status' = StatusOf(accepted)
  /\ UNCHANGED accepted

Write ==
  /\ phase = "decided" /\ phase' = "written"
  /\ UNCHANGED <<accepted, status>>

Return ==
  /\ phase = "written" /\ phase' = "returned"
  /\ UNCHANGED <<accepted, status>>

(* SystemExit, raised by Python of the model's inside a tool, passes every      *)
(* `except Exception`: the run is left before anything is accepted or decided. *)
Exit ==
  /\ phase = "open" /\ accepted = "nothing"
  /\ phase' = "exited"
  /\ UNCHANGED <<accepted, status>>

(* The result cannot be written, or the report of an unsolved run fails. *)
Raise ==
  /\ phase = "decided" \/ (phase = "written" /\ status = "unsolved")
  /\ phase' = "raised"
  /\ UNCHANGED <<accepted, status>>

Next ==
  \/ \E outcome \in {"flag", "runbook"} : Accept(outcome)
  \/ Decide \/ Write \/ Return \/ Raise \/ Exit

Spec == Init /\ [][Next]_sessionVars
=============================================================================
