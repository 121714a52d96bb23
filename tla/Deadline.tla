------------------------------ MODULE Deadline ------------------------------
(* The run's wall-clock budget.  agent.py looks at the clock only between      *)
(* steps; what keeps a step from outliving the run is ToolContext.             *)
(* clamp_timeout of tools/base.py, with which the tools cut their own timeouts *)
(* when they are called.  Not every wait of a tool is cut: summarize asks the  *)
(* model, run_gui waits for the X tools, children and Python of the model's    *)
(* may not die in time.  Time is in seconds since the run began; what is not   *)
(* waiting for the model, a child process, a solver or its Python takes none.  *)
EXTENDS Integers

CONSTANTS
  Budget,       \* max_minutes * 60: the deadline
  MinTool,      \* MIN_TOOL_SECONDS
  MaxTimeout,   \* MAX_TIMEOUT, also the cap in solve_check
  Ghidra,       \* the timeout decompile asks for
  Settle,       \* how long ghidra.analyze waits for a killed Ghidra's output
  Emulation,    \* DEFAULT_TIMEOUT of emulate
  GuiWait,      \* MAX_WAIT of run_gui, before its first capture
  GuiActions,   \* ACTION_BUDGET_SECONDS of run_gui
  GuiCheck, GuiLook, GuiLast,   \* run_gui's uncut waits: for the display; around
                \* the first capture; for one more action, and to clean up
  Escape,       \* bound: how long a child that left its process group, or
                \* Python that swallowed its alarm, lives on
  AskMax,       \* bound: time spent on the model, with its retries, before the
                \* calls, after them, or in one summarize
  MaxCalls,     \* bound: tool calls in one assistant message
  Requests      \* timeouts the model asks for

ASSUME DeadlineAssumption ==
  /\ Budget \in Nat /\ MinTool \in Nat \ {0} /\ MaxTimeout \in Nat \ {0}
  /\ Ghidra \in Nat \ {0} /\ Settle \in Nat /\ Emulation \in Nat \ {0}
  /\ GuiWait \in Nat \ {0} /\ GuiActions \in Nat \ {0}
  /\ GuiCheck \in Nat /\ GuiLook \in Nat /\ GuiLast \in Nat
  /\ Escape \in Nat /\ AskMax \in Nat /\ MaxCalls \in Nat \ {0}
  /\ Requests \subseteq Int

VARIABLES
  now,
  pc,           \* "ask", "calls", "running", "after" or "stop"
  calls,        \* calls of the message still to be run
  tool,         \* the tool that runs, or ran last
  timeout,      \* the timeout it works with, fixed when it was cut
  phases,       \* timed phases it still has to go through
  began         \* when it was called

vars == <<now, pc, calls, tool, timeout, phases, began>>

Cutting == {"bash", "run_binary", "solve_check", "emulate", "decompile", "run_gui"}
Tools == Cutting \cup {"summarize"}

Lower(a, b) == IF a < b THEN a ELSE b
Higher(a, b) == IF a < b THEN b ELSE a

ClampWhole(s, time) == Lower(s, Higher(MinTool, Budget))      \* mutant: whole budget
clamp_timeout(s, time) == Lower(s, Higher(MinTool, Budget - time))

(* What each tool passes to clamp_timeout when the model asks for req. *)
Wanted(t, req) ==
  CASE t \in {"bash", "run_binary", "solve_check"} -> Higher(1, Lower(req, MaxTimeout))
    [] t = "run_gui" -> Higher(1, Lower(req, GuiWait))
    [] t = "emulate" -> Emulation
    [] t = "decompile" -> Ghidra

(* solve_check uses its timeout three times: for the transform on symbols, for *)
(* z3, and for the concrete re-check of z3's answer.  run_gui cuts a second    *)
(* timeout, for its actions, after the first capture.                          *)
PhasesOf(t) == CASE t = "solve_check" -> 3 [] t = "run_gui" -> 2 [] OTHER -> 1

(* How long a phase that goes well may take. *)
PhaseMax ==
  CASE tool = "summarize" -> AskMax
    [] tool = "run_gui" -> timeout + (IF phases = 2 THEN GuiLook ELSE GuiLast)
    [] OTHER -> timeout

(* A child process that is still there at its timeout is killed with its group *)
(* and its output collected, by run_cmd without a timeout: for as long as      *)
(* something that left the group keeps the pipe open.                          *)
LingerOf(t) ==
  CASE t \in {"bash", "run_binary"} -> Escape
    [] t = "decompile" -> Settle
    [] t \in {"solve_check", "emulate"} -> 0

Init ==
  /\ now = 0 /\ pc = "ask" /\ calls = 0
  /\ tool = "bash" /\ timeout = 1 /\ phases = 0 /\ began = 0

-----------------------------------------------------------------------------
AlwaysTime == TRUE                                            \* mutant: never checked
TimeLeft == now <= Budget

TimeLimit ==
  /\ pc = "ask" /\ ~TimeLeft
  /\ pc' = "stop"
  /\ UNCHANGED <<now, calls, tool, timeout, phases, began>>

(* The model is asked; an answer without calls leads to the next step. *)
Ask(d) ==
  /\ pc = "ask" /\ TimeLeft
  /\ now' = now + d
  /\ calls' \in 0..MaxCalls
  /\ pc' = IF calls' = 0 THEN "after" ELSE "calls"
  /\ UNCHANGED <<tool, timeout, phases, began>>

StartCall(t, req, d) ==
  /\ pc = "calls" /\ calls > 0
  /\ d <= IF t = "run_gui" THEN GuiCheck ELSE 0
  /\ calls' = calls - 1
  /\ tool' = t /\ began' = now /\ now' = now + d
  /\ timeout' = clamp_timeout(Wanted(t, req), now + d)
  /\ phases' = PhasesOf(t)
  /\ pc' = "running"

Summarize ==
  /\ pc = "calls" /\ calls > 0
  /\ calls' = calls - 1
  /\ tool' = "summarize" /\ began' = now /\ phases' = 1
  /\ pc' = "running"
  /\ UNCHANGED <<now, timeout>>

PhaseEnds(d) ==
  /\ pc = "running" /\ phases > 0
  /\ d <= PhaseMax
  /\ now' = now + d
  /\ phases' \in {phases - 1, 0}
  /\ timeout' = IF tool = "run_gui" /\ phases = 2
                THEN clamp_timeout(GuiActions, now + d) ELSE timeout
  /\ UNCHANGED <<pc, calls, tool, began>>

(* The timeout fires: whatever the phase, it is the call's last.  For z3 and   *)
(* the emulator nothing lingers.                                               *)
TimesOut(linger) ==
  /\ pc = "running" /\ phases > 0 /\ tool \in Cutting \ {"run_gui"}
  /\ linger <= LingerOf(tool)
  /\ now' = now + timeout + linger
  /\ phases' = 0
  /\ UNCHANGED <<pc, calls, tool, timeout, began>>

(* The alarm of a Python phase fires once, into code that catches it: the      *)
(* phase goes on, and so may the call.                                         *)
Swallows(d) ==
  /\ pc = "running" /\ tool = "solve_check" /\ phases \in {1, 3}
  /\ d <= Escape
  /\ now' = now + timeout + d
  /\ phases' \in {phases - 1, 0}
  /\ UNCHANGED <<pc, calls, tool, timeout, began>>

Reply ==
  /\ pc = "running" /\ phases = 0
  /\ pc' = IF calls = 0 THEN "after" ELSE "calls"
  /\ UNCHANGED <<now, calls, tool, timeout, phases, began>>

(* The critic and the compaction ask the model again. *)
After(d) ==
  /\ pc = "after"
  /\ now' = now + d
  /\ pc' = "ask"
  /\ UNCHANGED <<calls, tool, timeout, phases, began>>

Longest == Higher(Higher(MaxTimeout, Ghidra), Higher(Emulation, Higher(GuiWait, GuiActions)))

Next ==
  \/ TimeLimit
  \/ \E d \in 0..AskMax : Ask(d) \/ After(d)
  \/ \E t \in Cutting, req \in Requests, d \in 0..GuiCheck : StartCall(t, req, d)
  \/ Summarize
  \/ \E d \in 0..PhaseMax : PhaseEnds(d)
  \/ \E d \in 0..Higher(Escape, Settle) : TimesOut(d) \/ Swallows(d)
  \/ Reply

Spec == Init /\ [][Next]_vars

-----------------------------------------------------------------------------
(* A tool always gets at least a second, and at most the longest timeout. *)
TypeOK ==
  /\ now \in Nat /\ began \in 0..now
  /\ pc \in {"ask", "calls", "running", "after", "stop"}
  /\ calls \in 0..MaxCalls
  /\ tool \in Tools
  /\ timeout \in 1..Longest
  /\ phases \in 0..PhasesOf(tool)

(* tests/test_tools.py says that "no tool call may outlive the run's wall-clock *)
(* budget".  How far a call does outlive it, or the least time it is granted   *)
(* at the very end: bash and run_binary by their lingering children, decompile *)
(* by the wait for a killed Ghidra, emulate not at all, solve_check by two     *)
(* more of its timeouts and what swallows an alarm twice, run_gui by its uncut *)
(* waits and a second granted timeout, summarize by its request.               *)
Gui == GuiCheck + GuiLook + GuiLast

SlackOf(t) ==
  CASE t = "solve_check" -> 2 * MaxTimeout + 2 * Escape
    [] t = "run_gui" -> MinTool + Gui
    [] t = "summarize" -> AskMax
    [] OTHER -> LingerOf(t)

CallEndsInTime ==
  pc = "running" => now <= Higher(Budget, began + MinTool) + SlackOf(tool)

(* So a run that is stopped by its time limit has outlived the budget by the   *)
(* model's time before and after the calls of one step, one long solve_check,  *)
(* and for every call of the step the least a call is granted, with what       *)
(* clamp_timeout does not cut.                                                 *)
Uncut == Higher(Higher(2 * Escape, Settle), Higher(Gui, AskMax))
GrantedCall == 3 * MinTool + Uncut
RunEndsInTime ==
  now <= Budget + 2 * AskMax + 2 * MaxTimeout + MaxCalls * GrantedCall
=============================================================================
