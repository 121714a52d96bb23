----------------------------- MODULE ToolSession -----------------------------
(* What the tools keep in ToolContext between calls: whether this environment  *)
(* can run the target, the flags that were turned down, where cut-off outputs  *)
(* went; and how a session ends.  One action is one tool call of the agent,    *)
(* with the truncation agent.py applies to every result.                       *)
EXTENDS Integers, FiniteSets, Sequences

CONSTANTS
  Targets,      \* programs in the challenge directory
  NoTarget,     \* the empty path
  Foreign,      \* those run_binary refuses: for another machine, or wine's
  GuiTools,     \* whether wine, xdotool and the others may be there, or missing
  Flags,
  BlockAt,      \* START_FAILURES_TO_BLOCK
  SameFlagLimit,
  MaxCalls      \* bound: tool calls over all runs

ASSUME SessionAssumption ==
  /\ NoTarget \notin Targets /\ Foreign \subseteq Targets /\ GuiTools \subseteq BOOLEAN
  /\ BlockAt \in Nat \ {0} /\ SameFlagLimit \in Nat /\ MaxCalls \in Nat

VARIABLES
  gui_tools,    \* they are there, on this host
  env_blocked, start_failures, env_blocked_paths,
  flag_attempts, flag, runbook,
  out_counter,
  out,          \* out_dir: which call's output each numbered file holds
  calls,        \* history: calls so far, over all runs, ...
  events,       \* ... what the targets did in this run, ...
  pointers,     \* ... the files the model was pointed to, with the call it was for, ...
  told          \* ... and whether it was told that a runbook is allowed

vars == <<gui_tools, env_blocked, start_failures, env_blocked_paths, flag_attempts, flag, runbook,
          out_counter, out, calls, events, pointers, told>>

environment == <<gui_tools, env_blocked, start_failures, env_blocked_paths>>
ending == <<flag_attempts, flag, runbook>>

(* cannot: the tool refused to start it; error: no such file, or no display.   *)
BinaryOutcomes == {"cannot", "error", "loader", "crash", "ran"}
GuiOutcomes == {"cannot", "error", "no window", "ran"}
Evidence == {"program_accepted", "two_independent_readings", "reimplementation_matches"}

Init ==
  /\ gui_tools \in GuiTools
  /\ env_blocked = FALSE /\ start_failures = 0 /\ env_blocked_paths = {}
  /\ flag_attempts = [f \in Flags |-> 0] /\ flag = {} /\ runbook = FALSE
  /\ out_counter = 0 /\ out = <<>>
  /\ calls = 0 /\ events = {} /\ pointers = {} /\ told = FALSE

Open == flag = {} /\ ~runbook

-----------------------------------------------------------------------------
(* A result is a body, short or long, in which the program may have printed    *)
(* the opening of the environment note itself, and the note if there is one.   *)
Results(long, quotes, note) == [long |-> long, quotes |-> quotes, note |-> note]

(* truncate looks for the note from the end, and cuts before what it finds. *)
FirstFound(r) == r.note /\ ~r.quotes                 \* mutant: searched from the start
FooterKept(r) == r.note

Same == 1                                            \* mutant: the counter stays
NextId == out_counter + 1

Reply(r) ==
  /\ calls < MaxCalls /\ calls' = calls + 1
  /\ \/ r.long
        /\ out_counter' = NextId
        /\ out' = [i \in DOMAIN out \cup {NextId} |-> IF i = NextId THEN calls' ELSE out[i]]
        /\ pointers' = pointers \cup {<<NextId, calls'>>}
        /\ told' = (told \/ FooterKept(r))
     \/ ~r.long
        /\ told' = (told \/ r.note)
        /\ UNCHANGED <<out_counter, out, pointers>>

-----------------------------------------------------------------------------
Strikes == start_failures + 1

AfterOne == TRUE                                     \* mutant: one failure is enough
EnoughStrikes == Strikes >= BlockAt

NoPath(p) == env_blocked_paths                       \* mutant: targets are not recorded
record_blocked_path(p) == env_blocked_paths \cup ({p} \ {NoTarget})

block_env(p) ==
  /\ env_blocked' = TRUE
  /\ env_blocked_paths' = record_blocked_path(p)
  /\ UNCHANGED <<gui_tools, start_failures>>

note_start_failure(p) ==
  /\ start_failures' = Strikes
  /\ \/ /\ EnoughStrikes
        /\ env_blocked' = TRUE
        /\ env_blocked_paths' = record_blocked_path(p)
     \/ /\ ~EnoughStrikes
        /\ UNCHANGED <<env_blocked, env_blocked_paths>>
  /\ UNCHANGED gui_tools

(* No output and a fatal signal, or a few lines that look like the loader's,   *)
(* or no window: a start failure.                                              *)
Failures == {"loader", "crash", "no window"}

Observe(p, o) ==
  /\ \/ o = "cannot" /\ block_env(p)
     \/ o \in Failures /\ note_start_failure(p)
     \/ o \in {"ran", "error"} /\ UNCHANGED environment
  /\ events' = events \cup {[target |-> p, what |-> o, call |-> calls + 1]}

RunBinary(p, o, long, quotes) ==
  /\ Open
  /\ o = "error" \/ (o = "cannot") = (p \in Foreign)
  /\ (long \/ quotes) => o = "ran"
  /\ Observe(p, o)
  /\ Reply(Results(long, quotes, env_blocked'))
  /\ UNCHANGED ending

(* run_gui says nothing of the environment when it found no file or display.   *)
(* It looks for its tools before it looks at the path, which may be empty.     *)
RunGui(p, o, long, quotes) ==
  /\ Open
  /\ (o = "cannot") = ~gui_tools /\ (o = "ran" => p \notin Foreign)
  /\ p = NoTarget => o \in {"cannot", "error"}
  /\ (long \/ quotes) => o \in {"ran", "no window"}
  /\ Observe(p, o)
  /\ Reply(Results(long, quotes, env_blocked' /\ o # "error"))
  /\ UNCHANGED ending

(* bash and the other tools, whose output may quote anything. *)
OtherTool(long, quotes) ==
  /\ Open
  /\ Reply(Results(long, quotes, FALSE))
  /\ UNCHANGED <<environment, ending, events>>

-----------------------------------------------------------------------------
(* Format and vocabulary apart, only a reading by one method is turned down.   *)
MayTryAgain(f) == flag_attempts[f] < SameFlagLimit

SubmitFlag(f, evidence, methods) ==
  /\ Open
  /\ Reply(Results(FALSE, FALSE, FALSE))
  /\ \/ /\ evidence = "two_independent_readings" /\ methods < 2
        /\ flag_attempts' = [flag_attempts EXCEPT ![f] = IF MayTryAgain(f) THEN @ + 1 ELSE @]
        /\ UNCHANGED flag
     \/ /\ ~(evidence = "two_independent_readings" /\ methods < 2)
        /\ flag' = {f}
        /\ UNCHANGED flag_attempts
  /\ UNCHANGED <<environment, runbook, events>>

(* An ill-formed flag, unknown evidence or no word on how it was verified. *)
SubmitRejected ==
  /\ Open
  /\ Reply(Results(FALSE, FALSE, FALSE))
  /\ UNCHANGED <<environment, ending, events>>

HandoffRunbook(steps) ==
  /\ Open
  /\ Reply(Results(FALSE, FALSE, FALSE))
  /\ runbook' = (env_blocked /\ steps)
  /\ UNCHANGED <<environment, flag_attempts, flag, events>>

(* Another run in the same directory, after this one or its crash: a new       *)
(* context, but the files of the last run are still there.                     *)
NewRun ==
  /\ env_blocked' = FALSE /\ start_failures' = 0 /\ env_blocked_paths' = {}
  /\ flag_attempts' = [f \in Flags |-> 0] /\ flag' = {} /\ runbook' = FALSE
  /\ out_counter' = 0
  /\ events' = {} /\ pointers' = {} /\ told' = FALSE
  /\ UNCHANGED <<gui_tools, out, calls>>

Next ==
  \/ \E p \in Targets, o \in BinaryOutcomes, long, quotes \in BOOLEAN : RunBinary(p, o, long, quotes)
  \/ \E p \in Targets \cup {NoTarget}, o \in GuiOutcomes, long, quotes \in BOOLEAN : RunGui(p, o, long, quotes)
  \/ \E long, quotes \in BOOLEAN : OtherTool(long, quotes)
  \/ \E f \in Flags, e \in Evidence, n \in 1..2 : SubmitFlag(f, e, n)
  \/ SubmitRejected
  \/ \E steps \in BOOLEAN : HandoffRunbook(steps)
  \/ NewRun

Spec == Init /\ [][Next]_vars

-----------------------------------------------------------------------------
(* The third reading by one method is the last that gets advice. *)
TypeOK ==
  /\ env_blocked \in BOOLEAN /\ start_failures \in Nat /\ env_blocked_paths \subseteq Targets
  /\ flag_attempts \in [Flags -> 0..SameFlagLimit]
  /\ flag \subseteq Flags /\ Cardinality(flag) <= 1 /\ runbook \in BOOLEAN
  /\ out_counter \in Nat /\ calls \in 0..MaxCalls /\ told \in BOOLEAN

Seen(what) == {e \in events : e.what \in what}

(* A runbook needs a refusal or BlockAt start failures of this very run: a     *)
(* missing file, an unknown option or an earlier run do not count.             *)
RunbookHasEvidence ==
  runbook => Seen({"cannot"}) # {} \/ Cardinality(Seen(Failures)) >= BlockAt

(* The runbook's header and the note name programs that did fail to start.     *)
(* Once the gate is open they name at least one, unless what was refused was   *)
(* a call without a path.                                                      *)
BlockedTargetsFailed ==
  /\ \A p \in env_blocked_paths : \E e \in Seen(Failures \cup {"cannot"}) : e.target = p
  /\ env_blocked => \/ env_blocked_paths # {}
                    \/ \E e \in Seen({"cannot"}) : e.target = NoTarget

(* truncate.py: the note "must never be the part silently dropped by           *)
(* truncation".  Once a runbook is allowed, the model has been told.           *)
ModelIsTold == env_blocked => told

(* Every pointer of this run still leads to the output it was given for, also  *)
(* in a directory with the files of earlier runs.                              *)
PointersIntact == \A q \in pointers : q[1] \in DOMAIN out /\ out[q[1]] = q[2]

(* handoff_runbook's description: "If the sandbox CAN run the program, this    *)
(* tool is rejected".                                                          *)
RunbookOnlyIfCannotRun ==
  runbook => \E p \in env_blocked_paths : ~\E e \in Seen({"ran"}) : e.target = p
=============================================================================
