-------------------------------- MODULE Agent --------------------------------
(* The ReAct loop of revagent/agent.py with context.split_messages/compact,    *)
(* context.shrink_casefile and critic.run_critic as the loop sees them.        *)
(*                                                                             *)
(* The agent is one thread; what interleaves with it is its environment: the   *)
(* model behind the LLM endpoint (what it answers, when the context overflows, *)
(* when a request fails for good), the tools (which may add notes, accept a    *)
(* flag, write a runbook, or, through the unrestricted bash, rewrite or delete *)
(* the agent's own files) and the clock.  G3's verdicts are arbitrary here;    *)
(* module Gate says which ones it gives.                                       *)
EXTENDS Integers, Sequences, FiniteSets

CONSTANTS
  MaxSteps,     \* max_steps
  KeepRecent,   \* KEEP_RECENT: exchanges a compaction keeps verbatim
  CriticMax,    \* CRITIC_MAX
  CriticIdle,   \* CRITIC_IDLE_STEPS
  LongLimit,    \* LONG_REASONING_LIMIT
  MaxCalls,     \* bound: tool calls in one assistant message
  Signatures,   \* what a step's calls can look like (names and arguments)
  Markers,      \* values of progress_marker(case file)
  Effects,      \* what the calls of this instance may do, a subset of AllEffects
  Thinking,     \* BOOLEAN or {FALSE}: may an answer's reasoning be long
  LlmFails      \* BOOLEAN or {FALSE}: may an LLM request fail after its retries

AllEffects == {"none", "long output", "note", "flag", "runbook", "exit",
               "rewrite case", "garble case", "delete case", "delete work dir"}

ASSUME AgentAssumption ==
  /\ MaxSteps \in Nat /\ KeepRecent \in Nat \ {0}
  /\ CriticMax \in Nat /\ CriticIdle \in Nat \ {0} /\ LongLimit \in Nat \ {0}
  /\ MaxCalls \in Nat \ {0}
  /\ Effects \subseteq AllEffects
  /\ Thinking \subseteq BOOLEAN /\ LlmFails \subseteq BOOLEAN

VARIABLES
  pc, step, steps, messages,
  pending,        \* calls of the current message still to be answered
  sig,            \* the current message's calls, as self.recent compares them
  recent,         \* self.recent
  noToolStreak, overStreak, compactions, criticCalls, longReasoning, g4Due,
  idle, marker, lastMarker,   \* marker: progress_marker of the case file on disk
  cause,          \* why the critic or a compaction runs
  flag, runbook,  \* ctx.flag / ctx.runbook_path are set
  caseFile,       \* "whole", "broken" (a section header is missing), "garbled"
                  \* (not UTF-8 any more) or "gone"
  workDir,        \* .revagent exists
  status, reason, resultWritten,
  \* History, for the properties only:
  overSteps,      \* steps whose context was over-size
  compactedAt,    \* steps that ended in a compaction
  lastFit         \* latest tool step whose context fitted

counters == <<noToolStreak, overStreak, compactions, criticCalls, longReasoning, g4Due>>
progress == <<idle, marker, lastMarker>>
outcome  == <<flag, runbook, status, reason, resultWritten>>
files    == <<caseFile, workDir>>
call     == <<pending, sig, recent>>
history  == <<overSteps, compactedAt, lastFit>>
vars == <<pc, step, steps, messages, call, counters, progress, cause, outcome, files, history>>

-----------------------------------------------------------------------------
(* Messages: what matters of one is its role, the step it belongs to, and for  *)
(* an assistant message its calls, for a tool message whether it               *)
(* answers a call (with its output or G3's block text), skips one because the  *)
(* session ended, or is the reply of the call that ended it.                   *)
Msg(role) == [role |-> role, step |-> step]
CallMsg(n, s) == [role |-> "call", step |-> step, n |-> n, sig |-> s]
ToolMsg(kind) == [role |-> "tool", step |-> step, kind |-> kind]

IsCall(m) == m.role = "call"
CallsOf(ms) == {i \in DOMAIN ms : IsCall(ms[i])}

(* split_messages: the tail starts at the KeepRecent-th last exchange, or at   *)
(* the first one when there are no more; never inside the two head messages.   *)
NothingKeptOfHead(ms) == 3                                          \* mutant: not the length
NothingKept(ms) == Len(ms) + 1
FewerRecent(calls, i) == Cardinality({j \in calls : j >= i}) < KeepRecent  \* mutant: one less
IsRecent(calls, i) == Cardinality({j \in calls : j >= i}) <= KeepRecent
TailStart(ms) ==
  LET idxs == CallsOf(ms)
      kept == {i \in idxs : IsRecent(idxs, i)}
  IN  IF idxs = {} THEN NothingKept(ms) ELSE CHOOSE i \in kept : \A j \in kept : i <= j
NotBanner(m) == m.role # "reset"
Middle(ms) == SelectSeq(SubSeq(ms, 3, TailStart(ms) - 1), NotBanner)
CompactedMessages(ms) ==
  SubSeq(ms, 1, 2) \o <<[role |-> "reset", step |-> 0]>> \o SubSeq(ms, TailStart(ms), Len(ms))

WarnIf(due) == IF due THEN <<Msg("warn")>> ELSE << >>

Ends(s, r) == pc' = "finish" /\ status' = s /\ reason' = r
             /\ UNCHANGED <<flag, runbook, resultWritten>>

Init ==
  /\ pc = "top" /\ step = 0 /\ steps = 0
  /\ messages = <<[role |-> "system", step |-> 0], [role |-> "task", step |-> 0]>>
  /\ pending = 0 /\ sig \in Signatures /\ recent = << >>
  /\ noToolStreak = 0 /\ overStreak = 0 /\ compactions = 0 /\ criticCalls = 0
  /\ longReasoning = 0 /\ g4Due = FALSE
  /\ idle = 0 /\ marker \in Markers /\ lastMarker = marker
  /\ cause = "none"
  /\ flag = FALSE /\ runbook = FALSE
  /\ caseFile = "whole" /\ workDir = TRUE
  /\ status = "unsolved" /\ reason = "" /\ resultWritten = FALSE
  /\ overSteps = {} /\ compactedAt = {} /\ lastFit = 0

-----------------------------------------------------------------------------
(* The head of the loop. *)
StepLimit ==
  /\ pc = "top" /\ step = MaxSteps
  /\ Ends("unsolved", "step limit")
  /\ UNCHANGED <<step, steps, messages, call, counters, progress, cause, files, history>>

TimeLimit ==
  /\ pc = "top" /\ step < MaxSteps
  /\ step' = step + 1 /\ steps' = step
  /\ Ends("unsolved", "time limit")
  /\ UNCHANGED <<messages, call, counters, progress, cause, files, history>>

NextStep ==
  /\ pc = "top" /\ step < MaxSteps
  /\ step' = step + 1 /\ steps' = step + 1
  /\ pc' = "chat"
  /\ UNCHANGED <<messages, call, counters, progress, cause, outcome, files, history>>

(* The answer ran out of output budget without a tool call: asked once more,   *)
(* with a hint that is not kept in the messages.                               *)
Truncated ==
  /\ pc = "chat" /\ pc' = "retry"
  /\ UNCHANGED <<step, steps, messages, call, counters, progress, cause, outcome, files, history>>

Asking == pc \in {"chat", "retry"}

ChatEscapes ==                                                 \* mutant: not caught
  /\ Asking /\ TRUE \in LlmFails
  /\ pc' = "raised"
  /\ UNCHANGED <<step, steps, messages, call, counters, progress, cause, outcome, files, history>>
ChatFails ==
  /\ Asking /\ TRUE \in LlmFails
  /\ Ends("unsolved", "error: llm")
  /\ UNCHANGED <<step, steps, messages, call, counters, progress, cause, files, history>>

Overflow ==
  /\ Asking
  /\ steps' = step - 1
  /\ cause' = "overflow" /\ pc' = "reduce"
  /\ overSteps' = overSteps \cup {step}
  /\ UNCHANGED <<step, messages, call, counters, progress, outcome, files, compactedAt, lastFit>>

(* A long answer counts; the LongLimit-th makes the warning due, once. *)
Thinks(long) ==
  /\ longReasoning' = IF long THEN longReasoning + 1 ELSE longReasoning
  /\ g4Due' = (long /\ longReasoning' = LongLimit)

Narrate(long) ==
  /\ Asking
  /\ Thinks(long)
  /\ noToolStreak' = noToolStreak + 1
  /\ \/ /\ noToolStreak' >= 3
        /\ messages' = Append(messages, Msg("answer"))
        /\ Ends("unsolved", "no tool calls 3x")
     \/ /\ noToolStreak' < 3
        /\ messages' = messages \o <<Msg("answer"), Msg("nudge")>> \o WarnIf(g4Due')
        /\ pc' = "top"
        /\ UNCHANGED outcome
  /\ UNCHANGED <<step, steps, call, overStreak, compactions, criticCalls, progress, cause,
                 files, history>>

WarnedCall(n, s) ==                                            \* mutant: warned too early
  Append(messages, CallMsg(n, s)) \o WarnIf(g4Due')
WithCall(n, s) == Append(messages, CallMsg(n, s))

CallTools(n, s, long) ==
  /\ Asking
  /\ Thinks(long)
  /\ noToolStreak' = 0
  /\ messages' = WithCall(n, s)
  /\ pending' = n /\ sig' = s
  /\ pc' = "tools"
  /\ UNCHANGED <<step, steps, recent, overStreak, compactions, criticCalls, progress, cause,
                 outcome, files, history>>

-----------------------------------------------------------------------------
(* _run_tools: the calls of one message, in order. *)
Answer(kind) ==
  /\ messages' = Append(messages, ToolMsg(kind))
  /\ pending' = pending - 1
  /\ UNCHANGED <<pc, step, steps, sig, recent, counters, idle, lastMarker, cause,
                 status, reason, resultWritten, history>>

EndedByFlag == flag                                            \* mutant: runbook forgotten
Ended == flag \/ runbook
NextCall == pc = "tools" /\ pending > 0 /\ ~Ended

SkippedAfterFinal ==                                           \* mutant: the loop goes on
  /\ pc = "tools" /\ pending > 0 /\ Ended
  /\ Answer("answered")
  /\ UNCHANGED <<marker, flag, runbook, files>>
SkippedCall ==
  /\ pc = "tools" /\ pending > 0 /\ Ended
  /\ Answer("skipped")
  /\ UNCHANGED <<marker, flag, runbook, files>>

BlockedCall ==
  /\ NextCall
  /\ Answer("answered")
  /\ UNCHANGED <<marker, flag, runbook, files>>

(* Any call without an effect on the loop, a failing one included: its         *)
(* exception becomes the tool message.  Output beyond the limit is saved to    *)
(* .revagent/out, which creates the directories.                               *)
PlainCall ==
  /\ NextCall
  /\ Answer("answered")
  /\ \/ "none" \in Effects /\ UNCHANGED workDir
     \/ "long output" \in Effects /\ workDir' = TRUE
  /\ UNCHANGED <<marker, flag, runbook, caseFile>>

(* A fact noted by the model or an observation recorded by a run tool. *)
NoteCall ==
  /\ NextCall
  /\ "note" \in Effects /\ caseFile = "whole"
  /\ Answer("answered")
  /\ marker' \in Markers \ {marker}
  /\ UNCHANGED <<flag, runbook, files>>

FlagCall ==
  /\ NextCall
  /\ "flag" \in Effects
  /\ Answer("final")
  /\ flag' = TRUE
  /\ UNCHANGED <<marker, runbook, files>>

RunbookCall ==
  /\ NextCall
  /\ "runbook" \in Effects /\ workDir
  /\ Answer("final")
  /\ runbook' = TRUE
  /\ UNCHANGED <<marker, flag, files>>

(* bash can do anything to the agent's own directory. *)
BashOnOwnFiles ==
  /\ NextCall
  /\ Answer("answered")
  /\ \/ /\ "rewrite case" \in Effects
        /\ workDir' = TRUE /\ caseFile' \in {"whole", "broken"} /\ marker' \in Markers
     \/ /\ "garble case" \in Effects
        /\ workDir' = TRUE /\ caseFile' = "garbled" /\ UNCHANGED marker
     \/ /\ "delete case" \in Effects
        /\ caseFile' = "gone" /\ UNCHANGED <<workDir, marker>>
     \/ /\ "delete work dir" \in Effects
        /\ workDir' = FALSE /\ caseFile' = "gone" /\ UNCHANGED marker
  /\ UNCHANGED <<flag, runbook>>

(* What gets past the handling of a tool's failures: the rest of the message   *)
(* stays unanswered.                                                           *)
LeavesMessage ==
  /\ NextCall
  /\ UNCHANGED <<step, steps, messages, call, counters, progress, cause, files, history>>

(* SystemExit is no Exception: Python of the model's that calls exit() inside  *)
(* a tool (solve_check's transform) leaves run() as well, with nothing         *)
(* written, and ends the program.                                              *)
ExitCall ==
  /\ "exit" \in Effects
  /\ LeavesMessage
  /\ pc' = "exited" /\ UNCHANGED outcome

(* The output is cut outside _execute's try: without .revagent, and with       *)
(* something in the way of creating it, the exception reaches the loop's.      *)
CutFails ==
  /\ "long output" \in Effects /\ ~workDir
  /\ LeavesMessage
  /\ Ends("unsolved", "error: output")

LeaveCall == ExitCall \/ CutFails

RunCall == PlainCall \/ NoteCall \/ FlagCall \/ RunbookCall \/ BashOnOwnFiles

(* After the last reply: the warning if due, then the reasons to stop. *)
ToolsDone ==
  /\ pc = "tools" /\ pending = 0
  /\ messages' = messages \o WarnIf(g4Due)
  /\ \/ runbook /\ Ends("runbook", "")
     \/ ~runbook /\ flag /\ Ends("solved", "")
     \/ ~Ended /\ pc' = "after" /\ UNCHANGED outcome
  /\ UNCHANGED <<step, steps, call, counters, progress, cause, files, history>>

-----------------------------------------------------------------------------
(* The end of a tool step: repeated calls, progress, idle steps. *)
LastThree(q) == IF Len(q) > 3 THEN Tail(q) ELSE q
Repeats(q) == Len(q) = 3 /\ \A k \in 1..3 : q[k] = q[1]
SeenMarker == IF caseFile = "gone" THEN lastMarker ELSE marker

ComparesCalls ==
  /\ pc = "after"
  /\ LET seen == LastThree(Append(recent, sig))
     IN  /\ recent' = IF Repeats(seen) THEN << >> ELSE seen
         /\ messages' = IF Repeats(seen) THEN Append(messages, Msg("repeat")) ELSE messages
  /\ UNCHANGED <<step, steps, pending, sig, counters, marker, files, history>>

(* A case file that is gone counts as no progress. *)
Bookkeeping ==
  /\ ComparesCalls
  /\ caseFile # "garbled"
  /\ lastMarker' = SeenMarker
  /\ idle' = IF SeenMarker # lastMarker THEN 0 ELSE idle + 1
  /\ IF idle' >= CriticIdle
       THEN pc' = "critic" /\ cause' = "idle"
       ELSE pc' = "context" /\ UNCHANGED cause
  /\ UNCHANGED outcome

(* One that cannot be decoded is not caught there, but by the whole loop's try. *)
Undecodable ==
  /\ ComparesCalls
  /\ caseFile = "garbled"
  /\ Ends("unsolved", "error: case file")
  /\ UNCHANGED <<idle, lastMarker, cause>>

(* _critic: at most CriticMax memos asked for per run; one that is empty or    *)
(* failed adds no message.                                                     *)
MayAskOneMore == criticCalls <= CriticMax                      \* mutant: off by one
MayAsk == criticCalls < CriticMax

Critic ==
  /\ pc = "critic"
  /\ \/ /\ ~MayAsk
        /\ UNCHANGED <<criticCalls, messages>>
     \/ /\ MayAsk
        /\ criticCalls' = criticCalls + 1
        /\ messages' \in {messages, Append(messages, Msg("critic"))}
  /\ IF cause = "idle"
       THEN pc' = "context" /\ idle' = 0
       ELSE pc' = "compact" /\ UNCHANGED idle
  /\ UNCHANGED <<step, steps, call, noToolStreak, overStreak, compactions, longReasoning, g4Due,
                 marker, lastMarker, cause, outcome, files, history>>

StreakStays == UNCHANGED overStreak                            \* mutant: missing reset
StreakEnds == overStreak' = 0
ContextFits ==
  /\ pc = "context"
  /\ StreakEnds
  /\ lastFit' = step
  /\ pc' = "top"
  /\ UNCHANGED <<step, steps, messages, call, noToolStreak, compactions, criticCalls,
                 longReasoning, g4Due, progress, cause, outcome, files, overSteps, compactedAt>>

ContextOver ==
  /\ pc = "context"
  /\ cause' = "threshold" /\ pc' = "reduce"
  /\ overSteps' = overSteps \cup {step}
  /\ UNCHANGED <<step, steps, messages, call, counters, progress, outcome, files,
                 compactedAt, lastFit>>

-----------------------------------------------------------------------------
(* _reduce_context *)
Reduce ==
  /\ pc = "reduce"
  /\ overStreak' = overStreak + 1
  /\ \/ overStreak' >= 3 /\ Ends("unsolved", "context cannot be reduced")
     \/ overStreak' = 2 /\ pc' = "shrink" /\ UNCHANGED outcome
     \/ overStreak' = 1 /\ pc' = "critic" /\ UNCHANGED outcome
  /\ UNCHANGED <<step, steps, messages, call, noToolStreak, compactions, criticCalls,
                 longReasoning, g4Due, progress, cause, files, history>>

Readable == caseFile \in {"whole", "broken"}

(* shrink_casefile reads the file outside its try.  A rewrite is accepted when *)
(* it mentions the four headers, which need not be header lines of their own.  *)
Shrink ==
  /\ pc = "shrink"
  /\ \/ /\ ~Readable
        /\ Ends("unsolved", "error: case file")
        /\ UNCHANGED <<caseFile, marker>>
     \/ /\ Readable
        /\ pc' = "critic" /\ UNCHANGED outcome
        /\ \/ UNCHANGED <<caseFile, marker>>
           \/ caseFile' \in {"whole", "broken"} /\ marker' \in Markers
  /\ UNCHANGED <<step, steps, messages, call, counters, idle, lastMarker, cause, workDir, history>>

(* compact: the middle is summarized into the case file, then the messages are *)
(* rebuilt from it.  The file must be readable, and whole if there is a        *)
(* summary to add.                                                             *)
HasMiddle == Middle(messages) # << >>
CanCompact == Readable /\ (HasMiddle => caseFile = "whole")

RepeatsKept == UNCHANGED recent                                \* mutant: missing reset
ForgetRepeats == recent' = << >>

Compact ==
  /\ pc = "compact"
  /\ CanCompact
  /\ compactions' = compactions + 1
  /\ messages' = CompactedMessages(messages)
  /\ ForgetRepeats
  /\ IF HasMiddle THEN marker' \in Markers ELSE UNCHANGED marker
  /\ pc' = "top"
  /\ compactedAt' = compactedAt \cup {step}
  /\ UNCHANGED <<step, steps, pending, sig, noToolStreak, overStreak, criticCalls, longReasoning,
                 g4Due, idle, lastMarker, cause, outcome, files, overSteps, lastFit>>

CompactFails ==
  /\ pc = "compact"
  /\ \/ ~CanCompact /\ Ends("unsolved", "error: case file")
     \/ HasMiddle /\ TRUE \in LlmFails /\ Ends("unsolved", "error: llm")
  /\ compactions' = compactions + 1
  /\ UNCHANGED <<step, steps, messages, call, noToolStreak, overStreak, criticCalls,
                 longReasoning, g4Due, progress, cause, files, history>>

-----------------------------------------------------------------------------
(* _finish and _report: their exceptions leave run(). *)
Finish ==
  /\ pc = "finish"
  /\ resultWritten' = workDir
  /\ pc' = IF workDir THEN "report" ELSE "raised"
  /\ UNCHANGED <<step, steps, messages, call, counters, progress, cause, flag, runbook, status,
                 reason, files, history>>

Report ==
  /\ pc = "report"
  /\ pc' = IF status = "unsolved" /\ ~Readable THEN "raised" ELSE "returned"
  /\ UNCHANGED <<step, steps, messages, call, counters, progress, cause, outcome, files, history>>

AskLlm ==
  \/ Truncated \/ ChatFails \/ Overflow
  \/ \E long \in Thinking :
       Narrate(long) \/ \E n \in 1..MaxCalls, s \in Signatures : CallTools(n, s, long)

Next ==
  \/ StepLimit \/ TimeLimit \/ NextStep
  \/ AskLlm
  \/ SkippedCall \/ BlockedCall \/ RunCall \/ LeaveCall \/ ToolsDone
  \/ Bookkeeping \/ Undecodable \/ Critic \/ ContextFits \/ ContextOver
  \/ Reduce \/ Shrink \/ Compact \/ CompactFails
  \/ Finish \/ Report

Spec == Init /\ [][Next]_vars

(* Every request ends (600 s timeout, bounded retries) and every tool has a    *)
(* timeout, so the loop always takes its next step.                            *)
FairSpec == Spec /\ WF_vars(Next)

-----------------------------------------------------------------------------
PCs == {"top", "chat", "retry", "tools", "after", "critic", "context", "reduce", "shrink",
        "compact", "finish", "report", "returned", "raised", "exited"}

PlainRoles == {"system", "task", "reset", "answer", "nudge", "warn", "repeat", "critic"}
Messages ==
  [role : PlainRoles, step : 0..MaxSteps]
    \cup [role : {"call"}, step : 1..MaxSteps, n : 1..MaxCalls, sig : Signatures]
    \cup [role : {"tool"}, step : 1..MaxSteps, kind : {"answered", "skipped", "final"}]

TypeOK ==
  /\ pc \in PCs
  /\ step \in 0..MaxSteps /\ steps \in 0..MaxSteps /\ steps <= step
  /\ messages \in Seq(Messages)
  /\ pending \in 0..MaxCalls /\ sig \in Signatures
  /\ recent \in Seq(Signatures) /\ Len(recent) <= 3
  /\ noToolStreak \in 0..3 /\ overStreak \in 0..3
  /\ compactions \in 0..MaxSteps /\ criticCalls \in 0..CriticMax
  /\ longReasoning \in 0..MaxSteps /\ g4Due \in BOOLEAN
  /\ idle \in 0..CriticIdle /\ marker \in Markers /\ lastMarker \in Markers
  /\ cause \in {"none", "idle", "overflow", "threshold"}
  /\ flag \in BOOLEAN /\ runbook \in BOOLEAN
  /\ caseFile \in {"whole", "broken", "garbled", "gone"} /\ workDir \in BOOLEAN
  /\ status \in {"unsolved", "solved", "runbook"} /\ resultWritten \in BOOLEAN
  /\ reason \in {"", "step limit", "time limit", "no tool calls 3x", "error: llm",
                 "error: case file", "error: output", "context cannot be reduced"}

(* agent.py: "a user message must never sit between an assistant tool_calls    *)
(* message and its tool messages".  Whenever the messages are sent, each       *)
(* assistant message with n calls is followed at once by its n replies, and    *)
(* there is no other reply, also after compactions, critic memos, warnings,    *)
(* blocked calls and nudges.                                                   *)
Replies(c) == (c + 1)..(c + messages[c].n)
SentWellFormed ==
  Asking =>
    /\ {i \in DOMAIN messages : messages[i].role = "tool"} = UNION {Replies(c) : c \in CallsOf(messages)}
    /\ \A c \in CallsOf(messages), r \in UNION {Replies(k) : k \in CallsOf(messages)} :
         r \in Replies(c) => messages[r].step = messages[c].step

(* However often the context is compacted, the system prompt and the task      *)
(* stay first and there is at most one reset banner, right after them: a stale *)
(* case file is never shown next to the current one.                           *)
ContextShape ==
  /\ messages[1].role = "system" /\ messages[2].role = "task"
  /\ \A i \in DOMAIN messages : messages[i].role = "reset" => i = 3

(* A compaction keeps everything said in the last KeepRecent tool steps, word  *)
(* for word, in order and as far from the end (context.py on the tail), and    *)
(* adds nothing to them.                                                       *)
OfStep(ms, s) == {<<Len(ms) - i, ms[i]>> : i \in {j \in DOMAIN ms : ms[j].step = s}}
CallSteps == {messages[c].step : c \in CallsOf(messages)}
RecentSteps == {s \in CallSteps : Cardinality({t \in CallSteps : t >= s}) <= KeepRecent}
CompactionKeepsRecent ==
  [][compactedAt' # compactedAt
       => \A s \in RecentSteps : OfStep(messages', s) = OfStep(messages, s)]_vars

(* Once a call has set the flag or written the runbook, no later call of the   *)
(* message runs and the model is not asked again; before that nothing ends it. *)
AfterAcceptance ==
  /\ Ended <=> \E i \in DOMAIN messages : messages[i].role = "tool" /\ messages[i].kind = "final"
  /\ \A i, j \in DOMAIN messages :
       i < j /\ messages[i].role = "tool" /\ messages[i].kind = "final"
         => \/ messages[j].role = "tool" /\ messages[j].kind = "skipped"
            \/ messages[j].role = "warn" /\ j = Len(messages)

(* result.json never contradicts what the tools accepted: "solved" exactly for *)
(* a flag, "runbook" exactly for a runbook, and never both, whichever order    *)
(* the calls of the last message came in.                                      *)
StatusMatchesOutcome ==
  resultWritten => /\ status = "solved" <=> flag
                   /\ status = "runbook" <=> runbook
                   /\ ~(flag /\ runbook)

(* The model is told "you have repeated the same tool call 3 times" only when  *)
(* its last three messages with calls made the same calls, and all three since *)
(* the last compaction: what it did before one it may no longer see.           *)
RepeatIsTrue ==
  [][pc = "after" /\ messages' # messages
       => \E i \in CallsOf(messages) :
            /\ Cardinality({j \in CallsOf(messages) : j >= i}) = 3
            /\ \A j \in CallsOf(messages) : j >= i => messages[j].sig = messages[i].sig
            /\ \A s \in compactedAt : s < messages[i].step]_vars

(* A run is given up as irreducible only after two compactions with no fitting *)
(* tool step in between.                                                       *)
GivesUpAfterTwoCompactions ==
  reason = "context cannot be reduced"
    => /\ step \in overSteps
       /\ Cardinality({s \in compactedAt : s > lastFit}) = 2

(* The loop ends, whatever the model answers and whichever requests fail, and  *)
(* result.json is written, unless a tool call ended the program or .revagent   *)
(* was deleted; it hands its result over unless the case file it shows at the  *)
(* end was deleted or garbled.                                                 *)
RunReturns ==
  <>(\/ resultWritten /\ (pc = "returned" \/ (pc = "raised" /\ ~Readable))
     \/ pc = "raised" /\ ~workDir
     \/ pc = "exited")

(* agent.py: a case file the model deleted is "a tool-level mistake to recover *)
(* from, not a reason to lose the run".                                        *)
DeletedCaseFileIsSurvived == reason # "error: case file"
=============================================================================
