-------------------------------- MODULE Gate --------------------------------
(* The G3 gate of revagent/gate.py: it watches the script bodies of the tool  *)
(* calls the model makes, blocks the StreakLimit-th consecutive re-edit of a   *)
(* script, and gives up ("releases") after ReleaseAfter blocked steps, after   *)
(* which it stays quiet for CooldownSteps steps.                               *)
(*                                                                             *)
(* One call of Gate.check is the action BeginCheck (or Quiet or NoScripts,     *)
(* which return at once), one action per tool call of the step, and FinishStep *)
(* or CheckError, which return the verdicts.  The agent only calls the gate on *)
(* a step that has tool calls, so step numbers grow but need not be adjacent.  *)
EXTENDS Integers, Sequences

CONSTANTS
  Bodies,         \* what script_body() can return: scripts, up to their text
  NoBody,         \* None: the call carries no script
  Similar,        \* the pairs <<a, b>> for which similar(a, b) is true
  StreakLimit,    \* STREAK_LIMIT
  ReleaseAfter,   \* RELEASE_AFTER
  CooldownSteps,  \* COOLDOWN_STEPS
  MaxSteps,       \* the agent's max_steps
  MaxCalls,       \* bound: tool calls in one assistant message
  MayFail         \* whether an exception can leave _check half-way

ASSUME GateAssumption ==
  /\ NoBody \notin Bodies
  /\ Similar \subseteq Bodies \X Bodies
  /\ StreakLimit \in Nat /\ StreakLimit > 1
  /\ ReleaseAfter \in Nat \ {0}
  /\ CooldownSteps \in Nat \ {0}
  /\ MaxSteps \in Nat \ {0}
  /\ MaxCalls \in Nat \ {0}
  /\ MayFail \in BOOLEAN

VARIABLES
  step,           \* step number of the latest check
  calls,          \* the bodies of that step's calls, in call order
  pos,            \* index of the call the loop looks at next; 0 between checks
  verdicts,       \* "allow" or "block", one per call examined
  blockedHere,    \* blocked_here
  streak, lastBody, blocking, blockedSteps, cooldownUntil,
  blocks, maxStreak,
  \* What happened, recorded independently of the gate's own counters:
  trail,          \* the last StreakLimit things the gate examined, newest first:
                  \* a body, or NoBody for a step without any script
  blockedRun,     \* checks in a row, up to the latest, that returned a block,
                  \* counted anew from every script that was not a re-edit
  reedits,        \* a call of the current check was similar to the one before
  releasedAt      \* step of the latest release, 0 if none

gateVars == <<streak, lastBody, blocking, blockedSteps, cooldownUntil, blocks, maxStreak>>
loopVars == <<step, calls, pos, verdicts, blockedHere>>
history  == <<trail, blockedRun, reedits, releasedAt>>
vars     == <<loopVars, gateVars, history>>

Entry == Bodies \cup {NoBody}
CallLists == UNION {[1..n -> Entry] : n \in 1..MaxCalls}
AllowAll(cs) == [k \in DOMAIN cs |-> "allow"]
Shift(entry) == [k \in 1..StreakLimit |-> IF k = 1 THEN entry ELSE trail[k - 1]]
SameArtifact(a, b) == <<a, b>> \in Similar

Init ==
  /\ step = 0 /\ calls = << >> /\ pos = 0 /\ verdicts = << >> /\ blockedHere = FALSE
  /\ streak = 0 /\ lastBody = NoBody /\ blocking = FALSE /\ blockedSteps = 0
  /\ cooldownUntil = 0 /\ blocks = 0 /\ maxStreak = 0
  /\ trail = [k \in 1..StreakLimit |-> NoBody]
  /\ blockedRun = 0 /\ reedits = FALSE /\ releasedAt = 0

-----------------------------------------------------------------------------
LiftBlockKeepsCount == blocking' = FALSE /\ UNCHANGED blockedSteps  \* mutant: no reset
LiftBlock == blocking' = FALSE /\ blockedSteps' = 0

(* _reset: forget the streak and lift any block. *)
ResetKeepsStreak == LiftBlock /\ UNCHANGED <<streak, lastBody>>     \* mutant: half a reset
Reset == LiftBlock /\ streak' = 0 /\ lastBody' = NoBody

Arrives(s, cs) ==
  /\ pos = 0
  /\ s > step
  /\ step' = s /\ calls' = cs /\ blockedHere' = FALSE
  /\ reedits' = FALSE

(* step <= cooldown_until: every call is allowed and nothing is tracked. *)
Quiet(s, cs) ==
  /\ Arrives(s, cs)
  /\ s <= cooldownUntil
  /\ verdicts' = AllowAll(cs)
  /\ blockedRun' = 0
  /\ UNCHANGED <<pos, gateVars, trail, releasedAt>>

(* No call of the step carries a script: the model changed what it is doing. *)
NoScripts(s, cs) ==
  /\ Arrives(s, cs)
  /\ s > cooldownUntil
  /\ \A k \in DOMAIN cs : cs[k] = NoBody
  /\ verdicts' = AllowAll(cs)
  /\ Reset
  /\ trail' = Shift(NoBody)
  /\ blockedRun' = 0
  /\ UNCHANGED <<pos, cooldownUntil, blocks, maxStreak, releasedAt>>

BeginCheck(s, cs) ==
  /\ Arrives(s, cs)
  /\ s > cooldownUntil
  /\ \E k \in DOMAIN cs : cs[k] # NoBody
  /\ pos' = 1
  /\ verdicts' = << >>
  /\ UNCHANGED <<gateVars, trail, blockedRun, releasedAt>>

(* A call without a script next to one with a script neither counts nor lifts. *)
NeutralCall ==
  /\ pos \in DOMAIN calls
  /\ calls[pos] = NoBody
  /\ verdicts' = Append(verdicts, "allow")
  /\ pos' = pos + 1
  /\ UNCHANGED <<step, calls, blockedHere, gateVars, history>>

Peak(n) == IF n > maxStreak THEN n ELSE maxStreak

(* The tail of the loop body, once the streak of this call is known. *)
Judge(body) ==
  /\ lastBody' = body
  /\ maxStreak' = Peak(streak')
  /\ verdicts' = Append(verdicts, IF streak' < StreakLimit THEN "allow" ELSE "block")
  /\ blocks' = IF streak' >= StreakLimit THEN blocks + 1 ELSE blocks
  /\ blockedHere' = (blockedHere \/ streak' >= StreakLimit)
  /\ trail' = Shift(body)
  /\ pos' = pos + 1
  /\ UNCHANGED <<step, calls, cooldownUntil, releasedAt>>

ReEdit ==
  /\ pos \in DOMAIN calls
  /\ calls[pos] # NoBody /\ lastBody # NoBody
  /\ SameArtifact(lastBody, calls[pos])
  /\ streak' = streak + 1
  /\ reedits' = TRUE
  /\ UNCHANGED <<blocking, blockedSteps, blockedRun>>
  /\ Judge(calls[pos])

OtherScript ==
  /\ pos \in DOMAIN calls
  /\ calls[pos] # NoBody
  /\ lastBody = NoBody \/ ~SameArtifact(lastBody, calls[pos])
  /\ streak' = 1
  /\ LiftBlock
  /\ blockedRun' = 0
  /\ UNCHANGED reedits
  /\ Judge(calls[pos])

GivesUpLate == blockedSteps + 1 > ReleaseAfter                      \* mutant: off by one
GivesUp == blockedSteps + 1 >= ReleaseAfter

QuietFor == CooldownSteps                                           \* mutant: not a step number
QuietUntil == step + CooldownSteps

Release ==
  /\ GivesUp
  /\ cooldownUntil' = QuietUntil
  /\ releasedAt' = step
  /\ Reset

KeepBlocking ==
  /\ ~GivesUp
  /\ blocking' = TRUE
  /\ blockedSteps' = blockedSteps + 1
  /\ UNCHANGED <<streak, lastBody, cooldownUntil, releasedAt>>

FinishStep ==
  /\ pos = Len(calls) + 1
  /\ pos' = 0
  /\ \/ /\ blockedHere
        /\ Release \/ KeepBlocking
        /\ blockedRun' = blockedRun + 1
     \/ /\ ~blockedHere
        /\ blockedRun' = 0
        /\ UNCHANGED <<streak, lastBody, blocking, blockedSteps, cooldownUntil, releasedAt>>
  /\ UNCHANGED <<step, calls, verdicts, blockedHere, blocks, maxStreak, trail, reedits>>

(* The except clause of check: whatever was counted so far stays counted, and *)
(* every call of the step, also one found blocked already, is allowed.        *)
CheckError ==
  /\ MayFail
  /\ pos \in DOMAIN calls
  /\ pos' = 0
  /\ verdicts' = AllowAll(calls)
  /\ blockedRun' = 0
  /\ UNCHANGED <<step, calls, blockedHere, gateVars, trail, reedits, releasedAt>>

Check(s, cs) == Quiet(s, cs) \/ NoScripts(s, cs) \/ BeginCheck(s, cs)
LoopStep == NeutralCall \/ ReEdit \/ OtherScript

Next ==
  \/ \E s \in 1..MaxSteps, cs \in CallLists : Check(s, cs)
  \/ LoopStep
  \/ FinishStep
  \/ CheckError

Spec == Init /\ [][Next]_vars

-----------------------------------------------------------------------------
FlagsOK == blockedHere \in BOOLEAN /\ blocking \in BOOLEAN /\ reedits \in BOOLEAN

DataOK ==
  /\ step \in 0..MaxSteps
  /\ calls \in CallLists \cup {<< >>}
  /\ pos \in 0..(Len(calls) + 1)
  /\ verdicts \in Seq({"allow", "block"})
  /\ streak \in Nat
  /\ lastBody \in Entry
  /\ blockedSteps \in 0..(ReleaseAfter - 1)
  /\ cooldownUntil \in 0..(MaxSteps + CooldownSteps)
  /\ blocks \in Nat
  /\ maxStreak \in Nat
  /\ trail \in [1..StreakLimit -> Entry]
  /\ blockedRun \in Nat
  /\ releasedAt \in 0..MaxSteps

(* The types of the gate's state; between checks blocked_steps is below         *)
(* RELEASE_AFTER, because reaching it releases the block.                       *)
TypeOK == FlagsOK /\ DataOK

(* The n newest things the gate examined are scripts, each a re-edit of the   *)
(* one before it.                                                             *)
ChainOf(n) ==
  /\ \A k \in 1..n : trail[k] # NoBody
  /\ \A k \in 1..(n - 1) : SameArtifact(trail[k + 1], trail[k])

JustBlocked == pos > 0 /\ pos' = pos + 1 /\ verdicts' = Append(verdicts, "block")

(* A call is blocked only as the StreakLimit-th of StreakLimit consecutive     *)
(* similar scripts, with no script-free step, other script, release or lifted  *)
(* block in between: the counters gate.py carries from step to step are never  *)
(* left over from an earlier script.                                           *)
BlockJustified == [][JustBlocked => ChainOf(StreakLimit)']_vars

(* After a release no call is blocked for CooldownSteps steps, whatever the    *)
(* model sends meanwhile (detectors.py: "then stays quiet for 10 steps").      *)
QuietAfterRelease ==
  [][JustBlocked /\ releasedAt > 0 => step > releasedAt + CooldownSteps]_vars

(* G3_TEXT: a step that does not re-edit the script, be it a different script, *)
(* another tool or notes, lifts the block: once such a step was examined to    *)
(* its end no block is pending and the next re-edit counts from the start.     *)
LiftUnblocks ==
  [][(FinishStep /\ ~reedits) \/ NoScripts(step', calls')
       => ~blocking' /\ blockedSteps' = 0 /\ streak' <= 1]_vars

(* What result.json reports of the gate agrees with itself: gate_blocks is     *)
(* zero exactly when max_script_streak stayed below the limit.                 *)
SignalsAgree == blocks = 0 <=> maxStreak < StreakLimit

(* What holds of gate.py's "a wrong block costs at most RELEASE_AFTER steps"    *)
(* for messages with any number of calls: a model that does nothing but re-edit *)
(* one script is blocked in at most ReleaseAfter checks, then let go.  A script *)
(* that is not a re-edit starts the count anew, also one in the middle of a     *)
(* message whose other calls are blocked.                                       *)
BlockCostBounded == blockedRun <= ReleaseAfter
=============================================================================
