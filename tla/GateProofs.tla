----------------------------- MODULE GateProofs -----------------------------
(* Theorems about the G3 gate, for every set of scripts, every similarity     *)
(* relation (symmetric, transitive or neither) and all limits.                 *)
EXTENDS Gate, TLAPS, SequenceTheorems

(* What a check is called with is a sequence of entries. *)
LEMMA CallListSeq ==
  ASSUME NEW cs \in CallLists
  PROVE  /\ cs \in Seq(Entry)
         /\ Len(cs) \in 1..MaxCalls
         /\ DOMAIN cs = 1..Len(cs)
         /\ AllowAll(cs) \in Seq({"allow", "block"})
<1>1. PICK n \in 1..MaxCalls : cs \in [1..n -> Entry]
  BY DEF CallLists
<1>2. n \in Nat
  BY GateAssumption
<1>3. cs \in Seq(Entry) /\ Len(cs) = n /\ DOMAIN cs = 1..n
  BY <1>1, <1>2, SeqDef, LenProperties
<1>4. AllowAll(cs) \in [1..n -> {"allow", "block"}]
  BY <1>3 DEF AllowAll
<1>5. AllowAll(cs) \in Seq({"allow", "block"})
  BY <1>2, <1>4, SeqDef
<1>. QED  BY <1>1, <1>3, <1>5

(* Where the loop stands inside the step's calls. *)
LEMMA LoopPosition ==
  ASSUME DataOK
  PROVE  /\ Len(calls) \in Nat /\ Len(calls) <= MaxCalls
         /\ pos \in Nat
         /\ pos \in DOMAIN calls => /\ calls \in CallLists
                                    /\ calls[pos] \in Entry
                                    /\ pos \in 1..Len(calls)
<1>1. CASE calls \in CallLists
  BY <1>1, CallListSeq, GateAssumption DEF DataOK
<1>2. CASE calls = << >>
  BY <1>2, GateAssumption DEF DataOK
<1>. QED  BY <1>1, <1>2 DEF DataOK

(* A new entry pushes the trail by one place. *)
LEMMA ShiftTrail ==
  ASSUME trail \in [1..StreakLimit -> Entry], NEW e \in Entry
  PROVE  /\ Shift(e) \in [1..StreakLimit -> Entry]
         /\ Shift(e)[1] = e
         /\ \A k \in 1..StreakLimit : k > 1 => Shift(e)[k] = trail[k - 1]
BY GateAssumption DEF Shift

(* The part of the loop body that re-edits and other scripts share. *)
LEMMA JudgeType ==
  ASSUME DataOK, NEW body \in Entry, pos \in DOMAIN calls, Judge(body),
         streak' \in Nat, blockedSteps' \in 0..(ReleaseAfter - 1), blockedRun' \in Nat
  PROVE  DataOK'
<1>1. /\ step' \in 0..MaxSteps
      /\ calls' \in CallLists \cup {<< >>}
      /\ cooldownUntil' \in 0..(MaxSteps + CooldownSteps)
      /\ blockedRun' \in Nat
      /\ releasedAt' \in 0..MaxSteps
  BY DEF DataOK, Judge, Peak
<1>2. pos' \in 0..(Len(calls') + 1)
  <2>1. pos' = pos + 1 /\ calls' = calls
    BY DEF Judge
  <2>2. pos \in 1..Len(calls) /\ Len(calls) \in Nat
    BY LoopPosition
  <2>3. pos + 1 \in 0..(Len(calls) + 1)
    BY <2>2
  <2>. QED  BY <2>1, <2>3
<1>3. verdicts' \in Seq({"allow", "block"})
  BY DEF Judge, Peak, DataOK
<1>4. blocks' \in Nat /\ maxStreak' \in Nat
  BY GateAssumption DEF Judge, Peak, DataOK
<1>5. lastBody' \in Entry
  BY DEF Judge, Peak
<1>6. trail' \in [1..StreakLimit -> Entry]
  BY ShiftTrail DEF Judge, Peak, DataOK
<1>. QED  BY <1>1, <1>2, <1>3, <1>4, <1>5, <1>6 DEF DataOK

-----------------------------------------------------------------------------
LEMMA DataPreserved == DataOK /\ [Next]_vars => DataOK'
<1>. SUFFICES ASSUME DataOK, [Next]_vars PROVE DataOK'
  OBVIOUS
<1>. USE GateAssumption
<1>1. ASSUME NEW s \in 1..MaxSteps, NEW cs \in CallLists, Quiet(s, cs) PROVE DataOK'
  BY <1>1, CallListSeq DEF Quiet, Arrives, gateVars, DataOK
<1>2. ASSUME NEW s \in 1..MaxSteps, NEW cs \in CallLists, NoScripts(s, cs) PROVE DataOK'
  <2>1. NoBody \in Entry
    BY DEF Entry
  <2>2. Shift(NoBody) \in [1..StreakLimit -> Entry]
    BY <2>1, ShiftTrail DEF DataOK
  <2>3. cs \in CallLists /\ AllowAll(cs) \in Seq({"allow", "block"}) /\ Len(cs) \in Nat
    BY CallListSeq
  <2>4. /\ step' = s /\ calls' = cs /\ pos' = 0 /\ verdicts' = AllowAll(cs)
        /\ streak' = 0 /\ lastBody' = NoBody /\ blockedSteps' = 0
        /\ trail' = Shift(NoBody) /\ blockedRun' = 0
        /\ UNCHANGED <<cooldownUntil, blocks, maxStreak, releasedAt>>
    BY <1>2 DEF NoScripts, Arrives, Reset, LiftBlock
  <2>5. /\ step' \in 0..MaxSteps /\ streak' \in Nat /\ blockedSteps' \in 0..(ReleaseAfter - 1)
        /\ blockedRun' \in Nat
    BY <2>4
  <2>6. pos' \in 0..(Len(calls') + 1)
    BY <2>3, <2>4
  <2>7. calls' \in CallLists \cup {<< >>}
    BY <2>3, <2>4
  <2>. QED  BY <2>1, <2>2, <2>3, <2>4, <2>5, <2>6, <2>7 DEF DataOK
<1>3. ASSUME NEW s \in 1..MaxSteps, NEW cs \in CallLists, BeginCheck(s, cs) PROVE DataOK'
  BY <1>3, CallListSeq DEF BeginCheck, Arrives, gateVars, DataOK
<1>4. CASE NeutralCall
  BY <1>4, LoopPosition DEF NeutralCall, gateVars, history, DataOK
<1>5. CASE ReEdit
  <2>1. streak' \in Nat /\ blockedSteps' \in 0..(ReleaseAfter - 1) /\ blockedRun' \in Nat
    <3>1. streak \in Nat /\ blockedSteps \in 0..(ReleaseAfter - 1) /\ blockedRun \in Nat
      BY DEF DataOK
    <3>2. streak' = streak + 1 /\ blockedSteps' = blockedSteps /\ blockedRun' = blockedRun
      BY <1>5 DEF ReEdit
    <3>. QED  BY <3>1, <3>2
  <2>. QED  BY <1>5, <2>1, LoopPosition, JudgeType DEF ReEdit
<1>6. CASE OtherScript
  <2>1. streak' \in Nat /\ blockedSteps' \in 0..(ReleaseAfter - 1) /\ blockedRun' \in Nat
    BY <1>6 DEF OtherScript, LiftBlock, DataOK
  <2>. QED  BY <1>6, <2>1, LoopPosition, JudgeType DEF OtherScript
<1>7. CASE FinishStep
  <2>1. /\ pos' = 0
        /\ UNCHANGED <<step, calls, verdicts, blocks, maxStreak, trail>>
        /\ blockedRun' \in {0, blockedRun + 1}
    BY <1>7 DEF FinishStep
  <2>2. /\ streak' \in {0, streak} /\ lastBody' \in {NoBody, lastBody}
        /\ cooldownUntil' \in {cooldownUntil, step + CooldownSteps}
        /\ releasedAt' \in {releasedAt, step}
    BY <1>7 DEF FinishStep, Release, KeepBlocking, QuietUntil, Reset, LiftBlock
  <2>3. blockedSteps' \in 0..(ReleaseAfter - 1)
    <3>1. \/ blockedSteps' = 0
          \/ blockedSteps' = blockedSteps
          \/ blockedSteps' = blockedSteps + 1 /\ ~ (blockedSteps + 1 >= ReleaseAfter)
      BY <1>7 DEF FinishStep, Release, KeepBlocking, GivesUp, Reset, LiftBlock
    <3>2. blockedSteps \in 0..(ReleaseAfter - 1)
      BY DEF DataOK
    <3>. QED  BY <3>1, <3>2
  <2>4. pos' \in 0..(Len(calls') + 1) /\ blockedRun' \in Nat
    BY <2>1, LoopPosition DEF DataOK
  <2>5. /\ streak' \in Nat /\ lastBody' \in Entry
        /\ cooldownUntil' \in 0..(MaxSteps + CooldownSteps)
        /\ releasedAt' \in 0..MaxSteps
    BY <2>2 DEF DataOK, Entry
  <2>. QED  BY <2>1, <2>3, <2>4, <2>5 DEF DataOK
<1>8. CASE CheckError
  BY <1>8, LoopPosition, CallListSeq DEF CheckError, gateVars, DataOK
<1>9. CASE UNCHANGED vars
  BY <1>9 DEF vars, loopVars, gateVars, history, DataOK
<1>. QED
  BY <1>1, <1>2, <1>3, <1>4, <1>5, <1>6, <1>7, <1>8, <1>9 DEF Next, Check, LoopStep

LEMMA FlagsPreserved == FlagsOK /\ [Next]_vars => FlagsOK'
<1>. SUFFICES ASSUME FlagsOK, [Next]_vars PROVE FlagsOK'
  OBVIOUS
<1>. USE DEF FlagsOK
<1>1. ASSUME NEW s \in 1..MaxSteps, NEW cs \in CallLists, Check(s, cs) PROVE FlagsOK'
  BY <1>1 DEF Check, Quiet, NoScripts, BeginCheck, Arrives, Reset, LiftBlock, gateVars
<1>2. CASE NeutralCall
  BY <1>2 DEF NeutralCall, gateVars, history
<1>3. CASE ReEdit
  BY <1>3 DEF ReEdit, Judge
<1>4. CASE OtherScript
  BY <1>4 DEF OtherScript, LiftBlock, Judge
<1>5. CASE FinishStep
  BY <1>5 DEF FinishStep, Release, GivesUp, QuietUntil, Reset, LiftBlock, KeepBlocking
<1>6. CASE CheckError
  BY <1>6 DEF CheckError, gateVars
<1>7. CASE UNCHANGED vars
  BY <1>7 DEF vars, loopVars, gateVars, history
<1>. QED  BY <1>1, <1>2, <1>3, <1>4, <1>5, <1>6, <1>7 DEF Next, LoopStep

(* A check never leaves the gate's variables outside their types; between     *)
(* checks blocked_steps stays below RELEASE_AFTER.                             *)
THEOREM TypeCorrect == Spec => []TypeOK
<1>1. Init => FlagsOK
  BY DEF Init, FlagsOK
<1>2. Init => DataOK
  BY GateAssumption DEF Init, DataOK, Entry
<1>. QED  BY <1>1, <1>2, DataPreserved, FlagsPreserved, PTL DEF Spec, TypeOK

-----------------------------------------------------------------------------
(* The streak counter against what was examined: the newest min(streak,       *)
(* StreakLimit) entries of the trail are a chain of re-edits ending in         *)
(* lastBody.                                                                   *)
ChainInv ==
  /\ lastBody = NoBody => streak = 0
  /\ lastBody # NoBody => streak > 0 /\ trail[1] = lastBody
  /\ \A k \in 1..StreakLimit : k <= streak => trail[k] # NoBody
  /\ \A k \in 1..StreakLimit :
       k < streak /\ k < StreakLimit => SameArtifact(trail[k + 1], trail[k])

LEMMA ChainReEdit == TypeOK /\ ChainInv /\ ReEdit => ChainInv'
<1>. SUFFICES ASSUME DataOK, ChainInv, ReEdit PROVE ChainInv'
  BY DEF TypeOK
<1>. DEFINE body == calls[pos]
<1>1. /\ body \in Entry /\ body # NoBody /\ lastBody # NoBody
      /\ SameArtifact(lastBody, body)
      /\ streak \in Nat /\ streak > 0 /\ streak' = streak + 1
      /\ lastBody' = body /\ trail' = Shift(body) /\ trail[1] = lastBody
  BY LoopPosition DEF ReEdit, Judge, ChainInv, DataOK
<1>2. /\ trail'[1] = body
      /\ \A k \in 1..StreakLimit : k > 1 => trail'[k] = trail[k - 1]
  BY <1>1, ShiftTrail DEF DataOK
<1>3. ASSUME NEW k \in 1..StreakLimit, k <= streak' PROVE trail'[k] # NoBody
  <2>1. CASE k = 1
    BY <1>1, <1>2, <2>1
  <2>2. CASE k > 1
    <3>1. k - 1 \in 1..StreakLimit /\ k - 1 <= streak
      BY <1>1, <1>3, <2>2, GateAssumption
    <3>. QED  BY <1>2, <2>2, <3>1 DEF ChainInv
  <2>. QED  BY <2>1, <2>2
<1>4. ASSUME NEW k \in 1..StreakLimit, k < streak', k < StreakLimit
      PROVE  SameArtifact(trail'[k + 1], trail'[k])
  <2>1. k + 1 \in 1..StreakLimit /\ trail'[k + 1] = trail[k]
    BY <1>2, <1>4, GateAssumption
  <2>2. CASE k = 1
    BY <1>1, <1>2, <2>1, <2>2
  <2>3. CASE k > 1
    <3>1. k - 1 \in 1..StreakLimit /\ k - 1 < streak /\ k - 1 < StreakLimit /\ (k - 1) + 1 = k
      BY <1>1, <1>4, <2>3, GateAssumption
    <3>2. SameArtifact(trail[k], trail[k - 1])
      BY <3>1 DEF ChainInv
    <3>. QED  BY <1>2, <2>1, <2>3, <3>2
  <2>. QED  BY <2>2, <2>3
<1>. QED  BY <1>1, <1>2, <1>3, <1>4 DEF ChainInv, SameArtifact

LEMMA ChainPreserved == TypeOK /\ ChainInv /\ [Next]_vars => ChainInv'
<1>. SUFFICES ASSUME DataOK, TypeOK, ChainInv, [Next]_vars PROVE ChainInv'
  BY DEF TypeOK
<1>. USE GateAssumption DEF ChainInv, SameArtifact
<1>1. ASSUME NEW s \in 1..MaxSteps, NEW cs \in CallLists, Check(s, cs) PROVE ChainInv'
  <2>1. CASE NoScripts(s, cs)
    BY <2>1 DEF NoScripts, Reset, LiftBlock
  <2>. QED  BY <1>1, <2>1 DEF Check, Quiet, BeginCheck, gateVars
<1>2. CASE NeutralCall
  BY <1>2 DEF NeutralCall, gateVars, history
<1>3. CASE ReEdit
  BY <1>3, ChainReEdit
<1>4. CASE OtherScript
  <2>1. streak' = 1 /\ lastBody' = calls[pos] /\ calls[pos] # NoBody /\ trail' = Shift(calls[pos])
    BY <1>4 DEF OtherScript, LiftBlock, Judge
  <2>2. trail'[1] = calls[pos]
    BY <1>4, <2>1, LoopPosition, ShiftTrail DEF OtherScript, DataOK
  <2>. QED  BY <2>1, <2>2
<1>5. CASE FinishStep
  BY <1>5 DEF FinishStep, Release, GivesUp, QuietUntil, Reset, LiftBlock, KeepBlocking
<1>6. CASE CheckError
  BY <1>6 DEF CheckError, gateVars
<1>7. CASE UNCHANGED vars
  BY <1>7 DEF vars, gateVars, history
<1>. QED  BY <1>1, <1>2, <1>3, <1>4, <1>5, <1>6, <1>7 DEF Next, LoopStep

(* Only a call whose streak has reached StreakLimit is answered with a block. *)
LEMMA BlockingStep ==
  ASSUME DataOK, [Next]_vars, JustBlocked
  PROVE  (ReEdit \/ OtherScript) /\ streak' >= StreakLimit
<1>. USE DEF JustBlocked
<1>1. pos \in Nat /\ pos > 0 /\ pos' = pos + 1 /\ verdicts \in Seq({"allow", "block"})
  BY LoopPosition DEF DataOK
<1>2. ASSUME NEW v \in {"allow", "block"}, Append(verdicts, v) = Append(verdicts, "block")
      PROVE  v = "block"
  BY <1>1, <1>2, AppendProperties
<1>3. LoopStep
  BY <1>1 DEF Next, Check, Quiet, NoScripts, BeginCheck, Arrives, FinishStep, CheckError,
              vars, loopVars
<1>4. ~NeutralCall
  BY <1>1, <1>2 DEF NeutralCall
<1>5. streak' \in Nat
  BY <1>3, <1>4 DEF LoopStep, ReEdit, OtherScript, DataOK
<1>6. ASSUME NEW body, Judge(body) PROVE streak' >= StreakLimit
  BY <1>2, <1>5, <1>6, GateAssumption DEF Judge, Peak
<1>. QED  BY <1>3, <1>4, <1>6 DEF LoopStep, ReEdit, OtherScript

(* A call is only ever blocked as the StreakLimit-th of consecutive similar    *)
(* scripts: no counter survives from an earlier script, a lifted block, a      *)
(* release or a failed check.                                                  *)
THEOREM BlocksAreJustified == Spec => BlockJustified
<1>1. Init => ChainInv
  BY GateAssumption DEF Init, ChainInv
<1>2. TypeOK /\ ChainInv /\ ChainInv' /\ [Next]_vars => [JustBlocked => ChainOf(StreakLimit)']_vars
  <2>. SUFFICES ASSUME DataOK, ChainInv', [Next]_vars, JustBlocked
                PROVE  ChainOf(StreakLimit)'
    BY DEF TypeOK
  <2>1. streak' \in Nat /\ streak' >= StreakLimit
    <3>1. (ReEdit \/ OtherScript) /\ streak' >= StreakLimit
      BY BlockingStep
    <3>2. streak' \in Nat
      BY <3>1 DEF ReEdit, OtherScript, DataOK
    <3>. QED  BY <3>1, <3>2
  <2>2. \A k \in 1..StreakLimit : trail'[k] # NoBody
    BY <2>1, GateAssumption DEF ChainInv
  <2>3. ASSUME NEW k \in 1..(StreakLimit - 1) PROVE SameArtifact(trail'[k + 1], trail'[k])
    <3>1. k \in 1..StreakLimit /\ k < streak' /\ k < StreakLimit
      BY <2>1, GateAssumption
    <3>. QED  BY <3>1 DEF ChainInv, SameArtifact
  <2>. QED  BY <2>2, <2>3 DEF ChainOf, SameArtifact
<1>. QED
  BY <1>1, <1>2, TypeCorrect, ChainPreserved, PTL DEF Spec, BlockJustified

-----------------------------------------------------------------------------
(* cooldown_until is the end of the latest release's quiet time, and the loop  *)
(* only runs after it.                                                         *)
CooldownInv ==
  /\ releasedAt > 0 => cooldownUntil = releasedAt + CooldownSteps
  /\ pos > 0 => step > cooldownUntil

LEMMA CooldownPreserved == TypeOK /\ CooldownInv /\ [Next]_vars => CooldownInv'
<1>. SUFFICES ASSUME DataOK, CooldownInv, [Next]_vars PROVE CooldownInv'
  BY DEF TypeOK
<1>. USE GateAssumption DEF CooldownInv, DataOK
<1>1. ASSUME NEW s \in 1..MaxSteps, NEW cs \in CallLists, Check(s, cs) PROVE CooldownInv'
  <2>1. /\ cooldownUntil' = cooldownUntil /\ releasedAt' = releasedAt /\ pos = 0
        /\ pos' # 0 => s > cooldownUntil
        /\ step' = s
    BY <1>1 DEF Check, Quiet, NoScripts, BeginCheck, Arrives, gateVars
  <2>. QED  BY <2>1
<1>2. CASE NeutralCall
  BY <1>2, LoopPosition DEF NeutralCall, gateVars, history
<1>3. CASE ReEdit
  BY <1>3, LoopPosition DEF ReEdit, Judge
<1>4. CASE OtherScript
  BY <1>4, LoopPosition DEF OtherScript, LiftBlock, Judge
<1>5. CASE FinishStep
  <2>1. pos' = 0
    BY <1>5 DEF FinishStep
  <2>2. \/ cooldownUntil' = step + CooldownSteps /\ releasedAt' = step
        \/ cooldownUntil' = cooldownUntil /\ releasedAt' = releasedAt
    BY <1>5 DEF FinishStep, Release, QuietUntil, KeepBlocking
  <2>. QED  BY <2>1, <2>2
<1>6. CASE CheckError
  BY <1>6 DEF CheckError, gateVars
<1>7. CASE UNCHANGED vars
  BY <1>7 DEF vars, loopVars, gateVars, history
<1>. QED  BY <1>1, <1>2, <1>3, <1>4, <1>5, <1>6, <1>7 DEF Next, LoopStep

(* Nothing is blocked within CooldownSteps steps of a release. *)
THEOREM ReleaseIsQuiet == Spec => QuietAfterRelease
<1>1. Init => CooldownInv
  BY DEF Init, CooldownInv
<1>2. TypeOK /\ CooldownInv /\ [Next]_vars
        => [JustBlocked /\ releasedAt > 0 => step > releasedAt + CooldownSteps]_vars
  BY DEF JustBlocked, CooldownInv
<1>. QED
  BY <1>1, <1>2, TypeCorrect, CooldownPreserved, PTL DEF Spec, QuietAfterRelease

-----------------------------------------------------------------------------
(* blockedRun counts what blocked_steps counts, except after a release, which  *)
(* leaves no script to re-edit: the next one is another script.                *)
CostInv ==
  /\ blockedRun <= ReleaseAfter
  /\ lastBody # NoBody => blockedRun <= blockedSteps
  /\ pos > 0 /\ blockedHere => lastBody # NoBody

LEMMA CostPreserved == TypeOK /\ CostInv /\ [Next]_vars => CostInv'
<1>. SUFFICES ASSUME DataOK, CostInv, [Next]_vars PROVE CostInv'
  BY DEF TypeOK
<1>. USE GateAssumption
<1>0. /\ blockedRun \in Nat /\ blockedSteps \in Nat /\ blockedSteps < ReleaseAfter
      /\ pos \in Nat
  BY LoopPosition DEF DataOK
<1>1. ASSUME NEW s \in 1..MaxSteps, NEW cs \in CallLists, Check(s, cs) PROVE CostInv'
  <2>1. CASE Quiet(s, cs) \/ NoScripts(s, cs)
    BY <1>0, <2>1 DEF Quiet, NoScripts, Arrives, Reset, LiftBlock, gateVars, CostInv
  <2>2. CASE BeginCheck(s, cs)
    BY <1>0, <2>2 DEF BeginCheck, Arrives, gateVars, CostInv
  <2>. QED  BY <1>1, <2>1, <2>2 DEF Check
<1>2. CASE NeutralCall
  <2>1. pos > 0
    BY <1>2, LoopPosition DEF NeutralCall
  <2>. QED  BY <1>0, <1>2, <2>1 DEF NeutralCall, gateVars, history, CostInv
<1>3. CASE ReEdit
  BY <1>0, <1>3 DEF ReEdit, Judge, CostInv
<1>4. CASE OtherScript
  BY <1>0, <1>4 DEF OtherScript, LiftBlock, Judge, CostInv
<1>5. CASE FinishStep
  <2>1. pos > 0 /\ pos' = 0
    BY <1>5, LoopPosition DEF FinishStep, DataOK
  <2>. QED
    BY <1>0, <1>5, <2>1 DEF FinishStep, Release, GivesUp, QuietUntil, Reset, LiftBlock,
                            KeepBlocking, CostInv
<1>6. CASE CheckError
  BY <1>0, <1>6 DEF CheckError, gateVars, CostInv
<1>7. CASE UNCHANGED vars
  BY <1>7 DEF vars, loopVars, gateVars, history, CostInv
<1>. QED  BY <1>1, <1>2, <1>3, <1>4, <1>5, <1>6, <1>7 DEF Next, LoopStep

(* A model that only re-edits one script is blocked in at most RELEASE_AFTER   *)
(* checks before it is let go, however many calls its messages carry.          *)
THEOREM BlockCostIsBounded == Spec => []BlockCostBounded
<1>1. Init => CostInv
  BY GateAssumption DEF Init, CostInv
<1>2. CostInv => BlockCostBounded
  BY DEF CostInv, BlockCostBounded
<1>. QED  BY <1>1, <1>2, CostPreserved, TypeCorrect, PTL DEF Spec

-----------------------------------------------------------------------------
(* max_streak remembers every streak that led to a block. *)
LEMMA SignalsPreserved == TypeOK /\ SignalsAgree /\ [Next]_vars => SignalsAgree'
<1>. SUFFICES ASSUME DataOK, SignalsAgree, [Next]_vars PROVE SignalsAgree'
  BY DEF TypeOK
<1>. USE GateAssumption DEF SignalsAgree, DataOK
<1>1. ASSUME NEW s \in 1..MaxSteps, NEW cs \in CallLists, Check(s, cs) PROVE SignalsAgree'
  BY <1>1 DEF Check, Quiet, NoScripts, BeginCheck, gateVars
<1>2. CASE NeutralCall
  BY <1>2 DEF NeutralCall, gateVars
<1>3. ASSUME NEW body, Judge(body), streak' \in Nat PROVE SignalsAgree'
  BY <1>3 DEF Judge, Peak
<1>4. CASE ReEdit \/ OtherScript
  BY <1>3, <1>4 DEF ReEdit, OtherScript
<1>5. CASE FinishStep \/ CheckError \/ UNCHANGED vars
  BY <1>5 DEF FinishStep, CheckError, vars, gateVars
<1>. QED  BY <1>1, <1>2, <1>4, <1>5 DEF Next, LoopStep

(* gate_blocks and max_script_streak in result.json never contradict each      *)
(* other, not even when a check failed half-way.                               *)
THEOREM SignalsNeverContradict == Spec => []SignalsAgree
<1>1. Init => SignalsAgree
  BY GateAssumption DEF Init, SignalsAgree
<1>. QED  BY <1>1, TypeCorrect, SignalsPreserved, PTL DEF Spec

-----------------------------------------------------------------------------
(* As long as a step has re-edited nothing, its first script has already       *)
(* lifted the block.                                                           *)
SomeScript(cs, n) == \E k \in DOMAIN cs : k < n /\ cs[k] # NoBody

LiftInv ==
  pos > 0 => /\ SomeScript(calls, Len(calls) + 1)
             /\ ~reedits => ~blockedHere
             /\ ~reedits /\ SomeScript(calls, pos)
                  => ~blocking /\ blockedSteps = 0 /\ streak = 1

LEMMA LiftPreserved == TypeOK /\ LiftInv /\ [Next]_vars => LiftInv'
<1>. SUFFICES ASSUME DataOK, LiftInv, [Next]_vars PROVE LiftInv'
  BY DEF TypeOK
<1>. USE GateAssumption
<1>1. ASSUME NEW s \in 1..MaxSteps, NEW cs \in CallLists, Check(s, cs) PROVE LiftInv'
  <2>1. CASE Quiet(s, cs) \/ NoScripts(s, cs)
    BY <2>1 DEF Quiet, NoScripts, Arrives, LiftInv
  <2>2. CASE BeginCheck(s, cs)
    BY <2>2, CallListSeq DEF BeginCheck, Arrives, LiftInv, SomeScript
  <2>. QED  BY <1>1, <2>1, <2>2 DEF Check
<1>2. CASE NeutralCall
  <2>1. /\ pos' = pos + 1 /\ pos \in Nat /\ pos > 0 /\ calls[pos] = NoBody
        /\ UNCHANGED <<calls, reedits, blocking, blockedHere, blockedSteps, streak>>
        /\ DOMAIN calls \subseteq Int
    BY <1>2, LoopPosition, CallListSeq DEF NeutralCall, gateVars, history
  <2>2. SomeScript(calls, pos + 1) => SomeScript(calls, pos)
    BY <2>1 DEF SomeScript
  <2>. QED  BY <2>1, <2>2 DEF LiftInv
<1>3. CASE ReEdit
  <2>1. calls' = calls /\ reedits' = TRUE /\ pos > 0
    BY <1>3, LoopPosition DEF ReEdit, Judge
  <2>. QED  BY <2>1 DEF LiftInv
<1>4. CASE OtherScript
  <2>1. /\ calls' = calls /\ pos > 0 /\ pos' = pos + 1 /\ streak' = 1
        /\ blockedSteps' = 0
    BY <1>4, LoopPosition DEF OtherScript, LiftBlock, Judge
  <2>2. ~blocking' /\ (reedits' <=> reedits)
    BY <1>4 DEF OtherScript, LiftBlock
  <2>3. ~(streak' >= StreakLimit)
    BY <2>1
  <2>4. ~blockedHere => ~blockedHere'
    BY <1>4, <2>3, Zenon DEF OtherScript, LiftBlock, Judge
  <2>. QED  BY <2>1, <2>2, <2>4 DEF LiftInv
<1>5. CASE FinishStep
  BY <1>5 DEF FinishStep, LiftInv
<1>6. CASE CheckError
  BY <1>6 DEF CheckError, LiftInv
<1>7. CASE UNCHANGED vars
  BY <1>7 DEF vars, loopVars, gateVars, history, LiftInv, SomeScript
<1>. QED  BY <1>1, <1>2, <1>3, <1>4, <1>5, <1>6, <1>7 DEF Next, LoopStep

(* A step without any re-edit lifts the block: the next re-edit is the second  *)
(* script of a new streak.                                                     *)
THEOREM OtherWorkLiftsBlock == Spec => LiftUnblocks
<1>1. Init => LiftInv
  BY DEF Init, LiftInv
<1>2. ASSUME DataOK, LiftInv, FinishStep, ~reedits
      PROVE  ~blocking' /\ blockedSteps' = 0 /\ streak' <= 1
  <2>1. pos = Len(calls) + 1 /\ pos > 0
    BY <1>2, LoopPosition DEF FinishStep
  <2>2. ~blockedHere /\ ~blocking /\ blockedSteps = 0 /\ streak = 1
    BY <1>2, <2>1 DEF LiftInv
  <2>3. UNCHANGED <<streak, blocking, blockedSteps>>
    BY <1>2, <2>2 DEF FinishStep
  <2>. QED  BY <2>2, <2>3
<1>3. ASSUME NoScripts(step', calls') PROVE ~blocking' /\ blockedSteps' = 0 /\ streak' <= 1
  BY <1>3 DEF NoScripts, Reset, LiftBlock
<1>4. TypeOK /\ LiftInv
        => [(FinishStep /\ ~reedits) \/ NoScripts(step', calls')
              => ~blocking' /\ blockedSteps' = 0 /\ streak' <= 1]_vars
  BY <1>2, <1>3 DEF TypeOK
<1>. QED  BY <1>1, <1>4, TypeCorrect, LiftPreserved, PTL DEF Spec, LiftUnblocks
=============================================================================
