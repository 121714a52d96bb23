--------------------------- MODULE DeadlineProofs ---------------------------
(* For every budget, every timeout and any number of calls in a message: a     *)
(* call ends in time, and so does the run.                                     *)
EXTENDS Deadline, TLAPS

(* How long the phases of a call take together. *)
Spent(k, s) == IF k = 0 THEN 0 ELSE IF k = 1 THEN s
               ELSE IF k = 2 THEN s + s ELSE s + s + s

(* How often a solve_check with that many phases left may have swallowed. *)
Swallowed(k) == IF k = 3 THEN 0 ELSE IF k = 0 THEN Escape + Escape ELSE Escape

(* The time of a running call, by its tool.  Of solve_check: its timeout for   *)
(* each phase that is over, and what swallowed an alarm.                       *)
SolveInv ==
  tool = "solve_check" =>
    /\ timeout <= MaxTimeout /\ timeout <= Higher(MinTool, Budget - began)
    /\ now <= began + Spent(3 - phases, timeout) + Swallowed(phases)
(* Of run_gui: until the first capture is over, and until the actions are.     *)
GuiInv ==
  tool = "run_gui" =>
    /\ phases = 2 => /\ now <= began + GuiCheck
                     /\ timeout <= Higher(MinTool, Budget - now)
    /\ phases = 1 => /\ now <= Higher(Budget, began + MinTool) + GuiCheck + GuiLook
                     /\ now <= began + MinTool + GuiCheck + GuiLook \/ now <= Budget + GuiLook
                     /\ timeout <= Higher(MinTool, Budget - now)
    /\ phases = 0 => /\ now <= Higher(Budget, began + MinTool) + MinTool + Gui
                     /\ now <= began + 2 * MinTool + Gui \/ now <= Budget + MinTool + Gui
SummaryInv ==
  tool = "summarize" =>
    now <= began + AskMax /\ (phases > 0 => now = began)
OtherInv ==
  tool \in {"bash", "run_binary", "emulate", "decompile"} =>
    /\ timeout <= Higher(MinTool, Budget - began)
    /\ phases > 0 => now = began
    /\ now <= began + timeout + LingerOf(tool)

CallInv == pc = "running" => SolveInv /\ GuiInv /\ SummaryInv /\ OtherInv

(* The latest time at which a step can be with k calls of its message behind it. *)
CallsUntil(k) == Budget + AskMax + 2 * MaxTimeout + k * GrantedCall

StepInv ==
  /\ pc = "calls" => now <= CallsUntil(MaxCalls - calls)
  /\ pc = "running" => calls < MaxCalls /\ began <= CallsUntil(MaxCalls - calls - 1)
  /\ pc = "after" => now <= CallsUntil(MaxCalls)
  /\ pc \in {"ask", "stop"} => now <= CallsUntil(MaxCalls) + AskMax

Inv == TypeOK /\ CallInv /\ StepInv

-----------------------------------------------------------------------------
(* What clamp_timeout returns: at least a second, at most what was asked for,  *)
(* and at most what is left of the budget or the least a call is granted.      *)
LEMMA ClampBounds ==
  ASSUME NEW s \in Int, s >= 1, NEW time \in Nat
  PROVE  /\ clamp_timeout(s, time) \in Int
         /\ 1 <= clamp_timeout(s, time) /\ clamp_timeout(s, time) <= s
         /\ clamp_timeout(s, time) <= Higher(MinTool, Budget - time)
BY DeadlineAssumption DEF clamp_timeout, Lower, Higher

LEMMA LongestBounds ==
  /\ Longest \in Nat /\ 1 <= Longest /\ MaxTimeout <= Longest /\ Ghidra <= Longest
  /\ Emulation <= Longest /\ GuiWait <= Longest /\ GuiActions <= Longest
BY DeadlineAssumption DEF Longest, Higher

(* What a tool asks for is positive and never more than the longest timeout. *)
LEMMA WantedBounds ==
  ASSUME NEW t \in Cutting, NEW req \in Requests
  PROVE  /\ Wanted(t, req) \in Int /\ 1 <= Wanted(t, req) /\ Wanted(t, req) <= Longest
         /\ t = "solve_check" => Wanted(t, req) <= MaxTimeout
<1>1. req \in Int
  BY DeadlineAssumption
<1>2. CASE t \in {"bash", "run_binary", "solve_check"}
  BY <1>1, <1>2, LongestBounds, DeadlineAssumption DEF Wanted, Lower, Higher
<1>3. CASE t = "emulate"
  BY <1>3, LongestBounds, DeadlineAssumption DEF Wanted
<1>4. CASE t = "decompile"
  BY <1>4, LongestBounds, DeadlineAssumption DEF Wanted
<1>5. CASE t = "run_gui"
  BY <1>1, <1>5, LongestBounds, DeadlineAssumption DEF Wanted, Lower, Higher
<1> QED
  BY <1>2, <1>3, <1>4, <1>5 DEF Cutting

(* What is not cut is at most what a granted call has room for. *)
LEMMA UncutBounds ==
  /\ Uncut \in Nat /\ Gui \in Nat /\ Gui <= Uncut /\ AskMax <= Uncut
  /\ 2 * Escape <= Uncut /\ Settle <= Uncut /\ Gui = GuiCheck + GuiLook + GuiLast
BY DeadlineAssumption DEF Uncut, Gui, Higher

LEMMA LingerBounds ==
  ASSUME NEW t \in {"bash", "run_binary", "emulate", "decompile"}
  PROVE  LingerOf(t) \in Nat /\ LingerOf(t) <= Uncut
BY UncutBounds, DeadlineAssumption DEF LingerOf

LEMMA Phases ==
  ASSUME NEW t \in Tools
  PROVE  /\ PhasesOf(t) \in {1, 2, 3} /\ (PhasesOf(t) = 3 <=> t = "solve_check")
         /\ (PhasesOf(t) = 2 <=> t = "run_gui")
BY DEF PhasesOf

(* A phase of solve_check that is over has taken its timeout, and one that      *)
(* swallowed its alarm Escape more.                                            *)
LEMMA MorePhases ==
  ASSUME NEW k \in {1, 2, 3}, NEW m \in {k - 1, 0}, NEW s \in Nat
  PROVE  /\ m \in {0, 1, 2} /\ Spent(3 - k, s) \in Nat /\ Spent(3 - m, s) \in Nat
         /\ Swallowed(k) \in Nat /\ Swallowed(m) \in Nat
         /\ Spent(3 - k, s) + s <= Spent(3 - m, s)
         /\ Swallowed(k) <= Swallowed(m)
         /\ k \in {1, 3} => Swallowed(k) + Escape <= Swallowed(m)
<1>1. Escape \in Nat
  BY DeadlineAssumption
<1>2. CASE k = 3
  <2>1. m = 2 \/ m = 0
    BY <1>2
  <2> QED
    BY <1>1, <1>2, <2>1 DEF Spent, Swallowed
<1>3. CASE k = 2
  <2>1. m = 1 \/ m = 0
    BY <1>3
  <2> QED
    BY <1>1, <1>3, <2>1 DEF Spent, Swallowed
<1>4. CASE k = 1
  <2>1. m = 0
    BY <1>4
  <2> QED
    BY <1>1, <1>4, <2>1 DEF Spent, Swallowed
<1> QED
  BY <1>2, <1>3, <1>4

(* A step has one granted call's time more for every call behind it. *)
LEMMA CallsUntilGrows ==
  /\ GrantedCall \in Nat /\ GrantedCall = 3 * MinTool + Uncut
  /\ \A k \in Nat : CallsUntil(k) \in Nat /\ CallsUntil(k + 1) = CallsUntil(k) + GrantedCall
  /\ \A k, m \in Nat : k <= m => CallsUntil(k) <= CallsUntil(m)
  /\ \A k \in Nat : Budget + AskMax + 2 * MaxTimeout <= CallsUntil(k)
<1>1. GrantedCall \in Nat /\ GrantedCall = 3 * MinTool + Uncut
  BY UncutBounds, DeadlineAssumption DEF GrantedCall
<1>2. ASSUME NEW g \in Nat, NEW k \in Nat, NEW m \in Nat
      PROVE  /\ k * g \in Nat /\ (k + 1) * g = k * g + g
             /\ k <= m => k * g <= m * g
  <2>1. k * g \in Nat /\ (k + 1) * g = k * g + g
    OBVIOUS
  <2>2. ASSUME k <= m PROVE k * g <= m * g
    <3>1. m - k \in Nat
      BY <2>2
    <3>2. (m - k) * g \in Nat
      BY <3>1
    <3>3. m * g = k * g + (m - k) * g
      OBVIOUS
    <3> QED
      BY <3>2, <3>3
  <2> QED
    BY <2>1, <2>2
<1> DEFINE Base == Budget + AskMax + 2 * MaxTimeout
<1>3. Base \in Nat
  BY DeadlineAssumption
<1>4. \A k : CallsUntil(k) = Base + k * GrantedCall
  BY DEF CallsUntil
<1> HIDE DEF Base
<1>5. \A k, m \in Nat : /\ k * GrantedCall \in Nat
                        /\ (k + 1) * GrantedCall = k * GrantedCall + GrantedCall
                        /\ k <= m => k * GrantedCall <= m * GrantedCall
  BY <1>1, <1>2
<1>6. \A k \in Nat : CallsUntil(k) \in Nat /\ CallsUntil(k + 1) = CallsUntil(k) + GrantedCall
  <2> TAKE k \in Nat
  <2>1. k * GrantedCall \in Nat /\ (k + 1) * GrantedCall = k * GrantedCall + GrantedCall
    BY <1>5
  <2>2. CallsUntil(k) = Base + k * GrantedCall /\ CallsUntil(k + 1) = Base + (k + 1) * GrantedCall
    BY <1>4
  <2> QED
    BY <1>1, <1>3, <2>1, <2>2
<1>7. \A k, m \in Nat : k <= m => CallsUntil(k) <= CallsUntil(m)
  <2> TAKE k, m \in Nat
  <2>1. k * GrantedCall \in Nat /\ m * GrantedCall \in Nat /\ (k <= m => k * GrantedCall <= m * GrantedCall)
    BY <1>5
  <2>2. CallsUntil(k) = Base + k * GrantedCall /\ CallsUntil(m) = Base + m * GrantedCall
    BY <1>4
  <2> QED
    BY <1>3, <2>1, <2>2
<1>8. \A k \in Nat : Base <= CallsUntil(k)
  BY <1>3, <1>4, <1>5
<1> QED
  BY <1>1, <1>6, <1>7, <1>8 DEF Base
-----------------------------------------------------------------------------
(* A running call outlives the budget, or the least it is granted, by no more  *)
(* than its slack; and it ends within a granted call's time of its beginning,  *)
(* or of the budget and two long phases.                                       *)
CallBounded ==
  /\ now <= Higher(Budget, began + MinTool) + SlackOf(tool)
  /\ now <= began + GrantedCall \/ now <= Budget + 2 * MaxTimeout + GrantedCall

LEMMA CallBound ==
  ASSUME TypeOK, CallInv, pc = "running"
  PROVE  CallBounded
<1>1. /\ timeout \in Int /\ timeout >= 1 /\ now \in Nat /\ began \in Nat
      /\ tool \in Tools /\ phases \in 0..PhasesOf(tool) /\ phases \in Nat
      /\ Budget \in Nat /\ MinTool \in Nat /\ MaxTimeout \in Nat /\ Escape \in Nat
      /\ AskMax \in Nat /\ GuiCheck \in Nat /\ GuiLook \in Nat /\ GuiLast \in Nat
  BY Phases, DeadlineAssumption DEF TypeOK
<1>2. /\ GrantedCall \in Nat /\ GrantedCall = 3 * MinTool + Uncut /\ Uncut \in Nat
      /\ Gui <= Uncut /\ AskMax <= Uncut /\ 2 * Escape <= Uncut
      /\ Gui = GuiCheck + GuiLook + GuiLast /\ Gui \in Nat
  BY CallsUntilGrows, UncutBounds
<1>3. CASE tool = "solve_check"
  <2>1. /\ timeout <= MaxTimeout /\ timeout <= Higher(MinTool, Budget - began)
        /\ now <= began + Spent(3 - phases, timeout) + Swallowed(phases)
    BY <1>3 DEF CallInv, SolveInv
  <2>2. phases \in 0..3
    BY <1>1, <1>3 DEF PhasesOf
  <2>3. now <= began + timeout + timeout + timeout + Escape + Escape
    BY <1>1, <2>1, <2>2 DEF Spent, Swallowed
  <2>4. SlackOf(tool) = 2 * MaxTimeout + 2 * Escape
    BY <1>3 DEF SlackOf
  <2> QED
    BY <1>1, <1>2, <2>1, <2>3, <2>4 DEF CallBounded, Higher
<1>4. CASE tool = "run_gui"
  <2>1. /\ phases = 2 => now <= began + GuiCheck
        /\ phases = 1 => now <= Higher(Budget, began + MinTool) + GuiCheck + GuiLook
        /\ phases = 1 => now <= began + MinTool + GuiCheck + GuiLook \/ now <= Budget + GuiLook
        /\ phases = 0 => now <= Higher(Budget, began + MinTool) + MinTool + Gui
        /\ phases = 0 => now <= began + 2 * MinTool + Gui \/ now <= Budget + MinTool + Gui
    BY <1>4 DEF CallInv, GuiInv
  <2>2. phases \in {0, 1, 2}
    BY <1>1, <1>4 DEF PhasesOf
  <2>3. SlackOf(tool) = MinTool + Gui
    BY <1>4 DEF SlackOf
  <2>4. now <= Higher(Budget, began + MinTool) + MinTool + Gui
    BY <1>1, <1>2, <2>1, <2>2 DEF Higher
  <2>5. now <= began + GrantedCall \/ now <= Budget + 2 * MaxTimeout + GrantedCall
    BY <1>1, <1>2, <2>1, <2>2
  <2> QED
    BY <1>1, <1>2, <2>3, <2>4, <2>5 DEF CallBounded, Higher
<1>5. CASE tool = "summarize"
  <2>1. now <= began + AskMax /\ SlackOf(tool) = AskMax
    BY <1>5 DEF CallInv, SummaryInv, SlackOf
  <2> QED
    BY <1>1, <1>2, <2>1 DEF CallBounded, Higher
<1>6. CASE tool \in {"bash", "run_binary", "emulate", "decompile"}
  <2>1. /\ timeout <= Higher(MinTool, Budget - began)
        /\ now <= began + timeout + LingerOf(tool)
    BY <1>6 DEF CallInv, OtherInv
  <2>2. /\ SlackOf(tool) = LingerOf(tool) /\ LingerOf(tool) \in Nat /\ LingerOf(tool) <= Uncut
    BY <1>6, LingerBounds DEF SlackOf
  <2> HIDE <1>6
  <2> QED
    BY <1>1, <1>2, <2>1, <2>2 DEF CallBounded, Higher
<1> QED
  BY <1>1, <1>3, <1>4, <1>5, <1>6 DEF Tools, Cutting

(* So a running call ends before the next call's share of the step's time. *)
LEMMA StepBound ==
  ASSUME Inv, pc = "running"
  PROVE  now <= CallsUntil(MaxCalls - calls)
<1> DEFINE k == MaxCalls - calls - 1
<1>1. k \in Nat /\ k + 1 = MaxCalls - calls /\ began <= CallsUntil(k)
  BY DeadlineAssumption DEF Inv, TypeOK, StepInv
<1>2. /\ CallsUntil(k) \in Nat /\ CallsUntil(k + 1) = CallsUntil(k) + GrantedCall
      /\ Budget + AskMax + 2 * MaxTimeout <= CallsUntil(k)
      /\ GrantedCall \in Nat
  BY <1>1, CallsUntilGrows
<1>3. now <= began + GrantedCall \/ now <= Budget + 2 * MaxTimeout + GrantedCall
  BY CallBound DEF Inv, CallBounded
<1>4. now \in Nat /\ began \in Nat
  BY DEF Inv, TypeOK
<1> HIDE DEF k
<1> QED
  BY <1>1, <1>2, <1>3, <1>4, DeadlineAssumption

(* Init. *)
LEMMA InitInv == Init => Inv
<1> SUFFICES ASSUME Init PROVE Inv
  OBVIOUS
<1>1. TypeOK
  BY LongestBounds, DeadlineAssumption DEF Init, TypeOK, Tools, Cutting, PhasesOf
<1>2. CallInv
  BY DEF Init, CallInv
<1>3. StepInv
  <2>1. CallsUntil(MaxCalls) \in Nat
    BY CallsUntilGrows, DeadlineAssumption
  <2> QED
    BY <2>1, DeadlineAssumption DEF Init, StepInv
<1> QED
  BY <1>1, <1>2, <1>3 DEF Inv

(* Every step keeps the invariant, one step of the proof per action. *)
LEMMA NextInv == Inv /\ [Next]_vars => Inv'
<1> SUFFICES ASSUME Inv, [Next]_vars PROVE Inv'
  OBVIOUS
<1> USE DeadlineAssumption
<1>0. /\ \A k \in Nat : CallsUntil(k) \in Nat
      /\ \A k, m \in Nat : k <= m => CallsUntil(k) <= CallsUntil(m)
      /\ \A k \in Nat : Budget + AskMax + 2 * MaxTimeout <= CallsUntil(k)
  BY CallsUntilGrows
<1>1. CASE UNCHANGED vars
  <2>1. /\ now' = now /\ pc' = pc /\ calls' = calls /\ tool' = tool /\ timeout' = timeout
        /\ phases' = phases /\ began' = began
    BY <1>1 DEF vars
  <2> QED
    BY <2>1 DEF Inv, TypeOK, CallInv, SolveInv, GuiInv, SummaryInv, OtherInv, StepInv,
                Spent, Swallowed, LingerOf, PhasesOf
<1>2. CASE TimeLimit
  BY <1>2 DEF Inv, TypeOK, CallInv, StepInv, TimeLimit
<1>3. ASSUME NEW d \in 0..AskMax, Ask(d) PROVE Inv'
  <2>1. TypeOK' /\ CallInv'
    BY <1>3 DEF Inv, TypeOK, CallInv, Ask, TimeLeft
  <2>2. now' \in Nat /\ now' <= Budget + AskMax + 2 * MaxTimeout /\ calls' \in 0..MaxCalls
    BY <1>3 DEF Inv, TypeOK, Ask, TimeLeft
  <2>3. /\ now' <= CallsUntil(MaxCalls - calls') /\ now' <= CallsUntil(MaxCalls)
        /\ CallsUntil(MaxCalls) \in Nat
    BY <1>0, <2>2
  <2> QED
    BY <1>3, <2>1, <2>2, <2>3 DEF Inv, StepInv, Ask
<1>4. ASSUME NEW d \in 0..AskMax, After(d) PROVE Inv'
  <2>1. TypeOK' /\ CallInv'
    BY <1>4 DEF Inv, TypeOK, CallInv, After
  <2>2. CallsUntil(MaxCalls) \in Nat
    BY <1>0
  <2>3. StepInv'
    BY <1>4, <2>2 DEF Inv, TypeOK, StepInv, After
  <2> QED
    BY <2>1, <2>3 DEF Inv
<1>5. ASSUME NEW t \in Cutting, NEW req \in Requests, NEW d \in 0..GuiCheck, StartCall(t, req, d)
      PROVE  Inv'
  <2>0. /\ pc = "calls" /\ calls > 0 /\ calls' = calls - 1 /\ tool' = t /\ began' = now
        /\ now' = now + d /\ timeout' = clamp_timeout(Wanted(t, req), now + d)
        /\ phases' = PhasesOf(t) /\ pc' = "running" /\ (t # "run_gui" => d = 0)
        /\ now \in Nat /\ now + d \in Nat /\ d \in Nat /\ d <= GuiCheck /\ t \in Tools
    BY <1>5 DEF StartCall, Inv, TypeOK, Tools
  <2>2. /\ Wanted(t, req) \in Int /\ Wanted(t, req) <= Longest /\ Wanted(t, req) >= 1
        /\ t = "solve_check" => Wanted(t, req) <= MaxTimeout
    BY WantedBounds
  <2>1. /\ timeout' \in Int /\ 1 <= timeout' /\ timeout' <= Wanted(t, req)
        /\ timeout' <= Higher(MinTool, Budget - (now + d))
    BY <2>0, <2>2, ClampBounds
  <2>3. TypeOK'
    BY <2>0, <2>1, <2>2, LongestBounds, Phases DEF Inv, TypeOK
  <2>4. CallInv'
    <3>1. SolveInv'
      BY <2>0, <2>1, <2>2 DEF SolveInv, PhasesOf, Spent, Swallowed
    <3>2. GuiInv'
      BY <2>0, <2>1 DEF GuiInv, PhasesOf
    <3>3. SummaryInv'
      BY <2>0 DEF SummaryInv, Cutting
    <3>4. OtherInv'
      <4>1. ASSUME t \in {"bash", "run_binary", "emulate", "decompile"} PROVE OtherInv'
        <5>1. LingerOf(t) \in Nat
          BY <4>1, LingerBounds
        <5>2. LingerOf(tool)' = LingerOf(t)
          BY <2>0 DEF LingerOf
        <5> QED
          BY <2>0, <2>1, <4>1, <5>1, <5>2 DEF OtherInv
      <4> QED
        BY <2>0, <4>1 DEF OtherInv
    <3> QED
      BY <3>1, <3>2, <3>3, <3>4 DEF CallInv
  <2>5. StepInv'
    BY <2>0 DEF Inv, TypeOK, StepInv
  <2> QED
    BY <2>3, <2>4, <2>5 DEF Inv
<1>9. CASE Summarize
  <2>1. /\ pc = "calls" /\ calls > 0 /\ calls' = calls - 1 /\ tool' = "summarize" /\ began' = now
        /\ now' = now /\ timeout' = timeout /\ phases' = 1 /\ pc' = "running" /\ now \in Nat
    BY <1>9 DEF Summarize, Inv, TypeOK
  <2>2. TypeOK'
    BY <2>1 DEF Inv, TypeOK, Tools, PhasesOf
  <2>3. CallInv'
    BY <2>1 DEF CallInv, SolveInv, GuiInv, SummaryInv, OtherInv
  <2>4. StepInv'
    BY <2>1 DEF Inv, TypeOK, StepInv
  <2> QED
    BY <2>2, <2>3, <2>4 DEF Inv
<1>6. ASSUME NEW d \in 0..PhaseMax, PhaseEnds(d) PROVE Inv'
  <2>0. /\ pc = "running" /\ phases > 0 /\ now' = now + d /\ phases' \in {phases - 1, 0}
        /\ pc' = pc /\ calls' = calls /\ tool' = tool /\ began' = began
        /\ tool \in Tools /\ phases \in 0..PhasesOf(tool) /\ timeout \in Nat /\ 1 <= timeout
        /\ timeout <= Longest /\ now \in Nat /\ began \in Nat /\ began <= now
    BY <1>6, LongestBounds DEF PhaseEnds, Inv, TypeOK
  <2>1. CASE tool = "run_gui" /\ phases = 2
    <3>1. timeout' = clamp_timeout(GuiActions, now + d) /\ d \in Nat /\ d <= timeout + GuiLook
      BY <1>6, <2>0, <2>1 DEF PhaseEnds, PhaseMax
    <3>2. /\ timeout' \in Int /\ 1 <= timeout' /\ timeout' <= GuiActions
          /\ timeout' <= Higher(MinTool, Budget - (now + d))
      <4>1. now + d \in Nat /\ GuiActions \in Int /\ GuiActions >= 1
        BY <2>0, <3>1
      <4> QED
        BY <3>1, <4>1, ClampBounds
    <3>3. TypeOK'
      BY <2>0, <2>1, <3>1, <3>2, LongestBounds DEF Inv, TypeOK, PhasesOf
    <3>4. now <= began + GuiCheck /\ timeout <= Higher(MinTool, Budget - now)
      BY <2>0, <2>1 DEF Inv, CallInv, GuiInv
    <3>5. Gui = GuiCheck + GuiLook + GuiLast
      BY DEF Gui
    <3>6. /\ now' <= Higher(Budget, began + MinTool) + GuiCheck + GuiLook
          /\ now' <= began + MinTool + GuiCheck + GuiLook \/ now' <= Budget + GuiLook
      BY <2>0, <3>1, <3>4 DEF Higher
    <3>7. CallInv'
      <4>1. phases' \in {0, 1}
        BY <2>0, <2>1
      <4>2. GuiInv'
        BY <2>0, <3>1, <3>2, <3>5, <3>6, <4>1 DEF GuiInv, Higher
      <4> QED
        BY <2>0, <2>1, <4>2 DEF CallInv, SolveInv, SummaryInv, OtherInv
    <3> QED
      BY <2>0, <3>3, <3>7 DEF Inv, StepInv
  <2>2. CASE ~ (tool = "run_gui" /\ phases = 2)
    <3>1. timeout' = timeout /\ d \in Nat /\ d <= PhaseMax
      BY <1>6, <2>0, <2>2 DEF PhaseEnds, PhaseMax
    <3>2. TypeOK'
      BY <2>0, <3>1, Phases DEF Inv, TypeOK
    <3>3. CASE tool = "run_gui"
      <4>1. phases = 1 /\ phases' = 0 /\ d <= timeout + GuiLast
        <5>1. PhasesOf(tool) = 2
          BY <3>3 DEF PhasesOf
        <5>2. phases = 1 /\ phases' = 0
          BY <2>0, <2>2, <3>3, <5>1
        <5>3. PhaseMax = timeout + GuiLast
          BY <3>3, <5>2 DEF PhaseMax
        <5> QED
          BY <3>1, <5>2, <5>3
      <4>2. /\ now <= Higher(Budget, began + MinTool) + GuiCheck + GuiLook
            /\ now <= began + MinTool + GuiCheck + GuiLook \/ now <= Budget + GuiLook
            /\ timeout <= Higher(MinTool, Budget - now)
        BY <2>0, <3>3, <4>1 DEF Inv, CallInv, GuiInv
      <4>3. Gui = GuiCheck + GuiLook + GuiLast
        BY DEF Gui
      <4>4. /\ now' <= Higher(Budget, began + MinTool) + MinTool + Gui
            /\ now' <= began + 2 * MinTool + Gui \/ now' <= Budget + MinTool + Gui
        BY <2>0, <3>1, <4>1, <4>2, <4>3 DEF Higher
      <4>5. GuiInv'
        BY <2>0, <4>1, <4>4 DEF GuiInv, Higher
      <4>6. CallInv'
        BY <2>0, <3>3, <4>5 DEF CallInv, SolveInv, SummaryInv, OtherInv
      <4> QED
        BY <2>0, <3>2, <4>6 DEF Inv, StepInv
    <3>4. CASE tool = "solve_check"
      <4>1. d <= timeout /\ phases \in {1, 2, 3} /\ phases' \in {0, 1, 2}
        <5>1. PhasesOf(tool) = 3 /\ PhaseMax = timeout
          BY <3>4 DEF PhasesOf, PhaseMax
        <5> QED
          BY <2>0, <3>1, <5>1
      <4>2. /\ timeout <= MaxTimeout /\ timeout <= Higher(MinTool, Budget - began)
            /\ now <= began + Spent(3 - phases, timeout) + Swallowed(phases)
        BY <2>0, <3>4 DEF Inv, CallInv, SolveInv
      <4>3. now' <= began + Spent(3 - phases', timeout) + Swallowed(phases')
        <5>1. /\ Spent(3 - phases, timeout) \in Nat /\ Spent(3 - phases', timeout) \in Nat
              /\ Swallowed(phases) \in Nat /\ Swallowed(phases') \in Nat
              /\ Spent(3 - phases, timeout) + timeout <= Spent(3 - phases', timeout)
              /\ Swallowed(phases) <= Swallowed(phases')
          BY <2>0, <4>1, MorePhases
        <5>2. now' = now + d
          BY <2>0
        <5> QED
          BY <2>0, <3>1, <4>1, <4>2, <5>1, <5>2
      <4>4. SolveInv'
        BY <2>0, <3>1, <4>2, <4>3 DEF SolveInv
      <4>5. CallInv'
        BY <2>0, <3>4, <4>4 DEF CallInv, GuiInv, SummaryInv, OtherInv
      <4> QED
        BY <2>0, <3>2, <4>5 DEF Inv, StepInv
    <3>5. CASE tool = "summarize"
      <4>1. d <= AskMax /\ now = began /\ phases' = 0
        BY <2>0, <3>1, <3>5 DEF PhasesOf, PhaseMax, Inv, CallInv, SummaryInv
      <4>2. CallInv'
        BY <2>0, <3>1, <3>5, <4>1 DEF CallInv, SolveInv, GuiInv, SummaryInv, OtherInv
      <4> QED
        BY <2>0, <3>2, <4>2 DEF Inv, StepInv
    <3>6. CASE tool \in {"bash", "run_binary", "emulate", "decompile"}
      <4>1. d <= timeout /\ now = began /\ phases' = 0
            /\ timeout <= Higher(MinTool, Budget - began)
        BY <2>0, <3>1, <3>6 DEF PhasesOf, PhaseMax, Inv, CallInv, OtherInv
      <4>2. LingerOf(tool) \in Nat /\ LingerOf(tool)' = LingerOf(tool)
        BY <2>0, <3>6, LingerBounds DEF LingerOf
      <4>3. OtherInv'
        BY <2>0, <3>1, <4>1, <4>2 DEF OtherInv
      <4>4. CallInv'
        BY <2>0, <3>6, <4>3 DEF CallInv, SolveInv, GuiInv, SummaryInv
      <4> QED
        BY <2>0, <3>2, <4>4 DEF Inv, StepInv
    <3> QED
      BY <2>0, <3>3, <3>4, <3>5, <3>6 DEF Tools, Cutting
  <2> QED
    BY <2>1, <2>2
<1>7. ASSUME NEW d \in 0..Higher(Escape, Settle), TimesOut(d) \/ Swallows(d) PROVE Inv'
  <2>0. /\ pc = "running" /\ phases > 0 /\ now' = now + timeout + d /\ phases' \in {phases - 1, 0}
        /\ pc' = pc /\ calls' = calls /\ tool' = tool /\ began' = began /\ timeout' = timeout
        /\ tool \in Cutting \ {"run_gui"} /\ phases \in 0..PhasesOf(tool) /\ timeout \in Nat
        /\ now \in Nat /\ began \in Nat /\ began <= now /\ d \in Nat
    BY <1>7, LongestBounds DEF TimesOut, Swallows, Inv, TypeOK, Cutting, Higher
  <2>1. TypeOK'
    BY <2>0, Phases DEF Inv, TypeOK
  <2>2. CASE tool = "solve_check"
    <3>1. phases \in {1, 2, 3} /\ phases' \in {0, 1, 2}
      BY <2>0, <2>2 DEF PhasesOf
    <3>2. /\ timeout <= MaxTimeout /\ timeout <= Higher(MinTool, Budget - began)
          /\ now <= began + Spent(3 - phases, timeout) + Swallowed(phases)
      BY <2>0, <2>2 DEF Inv, CallInv, SolveInv
    <3>3. (d = 0 /\ phases' = 0) \/ (d <= Escape /\ phases \in {1, 3})
      BY <1>7, <2>0, <2>2 DEF TimesOut, Swallows, LingerOf
    <3>4. now' <= began + Spent(3 - phases', timeout) + Swallowed(phases')
      <4>1. /\ Spent(3 - phases, timeout) \in Nat /\ Spent(3 - phases', timeout) \in Nat
            /\ Swallowed(phases) \in Nat /\ Swallowed(phases') \in Nat
            /\ Spent(3 - phases, timeout) + timeout <= Spent(3 - phases', timeout)
            /\ Swallowed(phases) <= Swallowed(phases')
            /\ phases \in {1, 3} => Swallowed(phases) + Escape <= Swallowed(phases')
        BY <2>0, <3>1, MorePhases
      <4>2. d = 0 \/ (d <= Escape /\ phases \in {1, 3})
        BY <3>3
      <4> QED
        BY <2>0, <3>2, <4>1, <4>2
    <3>5. SolveInv'
      BY <2>0, <3>2, <3>4 DEF SolveInv
    <3>6. CallInv'
      BY <2>0, <2>2, <3>5 DEF CallInv, GuiInv, SummaryInv, OtherInv
    <3> QED
      BY <2>0, <2>1, <3>6 DEF Inv, StepInv
  <2>3. CASE tool \in {"bash", "run_binary", "emulate", "decompile"}
    <3>1. d <= LingerOf(tool) /\ now = began /\ phases' = 0
          /\ timeout <= Higher(MinTool, Budget - began)
      BY <1>7, <2>0, <2>3 DEF TimesOut, Swallows, Inv, CallInv, OtherInv
    <3>2. LingerOf(tool) \in Nat /\ LingerOf(tool)' = LingerOf(tool)
      BY <2>0, <2>3, LingerBounds DEF LingerOf
    <3>3. OtherInv'
      BY <2>0, <3>1, <3>2 DEF OtherInv
    <3>4. CallInv'
      BY <2>0, <2>3, <3>3 DEF CallInv, SolveInv, GuiInv, SummaryInv
    <3> QED
      BY <2>0, <2>1, <3>4 DEF Inv, StepInv
  <2> QED
    BY <2>0, <2>2, <2>3 DEF Cutting
<1>8. CASE Reply
  <2>1. now <= CallsUntil(MaxCalls - calls)
    BY <1>8, StepBound DEF Reply
  <2>2. TypeOK' /\ CallInv'
    BY <1>8 DEF Inv, TypeOK, CallInv, Reply
  <2>3. StepInv'
    BY <1>8, <2>1 DEF Inv, TypeOK, StepInv, Reply
  <2> QED
    BY <2>2, <2>3 DEF Inv
<1> QED
  BY <1>1, <1>2, <1>3, <1>4, <1>5, <1>6, <1>7, <1>8, <1>9 DEF Next
-----------------------------------------------------------------------------
(* The invariant holds in every reachable state. *)
THEOREM Invariance == Spec => []Inv
BY InitInv, NextInv, PTL DEF Spec

(* Every timeout that is cut is at least a second, whatever the model asks for *)
(* and however late it is called (clamp_timeout's floor), and at most the      *)
(* longest timeout of any tool.                                                *)
THEOREM TypeCorrect == Spec => []TypeOK
<1>1. Inv => TypeOK
  BY DEF Inv
<1> QED
  BY <1>1, Invariance, PTL

(* No call outlives the budget, or the least time it is granted, by more than  *)
(* what clamp_timeout does not cut: lingering children, two more timeouts and  *)
(* the swallowed alarms of solve_check, the waits of run_gui, the request of   *)
(* summarize.                                                                  *)
THEOREM CallsEndInTime == Spec => []CallEndsInTime
<1>1. Inv => CallEndsInTime
  BY CallBound DEF Inv, CallBounded, CallEndsInTime
<1> QED
  BY <1>1, Invariance, PTL

(* The run, with all the calls of its last message, ends in bounded time. *)
THEOREM RunsEndInTime == Spec => []RunEndsInTime
<1>1. Inv => RunEndsInTime
  <2> SUFFICES ASSUME Inv PROVE now <= CallsUntil(MaxCalls) + AskMax
    BY DeadlineAssumption, CallsUntilGrows DEF RunEndsInTime, CallsUntil
  <2>1. calls \in 0..MaxCalls /\ now \in Nat
    BY DEF Inv, TypeOK
  <2>2. /\ CallsUntil(MaxCalls) \in Nat /\ CallsUntil(MaxCalls - calls) \in Nat
        /\ CallsUntil(MaxCalls - calls) <= CallsUntil(MaxCalls)
    <3>1. MaxCalls \in Nat /\ MaxCalls - calls \in Nat /\ MaxCalls - calls <= MaxCalls
      BY <2>1, DeadlineAssumption
    <3>2. /\ \A k \in Nat : CallsUntil(k) \in Nat
          /\ \A k, m \in Nat : k <= m => CallsUntil(k) <= CallsUntil(m)
      BY CallsUntilGrows
    <3> QED
      BY <3>1, <3>2
  <2>3. CASE pc = "running"
    BY <2>1, <2>2, <2>3, StepBound, DeadlineAssumption
  <2>4. CASE pc # "running"
    BY <2>1, <2>2, <2>4, DeadlineAssumption DEF Inv, StepInv, TypeOK
  <2> QED
    BY <2>3, <2>4
<1> QED
  BY <1>1, Invariance, PTL
=============================================================================
