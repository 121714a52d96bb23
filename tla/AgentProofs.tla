----------------------------- MODULE AgentProofs -----------------------------
(* For any limits, tools and answers: the agent loop implements the session it *)
(* promises, the conversation it sends is well formed after any number of      *)
(* compactions, and nothing runs after an acceptance.                          *)
EXTENDS AgentSession, FiniteSetTheorems, SequenceTheorems, TLAPS

-----------------------------------------------------------------------------
(* First and last element of a set of positions. *)
LEMMA First ==
  ASSUME NEW n \in Nat, NEW S \in SUBSET (1..n), S # {}
  PROVE  \E m \in S : \A x \in S : m <= x
<1> DEFINE U == {i \in 1..n : \E x \in S : x <= i}
           c == Cardinality(U)
           m == n + 1 - c
<1>1. \A a, b \in Int : IsFiniteSet(a..b) /\ Cardinality(a..b) = IF a > b THEN 0 ELSE b - a + 1
  BY FS_Interval
<1>2. IsFiniteSet(U) /\ c \in Nat
  <2>1. IsFiniteSet(1..n)
    BY <1>1
  <2> QED
    BY <2>1, FS_Subset, FS_CardinalityType
<1>3. ASSUME NEW i \in U PROVE m <= i
  <2>1. i..n \subseteq U
    OBVIOUS
  <2>2. Cardinality(i..n) = n - i + 1
    BY <1>1
  <2>3. Cardinality(i..n) <= c
    BY <1>2, <2>1, FS_Subset
  <2> HIDE DEF c
  <2> QED
    BY <1>2, <2>2, <2>3
<1>4. ASSUME NEW i \in (1..n) \ U PROVE i < m
  <2>1. U \subseteq (i + 1)..n
    OBVIOUS
  <2>2. IsFiniteSet((i + 1)..n) /\ Cardinality((i + 1)..n) <= n - i
    <3>1. i \in Int /\ n \in Int /\ i + 1 \in Int /\ i <= n
      OBVIOUS
    <3>2. Cardinality((i + 1)..n) = IF i + 1 > n THEN 0 ELSE n - (i + 1) + 1
      BY <1>1, <3>1
    <3> QED
      BY <1>1, <3>1, <3>2
  <2>3. c <= Cardinality((i + 1)..n)
    BY <2>1, <2>2, FS_Subset
  <2>4. Cardinality((i + 1)..n) \in Nat
    BY <2>2, FS_CardinalityType
  <2> HIDE DEF c
  <2> QED
    BY <1>2, <2>2, <2>3, <2>4
<1>5. PICK s \in S : TRUE
  OBVIOUS
<1>6. m \in 1..n
  <2>1. s \in U
    BY <1>5
  <2>2. m <= s
    BY <2>1, <1>3
  <2>3. U \subseteq 1..n /\ IsFiniteSet(1..n) /\ Cardinality(1..n) = n
    BY <1>1
  <2>4. c <= n
    BY <2>3, FS_Subset
  <2> HIDE DEF c
  <2> QED
    BY <1>2, <2>2, <2>4
<1>7. m \in U
  <2> SUFFICES ASSUME m \notin U PROVE FALSE
    OBVIOUS
  <2>1. m \in (1..n) \ U
    BY <1>6
  <2>2. m < m
    BY <2>1, <1>4
  <2> HIDE DEF m, U
  <2> QED
    BY <1>6, <2>2
<1>8. PICK x \in S : x <= m
  BY <1>7
<1>9. \A y \in S : m <= y
  <2>1. S \subseteq U
    OBVIOUS
  <2> QED
    BY <2>1, <1>3
<1>10. x = m
  BY <1>6, <1>8, <1>9
<1> QED
  BY <1>9, <1>10

LEMMA Last ==
  ASSUME NEW n \in Nat, NEW S \in SUBSET (1..n), S # {}
  PROVE  \E m \in S : \A x \in S : x <= m
<1> DEFINE T == {i \in 1..n : (n + 1 - i) \in S}
<1>1. T \in SUBSET (1..n) /\ T # {}
  <2>1. PICK s \in S : TRUE
    OBVIOUS
  <2>2. (n + 1 - s) \in T
    OBVIOUS
  <2> QED
    BY <2>2
<1>2. PICK m \in T : \A x \in T : m <= x
  BY <1>1, First
<1>3. \A x \in S : (n + 1 - x) \in T
  OBVIOUS
<1> QED
  BY <1>2, <1>3

-----------------------------------------------------------------------------
(* What split_messages and compact do to a conversation. *)
OpensWell(ms) == /\ Len(ms) >= 2 /\ ms[1].role = "system" /\ ms[2].role = "task"
            /\ \A i \in DOMAIN ms : ms[i].role = "reset" => i = 3

LEMMA TailStartsWithCall ==
  ASSUME NEW ms \in Seq(Messages), OpensWell(ms)
  PROVE  /\ TailStart(ms) \in 3..(Len(ms) + 1)
         /\ TailStart(ms) <= Len(ms) => IsCall(ms[TailStart(ms)])
<1> DEFINE idxs == CallsOf(ms)
           kept == {i \in idxs : IsRecent(idxs, i)}
<1>1. idxs \subseteq 3..Len(ms)
  BY DEF CallsOf, IsCall, OpensWell
<1>2. CASE idxs = {}
  BY <1>2 DEF TailStart, NothingKept, OpensWell
<1>3. CASE idxs # {}
  <2>1. idxs \in SUBSET (1..Len(ms)) /\ Len(ms) \in Nat
    BY <1>1
  <2>2. PICK l \in idxs : \A x \in idxs : x <= l
    BY <1>3, <2>1, Last
  <2>3. {j \in idxs : j >= l} = {l}
    BY <2>1, <2>2
  <2>4. Cardinality({j \in idxs : j >= l}) = 1
    BY <2>3, FS_Singleton
  <2>5. l \in kept
    BY <2>4, AgentAssumption DEF IsRecent
  <2>6. kept # {} /\ kept \in SUBSET (1..Len(ms))
    BY <2>1, <2>5
  <2>7. \E i \in kept : \A j \in kept : i <= j
    BY <2>1, <2>6, First
  <2>8. TailStart(ms) \in kept
    BY <1>3, <2>7 DEF TailStart
  <2> QED
    BY <1>1, <2>8 DEF CallsOf
<1> QED
  BY <1>2, <1>3

LEMMA Joined ==
  ASSUME NEW a \in Seq(Messages), NEW b \in Seq(Messages)
  PROVE  /\ a \o b \in Seq(Messages) /\ Len(a \o b) = Len(a) + Len(b)
         /\ Len(a) \in Nat /\ Len(b) \in Nat
         /\ \A i \in 1..Len(a) : (a \o b)[i] = a[i]
         /\ \A i \in (Len(a) + 1)..(Len(a) + Len(b)) : (a \o b)[i] = b[i - Len(a)]
<1> DEFINE M == Messages
<1>1. a \in Seq(M) /\ b \in Seq(M)
  OBVIOUS
<1> HIDE DEF M
<1>2. a \o b \in Seq(M) /\ Len(a \o b) = Len(a) + Len(b)
  BY <1>1
<1>3. Len(a) \in Nat /\ Len(b) \in Nat
  BY <1>1
<1>4. \A i \in 1..(Len(a) + Len(b)) : (a \o b)[i] = IF i <= Len(a) THEN a[i] ELSE b[i - Len(a)]
  BY <1>1, ConcatProperties
<1>5. \A i \in 1..Len(a) : (a \o b)[i] = a[i]
  BY <1>3, <1>4
<1>6. \A i \in (Len(a) + 1)..(Len(a) + Len(b)) : (a \o b)[i] = b[i - Len(a)]
  BY <1>3, <1>4
<1> QED
  BY <1>2, <1>3, <1>5, <1>6 DEF M

LEMMA CompactedIs ==
  ASSUME NEW ms \in Seq(Messages), OpensWell(ms)
  PROVE  LET t == TailStart(ms)  new == CompactedMessages(ms)
         IN  /\ new \in Seq(Messages) /\ Len(new) = Len(ms) + 4 - t
             /\ new[1] = ms[1] /\ new[2] = ms[2] /\ new[3].role = "reset" /\ new[3].step = 0
             /\ \A i \in 4..Len(new) : new[i] = ms[i + t - 4]
<1> DEFINE t == TailStart(ms)
           head == SubSeq(ms, 1, 2)
           banner == <<[role |-> "reset", step |-> 0]>>
           tail == SubSeq(ms, t, Len(ms))
<1>1. t \in 3..(Len(ms) + 1) /\ Len(ms) \in Nat /\ Len(ms) >= 2
  BY TailStartsWithCall DEF OpensWell
<1> HIDE DEF t
<1>2. head \in Seq(Messages) /\ Len(head) = 2 /\ head[1] = ms[1] /\ head[2] = ms[2]
  BY <1>1
<1>3. tail \in Seq(Messages) /\ Len(tail) = Len(ms) + 1 - t
      /\ \A i \in 1..Len(tail) : tail[i] = ms[i + t - 1]
  BY <1>1
<1>4. banner \in Seq(Messages) /\ Len(banner) = 1 /\ banner[1].role = "reset" /\ banner[1].step = 0
  BY AgentAssumption DEF Messages, PlainRoles
<1>5. CompactedMessages(ms) = (head \o banner) \o tail
  BY DEF CompactedMessages, t
<1> HIDE DEF head, banner, tail
<1>6. (head \o banner) \in Seq(Messages) /\ Len(head \o banner) = 3
      /\ (head \o banner)[1] = ms[1] /\ (head \o banner)[2] = ms[2]
      /\ (head \o banner)[3].role = "reset" /\ (head \o banner)[3].step = 0
  <2>1. /\ head \o banner \in Seq(Messages) /\ Len(head \o banner) = Len(head) + Len(banner)
        /\ \A i \in 1..Len(head) : (head \o banner)[i] = head[i]
        /\ \A i \in (Len(head) + 1)..(Len(head) + Len(banner)) :
             (head \o banner)[i] = banner[i - Len(head)]
    BY <1>2, <1>4, Joined
  <2>2. 1 \in 1..Len(head) /\ 2 \in 1..Len(head)
        /\ 3 \in (Len(head) + 1)..(Len(head) + Len(banner)) /\ 3 - Len(head) = 1
    BY <1>2, <1>4
  <2> QED
    BY <1>2, <1>4, <2>1, <2>2
<1> DEFINE front == head \o banner
<1> HIDE DEF front
<1>7. /\ front \o tail \in Seq(Messages) /\ Len(front \o tail) = Len(ms) + 4 - t
      /\ \A i \in 1..3 : (front \o tail)[i] = front[i]
      /\ \A i \in 4..(Len(ms) + 4 - t) : (front \o tail)[i] = tail[i - 3]
  <2>1. front \in Seq(Messages) /\ Len(front) = 3
    BY <1>6 DEF front
  <2> QED
    <3>1. /\ front \o tail \in Seq(Messages) /\ Len(front \o tail) = Len(front) + Len(tail)
          /\ \A i \in 1..Len(front) : (front \o tail)[i] = front[i]
          /\ \A i \in (Len(front) + 1)..(Len(front) + Len(tail)) :
               (front \o tail)[i] = tail[i - Len(front)]
      BY <1>3, <2>1, Joined
    <3>2. /\ Len(front) = 3 /\ Len(tail) = Len(ms) + 1 - t
          /\ Len(front) + Len(tail) = Len(ms) + 4 - t
      BY <1>1, <1>3, <2>1
    <3>3. /\ front \o tail \in Seq(Messages) /\ Len(front \o tail) = Len(ms) + 4 - t
          /\ \A i \in 1..3 : (front \o tail)[i] = front[i]
      BY <3>1, <3>2
    <3>4. \A i \in 4..(Len(ms) + 4 - t) : (front \o tail)[i] = tail[i - 3]
      BY <3>1, <3>2
    <3> QED
      BY <3>3, <3>4
<1>8. \A i \in 4..(Len(ms) + 4 - t) : (front \o tail)[i] = ms[i + t - 4]
  <2> TAKE i \in 4..(Len(ms) + 4 - t)
  <2>1. i - 3 \in 1..Len(tail) /\ (i - 3) + t - 1 = i + t - 4
    BY <1>1, <1>3
  <2> QED
    BY <1>3, <1>7, <2>1
<1>9. /\ (front \o tail)[1] = ms[1] /\ (front \o tail)[2] = ms[2]
      /\ (front \o tail)[3].role = "reset" /\ (front \o tail)[3].step = 0
  <2>1. front[1] = ms[1] /\ front[2] = ms[2] /\ front[3].role = "reset" /\ front[3].step = 0
    BY <1>6 DEF front
  <2>2. 1 \in 1..3 /\ 2 \in 1..3 /\ 3 \in 1..3
    OBVIOUS
  <2> QED
    BY <1>7, <2>1, <2>2
<1> DEFINE new == front \o tail
<1>10. CompactedMessages(ms) = new
  BY <1>5 DEF front
<1>11. /\ new \in Seq(Messages) /\ Len(new) = Len(ms) + 4 - t
       /\ new[1] = ms[1] /\ new[2] = ms[2] /\ new[3].role = "reset" /\ new[3].step = 0
       /\ \A i \in 4..(Len(ms) + 4 - t) : new[i] = ms[i + t - 4]
  BY <1>7, <1>8, <1>9
<1> HIDE DEF new
<1> QED
  BY <1>10, <1>11 DEF t

-----------------------------------------------------------------------------
(* What leaves the loop in the middle of a message, before anything has been   *)
(* accepted, changes nothing but where the loop is and, if it is the loop's    *)
(* own exception, the reason.                                                  *)
LEMMA LeavesCalls ==
  ASSUME LeaveCall
  PROVE  /\ pc = "tools" /\ pc' \in {"finish", "exited"} /\ pending > 0 /\ ~ Ended
         /\ UNCHANGED <<step, steps, messages, call, counters, progress, cause, files, history>>
         /\ UNCHANGED <<flag, runbook, resultWritten>>
         /\ status' \in {status, "unsolved"} /\ reason' \in {reason, "error: output"}
         /\ pc' = "exited" => UNCHANGED outcome
         /\ pc' = "finish" => Ends("unsolved", "error: output")
<1>1. CASE ExitCall
  BY <1>1 DEF ExitCall, LeavesMessage, NextCall, outcome
<1>2. CASE CutFails
  BY <1>2 DEF CutFails, LeavesMessage, NextCall, Ends
<1> QED
  BY <1>1, <1>2 DEF LeaveCall

(* A case file that cannot be decoded ends the loop after the calls. *)
LEMMA Undecoded ==
  ASSUME Undecodable
  PROVE  /\ pc = "after" /\ pc' = "finish" /\ Ends("unsolved", "error: case file")
         /\ UNCHANGED <<step, steps, pending, sig, counters, progress, cause, files, history>>
         /\ UNCHANGED <<flag, runbook, resultWritten>>
         /\ recent' \in {<< >>, LastThree(Append(recent, sig))}
         /\ messages' \in {messages, Append(messages, Msg("repeat"))}
BY DEF Undecodable, ComparesCalls, Ends, progress

-----------------------------------------------------------------------------
(* The loop implements the session.  Only the tools' loop sees a flag or a     *)
(* runbook while the run is open, never both, and whoever leaves the loop sets *)
(* the status that belongs to what was accepted.                               *)
OpenPCs == {"top", "chat", "retry", "tools", "after", "critic", "context", "reduce", "shrink",
            "compact"}

OutcomeInv ==
  /\ pc \in PCs /\ flag \in BOOLEAN /\ runbook \in BOOLEAN
  /\ ~ (flag /\ runbook)
  /\ pc \in OpenPCs \ {"tools"} => ~ flag /\ ~ runbook
  /\ pc \in OpenPCs => status = "unsolved" /\ ~ resultWritten
  /\ pc \notin OpenPCs => status = Promise!StatusOf(Accepted)

SessionStep == [Promise!Next]_(Promise!sessionVars)

LEMMA PhaseIs ==
  ASSUME pc \in PCs
  PROVE  /\ SessionPhase = "open" <=> pc \in OpenPCs
         /\ pc = "finish" => SessionPhase = "decided"
         /\ pc = "report" => SessionPhase = "written"
         /\ pc = "returned" => SessionPhase = "returned"
         /\ pc = "raised" => SessionPhase = "raised"
         /\ pc = "exited" => SessionPhase = "exited"
BY DEF SessionPhase, PCs, OpenPCs

LEMMA AcceptedIs ==
  /\ flag => Accepted = "flag"
  /\ ~ flag /\ runbook => Accepted = "runbook"
  /\ ~ flag /\ ~ runbook => Accepted = "nothing"
BY DEF Accepted

LEMMA StatusIs ==
  /\ Promise!StatusOf("flag") = "solved"
  /\ Promise!StatusOf("runbook") = "runbook"
  /\ Promise!StatusOf("nothing") = "unsolved"
BY DEF Promise!StatusOf

(* Steps that go on with the loop. *)
LEMMA GoesOn ==
  ASSUME OutcomeInv, pc \in OpenPCs, pc' \in OpenPCs,
         pc = "tools" => pc' = "tools" \/ ~ Ended,
         UNCHANGED outcome
  PROVE  OutcomeInv' /\ SessionStep
<1>1. flag' = flag /\ runbook' = runbook /\ status' = status /\ resultWritten' = resultWritten
  BY DEF outcome
<1>2. pc \in PCs /\ pc' \in PCs
  BY DEF OpenPCs, PCs
<1>3. SessionPhase = "open" /\ SessionPhase' = "open"
  BY <1>2 DEF SessionPhase, OpenPCs
<1>4. Accepted' = Accepted
  BY <1>1 DEF Accepted
<1>5. SessionStep
  BY <1>1, <1>3, <1>4 DEF SessionStep, Promise!sessionVars
<1>6. pc' \in OpenPCs \ {"tools"} => ~ flag' /\ ~ runbook'
  BY <1>1 DEF OutcomeInv, Ended
<1>7. OutcomeInv'
  BY <1>1, <1>2, <1>6 DEF OutcomeInv
<1> QED
  BY <1>5, <1>7

(* Steps that leave it. *)
LEMMA Leaves ==
  ASSUME OutcomeInv, pc \in OpenPCs, pc' = "finish",
         status' = Promise!StatusOf(Accepted), UNCHANGED <<flag, runbook, resultWritten>>
  PROVE  OutcomeInv' /\ SessionStep
<1>1. flag' = flag /\ runbook' = runbook
  OBVIOUS
<1>2. pc \in PCs /\ pc' \in PCs /\ pc' \notin OpenPCs
  BY DEF OpenPCs, PCs
<1>3. SessionPhase = "open" /\ SessionPhase' = "decided"
  BY DEF SessionPhase, OpenPCs
<1>4. Accepted' = Accepted
  BY <1>1 DEF Accepted
<1>5. SessionStep
  BY <1>3, <1>4 DEF SessionStep, Promise!Next, Promise!Decide
<1>6. OutcomeInv'
  BY <1>1, <1>2, <1>4 DEF OutcomeInv
<1> QED
  BY <1>5, <1>6

LEMMA GivesUp ==
  ASSUME OutcomeInv, pc \in OpenPCs \ {"tools"}, NEW r, Ends("unsolved", r)
  PROVE  OutcomeInv' /\ SessionStep
<1>1. Accepted = "nothing"
  BY AcceptedIs DEF OutcomeInv
<1> QED
  BY <1>1, StatusIs, Leaves DEF Ends

LEMMA OutcomeStep ==
  ASSUME OutcomeInv, [Next]_vars
  PROVE  OutcomeInv' /\ SessionStep
<1> USE DEF OpenPCs
<1>1. CASE StepLimit
  BY <1>1, GivesUp DEF StepLimit
<1>2. CASE TimeLimit
  BY <1>2, GivesUp DEF TimeLimit
<1>3. CASE NextStep
  BY <1>3, GoesOn DEF NextStep
<1>4. CASE Truncated
  BY <1>4, GoesOn DEF Truncated
<1>5. CASE ChatFails
  BY <1>5, GivesUp DEF ChatFails, Asking
<1>6. CASE Overflow
  BY <1>6, GoesOn DEF Overflow, Asking
<1>7. ASSUME NEW long \in Thinking, Narrate(long) PROVE OutcomeInv' /\ SessionStep
  <2>1. pc \in {"chat", "retry"}
    BY <1>7 DEF Narrate, Asking
  <2>2. Ends("unsolved", "no tool calls 3x") \/ (pc' = "top" /\ UNCHANGED outcome)
    BY <1>7 DEF Narrate
  <2> QED
    BY <2>1, <2>2, GivesUp, GoesOn
<1>8. ASSUME NEW long \in Thinking, NEW n \in 1..MaxCalls, NEW s \in Signatures,
             CallTools(n, s, long)
      PROVE  OutcomeInv' /\ SessionStep
  <2>1. pc \in {"chat", "retry"} /\ pc' = "tools" /\ UNCHANGED outcome
    BY <1>8 DEF CallTools, Asking
  <2> QED
    BY <2>1, GoesOn
<1>9. CASE SkippedCall \/ BlockedCall \/ PlainCall \/ NoteCall \/ BashOnOwnFiles
  <2>1. pc = "tools" /\ pc' = "tools"
    BY <1>9 DEF SkippedCall, BlockedCall, PlainCall, NoteCall, BashOnOwnFiles, NextCall, Answer
  <2>2. UNCHANGED <<flag, runbook>> /\ UNCHANGED <<status, reason, resultWritten>>
    BY <1>9 DEF SkippedCall, BlockedCall, PlainCall, NoteCall, BashOnOwnFiles, Answer
  <2>3. UNCHANGED outcome
    BY <2>2 DEF outcome
  <2> QED
    BY <2>1, <2>3, GoesOn
<1>10. CASE FlagCall
  <2>1. /\ pc = "tools" /\ pc' = "tools" /\ ~ Ended /\ flag' = TRUE /\ runbook' = runbook
        /\ UNCHANGED <<status, resultWritten>>
    BY <1>10 DEF FlagCall, NextCall, Answer
  <2>2. ~ flag /\ ~ runbook
    BY <2>1 DEF Ended
  <2>3. SessionPhase = "open" /\ SessionPhase' = "open"
    BY <2>1 DEF SessionPhase
  <2>4. Accepted = "nothing" /\ Accepted' = "flag"
    BY <2>1, <2>2 DEF Accepted
  <2>5. SessionStep
    BY <2>1, <2>3, <2>4 DEF SessionStep, Promise!Next, Promise!Accept
  <2>6. OutcomeInv'
    BY <2>1, <2>2 DEF OutcomeInv, PCs
  <2> QED
    BY <2>5, <2>6
<1>11. CASE RunbookCall
  <2>1. /\ pc = "tools" /\ pc' = "tools" /\ ~ Ended /\ runbook' = TRUE /\ flag' = flag
        /\ UNCHANGED <<status, resultWritten>>
    BY <1>11 DEF RunbookCall, NextCall, Answer
  <2>2. ~ flag /\ ~ runbook /\ ~ flag'
    BY <2>1 DEF Ended
  <2>3. SessionPhase = "open" /\ SessionPhase' = "open"
    BY <2>1 DEF SessionPhase
  <2>4. Accepted = "nothing" /\ Accepted' = "runbook"
    BY <2>1, <2>2 DEF Accepted
  <2>5. SessionStep
    BY <2>1, <2>3, <2>4 DEF SessionStep, Promise!Next, Promise!Accept
  <2>6. OutcomeInv'
    BY <2>1, <2>2 DEF OutcomeInv, PCs
  <2> QED
    BY <2>5, <2>6
<1>12. CASE ToolsDone
  <2>1. CASE runbook /\ Ends("runbook", "")
    <3>1. Accepted = "runbook"
      BY <2>1, AcceptedIs DEF OutcomeInv
    <3> QED
      BY <1>12, <2>1, <3>1, StatusIs, Leaves DEF ToolsDone, Ends
  <2>2. CASE flag /\ Ends("solved", "")
    <3>1. Accepted = "flag"
      BY <2>2, AcceptedIs DEF OutcomeInv
    <3> QED
      BY <1>12, <2>2, <3>1, StatusIs, Leaves DEF ToolsDone, Ends
  <2>3. CASE ~ Ended /\ pc' = "after" /\ UNCHANGED outcome
    BY <1>12, <2>3, GoesOn DEF ToolsDone
  <2> QED
    BY <1>12, <2>1, <2>2, <2>3 DEF ToolsDone
<1>13. CASE Bookkeeping
  <2>1. pc = "after" /\ pc' \in {"critic", "context"} /\ UNCHANGED outcome
    BY <1>13 DEF Bookkeeping, ComparesCalls
  <2> QED
    BY <2>1, GoesOn
<1>23. CASE Undecodable
  <2>1. pc = "after" /\ Ends("unsolved", "error: case file")
    BY <1>23, Undecoded
  <2> QED
    BY <2>1, GivesUp
<1>24. CASE LeaveCall
  <2>1. /\ pc = "tools" /\ ~ flag /\ ~ runbook
        /\ \/ pc' = "exited" /\ UNCHANGED outcome
           \/ pc' = "finish" /\ Ends("unsolved", "error: output")
    BY <1>24, LeavesCalls DEF Ended
  <2>2. Accepted = "nothing"
    BY <2>1, AcceptedIs
  <2>3. CASE pc' = "finish" /\ Ends("unsolved", "error: output")
    BY <2>1, <2>2, <2>3, StatusIs, Leaves DEF Ends
  <2>4. CASE pc' = "exited" /\ UNCHANGED outcome
    <3>1. UNCHANGED <<flag, runbook, status>>
      BY <2>4 DEF outcome
    <3>2. Accepted' = Accepted
      BY <3>1 DEF Accepted
    <3>3. SessionPhase = "open" /\ SessionPhase' = "exited"
      BY <2>1, <2>4 DEF SessionPhase
    <3>4. SessionStep
      BY <2>2, <3>1, <3>2, <3>3 DEF SessionStep, Promise!Next, Promise!Exit
    <3>5. status = "unsolved"
      BY <2>1 DEF OutcomeInv
    <3>6. OutcomeInv'
      BY <2>1, <2>2, <2>4, <3>1, <3>2, <3>5, StatusIs DEF OutcomeInv, PCs
    <3> QED
      BY <3>4, <3>6
  <2> QED
    BY <2>1, <2>3, <2>4
<1>14. CASE Critic
  <2>1. pc = "critic" /\ pc' \in {"context", "compact"} /\ UNCHANGED outcome
    BY <1>14 DEF Critic
  <2> QED
    BY <2>1, GoesOn
<1>15. CASE ContextFits \/ ContextOver
  BY <1>15, GoesOn DEF ContextFits, ContextOver
<1>16. CASE Reduce
  <2>1. pc = "reduce"
    BY <1>16 DEF Reduce
  <2>2. Ends("unsolved", "context cannot be reduced")
        \/ (pc' \in {"shrink", "critic"} /\ UNCHANGED outcome)
    BY <1>16 DEF Reduce
  <2> QED
    BY <2>1, <2>2, GivesUp, GoesOn
<1>17. CASE Shrink
  <2>1. pc = "shrink"
    BY <1>17 DEF Shrink
  <2>2. Ends("unsolved", "error: case file") \/ (pc' = "critic" /\ UNCHANGED outcome)
    BY <1>17 DEF Shrink
  <2> QED
    BY <2>1, <2>2, GivesUp, GoesOn
<1>18. CASE Compact
  BY <1>18, GoesOn DEF Compact
<1>19. CASE CompactFails
  <2>1. pc = "compact"
    BY <1>19 DEF CompactFails
  <2>2. Ends("unsolved", "error: case file") \/ Ends("unsolved", "error: llm")
    BY <1>19 DEF CompactFails
  <2> QED
    BY <2>1, <2>2, GivesUp
<1>20. CASE Finish
  <2>1. /\ pc = "finish" /\ pc' \in {"report", "raised"}
        /\ UNCHANGED <<flag, runbook, status>>
    BY <1>20 DEF Finish
  <2>2. Accepted' = Accepted
    BY <2>1 DEF Accepted
  <2>3. OutcomeInv'
    BY <2>1, <2>2 DEF OutcomeInv, PCs
  <2>4. SessionPhase = "decided" /\ SessionPhase' \in {"written", "raised"}
    BY <2>1 DEF SessionPhase
  <2>5. SessionStep
    BY <2>1, <2>2, <2>4 DEF SessionStep, Promise!Next, Promise!Write, Promise!Raise
  <2> QED
    BY <2>3, <2>5
<1>21. CASE Report
  <2>1. /\ pc = "report" /\ pc' \in {"raised", "returned"} /\ UNCHANGED outcome
        /\ pc' = "raised" => status = "unsolved"
    BY <1>21 DEF Report
  <2>2. UNCHANGED <<flag, runbook, status>>
    BY <2>1 DEF outcome
  <2>3. Accepted' = Accepted
    BY <2>2 DEF Accepted
  <2>4. OutcomeInv'
    BY <2>1, <2>2, <2>3 DEF OutcomeInv, PCs
  <2>5. /\ SessionPhase = "written" /\ SessionPhase' \in {"returned", "raised"}
        /\ SessionPhase' = "raised" => status = "unsolved"
    BY <2>1 DEF SessionPhase
  <2>6. SessionStep
    BY <2>2, <2>3, <2>5 DEF SessionStep, Promise!Next, Promise!Return, Promise!Raise
  <2> QED
    BY <2>4, <2>6
<1>22. CASE UNCHANGED vars
  <2>1. pc' = pc /\ UNCHANGED outcome
    BY <1>22 DEF vars
  <2>2. UNCHANGED <<flag, runbook, status, resultWritten>>
    BY <2>1 DEF outcome
  <2>3. Accepted' = Accepted /\ SessionPhase' = SessionPhase
    BY <2>1, <2>2 DEF Accepted, SessionPhase
  <2>4. OutcomeInv'
    BY <2>1, <2>2, <2>3 DEF OutcomeInv
  <2>5. SessionStep
    BY <2>2, <2>3 DEF SessionStep, Promise!sessionVars
  <2> QED
    BY <2>4, <2>5
<1> QED
  BY <1>1, <1>2, <1>3, <1>4, <1>5, <1>6, <1>7, <1>8, <1>9, <1>10, <1>11, <1>12, <1>13, <1>14,
     <1>15, <1>16, <1>17, <1>18, <1>19, <1>20, <1>21, <1>22, <1>23, <1>24 DEF Next, AskLlm, RunCall

(* Whatever the model answers, whatever fails and whatever happens to its      *)
(* files, the loop of agent.py is a session: unless a tool exits the program,  *)
(* decided once, by the first thing a tool accepted, and written once after it.*)
THEOREM RunsAreSessions == Spec => ImplementsSession
<1>1. Init => OutcomeInv /\ Promise!Init
  BY DEF Init, OutcomeInv, PCs, OpenPCs, Promise!Init, SessionPhase, Accepted
<1>2. OutcomeInv /\ [Next]_vars => OutcomeInv' /\ [Promise!Next]_(Promise!sessionVars)
  BY OutcomeStep DEF SessionStep
<1> QED
  BY <1>1, <1>2, PTL DEF Spec, ImplementsSession, Promise!Spec

(* result.json says "solved" exactly for an accepted flag and "runbook"        *)
(* exactly for a runbook, and there are never both.                            *)
THEOREM ResultsAreTrue == Spec => []StatusMatchesOutcome
<1>1. Init => OutcomeInv
  BY DEF Init, OutcomeInv, PCs, OpenPCs
<1>2. OutcomeInv /\ [Next]_vars => OutcomeInv'
  BY OutcomeStep
<1>3. OutcomeInv => StatusMatchesOutcome
  <2> SUFFICES ASSUME OutcomeInv, resultWritten
               PROVE  /\ status = "solved" <=> flag
                      /\ status = "runbook" <=> runbook
                      /\ ~ (flag /\ runbook)
    BY DEF StatusMatchesOutcome
  <2>1. status = Promise!StatusOf(Accepted)
    BY DEF OutcomeInv
  <2>2. flag => status = "solved"
    BY <2>1, StatusIs, AcceptedIs
  <2>3. ~ flag /\ runbook => status = "runbook"
    BY <2>1, StatusIs, AcceptedIs
  <2>4. ~ flag /\ ~ runbook => status = "unsolved"
    BY <2>1, StatusIs, AcceptedIs
  <2>5. ~ (flag /\ runbook)
    BY DEF OutcomeInv
  <2> QED
    BY <2>2, <2>3, <2>4, <2>5
<1> QED
  BY <1>1, <1>2, <1>3, PTL DEF Spec

-----------------------------------------------------------------------------
(* Types.  The counters stay in their ranges because each step of the loop     *)
(* counts at most once and the loop is left at the limits.                     *)
CountInv ==
  /\ step \in 0..MaxSteps /\ steps \in 0..MaxSteps /\ steps <= step
  /\ pc \in OpenPCs \ {"top"} => step >= 1
  /\ pending \in 0..MaxCalls /\ (pc \in OpenPCs \ {"tools"} => pending = 0)
  /\ noToolStreak \in 0..3 /\ (pc \in OpenPCs => noToolStreak < 3)
  /\ overStreak \in 0..3 /\ (pc \in OpenPCs => overStreak < 3)
  /\ compactions \in 0..step /\ (pc \in OpenPCs \ {"top"} => compactions < step)
  /\ longReasoning \in 0..step /\ (pc \in {"chat", "retry"} => longReasoning < step)
  /\ criticCalls \in 0..CriticMax
  /\ idle \in 0..CriticIdle
  /\ pc \in OpenPCs => idle < CriticIdle \/ (pc = "critic" /\ cause = "idle")

LEMMA CountStep ==
  ASSUME CountInv, [Next]_vars
  PROVE  CountInv'
<1> USE AgentAssumption DEF OpenPCs, CountInv
<1>1. CASE StepLimit
  BY <1>1 DEF StepLimit, Ends, call, counters, progress
<1>2. CASE TimeLimit
  <2>1. pc = "top" /\ step < MaxSteps /\ step' = step + 1 /\ steps' = step /\ pc' = "finish"
    BY <1>2 DEF TimeLimit, Ends
  <2>2. /\ pending' = pending /\ noToolStreak' = noToolStreak /\ overStreak' = overStreak
        /\ compactions' = compactions /\ longReasoning' = longReasoning
        /\ criticCalls' = criticCalls /\ idle' = idle /\ cause' = cause
    BY <1>2 DEF TimeLimit, call, counters, progress
  <2> QED
    BY <2>1, <2>2
<1>3. CASE NextStep
  BY <1>3 DEF NextStep, call, counters, progress
<1>4. CASE Truncated
  BY <1>4 DEF Truncated, call, counters, progress
<1>5. CASE ChatFails
  BY <1>5 DEF ChatFails, Asking, Ends, call, counters, progress
<1>6. CASE Overflow
  BY <1>6 DEF Overflow, Asking, call, counters, progress
<1>7. ASSUME NEW long \in Thinking, Narrate(long) PROVE CountInv'
  <2>1. longReasoning' \in {longReasoning, longReasoning + 1}
    BY <1>7 DEF Narrate, Thinks
  <2>2. \/ noToolStreak' >= 3 /\ pc' = "finish"
        \/ noToolStreak' < 3 /\ pc' = "top"
    BY <1>7 DEF Narrate, Ends
  <2>3. pc \in {"chat", "retry"} /\ noToolStreak' = noToolStreak + 1
    BY <1>7 DEF Narrate, Asking
  <2>4. /\ step' = step /\ steps' = steps /\ pending' = pending /\ overStreak' = overStreak
        /\ compactions' = compactions /\ criticCalls' = criticCalls /\ idle' = idle
        /\ cause' = cause
    BY <1>7 DEF Narrate, call, progress
  <2> QED
    BY <2>1, <2>2, <2>3, <2>4
<1>8. ASSUME NEW long \in Thinking, NEW n \in 1..MaxCalls, NEW s \in Signatures,
             CallTools(n, s, long)
      PROVE  CountInv'
  <2>1. longReasoning' \in {longReasoning, longReasoning + 1}
    BY <1>8 DEF CallTools, Thinks
  <2> QED
    BY <1>8, <2>1 DEF CallTools, Asking, progress
<1>9. CASE SkippedCall \/ BlockedCall \/ RunCall
  <2>1. pc = "tools" /\ pending > 0
    BY <1>9 DEF SkippedCall, BlockedCall, RunCall, PlainCall, NoteCall, FlagCall, RunbookCall,
                BashOnOwnFiles, NextCall
  <2>2. \E kind \in {"answered", "skipped", "final"} : Answer(kind)
    BY <1>9 DEF SkippedCall, BlockedCall, RunCall, PlainCall, NoteCall, FlagCall, RunbookCall,
                BashOnOwnFiles
  <2> QED
    BY <2>1, <2>2 DEF Answer, counters
<1>10. CASE ToolsDone
  <2>1. pc' \in {"finish", "after"}
    BY <1>10 DEF ToolsDone, Ends
  <2> QED
    BY <1>10, <2>1 DEF ToolsDone, call, counters, progress
<1>11. CASE Bookkeeping
  BY <1>11 DEF Bookkeeping, ComparesCalls, counters
<1>22. CASE Undecodable
  BY <1>22, Undecoded DEF counters, progress
<1>23. CASE LeaveCall
  BY <1>23, LeavesCalls DEF call, counters, progress
<1>12. CASE Critic
  BY <1>12 DEF Critic, MayAsk, call
<1>13. CASE ContextFits
  BY <1>13 DEF ContextFits, StreakEnds, call, progress
<1>14. CASE ContextOver
  BY <1>14 DEF ContextOver, call, counters, progress
<1>15. CASE Reduce
  <2>1. \/ overStreak' >= 3 /\ pc' = "finish"
        \/ overStreak' < 3 /\ pc' \in {"shrink", "critic"}
    <3>1. overStreak \in 0..2 /\ overStreak' = overStreak + 1
      <4>1. pc = "reduce" /\ overStreak' = overStreak + 1
        BY <1>15 DEF Reduce
      <4> QED
        BY <4>1
    <3>2. \/ overStreak' >= 3 /\ pc' = "finish"
          \/ overStreak' = 2 /\ pc' = "shrink"
          \/ overStreak' = 1 /\ pc' = "critic"
      <4>1. \/ overStreak' >= 3 /\ Ends("unsolved", "context cannot be reduced")
            \/ overStreak' = 2 /\ pc' = "shrink"
            \/ overStreak' = 1 /\ pc' = "critic"
        BY <1>15 DEF Reduce
      <4>2. Ends("unsolved", "context cannot be reduced") => pc' = "finish"
        BY DEF Ends
      <4> QED
        BY <4>1, <4>2
    <3> QED
      BY <3>1, <3>2
  <2>2. pc = "reduce" /\ overStreak' = overStreak + 1
    BY <1>15 DEF Reduce
  <2>3. /\ step' = step /\ steps' = steps /\ pending' = pending /\ noToolStreak' = noToolStreak
        /\ compactions' = compactions /\ criticCalls' = criticCalls
        /\ longReasoning' = longReasoning /\ idle' = idle /\ cause' = cause
    BY <1>15 DEF Reduce, call, progress
  <2> QED
    BY <2>1, <2>2, <2>3
<1>16. CASE Shrink
  <2>1. pc' \in {"finish", "critic"}
    BY <1>16 DEF Shrink, Ends
  <2> QED
    BY <1>16, <2>1 DEF Shrink, call, counters
<1>17. CASE Compact
  BY <1>17 DEF Compact
<1>18. CASE CompactFails
  <2>1. pc' = "finish"
    BY <1>18 DEF CompactFails, Ends
  <2>2. pc = "compact" /\ compactions' = compactions + 1
    BY <1>18 DEF CompactFails
  <2>3. /\ step' = step /\ steps' = steps /\ pending' = pending /\ noToolStreak' = noToolStreak
        /\ overStreak' = overStreak /\ criticCalls' = criticCalls
        /\ longReasoning' = longReasoning /\ idle' = idle /\ cause' = cause
    BY <1>18 DEF CompactFails, call, progress
  <2> QED
    BY <2>1, <2>2, <2>3
<1>19. CASE Finish
  <2>1. pc' \in {"report", "raised"}
    BY <1>19 DEF Finish
  <2> QED
    BY <1>19, <2>1 DEF Finish, call, counters, progress
<1>20. CASE Report
  <2>1. pc' \in {"returned", "raised"}
    BY <1>20 DEF Report
  <2> QED
    BY <1>20, <2>1 DEF Report, call, counters, progress
<1>21. CASE UNCHANGED vars
  BY <1>21 DEF vars, call, counters, progress
<1> QED
  BY <1>1, <1>2, <1>3, <1>4, <1>5, <1>6, <1>7, <1>8, <1>9, <1>10, <1>11, <1>12, <1>13, <1>14,
     <1>15, <1>16, <1>17, <1>18, <1>19, <1>20, <1>21, <1>22, <1>23 DEF Next, AskLlm

-----------------------------------------------------------------------------
(* Every step of the loop leaves the conversation alone, adds to it what is    *)
(* neither a call nor a reply, adds a call, answers one, or compacts it.       *)
IsPlain(more) ==
  /\ more \in Seq(Messages)
  /\ \A i \in DOMAIN more : more[i].role \in PlainRoles \ {"reset"} /\ more[i].step = step

Quiet == messages' = messages /\ pending' = pending /\ (step' = step \/ pending = 0)
Says == /\ pending = 0 /\ pending' = 0 /\ step' = step
        /\ \E more : IsPlain(more) /\ messages' = messages \o more
Calls == /\ pending = 0 /\ step' = step
         /\ \E n \in 1..MaxCalls, s \in Signatures :
              messages' = messages \o <<CallMsg(n, s)>> /\ pending' = n
Replied == /\ pc = "tools" /\ pending > 0 /\ pending' = pending - 1 /\ step' = step
           /\ \E kind \in {"answered", "skipped", "final"} :
                messages' = messages \o <<ToolMsg(kind)>>
Compacts == pending = 0 /\ pending' = 0 /\ messages' = CompactedMessages(messages)

LEMMA PlainOnes ==
  ASSUME step \in 0..MaxSteps
  PROVE  /\ \A role \in PlainRoles \ {"reset"} : IsPlain(<<Msg(role)>>)
         /\ IsPlain(WarnIf(TRUE)) /\ IsPlain(WarnIf(FALSE))
<1>1. \A role \in PlainRoles :
        Msg(role) \in Messages /\ Msg(role).role = role /\ Msg(role).step = step
  BY DEF Msg, Messages
<1>2. \A role \in PlainRoles \ {"reset"} : IsPlain(<<Msg(role)>>)
  <2> TAKE role \in PlainRoles \ {"reset"}
  <2> DEFINE m == Msg(role)
  <2>1. m \in Messages /\ m.role \in PlainRoles \ {"reset"} /\ m.step = step
    BY <1>1
  <2> HIDE DEF m
  <2>2. <<m>> \in Seq(Messages) /\ DOMAIN <<m>> = {1} /\ <<m>>[1] = m
    BY <2>1
  <2>3. IsPlain(<<m>>)
    BY <2>1, <2>2 DEF IsPlain
  <2> QED
    BY <2>3 DEF m
<1>3. WarnIf(TRUE) = <<Msg("warn")>> /\ WarnIf(FALSE) = << >>
  BY DEF WarnIf
<1>4. IsPlain(<< >>)
  BY DEF IsPlain
<1> QED
  BY <1>2, <1>3, <1>4 DEF PlainRoles

LEMMA PlainJoined ==
  ASSUME NEW a, NEW b, IsPlain(a), IsPlain(b)
  PROVE  IsPlain(a \o b)
<1>1. a \in Seq(Messages) /\ b \in Seq(Messages)
  BY DEF IsPlain
<1>2. /\ a \o b \in Seq(Messages) /\ Len(a \o b) = Len(a) + Len(b)
      /\ Len(a) \in Nat /\ Len(b) \in Nat
      /\ \A i \in 1..Len(a) : (a \o b)[i] = a[i]
      /\ \A i \in (Len(a) + 1)..(Len(a) + Len(b)) : (a \o b)[i] = b[i - Len(a)]
  BY <1>1, Joined
<1>3. DOMAIN a = 1..Len(a) /\ DOMAIN b = 1..Len(b) /\ DOMAIN (a \o b) = 1..(Len(a) + Len(b))
  BY <1>1, <1>2
<1>4. ASSUME NEW i \in 1..(Len(a) + Len(b))
      PROVE  (a \o b)[i].role \in PlainRoles \ {"reset"} /\ (a \o b)[i].step = step
  <2>1. CASE i <= Len(a)
    BY <1>2, <1>3, <2>1 DEF IsPlain
  <2>2. CASE i > Len(a)
    <3>1. (a \o b)[i] = b[i - Len(a)] /\ i - Len(a) \in DOMAIN b
      BY <1>2, <1>3, <2>2
    <3> QED
      BY <3>1 DEF IsPlain
  <2> QED
    BY <1>2, <2>1, <2>2
<1> QED
  BY <1>2, <1>3, <1>4 DEF IsPlain

(* Every step but the model's calls and a compaction. *)
Carries ==
  \/ StepLimit \/ TimeLimit \/ NextStep \/ Truncated \/ ChatFails \/ Overflow
  \/ \E long \in Thinking : Narrate(long)
  \/ SkippedCall \/ BlockedCall \/ RunCall \/ LeaveCall \/ ToolsDone
  \/ Bookkeeping \/ Undecodable \/ Critic \/ ContextFits \/ ContextOver \/ Reduce \/ Shrink \/ CompactFails \/ Finish \/ Report
  \/ UNCHANGED vars

LEMMA Carried ==
  ASSUME CountInv, messages \in Seq(Messages), g4Due' \in BOOLEAN, g4Due \in BOOLEAN, Carries
  PROVE  Quiet \/ Says \/ Replied
<1> USE AgentAssumption
<1>a. step \in 0..MaxSteps /\ pending \in 0..MaxCalls /\ (pc \in OpenPCs \ {"tools"} => pending = 0)
  BY DEF CountInv
<1>b. /\ \A role \in PlainRoles \ {"reset"} : IsPlain(<<Msg(role)>>)
      /\ IsPlain(WarnIf(g4Due)) /\ IsPlain(WarnIf(g4Due'))
  <2>1. WarnIf(g4Due) \in {WarnIf(TRUE), WarnIf(FALSE)} /\ WarnIf(g4Due') \in {WarnIf(TRUE), WarnIf(FALSE)}
    BY DEF WarnIf
  <2> QED
    BY <1>a, <2>1, PlainOnes
<1>c. \A m : Append(messages, m) = messages \o <<m>>
  BY AppendIsConcat
<1>1. CASE StepLimit \/ TimeLimit \/ NextStep
  <2>1. pc = "top" /\ messages' = messages /\ UNCHANGED call
    BY <1>1 DEF StepLimit, TimeLimit, NextStep
  <2> QED
    BY <1>a, <2>1 DEF Quiet, call, OpenPCs
<1>2. CASE Truncated \/ ChatFails \/ Overflow
  <2>1. messages' = messages /\ UNCHANGED call /\ step' = step
    BY <1>2 DEF Truncated, ChatFails, Overflow
  <2> QED
    BY <2>1 DEF Quiet, call
<1>3. ASSUME NEW long \in Thinking, Narrate(long) PROVE Says
  <2>1. pc \in OpenPCs \ {"tools"} /\ step' = step /\ UNCHANGED call
    BY <1>3 DEF Narrate, Asking, OpenPCs
  <2>2. \/ messages' = Append(messages, Msg("answer"))
        \/ messages' = messages \o <<Msg("answer"), Msg("nudge")>> \o WarnIf(g4Due')
    BY <1>3 DEF Narrate
  <2>3. <<Msg("answer"), Msg("nudge")>> = <<Msg("answer")>> \o <<Msg("nudge")>>
    OBVIOUS
  <2>4. IsPlain(<<Msg("answer")>>) /\ IsPlain(<<Msg("nudge")>>)
    BY <1>b DEF PlainRoles
  <2> DEFINE two == <<Msg("answer"), Msg("nudge")>>
             warn == WarnIf(g4Due')
  <2>5. IsPlain(two)
    BY <2>3, <2>4, PlainJoined
  <2>6. IsPlain(warn)
    BY <1>b
  <2> HIDE DEF two, warn
  <2>7. IsPlain(two \o warn)
    BY <2>5, <2>6, PlainJoined
  <2>8. (messages \o two) \o warn = messages \o (two \o warn)
    BY <2>5, <2>6, ConcatAssociative DEF IsPlain
  <2>9. messages' = messages \o <<Msg("answer")>> \/ messages' = messages \o (two \o warn)
    BY <1>c, <2>2, <2>8 DEF two, warn
  <2> QED
    BY <1>a, <2>1, <2>4, <2>7, <2>9 DEF Says, call
<1>5. CASE SkippedCall \/ BlockedCall \/ RunCall
  <2>1. pc = "tools" /\ pending > 0
    BY <1>5 DEF SkippedCall, BlockedCall, RunCall, PlainCall, NoteCall, FlagCall, RunbookCall,
                BashOnOwnFiles, NextCall
  <2>2. PICK kind \in {"answered", "skipped", "final"} : Answer(kind)
    BY <1>5 DEF SkippedCall, BlockedCall, RunCall, PlainCall, NoteCall, FlagCall, RunbookCall,
                BashOnOwnFiles
  <2> QED
    BY <1>c, <2>1, <2>2 DEF Answer, Replied
<1>6. CASE ToolsDone
  <2>1. pending = 0 /\ UNCHANGED call /\ step' = step /\ messages' = messages \o WarnIf(g4Due)
    BY <1>6 DEF ToolsDone
  <2> QED
    BY <1>b, <2>1 DEF Says, call
<1>7. CASE Bookkeeping \/ Undecodable
  <2>1. pc \in OpenPCs \ {"tools"} /\ pending' = pending /\ step' = step
    BY <1>7 DEF Bookkeeping, Undecodable, ComparesCalls, OpenPCs
  <2>2. messages' \in {messages, Append(messages, Msg("repeat"))}
    BY <1>7 DEF Bookkeeping, Undecodable, ComparesCalls
  <2>3. IsPlain(<<Msg("repeat")>>)
    BY <1>b DEF PlainRoles
  <2> QED
    BY <1>a, <1>c, <2>1, <2>2, <2>3 DEF Quiet, Says
<1>8. CASE Critic
  <2>1. pc \in OpenPCs \ {"tools"} /\ UNCHANGED call /\ step' = step
    BY <1>8 DEF Critic, OpenPCs
  <2>2. messages' \in {messages, Append(messages, Msg("critic"))}
    BY <1>8 DEF Critic
  <2>3. IsPlain(<<Msg("critic")>>)
    BY <1>b DEF PlainRoles
  <2> QED
    BY <1>a, <1>c, <2>1, <2>2, <2>3 DEF Quiet, Says, call
<1>9. CASE ContextFits \/ ContextOver \/ Reduce \/ Shrink \/ CompactFails
  <2>1. messages' = messages /\ UNCHANGED call /\ step' = step
    BY <1>9 DEF ContextFits, ContextOver, Reduce, Shrink, CompactFails
  <2> QED
    BY <2>1 DEF Quiet, call
<1>11. CASE Finish \/ Report
  <2>1. messages' = messages /\ UNCHANGED call /\ step' = step
    BY <1>11 DEF Finish, Report
  <2> QED
    BY <2>1 DEF Quiet, call
<1>12. CASE UNCHANGED vars
  BY <1>12 DEF vars, call, Quiet
<1>13. CASE LeaveCall
  BY <1>13, LeavesCalls DEF call, Quiet
<1> QED
  BY <1>1, <1>2, <1>3, <1>5, <1>6, <1>7, <1>8, <1>9, <1>11, <1>12, <1>13 DEF Carries

LEMMA Changes ==
  ASSUME CountInv, messages \in Seq(Messages), g4Due' \in BOOLEAN, g4Due \in BOOLEAN, [Next]_vars
  PROVE  Quiet \/ Says \/ Calls \/ Replied \/ Compacts
<1> USE AgentAssumption
<1>a. pending \in 0..MaxCalls /\ (pc \in OpenPCs \ {"tools"} => pending = 0)
  BY DEF CountInv
<1>1. ASSUME NEW long \in Thinking, NEW n \in 1..MaxCalls, NEW s \in Signatures,
             CallTools(n, s, long)
      PROVE  Calls
  <2>1. /\ pc \in OpenPCs \ {"tools"} /\ step' = step /\ pending' = n
        /\ messages' = Append(messages, CallMsg(n, s))
    BY <1>1 DEF CallTools, Asking, WithCall, OpenPCs
  <2>2. Append(messages, CallMsg(n, s)) = messages \o <<CallMsg(n, s)>>
    BY AppendIsConcat
  <2> QED
    BY <1>a, <2>2, <2>1 DEF Calls
<1>2. CASE Compact
  <2>1. /\ pc \in OpenPCs \ {"tools"} /\ pending' = pending
        /\ messages' = CompactedMessages(messages)
    BY <1>2 DEF Compact, OpenPCs
  <2> QED
    BY <1>a, <2>1 DEF Compacts
<1>3. CASE Carries
  BY <1>3, Carried
<1> QED
  BY <1>1, <1>2, <1>3 DEF Next, AskLlm, Carries

-----------------------------------------------------------------------------
(* The shape of the conversation. *)
MsgInv == messages \in Seq(Messages) /\ OpensWell(messages)

LEMMA Extended ==
  ASSUME NEW ms \in Seq(Messages), NEW more \in Seq(Messages), OpensWell(ms),
         \A i \in DOMAIN more : more[i].role # "reset"
  PROVE  ms \o more \in Seq(Messages) /\ OpensWell(ms \o more)
<1>1. /\ ms \o more \in Seq(Messages) /\ Len(ms \o more) = Len(ms) + Len(more)
      /\ Len(ms) \in Nat /\ Len(more) \in Nat
      /\ \A i \in 1..Len(ms) : (ms \o more)[i] = ms[i]
      /\ \A i \in (Len(ms) + 1)..(Len(ms) + Len(more)) : (ms \o more)[i] = more[i - Len(ms)]
  BY Joined
<1> DEFINE new == ms \o more
<1>2. DOMAIN ms = 1..Len(ms) /\ DOMAIN more = 1..Len(more) /\ DOMAIN new = 1..(Len(ms) + Len(more))
  BY <1>1
<1>3. Len(ms) >= 2 /\ ms[1].role = "system" /\ ms[2].role = "task"
      /\ \A i \in 1..Len(ms) : ms[i].role = "reset" => i = 3
  BY <1>2 DEF OpensWell
<1>4. ASSUME NEW i \in 1..(Len(ms) + Len(more)), new[i].role = "reset" PROVE i = 3
  <2>1. CASE i <= Len(ms)
    BY <1>1, <1>3, <1>4, <2>1
  <2>2. CASE i > Len(ms)
    <3>1. i - Len(ms) \in DOMAIN more /\ new[i] = more[i - Len(ms)]
      BY <1>1, <1>2, <2>2
    <3> QED
      BY <1>4, <3>1
  <2> QED
    BY <1>1, <2>1, <2>2
<1>5. new[1] = ms[1] /\ new[2] = ms[2]
  BY <1>1, <1>3
<1> HIDE DEF new
<1>6. Len(new) >= 2
  BY <1>1, <1>3 DEF new
<1>7. OpensWell(new)
  BY <1>2, <1>3, <1>4, <1>5, <1>6 DEF OpensWell
<1> QED
  BY <1>1, <1>7 DEF new

LEMMA CallMessages ==
  ASSUME step \in 1..MaxSteps, NEW n \in 1..MaxCalls, NEW s \in Signatures,
         NEW kind \in {"answered", "skipped", "final"}
  PROVE  /\ CallMsg(n, s) \in Messages /\ CallMsg(n, s).role = "call"
         /\ CallMsg(n, s).n = n /\ CallMsg(n, s).step = step
         /\ ToolMsg(kind) \in Messages /\ ToolMsg(kind).role = "tool"
         /\ ToolMsg(kind).step = step /\ ToolMsg(kind).kind = kind
BY DEF CallMsg, ToolMsg, Messages

LEMMA MsgStep ==
  ASSUME MsgInv, CountInv, Quiet \/ Says \/ Calls \/ Replied \/ Compacts,
         (Calls \/ Replied) => pc \in OpenPCs \ {"top"}
  PROVE  MsgInv'
<1>1. CASE Quiet
  BY <1>1 DEF Quiet, MsgInv
<1>2. CASE Says
  <2>1. PICK more : IsPlain(more) /\ messages' = messages \o more
    BY <1>2 DEF Says
  <2>2. more \in Seq(Messages) /\ \A i \in DOMAIN more : more[i].role # "reset"
    BY <2>1 DEF IsPlain
  <2> QED
    BY <2>1, <2>2, Extended DEF MsgInv
<1>3. ASSUME NEW m \in Messages, m.role # "reset", messages' = messages \o <<m>>
      PROVE  MsgInv'
  <2>1. <<m>> \in Seq(Messages) /\ DOMAIN <<m>> = {1} /\ <<m>>[1] = m
    OBVIOUS
  <2>2. \A i \in DOMAIN <<m>> : <<m>>[i].role # "reset"
    BY <1>3, <2>1
  <2> QED
    BY <1>3, <2>1, <2>2, Extended DEF MsgInv
<1>4. CASE Calls
  <2>1. step \in 1..MaxSteps
    BY <1>4 DEF CountInv
  <2>2. PICK n \in 1..MaxCalls, s \in Signatures : messages' = messages \o <<CallMsg(n, s)>>
    BY <1>4 DEF Calls
  <2>3. CallMsg(n, s) \in Messages /\ CallMsg(n, s).role = "call"
    BY <2>1 DEF CallMsg, Messages
  <2> QED
    BY <1>3, <2>2, <2>3
<1>5. CASE Replied
  <2>1. step \in 1..MaxSteps
    BY <1>5 DEF CountInv
  <2>2. PICK kind \in {"answered", "skipped", "final"} : messages' = messages \o <<ToolMsg(kind)>>
    BY <1>5 DEF Replied
  <2>3. ToolMsg(kind) \in Messages /\ ToolMsg(kind).role = "tool"
    BY <2>1 DEF ToolMsg, Messages
  <2> QED
    BY <1>3, <2>2, <2>3
<1>6. CASE Compacts
  <2> DEFINE t == TailStart(messages)
             new == CompactedMessages(messages)
  <2>1. t \in 3..(Len(messages) + 1) /\ Len(messages) \in Nat
    BY TailStartsWithCall DEF MsgInv
  <2>2. /\ new \in Seq(Messages) /\ Len(new) = Len(messages) + 4 - t
        /\ new[1] = messages[1] /\ new[2] = messages[2] /\ new[3].role = "reset"
        /\ \A i \in 4..Len(new) : new[i] = messages[i + t - 4]
    BY CompactedIs DEF MsgInv
  <2>3. DOMAIN new = 1..Len(new) /\ DOMAIN messages = 1..Len(messages)
    BY <2>2 DEF MsgInv
  <2> HIDE DEF t, new
  <2>4. ASSUME NEW i \in 1..Len(new), new[i].role = "reset" PROVE i = 3
    <3>1. CASE i >= 4
      <4>1. new[i] = messages[i + t - 4] /\ i + t - 4 \in 1..Len(messages) /\ i + t - 4 >= t
        BY <2>1, <2>2, <3>1
      <4>2. i + t - 4 = 3
        BY <2>3, <2>4, <4>1 DEF MsgInv, OpensWell
      <4>3. t = 3 /\ t <= Len(messages)
        BY <2>1, <4>1, <4>2
      <4>4. IsCall(messages[t])
        BY <4>3, TailStartsWithCall DEF MsgInv, t
      <4> QED
        BY <2>4, <4>1, <4>2, <4>3, <4>4 DEF IsCall
    <3>2. i # 1 /\ i # 2
      BY <2>2, <2>4 DEF MsgInv, OpensWell
    <3> QED
      BY <2>1, <2>2, <3>1, <3>2
  <2>5. messages' = new
    BY <1>6 DEF Compacts, new
  <2>6. OpensWell(new)
    <3>1. messages[1].role = "system" /\ messages[2].role = "task"
      BY DEF MsgInv, OpensWell
    <3>2. Len(new) >= 2 /\ new[1].role = "system" /\ new[2].role = "task"
      BY <2>1, <2>2, <3>1
    <3>3. \A i \in DOMAIN new : new[i].role = "reset" => i = 3
      BY <2>3, <2>4
    <3> QED
      BY <3>2, <3>3 DEF OpensWell
  <2>7. messages' \in Seq(Messages) /\ OpensWell(messages')
    BY <2>2, <2>5, <2>6
  <2> QED
    BY <2>7 DEF MsgInv
<1> QED
  BY <1>1, <1>2, <1>4, <1>5, <1>6

-----------------------------------------------------------------------------
(* Calls and replies.  Every reply belongs to a call, what follows a call is   *)
(* its replies, and only the newest call may be short of some: exactly those   *)
(* still pending.                                                              *)
Answers(ms, c) == (c + 1)..(c + ms[c].n)

Paired(ms, open, now) ==
  /\ \A i \in DOMAIN ms : ms[i].role = "tool" => \E c \in CallsOf(ms) : i \in Answers(ms, c)
  /\ \A c \in CallsOf(ms) : \A i \in DOMAIN ms :
       i \in Answers(ms, c) => ms[i].role = "tool" /\ ms[i].step = ms[c].step
  /\ \A c \in CallsOf(ms) :
       \/ c + ms[c].n <= Len(ms)
       \/ open > 0 /\ c + ms[c].n = Len(ms) + open /\ ms[c].step = now
  /\ open > 0 => \E c \in CallsOf(ms) : c + ms[c].n = Len(ms) + open /\ ms[c].step = now

PairInv == Paired(messages, pending, step)

LEMMA CallSizes ==
  ASSUME NEW ms \in Seq(Messages), NEW c \in CallsOf(ms)
  PROVE  c \in 1..Len(ms) /\ ms[c].role = "call" /\ ms[c].n \in 1..MaxCalls
<1>1. c \in 1..Len(ms) /\ ms[c].role = "call" /\ ms[c] \in Messages
  BY DEF CallsOf, IsCall
<1> QED
  BY <1>1 DEF Messages, PlainRoles

(* One message more, and what it does to the calls. *)
LEMMA OneMore ==
  ASSUME NEW ms \in Seq(Messages), NEW m \in Messages
  PROVE  LET new == ms \o <<m>>  l == Len(ms)
         IN  /\ new \in Seq(Messages) /\ Len(new) = l + 1 /\ l \in Nat
             /\ DOMAIN new = 1..(l + 1) /\ DOMAIN ms = 1..l
             /\ new[l + 1] = m /\ \A i \in 1..l : new[i] = ms[i]
             /\ m.role # "call" => CallsOf(new) = CallsOf(ms)
             /\ m.role = "call" => CallsOf(new) = CallsOf(ms) \cup {l + 1}
<1> DEFINE new == ms \o <<m>>
           l == Len(ms)
<1>1. <<m>> \in Seq(Messages) /\ Len(<<m>>) = 1 /\ <<m>>[1] = m
  OBVIOUS
<1>2. /\ new \in Seq(Messages) /\ Len(new) = l + Len(<<m>>) /\ l \in Nat
      /\ \A i \in 1..l : new[i] = ms[i]
      /\ \A i \in (l + 1)..(l + Len(<<m>>)) : new[i] = <<m>>[i - l]
  BY <1>1, Joined
<1> HIDE DEF new
<1>3. Len(new) = l + 1 /\ DOMAIN new = 1..(l + 1) /\ DOMAIN ms = 1..l
  BY <1>1, <1>2
<1>4. new[l + 1] = m
  <2>1. l + 1 \in (l + 1)..(l + Len(<<m>>)) /\ (l + 1) - l = 1
    BY <1>1, <1>2
  <2> QED
    BY <1>1, <1>2, <2>1
<1> HIDE DEF l
<1>5. \A i : i \in 1..(l + 1) <=> i \in 1..l \/ i = l + 1
  BY <1>2 DEF l
<1>6. CallsOf(new) = {i \in 1..(l + 1) : new[i].role = "call"} /\ CallsOf(ms) = {i \in 1..l : ms[i].role = "call"}
  BY <1>3 DEF CallsOf, IsCall
<1>7. m.role # "call" => CallsOf(new) = CallsOf(ms)
  BY <1>2, <1>4, <1>5, <1>6 DEF l
<1>8. m.role = "call" => CallsOf(new) = CallsOf(ms) \cup {l + 1}
  BY <1>2, <1>4, <1>5, <1>6 DEF l
<1> QED
  BY <1>2, <1>3, <1>4, <1>7, <1>8 DEF new, l

LEMMA PlainMore ==
  ASSUME NEW ms \in Seq(Messages), NEW more, IsPlain(more)
  PROVE  LET new == ms \o more  l == Len(ms)
         IN  /\ new \in Seq(Messages) /\ Len(new) >= l /\ l \in Nat
             /\ DOMAIN new = 1..Len(new) /\ DOMAIN ms = 1..l
             /\ \A i \in 1..l : new[i] = ms[i]
             /\ \A i \in (l + 1)..Len(new) : new[i].role \in PlainRoles \ {"reset"}
             /\ \A i \in (l + 1)..Len(new) : new[i].step = step
             /\ CallsOf(new) = CallsOf(ms)
<1> DEFINE new == ms \o more
           l == Len(ms)
<1>1. more \in Seq(Messages)
      /\ \A i \in 1..Len(more) : more[i].role \in PlainRoles \ {"reset"} /\ more[i].step = step
  BY DEF IsPlain
<1>2. /\ new \in Seq(Messages) /\ Len(new) = l + Len(more) /\ l \in Nat /\ Len(more) \in Nat
      /\ \A i \in 1..l : new[i] = ms[i]
      /\ \A i \in (l + 1)..(l + Len(more)) : new[i] = more[i - l]
  BY <1>1, Joined
<1> HIDE DEF new
<1>3. DOMAIN new = 1..Len(new) /\ DOMAIN ms = 1..l
  BY <1>1, <1>2
<1>4. ASSUME NEW i \in (l + 1)..Len(new)
      PROVE  new[i].role \in PlainRoles \ {"reset"} /\ new[i].step = step
  <2>1. new[i] = more[i - l] /\ i - l \in 1..Len(more)
    BY <1>2
  <2> QED
    BY <1>1, <2>1
<1>5. \A i \in (l + 1)..Len(new) : new[i].role # "call"
  BY <1>4 DEF PlainRoles
<1> HIDE DEF l
<1>6. \A i : i \in 1..Len(new) <=> i \in 1..l \/ i \in (l + 1)..Len(new)
  BY <1>2 DEF l
<1>7. CallsOf(new) = {i \in 1..Len(new) : new[i].role = "call"} /\ CallsOf(ms) = {i \in 1..l : ms[i].role = "call"}
  BY <1>3 DEF CallsOf, IsCall
<1>8. CallsOf(new) = CallsOf(ms)
  BY <1>2, <1>5, <1>6, <1>7 DEF l
<1> QED
  BY <1>2, <1>3, <1>4, <1>8 DEF new, l

LEMMA PairedPlain ==
  ASSUME NEW ms \in Seq(Messages), NEW more, IsPlain(more), NEW now, NEW later, Paired(ms, 0, now)
  PROVE  Paired(ms \o more, 0, later)
<1> DEFINE new == ms \o more
<1>1. /\ Len(new) >= Len(ms) /\ Len(ms) \in Nat /\ Len(new) \in Nat
      /\ DOMAIN new = 1..Len(new) /\ DOMAIN ms = 1..Len(ms)
      /\ \A i \in 1..Len(ms) : new[i] = ms[i]
      /\ \A i \in (Len(ms) + 1)..Len(new) : new[i].role \in PlainRoles \ {"reset"}
      /\ CallsOf(new) = CallsOf(ms)
  BY PlainMore
<1> HIDE DEF new
<1>2. \A c \in CallsOf(ms) : c \in 1..Len(ms) /\ ms[c].n \in 1..MaxCalls /\ new[c] = ms[c]
  BY <1>1, CallSizes
<1>3. \A c \in CallsOf(ms) : Answers(new, c) = Answers(ms, c) /\ c + ms[c].n <= Len(ms)
  BY <1>2 DEF Answers, Paired
<1>4. ASSUME NEW i \in DOMAIN new, new[i].role = "tool"
      PROVE  \E c \in CallsOf(new) : i \in Answers(new, c)
  <2>1. i \notin (Len(ms) + 1)..Len(new)
    BY <1>1, <1>4 DEF PlainRoles
  <2>2. i \in DOMAIN ms /\ new[i] = ms[i]
    BY <1>1, <2>1
  <2> QED
    BY <1>1, <1>3, <1>4, <2>2 DEF Paired
<1>5. ASSUME NEW c \in CallsOf(new), NEW i \in DOMAIN new, i \in Answers(new, c)
      PROVE  new[i].role = "tool" /\ new[i].step = new[c].step
  <2>1. c \in CallsOf(ms) /\ i \in Answers(ms, c)
    BY <1>1, <1>3, <1>5
  <2>2. i \in DOMAIN ms /\ new[i] = ms[i]
    BY <1>1, <1>2, <1>3, <2>1 DEF Answers
  <2> QED
    BY <1>2, <2>1, <2>2 DEF Paired
<1>6. \A c \in CallsOf(new) : c + new[c].n <= Len(new)
  BY <1>1, <1>2, <1>3, AgentAssumption
<1>7. Paired(new, 0, later)
  BY <1>4, <1>5, <1>6 DEF Paired
<1> QED
  BY <1>7 DEF new

LEMMA PairedCall ==
  ASSUME NEW ms \in Seq(Messages), step \in 1..MaxSteps, NEW n \in 1..MaxCalls,
         NEW s \in Signatures, Paired(ms, 0, step)
  PROVE  Paired(ms \o <<CallMsg(n, s)>>, n, step)
<1> DEFINE m == CallMsg(n, s)
           new == ms \o <<m>>
           l == Len(ms)
<1>1. m \in Messages /\ m.role = "call" /\ m.n = n /\ m.step = step
  BY DEF CallMsg, Messages
<1> HIDE DEF m
<1>2. /\ Len(new) = l + 1 /\ l \in Nat
      /\ DOMAIN new = 1..(l + 1) /\ DOMAIN ms = 1..l
      /\ new[l + 1] = m /\ \A i \in 1..l : new[i] = ms[i]
      /\ CallsOf(new) = CallsOf(ms) \cup {l + 1}
  BY <1>1, OneMore
<1> HIDE DEF new, l
<1>3. \A c \in CallsOf(ms) : c \in 1..l /\ ms[c].n \in 1..MaxCalls /\ new[c] = ms[c]
  BY <1>2, CallSizes DEF l
<1>4. \A c \in CallsOf(ms) : Answers(new, c) = Answers(ms, c) /\ c + ms[c].n <= l
  BY <1>3 DEF Answers, Paired, l
<1>5. ASSUME NEW i \in DOMAIN new, new[i].role = "tool"
      PROVE  \E c \in CallsOf(new) : i \in Answers(new, c)
  <2>1. i \in DOMAIN ms /\ new[i] = ms[i]
    BY <1>1, <1>2, <1>5
  <2> QED
    BY <1>2, <1>4, <1>5, <2>1 DEF Paired
<1>6. ASSUME NEW c \in CallsOf(new), NEW i \in DOMAIN new, i \in Answers(new, c)
      PROVE  new[i].role = "tool" /\ new[i].step = new[c].step
  <2>1. c # l + 1
    BY <1>2, <1>6 DEF Answers
  <2>2. c \in CallsOf(ms) /\ i \in Answers(ms, c)
    BY <1>2, <1>4, <1>6, <2>1
  <2>3. i \in DOMAIN ms /\ new[i] = ms[i]
    BY <1>2, <1>3, <1>4, <2>2 DEF Answers
  <2> QED
    BY <1>3, <2>2, <2>3 DEF Paired
<1>7. ASSUME NEW c \in CallsOf(new)
      PROVE  \/ c + new[c].n <= Len(new)
             \/ n > 0 /\ c + new[c].n = Len(new) + n /\ new[c].step = step
  <2>1. CASE c = l + 1
    BY <1>1, <1>2, <2>1
  <2>2. CASE c \in CallsOf(ms)
    BY <1>2, <1>3, <1>4, <2>2, AgentAssumption
  <2> QED
    BY <1>2, <2>1, <2>2
<1>8. l + 1 \in CallsOf(new) /\ (l + 1) + new[l + 1].n = Len(new) + n /\ new[l + 1].step = step
  BY <1>1, <1>2
<1> QED
  BY <1>5, <1>6, <1>7, <1>8 DEF Paired, new, m

LEMMA PairedReply ==
  ASSUME NEW ms \in Seq(Messages), step \in 1..MaxSteps, NEW open \in Nat, open > 0,
         NEW kind \in {"answered", "skipped", "final"}, Paired(ms, open, step)
  PROVE  Paired(ms \o <<ToolMsg(kind)>>, open - 1, step)
<1> DEFINE m == ToolMsg(kind)
           new == ms \o <<m>>
           l == Len(ms)
<1>1. m \in Messages /\ m.role = "tool" /\ m.step = step
  BY DEF ToolMsg, Messages
<1> HIDE DEF m
<1>2. /\ Len(new) = l + 1 /\ l \in Nat
      /\ DOMAIN new = 1..(l + 1) /\ DOMAIN ms = 1..l
      /\ new[l + 1] = m /\ \A i \in 1..l : new[i] = ms[i]
      /\ CallsOf(new) = CallsOf(ms)
  BY <1>1, OneMore
<1> HIDE DEF new, l
<1>3. \A c \in CallsOf(ms) : c \in 1..l /\ ms[c].n \in 1..MaxCalls /\ new[c] = ms[c]
                            /\ Answers(new, c) = Answers(ms, c)
  <2>1. \A c \in CallsOf(ms) : c \in 1..l /\ ms[c].n \in 1..MaxCalls /\ new[c] = ms[c]
    BY <1>2, CallSizes DEF l
  <2> QED
    BY <2>1 DEF Answers
<1>4. \A c \in CallsOf(ms) :
        c + ms[c].n <= l \/ (c + ms[c].n = l + open /\ ms[c].step = step)
  BY DEF Paired, l
<1>5. PICK p \in CallsOf(ms) : p + ms[p].n = l + open /\ ms[p].step = step
  BY DEF Paired, l
<1>6. ASSUME NEW i \in DOMAIN new, new[i].role = "tool"
      PROVE  \E c \in CallsOf(new) : i \in Answers(new, c)
  <2>1. CASE i = l + 1
    <3>1. i \in Answers(ms, p)
      BY <1>2, <1>3, <1>5, <2>1 DEF Answers
    <3> QED
      BY <1>2, <1>3, <3>1
  <2>2. CASE i # l + 1
    <3>1. i \in DOMAIN ms /\ new[i] = ms[i]
      BY <1>2, <2>2
    <3> QED
      BY <1>2, <1>3, <1>6, <3>1 DEF Paired
  <2> QED
    BY <2>1, <2>2
<1>7. ASSUME NEW c \in CallsOf(new), NEW i \in DOMAIN new, i \in Answers(new, c)
      PROVE  new[i].role = "tool" /\ new[i].step = new[c].step
  <2>1. c \in CallsOf(ms) /\ i \in Answers(ms, c) /\ new[c] = ms[c]
    BY <1>2, <1>3, <1>7
  <2>2. CASE i = l + 1
    <3>1. ~ (c + ms[c].n <= l)
      BY <1>2, <1>3, <2>1, <2>2 DEF Answers
    <3>2. ms[c].step = step
      BY <1>4, <2>1, <3>1
    <3> QED
      BY <1>1, <1>2, <2>1, <2>2, <3>2
  <2>3. CASE i # l + 1
    <3>1. i \in DOMAIN ms /\ new[i] = ms[i]
      BY <1>2, <2>3
    <3> QED
      BY <2>1, <3>1 DEF Paired
  <2> QED
    BY <2>2, <2>3
<1>8. ASSUME NEW c \in CallsOf(new)
      PROVE  \/ c + new[c].n <= Len(new)
             \/ open - 1 > 0 /\ c + new[c].n = Len(new) + (open - 1) /\ new[c].step = step
  <2>1. c \in CallsOf(ms) /\ new[c] = ms[c] /\ c \in 1..l /\ ms[c].n \in 1..MaxCalls
    BY <1>2, <1>3
  <2>2. c + ms[c].n <= l \/ (c + ms[c].n = l + open /\ ms[c].step = step)
    BY <1>4, <2>1
  <2> QED
    BY <1>2, <2>1, <2>2, AgentAssumption
<1>9. p \in CallsOf(new) /\ p + new[p].n = Len(new) + (open - 1) /\ new[p].step = step
  BY <1>2, <1>3, <1>5, AgentAssumption
<1> QED
  BY <1>6, <1>7, <1>8, <1>9 DEF Paired, new, m

(* The tail a compaction keeps starts with a call, so no reply in it belongs   *)
(* to a call that is gone.                                                     *)
LEMMA PairedCompact ==
  ASSUME NEW ms \in Seq(Messages), OpensWell(ms), NEW now, NEW later, Paired(ms, 0, now)
  PROVE  Paired(CompactedMessages(ms), 0, later)
<1> DEFINE new == CompactedMessages(ms)
           t == TailStart(ms)
           l == Len(ms)
<1>1. /\ new \in Seq(Messages) /\ Len(new) = l + 4 - t /\ l \in Nat
      /\ new[1] = ms[1] /\ new[2] = ms[2] /\ new[3].role = "reset"
      /\ \A i \in 4..Len(new) : new[i] = ms[i + t - 4]
  BY CompactedIs
<1>2. t \in 3..(l + 1) /\ (t <= l => ms[t].role = "call")
  BY TailStartsWithCall DEF IsCall
<1>3. DOMAIN new = 1..Len(new) /\ DOMAIN ms = 1..l
  BY <1>1
<1> HIDE DEF new, t, l
<1>4. \A i \in 1..Len(new) : new[i].role \in {"call", "tool"} => i >= 4
  BY <1>1, <1>2 DEF OpensWell
<1>5. ASSUME NEW c \in CallsOf(new)
      PROVE  /\ c >= 4 /\ c \in Nat /\ c + t - 4 \in CallsOf(ms) /\ new[c] = ms[c + t - 4]
             /\ new[c].n \in 1..MaxCalls
  <2>1. c \in 1..Len(new) /\ new[c].role = "call"
    BY <1>3 DEF CallsOf, IsCall
  <2>2. c \in 4..Len(new)
    BY <1>1, <1>2, <1>4, <2>1
  <2>3. new[c] = ms[c + t - 4] /\ c + t - 4 \in 1..l
    BY <1>1, <1>2, <2>2
  <2>4. c + t - 4 \in CallsOf(ms)
    BY <1>3, <2>1, <2>3 DEF CallsOf, IsCall
  <2>5. ms[c + t - 4].n \in 1..MaxCalls
    BY <2>4, CallSizes
  <2> QED
    BY <2>2, <2>3, <2>4, <2>5
<1>6. ASSUME NEW i \in DOMAIN new, new[i].role = "tool"
      PROVE  \E c \in CallsOf(new) : i \in Answers(new, c)
  <2>1. i \in 4..Len(new)
    BY <1>1, <1>2, <1>3, <1>4, <1>6
  <2> DEFINE k == i + t - 4
  <2>2. k \in 1..l /\ k >= t /\ new[i] = ms[k]
    <3>1. Len(new) = l + 4 - t /\ l \in Nat /\ t \in 3..(l + 1)
      BY <1>1, <1>2
    <3>2. k \in 1..l /\ k >= t
      BY <2>1, <3>1
    <3>3. new[i] = ms[k]
      BY <1>1, <2>1
    <3> QED
      BY <3>2, <3>3
  <2>3. PICK c \in CallsOf(ms) : k \in Answers(ms, c)
    BY <1>3, <1>6, <2>2 DEF Paired
  <2>4. c \in 1..l /\ ms[c].n \in 1..MaxCalls /\ ms[c].role = "call"
    BY CallSizes DEF l
  <2>5. c >= t
    <3> SUFFICES ASSUME c < t PROVE FALSE
      BY <1>2, <2>4
    <3> DEFINE size == ms[c].n
    <3>a. k \in (c + 1)..(c + size) /\ size \in Nat
      BY <2>3, <2>4, AgentAssumption DEF Answers
    <3> HIDE DEF size, k
    <3>b. t \in 1..l /\ t \in (c + 1)..(c + size)
      BY <1>1, <1>2, <2>2, <2>4, <3>a
    <3>1. t \in 1..l /\ t \in Answers(ms, c)
      BY <3>b DEF Answers, size
    <3>2. ms[t].role = "tool"
      BY <1>3, <3>1 DEF Paired
    <3> QED
      BY <1>2, <3>1, <3>2
  <2> DEFINE d == c + 4 - t
  <2>6. d \in 4..Len(new) /\ new[d] = ms[c]
    <3>1. d \in 4..Len(new) /\ d + t - 4 = c
      BY <1>1, <1>2, <2>4, <2>5
    <3> QED
      BY <1>1, <3>1
  <2>7. d \in CallsOf(new)
    BY <1>3, <2>4, <2>6 DEF CallsOf, IsCall
  <2>8. i \in Answers(new, d)
    <3> DEFINE size == ms[c].n
    <3>1. k \in (c + 1)..(c + size) /\ size \in Nat
      BY <2>3, <2>4, AgentAssumption DEF Answers
    <3>2. Answers(new, d) = (d + 1)..(d + size)
      BY <2>6 DEF Answers
    <3>3. Len(new) \in Int /\ t \in Int /\ l \in Int
      BY <1>1, <1>2
    <3> HIDE DEF size
    <3> QED
      BY <2>1, <2>4, <3>1, <3>2, <3>3
  <2> QED
    BY <2>7, <2>8
<1>7. ASSUME NEW c \in CallsOf(new), NEW i \in DOMAIN new, i \in Answers(new, c)
      PROVE  new[i].role = "tool" /\ new[i].step = new[c].step
  <2>1. /\ c >= 4 /\ c \in Nat /\ c + t - 4 \in CallsOf(ms) /\ new[c] = ms[c + t - 4]
        /\ new[c].n \in 1..MaxCalls
    BY <1>5
  <2>2. i \in 4..Len(new) /\ i + t - 4 \in 1..l /\ new[i] = ms[i + t - 4]
    <3>1. i \in 1..Len(new) /\ i >= c + 1
      BY <1>3, <1>7, <2>1, AgentAssumption DEF Answers
    <3>2. i \in 4..Len(new)
      BY <2>1, <3>1
    <3>3. Len(new) = l + 4 - t /\ l \in Nat /\ t \in 3..(l + 1)
      BY <1>1, <1>2
    <3>4. i + t - 4 \in 1..l
      BY <3>2, <3>3
    <3>5. new[i] = ms[i + t - 4]
      BY <1>1, <3>2
    <3> QED
      BY <3>2, <3>4, <3>5
  <2> DEFINE a == c + t - 4
             k == i + t - 4
             size == new[c].n
  <2>a. i \in (c + 1)..(c + size)
    BY <1>7 DEF Answers
  <2>b. size \in Nat /\ c \in Nat /\ t \in Int
    BY <1>2, <2>1, AgentAssumption
  <2>c. Answers(ms, a) = (a + 1)..(a + size)
    BY <2>1 DEF Answers
  <2>d. k \in (a + 1)..(a + size)
    <3> HIDE DEF size
    <3> QED
      BY <2>a, <2>b
  <2>3. k \in Answers(ms, a)
    BY <2>c, <2>d
  <2>4. /\ a \in CallsOf(ms) /\ k \in DOMAIN ms /\ k \in Answers(ms, a)
        /\ new[c] = ms[a] /\ new[i] = ms[k]
    BY <1>3, <2>1, <2>2, <2>3
  <2> HIDE DEF a, k
  <2> QED
    BY <2>4 DEF Paired
<1>8. ASSUME NEW c \in CallsOf(new) PROVE c + new[c].n <= Len(new)
  <2>1. /\ c >= 4 /\ c \in Nat /\ c + t - 4 \in CallsOf(ms) /\ new[c] = ms[c + t - 4]
        /\ new[c].n \in 1..MaxCalls
    BY <1>5
  <2>a. \A x \in CallsOf(ms) : x + ms[x].n <= l
    BY DEF Paired, l
  <2>2. (c + t - 4) + ms[c + t - 4].n <= l
    BY <2>1, <2>a
  <2> DEFINE size == new[c].n
  <2>3. (c + t - 4) + size <= l /\ size \in Nat
    BY <2>1, <2>2, AgentAssumption
  <2>4. Len(new) = l + 4 - t /\ l \in Nat /\ t \in 3..(l + 1) /\ c \in Nat
    BY <1>1, <1>2, <2>1
  <2> HIDE DEF size
  <2>5. c + size <= Len(new)
    BY <2>3, <2>4
  <2> QED
    BY <2>5 DEF size
<1>9. Paired(new, 0, later)
  BY <1>6, <1>7, <1>8 DEF Paired
<1> QED
  BY <1>9 DEF new

LEMMA PairStep ==
  ASSUME MsgInv, PairInv, CountInv, Quiet \/ Says \/ Calls \/ Replied \/ Compacts,
         (Calls \/ Replied) => pc \in OpenPCs \ {"top"}
  PROVE  PairInv'
<1>1. CASE Quiet
  <2>1. messages' = messages /\ pending' = pending /\ (step' = step \/ pending = 0)
    BY <1>1 DEF Quiet
  <2>2. PairInv' <=> Paired(messages, pending, step')
    BY <2>1 DEF PairInv
  <2>3. CASE step' = step
    BY <2>2, <2>3 DEF PairInv
  <2>4. CASE pending = 0
    BY <2>2, <2>4 DEF PairInv, Paired
  <2> QED
    BY <2>1, <2>3, <2>4
<1>2. CASE Says
  <2>1. PICK more : IsPlain(more) /\ messages' = messages \o more
    BY <1>2 DEF Says
  <2>2. Paired(messages \o more, 0, step')
    BY <1>2, <2>1, PairedPlain DEF Says, PairInv, MsgInv
  <2> QED
    BY <1>2, <2>1, <2>2 DEF Says, PairInv
<1>3. CASE Calls
  <2>1. step \in 1..MaxSteps
    BY <1>3 DEF CountInv
  <2>2. PICK n \in 1..MaxCalls, s \in Signatures :
          messages' = messages \o <<CallMsg(n, s)>> /\ pending' = n
    BY <1>3 DEF Calls
  <2>3. Paired(messages \o <<CallMsg(n, s)>>, n, step)
    BY <1>3, <2>1, PairedCall DEF Calls, PairInv, MsgInv
  <2> QED
    BY <1>3, <2>2, <2>3 DEF Calls, PairInv
<1>4. CASE Replied
  <2>1. step \in 1..MaxSteps /\ pending \in Nat /\ pending > 0
    BY <1>4 DEF CountInv, Replied
  <2>2. PICK kind \in {"answered", "skipped", "final"} : messages' = messages \o <<ToolMsg(kind)>>
    BY <1>4 DEF Replied
  <2>3. Paired(messages \o <<ToolMsg(kind)>>, pending - 1, step)
    BY <2>1, PairedReply DEF PairInv, MsgInv
  <2> QED
    BY <1>4, <2>2, <2>3 DEF Replied, PairInv
<1>5. CASE Compacts
  <2>1. Paired(CompactedMessages(messages), 0, step')
    BY <1>5, PairedCompact DEF Compacts, PairInv, MsgInv
  <2> QED
    BY <1>5, <2>1 DEF Compacts, PairInv
<1> QED
  BY <1>1, <1>2, <1>3, <1>4, <1>5

LEMMA CallsAreOpen ==
  ASSUME CountInv, Calls \/ Replied, [Next]_vars
  PROVE  pc \in OpenPCs \ {"top"}
<1>1. CASE pc = "tools"
  BY <1>1 DEF OpenPCs
<1>2. CASE pc # "tools"
  <2>1. pending = 0 /\ Calls /\ pending' >= 1
    <3>2. ~ Replied
      BY <1>2 DEF Replied
    <3>1. pending = 0
      BY <3>2 DEF Calls
    <3>3. \E n \in 1..MaxCalls : pending' = n
      BY <3>2 DEF Calls
    <3> QED
      BY <3>1, <3>2, <3>3, AgentAssumption
  <2>2. pending' # pending
    BY <2>1
  <2>3. \E long \in Thinking, n \in 1..MaxCalls, s \in Signatures : CallTools(n, s, long)
    <3> SUFFICES ASSUME \A long \in Thinking, n \in 1..MaxCalls, s \in Signatures : ~ CallTools(n, s, long)
                 PROVE  FALSE
      OBVIOUS
    <3>1. CASE StepLimit \/ TimeLimit \/ NextStep
      BY <2>2, <3>1 DEF StepLimit, TimeLimit, NextStep, call
    <3>2. CASE AskLlm
      BY <2>2, <3>2 DEF AskLlm, Truncated, ChatFails, Overflow, Narrate, call
    <3>3. CASE SkippedCall \/ BlockedCall \/ RunCall
      BY <1>2, <3>3 DEF SkippedCall, BlockedCall, RunCall, PlainCall, NoteCall, FlagCall,
                        RunbookCall, BashOnOwnFiles, NextCall
    <3>4. CASE ToolsDone \/ Bookkeeping \/ Undecodable \/ Critic \/ ContextFits \/ ContextOver
      BY <2>2, <3>4 DEF ToolsDone, Bookkeeping, Undecodable, ComparesCalls, Critic, ContextFits,
                        ContextOver, call
    <3>7. CASE LeaveCall
      BY <2>2, <3>7, LeavesCalls DEF call
    <3>5. CASE Reduce \/ Shrink \/ Compact \/ CompactFails \/ Finish \/ Report
      BY <2>2, <3>5 DEF Reduce, Shrink, Compact, CompactFails, Finish, Report, call
    <3>6. CASE UNCHANGED vars
      BY <2>2, <3>6 DEF vars, call
    <3> QED
      BY <3>1, <3>2, <3>3, <3>4, <3>5, <3>6, <3>7 DEF Next
  <2> QED
    BY <2>3 DEF CallTools, Asking, OpenPCs
<1> QED
  BY <1>1, <1>2

-----------------------------------------------------------------------------
(* The rest of the state. *)
DataInv ==
  /\ pc \in PCs /\ sig \in Signatures
  /\ recent \in Seq(Signatures) /\ Len(recent) <= 3
  /\ marker \in Markers /\ lastMarker \in Markers
  /\ cause \in {"none", "idle", "overflow", "threshold"}
  /\ caseFile \in {"whole", "broken", "garbled", "gone"}
  /\ status \in {"unsolved", "solved", "runbook"}
  /\ reason \in {"", "step limit", "time limit", "no tool calls 3x", "error: llm",
                 "error: case file", "error: output", "context cannot be reduced"}
BoolInv == /\ flag \in BOOLEAN /\ runbook \in BOOLEAN /\ workDir \in BOOLEAN
           /\ resultWritten \in BOOLEAN /\ g4Due \in BOOLEAN

LEMMA BoolStep ==
  ASSUME BoolInv, [Next]_vars
  PROVE  BoolInv'
<1> USE DEF BoolInv
<1>1. CASE StepLimit \/ TimeLimit \/ NextStep
  BY <1>1 DEF StepLimit, TimeLimit, NextStep, Ends, counters, outcome, files
<1>2. CASE Truncated \/ ChatFails \/ Overflow
  BY <1>2 DEF Truncated, ChatFails, Overflow, Ends, counters, outcome, files
<1>3. ASSUME NEW long \in Thinking, Thinks(long) PROVE g4Due' \in BOOLEAN
  BY <1>3 DEF Thinks
<1>4. ASSUME NEW long \in Thinking, Narrate(long) PROVE BoolInv'
  <2>1. g4Due' \in BOOLEAN
    BY <1>3, <1>4 DEF Narrate
  <2>2. UNCHANGED <<flag, runbook, resultWritten, workDir>>
    BY <1>4 DEF Narrate, Ends, outcome, files
  <2> QED
    BY <2>1, <2>2
<1>5. ASSUME NEW long \in Thinking, NEW n \in 1..MaxCalls, NEW s \in Signatures,
             CallTools(n, s, long)
      PROVE  BoolInv'
  <2>1. g4Due' \in BOOLEAN
    BY <1>3, <1>5 DEF CallTools
  <2>2. UNCHANGED <<flag, runbook, resultWritten, workDir>>
    BY <1>5 DEF CallTools, outcome, files
  <2> QED
    BY <2>1, <2>2
<1>6. CASE SkippedCall \/ BlockedCall \/ RunCall
  BY <1>6 DEF SkippedCall, BlockedCall, RunCall, PlainCall, NoteCall, FlagCall, RunbookCall,
              BashOnOwnFiles, Answer, counters, files
<1>7. CASE ToolsDone \/ Bookkeeping \/ Critic \/ ContextFits \/ ContextOver
  BY <1>7 DEF ToolsDone, Bookkeeping, ComparesCalls, Critic, ContextFits, ContextOver, Ends,
              counters, outcome, files
<1>11. CASE Undecodable \/ LeaveCall
  BY <1>11, Undecoded, LeavesCalls DEF counters, files
<1>8. CASE Reduce \/ Shrink \/ Compact \/ CompactFails
  BY <1>8 DEF Reduce, Shrink, Compact, CompactFails, Ends, counters, outcome, files
<1>9. CASE Finish \/ Report
  BY <1>9 DEF Finish, Report, counters, outcome, files
<1>10. CASE UNCHANGED vars
  BY <1>10 DEF vars, counters, outcome, files
<1> QED
  BY <1>1, <1>2, <1>4, <1>5, <1>6, <1>7, <1>8, <1>9, <1>10, <1>11 DEF Next, AskLlm

LEMMA NothingSeen == << >> \in Seq(Signatures) /\ Len(<< >>) = 0 /\ Len(<< >>) <= 3
OBVIOUS

LEMMA SeenAfter ==
  ASSUME NEW q, NEW r, q \in Seq(Signatures), Len(q) <= 3, r \in {<< >>, q}
  PROVE  r \in Seq(Signatures) /\ Len(r) <= 3
<1>1. CASE r = << >>
  BY <1>1, NothingSeen
<1>2. CASE r = q
  BY <1>2
<1> QED
  BY <1>1, <1>2

LEMMA LastThreeIs ==
  ASSUME NEW S, NEW q \in Seq(S), NEW s \in S, Len(q) <= 3
  PROVE  LastThree(Append(q, s)) \in Seq(S) /\ Len(LastThree(Append(q, s))) <= 3
<1> DEFINE r == Append(q, s)
<1>1. r \in Seq(S) /\ Len(r) = Len(q) + 1 /\ Len(q) \in Nat
  OBVIOUS
<1> HIDE DEF r
<1>2. CASE Len(r) > 3
  <2>1. r # << >>
    BY <1>1
  <2>2. Tail(r) \in Seq(S) /\ Len(Tail(r)) = Len(r) - 1
    BY <1>1, <2>1, HeadTailProperties
  <2> QED
    BY <1>1, <1>2, <2>2 DEF LastThree, r
<1>3. CASE ~ (Len(r) > 3)
  BY <1>1, <1>3 DEF LastThree, r
<1> QED
  BY <1>2, <1>3

LEMMA DataStep ==
  ASSUME DataInv, [Next]_vars
  PROVE  DataInv'
<1> USE DEF DataInv, PCs
<1>1. CASE StepLimit \/ TimeLimit \/ NextStep
  BY <1>1 DEF StepLimit, TimeLimit, NextStep, Ends, call, progress, outcome, files
<1>2. CASE Truncated \/ ChatFails \/ Overflow
  BY <1>2 DEF Truncated, ChatFails, Overflow, Ends, call, progress, outcome, files
<1>3. ASSUME NEW long \in Thinking, Narrate(long) PROVE DataInv'
  BY <1>3 DEF Narrate, Ends, call, progress, outcome, files
<1>4. ASSUME NEW long \in Thinking, NEW n \in 1..MaxCalls, NEW s \in Signatures,
             CallTools(n, s, long)
      PROVE  DataInv'
  BY <1>4 DEF CallTools, progress, outcome, files
<1>5. CASE SkippedCall \/ BlockedCall \/ RunCall
  BY <1>5 DEF SkippedCall, BlockedCall, RunCall, PlainCall, NoteCall, FlagCall, RunbookCall,
              BashOnOwnFiles, Answer, files
<1>6. CASE ToolsDone
  BY <1>6 DEF ToolsDone, Ends, call, progress, outcome, files
<1>7. CASE Bookkeeping
  <2>1. /\ pc' \in PCs /\ UNCHANGED <<sig, marker, caseFile, status, reason>>
        /\ cause' \in {cause, "idle"} /\ lastMarker' = SeenMarker
    BY <1>7 DEF Bookkeeping, ComparesCalls, outcome, files
  <2>2. lastMarker' \in Markers
    BY <2>1 DEF SeenMarker
  <2> DEFINE q == LastThree(Append(recent, sig))
  <2>3. q \in Seq(Signatures) /\ Len(q) <= 3
    BY LastThreeIs
  <2>4. recent' \in {<< >>, q}
    BY <1>7 DEF Bookkeeping, ComparesCalls
  <2> HIDE DEF q
  <2>6. recent' \in Seq(Signatures) /\ Len(recent') <= 3
    BY <2>3, <2>4, SeenAfter
  <2> QED
    BY <2>1, <2>2, <2>6
<1>14. CASE Undecodable
  <2> DEFINE q == LastThree(Append(recent, sig))
  <2>1. q \in Seq(Signatures) /\ Len(q) <= 3
    BY LastThreeIs
  <2>2. recent' \in {<< >>, q}
    BY <1>14, Undecoded
  <2> HIDE DEF q
  <2>3. recent' \in Seq(Signatures) /\ Len(recent') <= 3
    BY <2>1, <2>2, SeenAfter
  <2> QED
    BY <1>14, <2>3, Undecoded DEF Ends, progress, files
<1>15. CASE LeaveCall
  BY <1>15, LeavesCalls DEF call, progress, files
<1>8. CASE Critic \/ ContextFits \/ ContextOver
  BY <1>8 DEF Critic, ContextFits, ContextOver, call, progress, outcome, files
<1>9. CASE Reduce \/ Shrink \/ CompactFails
  BY <1>9 DEF Reduce, Shrink, CompactFails, Ends, call, progress, outcome, files
<1>10. CASE Compact
  <2>1. /\ pc' = "top" /\ sig' = sig /\ recent' = << >> /\ marker' \in Markers
        /\ UNCHANGED <<lastMarker, cause, caseFile, status, reason>>
    BY <1>10 DEF Compact, ForgetRepeats, outcome, files
  <2>2. recent' = << >>
    BY <2>1
  <2>3. recent' \in Seq(Signatures) /\ Len(recent') <= 3
    <3> HIDE DEF DataInv, PCs
    <3> QED
      BY <2>2, NothingSeen
  <2>4. pc' \in PCs /\ sig' \in Signatures /\ marker' \in Markers
    BY <2>1
  <2>5. UNCHANGED <<lastMarker, cause, caseFile, status, reason>>
    BY <2>1
  <2> HIDE DEF PCs
  <2> QED
    BY <2>3, <2>4, <2>5
<1>11. CASE Finish \/ Report
  BY <1>11 DEF Finish, Report, call, progress, outcome, files
<1>12. CASE UNCHANGED vars
  <2>1. UNCHANGED <<pc, sig, recent, marker, lastMarker, cause, caseFile, status, reason>>
    BY <1>12 DEF vars, call, progress, outcome, files
  <2> HIDE DEF PCs
  <2> QED
    BY <2>1
<1> HIDE DEF DataInv, PCs
<1>13. \/ StepLimit \/ TimeLimit \/ NextStep \/ Truncated \/ ChatFails \/ Overflow
       \/ (\E long \in Thinking : Narrate(long))
       \/ (\E long \in Thinking, n \in 1..MaxCalls, s \in Signatures : CallTools(n, s, long))
       \/ SkippedCall \/ BlockedCall \/ RunCall \/ LeaveCall \/ ToolsDone
       \/ Bookkeeping \/ Undecodable \/ Critic \/ ContextFits \/ ContextOver \/ Reduce \/ Shrink \/ Compact \/ CompactFails
       \/ Finish \/ Report \/ UNCHANGED vars
  BY DEF Next, AskLlm
<1> QED
  BY <1>1, <1>2, <1>3, <1>4, <1>5, <1>6, <1>7, <1>8, <1>9, <1>10, <1>11, <1>12, <1>13,
     <1>14, <1>15

-----------------------------------------------------------------------------
(* After an acceptance.  The reply of the call that ended the session is there *)
(* exactly when it has ended, and only skips follow it, and the warning of a   *)
(* run that is over.                                                           *)
IsFinal(m) == m.role = "tool" /\ m.kind = "final"
IsSkipped(m) == m.role = "tool" /\ m.kind = "skipped"
NoFinal(ms) == \A i \in DOMAIN ms : ~ IsFinal(ms[i])
OnlySkips(ms) == \A i, j \in DOMAIN ms : i < j /\ IsFinal(ms[i]) => IsSkipped(ms[j])

FinalInv ==
  /\ ~ Ended => NoFinal(messages)
  /\ Ended => ~ NoFinal(messages)
  /\ pc \in OpenPCs => OnlySkips(messages)
  /\ \A i, j \in DOMAIN messages :
       i < j /\ IsFinal(messages[i])
         => IsSkipped(messages[j]) \/ (messages[j].role = "warn" /\ j = Len(messages))

LEMMA NoneAfter ==
  ASSUME MsgInv, CountInv, NoFinal(messages), Quiet \/ Says \/ Calls \/ Compacts,
         Calls => pc \in OpenPCs \ {"top"}
  PROVE  NoFinal(messages')
<1>1. CASE Quiet
  BY <1>1 DEF Quiet
<1>2. CASE Says
  <2>1. PICK more : IsPlain(more) /\ messages' = messages \o more
    BY <1>2 DEF Says
  <2> DEFINE new == messages \o more
             l == Len(messages)
  <2>2. /\ DOMAIN new = 1..Len(new) /\ DOMAIN messages = 1..l /\ l \in Nat /\ Len(new) >= l
        /\ new \in Seq(Messages)
        /\ \A i \in 1..l : new[i] = messages[i]
        /\ \A i \in (l + 1)..Len(new) : new[i].role \in PlainRoles \ {"reset"}
    BY <2>1, PlainMore DEF MsgInv
  <2> HIDE DEF new, l
  <2>3. ASSUME NEW i \in DOMAIN new PROVE ~ IsFinal(new[i])
    <3>1. CASE i \in 1..l
      BY <2>2, <3>1 DEF NoFinal
    <3>2. CASE i \in (l + 1)..Len(new)
      BY <2>2, <3>2 DEF IsFinal, PlainRoles
    <3> QED
      BY <2>2, <2>3, <3>1, <3>2
  <2>4. NoFinal(new)
    BY <2>3 DEF NoFinal
  <2> QED
    BY <2>1, <2>4 DEF new
<1>3. CASE Calls
  <2>1. step \in 1..MaxSteps
    BY <1>3 DEF CountInv
  <2>2. PICK n \in 1..MaxCalls, s \in Signatures : messages' = messages \o <<CallMsg(n, s)>>
    BY <1>3 DEF Calls
  <2> DEFINE m == CallMsg(n, s)
             new == messages \o <<m>>
             l == Len(messages)
  <2>3. m \in Messages /\ m.role = "call"
    BY <2>1 DEF CallMsg, Messages
  <2> HIDE DEF m
  <2>4. /\ l \in Nat /\ DOMAIN new = 1..(l + 1) /\ DOMAIN messages = 1..l
        /\ new[l + 1] = m /\ \A i \in 1..l : new[i] = messages[i]
    BY <2>3, OneMore DEF MsgInv
  <2> HIDE DEF new, l
  <2>5. \A i \in DOMAIN new : ~ IsFinal(new[i])
    BY <2>3, <2>4 DEF NoFinal, IsFinal
  <2> QED
    BY <2>2, <2>5 DEF NoFinal, new, m
<1>4. CASE Compacts
  <2> DEFINE new == CompactedMessages(messages)
             t == TailStart(messages)
  <2>1. /\ new \in Seq(Messages) /\ Len(new) = Len(messages) + 4 - t
        /\ new[1] = messages[1] /\ new[2] = messages[2] /\ new[3].role = "reset"
        /\ \A i \in 4..Len(new) : new[i] = messages[i + t - 4]
    BY CompactedIs DEF MsgInv
  <2>2. t \in 3..(Len(messages) + 1) /\ Len(messages) \in Nat
    BY TailStartsWithCall DEF MsgInv
  <2>3. DOMAIN new = 1..Len(new) /\ DOMAIN messages = 1..Len(messages)
    BY <2>1 DEF MsgInv
  <2> HIDE DEF new, t
  <2>4. ASSUME NEW i \in DOMAIN new PROVE ~ IsFinal(new[i])
    <3>1. CASE i >= 4
      <4>a. i \in 4..Len(new) /\ i + t - 4 \in 1..Len(messages)
        BY <2>1, <2>2, <2>3, <3>1
      <4>1. new[i] = messages[i + t - 4] /\ i + t - 4 \in DOMAIN messages
        BY <2>1, <2>3, <4>a
      <4> QED
        BY <4>1 DEF NoFinal
    <3>2. CASE i \in {1, 2, 3}
      BY <2>1, <3>2 DEF MsgInv, OpensWell, IsFinal
    <3> QED
      BY <2>1, <2>2, <2>3, <3>1, <3>2
  <2> QED
    BY <1>4, <2>4 DEF Compacts, NoFinal, new
<1> QED
  BY <1>1, <1>2, <1>3, <1>4

LEMMA FlagsStay ==
  ASSUME [Next]_vars, pc # "tools"
  PROVE  flag' = flag /\ runbook' = runbook
<1>1. CASE StepLimit \/ TimeLimit \/ NextStep
  BY <1>1 DEF StepLimit, TimeLimit, NextStep, Ends, outcome
<1>2. CASE AskLlm
  BY <1>2 DEF AskLlm, Truncated, ChatFails, Overflow, Narrate, CallTools, Ends, outcome
<1>3. CASE SkippedCall \/ BlockedCall \/ RunCall
  BY <1>3 DEF SkippedCall, BlockedCall, RunCall, PlainCall, NoteCall, FlagCall, RunbookCall,
              BashOnOwnFiles, NextCall
<1>4. CASE ToolsDone \/ Bookkeeping \/ Critic \/ ContextFits \/ ContextOver
  BY <1>4 DEF ToolsDone, Bookkeeping, Critic, ContextFits, ContextOver, Ends, outcome
<1>7. CASE Undecodable \/ LeaveCall
  BY <1>7, Undecoded, LeavesCalls
<1>5. CASE Reduce \/ Shrink \/ Compact \/ CompactFails \/ Finish \/ Report
  BY <1>5 DEF Reduce, Shrink, Compact, CompactFails, Finish, Report, Ends, outcome
<1>6. CASE UNCHANGED vars
  BY <1>6 DEF vars, outcome
<1> QED
  BY <1>1, <1>2, <1>3, <1>4, <1>5, <1>6, <1>7 DEF Next

(* One reply more, of a kind that fits what has been accepted. *)
LEMMA OneReply ==
  ASSUME MsgInv, CountInv, FinalInv, pc = "tools", pc' = "tools",
         NEW kind \in {"answered", "skipped", "final"}, messages' = messages \o <<ToolMsg(kind)>>,
         \/ kind = "skipped" /\ Ended /\ Ended'
         \/ kind = "answered" /\ ~ Ended /\ ~ Ended'
         \/ kind = "final" /\ ~ Ended /\ Ended'
  PROVE  FinalInv'
<1> DEFINE m == ToolMsg(kind)
           new == messages \o <<m>>
           l == Len(messages)
<1>1. step \in 1..MaxSteps
  BY DEF CountInv, OpenPCs
<1>2. m \in Messages /\ m.role = "tool" /\ m.kind = kind
  BY <1>1 DEF ToolMsg, Messages
<1> HIDE DEF m
<1>3. /\ l \in Nat /\ DOMAIN new = 1..(l + 1) /\ DOMAIN messages = 1..l
      /\ new[l + 1] = m /\ \A i \in 1..l : new[i] = messages[i]
  BY <1>2, OneMore DEF MsgInv
<1>4. messages' = new
  BY DEF m
<1> HIDE DEF new, l
<1>5. IsFinal(m) <=> kind = "final"
  BY <1>2 DEF IsFinal
<1>6. OnlySkips(messages)
  BY DEF FinalInv, OpenPCs
<1>7. OnlySkips(new)
  <2> SUFFICES ASSUME NEW i \in DOMAIN new, NEW j \in DOMAIN new, i < j, IsFinal(new[i])
               PROVE  IsSkipped(new[j])
    BY DEF OnlySkips
  <2>1. i \in DOMAIN messages /\ IsFinal(messages[i])
    BY <1>3
  <2>2. CASE j \in DOMAIN messages
    BY <1>3, <1>6, <2>1, <2>2 DEF OnlySkips
  <2>3. CASE j = l + 1
    <3>1. ~ NoFinal(messages)
      BY <2>1 DEF NoFinal
    <3>2. kind = "skipped"
      BY <3>1 DEF FinalInv
    <3> QED
      BY <1>2, <1>3, <2>3, <3>2 DEF IsSkipped
  <2> QED
    BY <1>3, <2>2, <2>3
<1>8. \A i \in DOMAIN messages : i \in DOMAIN new /\ new[i] = messages[i]
  BY <1>3
<1>9. NoFinal(new) <=> NoFinal(messages) /\ kind # "final"
  BY <1>3, <1>5, <1>8 DEF NoFinal
<1>10. (~ Ended' => NoFinal(new)) /\ (Ended' => ~ NoFinal(new))
  BY <1>9 DEF FinalInv
<1> QED
  BY <1>4, <1>7, <1>10 DEF FinalInv, OnlySkips

LEMMA FinalStep ==
  ASSUME OutcomeInv, MsgInv, CountInv, FinalInv, g4Due \in BOOLEAN, g4Due' \in BOOLEAN, [Next]_vars
  PROVE  FinalInv'
<1>1. CASE pc \in OpenPCs \ {"tools"}
  <2>1. ~ Ended /\ ~ Ended'
    BY <1>1, FlagsStay DEF OutcomeInv, Ended
  <2>2. NoFinal(messages)
    BY <2>1 DEF FinalInv
  <2>3. Quiet \/ Says \/ Calls \/ Replied \/ Compacts
    BY Changes DEF MsgInv
  <2>4. ~ Replied
    BY <1>1 DEF Replied, CountInv
  <2>5. Calls => pc \in OpenPCs \ {"top"}
    BY CallsAreOpen
  <2>6. NoFinal(messages')
    BY <2>2, <2>3, <2>4, <2>5, NoneAfter
  <2> QED
    BY <2>1, <2>6 DEF FinalInv, OnlySkips, NoFinal
<1>2. CASE SkippedCall \/ BlockedCall \/ RunCall
  <2>1. pc = "tools" /\ pc' = "tools"
    BY <1>2 DEF SkippedCall, BlockedCall, RunCall, PlainCall, NoteCall, FlagCall, RunbookCall,
                BashOnOwnFiles, NextCall, Answer
  <2>2. \/ Answer("skipped") /\ Ended /\ Ended'
        \/ Answer("answered") /\ ~ Ended /\ ~ Ended'
        \/ Answer("final") /\ ~ Ended /\ Ended'
    BY <1>2 DEF SkippedCall, BlockedCall, RunCall, PlainCall, NoteCall, FlagCall, RunbookCall,
                BashOnOwnFiles, NextCall, Ended
  <2>3. PICK kind \in {"answered", "skipped", "final"} :
          /\ Answer(kind)
          /\ \/ kind = "skipped" /\ Ended /\ Ended'
             \/ kind = "answered" /\ ~ Ended /\ ~ Ended'
             \/ kind = "final" /\ ~ Ended /\ Ended'
    BY <2>2
  <2>4. messages' = messages \o <<ToolMsg(kind)>>
    BY <2>3, AppendIsConcat DEF Answer, MsgInv
  <2> QED
    BY <2>1, <2>3, <2>4, OneReply
<1>3. CASE ToolsDone
  <2>1. flag' = flag /\ runbook' = runbook
    BY <1>3 DEF ToolsDone, Ends, outcome
  <2>2. pc = "tools" /\ pending = 0 /\ messages' = messages \o WarnIf(g4Due)
    BY <1>3 DEF ToolsDone
  <2>3. CASE ~ Ended
    <3>1. Quiet \/ Says \/ Calls \/ Replied \/ Compacts
      BY Changes DEF MsgInv
    <3>2. pending' = 0
      BY <1>3, <2>2 DEF ToolsDone, call
    <3>3. ~ Calls /\ ~ Replied
      <4>1. ~ Replied
        BY <2>2 DEF Replied
      <4>2. \A n \in 1..MaxCalls : n # 0
        BY AgentAssumption
      <4> QED
        BY <3>2, <4>1, <4>2 DEF Calls
    <3>4. NoFinal(messages')
      BY <2>3, <3>1, <3>3, NoneAfter DEF FinalInv
    <3> QED
      BY <2>1, <2>3, <3>4 DEF FinalInv, OnlySkips, NoFinal, Ended
  <2>4. CASE Ended
    <3>1. pc' = "finish"
      BY <1>3, <2>4 DEF ToolsDone, Ends, Ended
    <3>2. OnlySkips(messages) /\ ~ NoFinal(messages)
      BY <2>2, <2>4 DEF FinalInv, OpenPCs
    <3>3. CASE g4Due
      <4> DEFINE m == Msg("warn")
                 new == messages \o <<m>>
                 l == Len(messages)
      <4>1. m \in Messages /\ m.role = "warn"
        BY DEF CountInv, Msg, Messages, PlainRoles
      <4> HIDE DEF m
      <4>2. /\ l \in Nat /\ DOMAIN new = 1..(l + 1) /\ DOMAIN messages = 1..l /\ Len(new) = l + 1
            /\ new[l + 1] = m /\ \A i \in 1..l : new[i] = messages[i]
        BY <4>1, OneMore DEF MsgInv
      <4>3. messages' = new
        BY <2>2, <3>3 DEF WarnIf, m
      <4> HIDE DEF new, l
      <4>4. ~ NoFinal(new)
        BY <3>2, <4>2 DEF NoFinal
      <4>5. \A i, j \in DOMAIN new :
              i < j /\ IsFinal(new[i])
                => IsSkipped(new[j]) \/ (new[j].role = "warn" /\ j = Len(new))
        <5> SUFFICES ASSUME NEW i \in DOMAIN new, NEW j \in DOMAIN new, i < j, IsFinal(new[i])
                     PROVE  IsSkipped(new[j]) \/ (new[j].role = "warn" /\ j = Len(new))
          OBVIOUS
        <5>1. i \in DOMAIN messages /\ IsFinal(messages[i])
          BY <4>2
        <5>2. CASE j \in DOMAIN messages
          BY <3>2, <4>2, <5>1, <5>2 DEF OnlySkips
        <5>3. CASE j = l + 1
          BY <4>1, <4>2, <5>3
        <5> QED
          BY <4>2, <5>2, <5>3
      <4> QED
        BY <2>1, <2>4, <3>1, <4>3, <4>4, <4>5 DEF FinalInv, Ended, OpenPCs
    <3>4. CASE ~ g4Due
      <4>1. messages' = messages
        BY <2>2, <3>4, ConcatEmptySeq DEF WarnIf, MsgInv
      <4> QED
        BY <2>1, <3>1, <4>1 DEF FinalInv, Ended, OpenPCs
    <3> QED
      BY <3>3, <3>4
  <2> QED
    BY <2>3, <2>4
<1>4. CASE Finish \/ Report
  <2>1. messages' = messages /\ flag' = flag /\ runbook' = runbook
    BY <1>4 DEF Finish, Report, outcome
  <2>2. pc' \notin OpenPCs
    BY <1>4 DEF Finish, Report, OpenPCs
  <2> QED
    BY <2>1, <2>2 DEF FinalInv, Ended
<1>5. CASE UNCHANGED vars
  BY <1>5 DEF vars, outcome, FinalInv, Ended
<1>7. CASE LeaveCall
  <2>1. messages' = messages /\ flag' = flag /\ runbook' = runbook /\ ~ Ended
    BY <1>7, LeavesCalls
  <2>2. pc \in OpenPCs /\ pc' \notin OpenPCs
    BY <1>7, LeavesCalls DEF OpenPCs
  <2> QED
    BY <2>1, <2>2 DEF FinalInv, Ended
<1>6. ASSUME Next, ~ (SkippedCall \/ BlockedCall \/ RunCall), ~ ToolsDone, ~ (Finish \/ Report),
             ~ LeaveCall
      PROVE  pc \in OpenPCs \ {"tools"}
  BY <1>6 DEF Next, AskLlm, StepLimit, TimeLimit, NextStep, Truncated, ChatFails, Overflow, Narrate,
              CallTools, Asking, Bookkeeping, Undecodable, ComparesCalls, Critic, ContextFits, ContextOver, Reduce, Shrink,
              Compact, CompactFails, OpenPCs
<1> QED
  BY <1>1, <1>2, <1>3, <1>4, <1>5, <1>6, <1>7

-----------------------------------------------------------------------------
LoopInv == /\ DataInv /\ BoolInv /\ CountInv /\ OutcomeInv
           /\ MsgInv /\ PairInv /\ FinalInv

LEMMA LoopInit == Init => LoopInv
<1> SUFFICES ASSUME Init PROVE LoopInv
  OBVIOUS
<1> DEFINE sys == [role |-> "system", step |-> 0]
           task == [role |-> "task", step |-> 0]
           m == <<sys, task>>
<1>1. messages = m
  BY DEF Init
<1>2. sys \in Messages /\ task \in Messages /\ sys.role = "system" /\ task.role = "task"
  BY AgentAssumption DEF Messages, PlainRoles
<1> HIDE DEF sys, task
<1>3. m \in Seq(Messages) /\ Len(m) = 2 /\ DOMAIN m = {1, 2} /\ m[1] = sys /\ m[2] = task
  BY <1>2
<1> HIDE DEF m
<1>4. MsgInv
  BY <1>1, <1>2, <1>3 DEF MsgInv, OpensWell
<1>5. CallsOf(m) = {} /\ \A i \in DOMAIN m : m[i].role # "tool"
  BY <1>2, <1>3 DEF CallsOf, IsCall
<1>6. PairInv
  <2>1. pending = 0
    BY DEF Init
  <2>2. Paired(m, 0, step)
    BY <1>5 DEF Paired
  <2> QED
    BY <1>1, <2>1, <2>2 DEF PairInv
<1>7. FinalInv
  <2>1. NoFinal(m)
    BY <1>5 DEF NoFinal, IsFinal
  <2>2. ~ Ended
    BY DEF Init, Ended
  <2> QED
    BY <1>1, <2>1, <2>2 DEF FinalInv, OnlySkips, NoFinal
<1>8. CountInv
  <2>1. /\ pc = "top" /\ step = 0 /\ steps = 0 /\ pending = 0 /\ noToolStreak = 0
        /\ overStreak = 0 /\ compactions = 0 /\ criticCalls = 0 /\ longReasoning = 0 /\ idle = 0
    BY DEF Init
  <2> QED
    BY <2>1, AgentAssumption DEF CountInv, OpenPCs
<1>9. OutcomeInv
  BY DEF Init, OutcomeInv, PCs, OpenPCs
<1>10. DataInv
  <2>1. recent = << >>
    BY DEF Init
  <2>2. recent \in Seq(Signatures) /\ Len(recent) <= 3
    BY <2>1, NothingSeen
  <2>3. /\ pc = "top" /\ sig \in Signatures /\ marker \in Markers /\ lastMarker = marker
        /\ cause = "none" /\ caseFile = "whole" /\ status = "unsolved" /\ reason = ""
    BY DEF Init
  <2> QED
    BY <2>2, <2>3 DEF DataInv, PCs
<1>11. BoolInv
  BY DEF Init, BoolInv
<1> QED
  BY <1>4, <1>6, <1>7, <1>8, <1>9, <1>10, <1>11 DEF LoopInv

LEMMA LoopStep == LoopInv /\ [Next]_vars => LoopInv'
<1> SUFFICES ASSUME LoopInv, [Next]_vars PROVE LoopInv'
  OBVIOUS
<1>1. DataInv /\ BoolInv /\ CountInv /\ OutcomeInv /\ MsgInv /\ PairInv /\ FinalInv
  BY DEF LoopInv
<1>2. DataInv'
  BY <1>1, DataStep
<1>3. BoolInv'
  BY <1>1, BoolStep
<1>4. CountInv'
  BY <1>1, CountStep
<1>5. OutcomeInv'
  BY <1>1, OutcomeStep
<1>6. g4Due \in BOOLEAN /\ g4Due' \in BOOLEAN
  BY <1>1, <1>3 DEF BoolInv
<1>7. Quiet \/ Says \/ Calls \/ Replied \/ Compacts
  BY <1>1, <1>6, Changes DEF MsgInv
<1>8. (Calls \/ Replied) => pc \in OpenPCs \ {"top"}
  BY <1>1, CallsAreOpen
<1>9. MsgInv'
  BY <1>1, <1>7, <1>8, MsgStep
<1>10. PairInv'
  BY <1>1, <1>7, <1>8, PairStep
<1>11. FinalInv'
  BY <1>1, <1>6, FinalStep
<1> QED
  BY <1>2, <1>3, <1>4, <1>5, <1>9, <1>10, <1>11 DEF LoopInv

(* Every variable keeps its type and every counter its range, for any limits. *)
THEOREM TypeCorrect == Spec => []TypeOK
<1>1. LoopInv => TypeOK
  <2> SUFFICES ASSUME LoopInv PROVE TypeOK
    OBVIOUS
  <2>1. DataInv /\ BoolInv /\ CountInv /\ MsgInv
    BY DEF LoopInv
  <2>2. compactions \in 0..MaxSteps /\ longReasoning \in 0..MaxSteps
    BY <2>1, AgentAssumption DEF CountInv
  <2> QED
    BY <2>1, <2>2 DEF DataInv, BoolInv, CountInv, MsgInv, TypeOK
<1> QED
  BY <1>1, LoopInit, LoopStep, PTL DEF Spec

(* The system prompt and the task stay first, with at most one reset banner,   *)
(* right after them, however often the context is compacted.                   *)
THEOREM ContextKeepsShape == Spec => []ContextShape
<1>1. LoopInv => ContextShape
  BY DEF LoopInv, MsgInv, OpensWell, ContextShape
<1> QED
  BY <1>1, LoopInit, LoopStep, PTL DEF Spec

(* Whenever the conversation is sent, each message with n calls is followed at *)
(* once by its n replies and there is no other reply, after any number of      *)
(* compactions, memos, warnings, blocked calls and nudges.                     *)
THEOREM SentIsWellFormed == Spec => []SentWellFormed
<1>1. LoopInv => SentWellFormed
  <2> SUFFICES ASSUME LoopInv, Asking
               PROVE  /\ {i \in DOMAIN messages : messages[i].role = "tool"}
                           = UNION {Replies(c) : c \in CallsOf(messages)}
                      /\ \A c \in CallsOf(messages),
                            r \in UNION {Replies(k) : k \in CallsOf(messages)} :
                           r \in Replies(c) => messages[r].step = messages[c].step
    BY DEF SentWellFormed
  <2>1. pending = 0 /\ messages \in Seq(Messages) /\ Paired(messages, 0, step)
    BY DEF LoopInv, CountInv, Asking, MsgInv, PairInv, OpenPCs
  <2>2. \A c \in CallsOf(messages) : Replies(c) = Answers(messages, c)
    BY DEF Replies, Answers
  <2>3. \A c \in CallsOf(messages) : c + messages[c].n <= Len(messages)
    BY <2>1 DEF Paired
  <2>4. \A c \in CallsOf(messages) : c \in 1..Len(messages) /\ messages[c].n \in 1..MaxCalls
    BY <2>1, CallSizes
  <2>5. DOMAIN messages = 1..Len(messages) /\ Len(messages) \in Nat
    BY <2>1
  <2>6. \A c \in CallsOf(messages) : Replies(c) \subseteq DOMAIN messages
    BY <2>3, <2>4, <2>5, AgentAssumption DEF Replies
  <2>7. \A c \in CallsOf(messages) : \A r \in Replies(c) :
          messages[r].role = "tool" /\ messages[r].step = messages[c].step
    BY <2>1, <2>2, <2>6 DEF Paired
  <2>8. \A i \in DOMAIN messages : messages[i].role = "tool"
           => \E c \in CallsOf(messages) : i \in Replies(c)
    BY <2>1, <2>2 DEF Paired
  <2> QED
    BY <2>6, <2>7, <2>8
<1> QED
  BY <1>1, LoopInit, LoopStep, PTL DEF Spec

(* Once a call has set the flag or written the runbook, no later call of the   *)
(* message runs and the model is not asked again; before that nothing ends it. *)
THEOREM NothingRunsAfterAcceptance == Spec => []AfterAcceptance
<1>1. LoopInv => AfterAcceptance
  BY DEF LoopInv, FinalInv, NoFinal, IsFinal, IsSkipped, AfterAcceptance
<1> QED
  BY <1>1, LoopInit, LoopStep, PTL DEF Spec

-----------------------------------------------------------------------------
(* Giving up.  overStreak counts the compactions since a tool step last fitted *)
(* the context, and is ahead of them by one while the next one is under way:   *)
(* each iteration compacts at most once, so steps number compactions.          *)
Fresh == {s \in compactedAt : s > lastFit}
Irreducible == "context cannot be reduced"
Even == Cardinality(Fresh) = overStreak
Ahead == Cardinality(Fresh) + 1 = overStreak
EvenPCs == {"top", "chat", "retry", "tools", "after", "context", "reduce"}

TimesInv ==
  /\ step \in Nat /\ overStreak \in Nat /\ lastFit \in Nat
  /\ compactedAt \in SUBSET (0..step) /\ lastFit <= step
  /\ pc \in OpenPCs \ {"top"} => lastFit < step /\ step \notin compactedAt

StreakInv ==
  /\ pc \in EvenPCs => Even
  /\ pc = "critic" => IF cause = "idle" THEN Even ELSE Ahead
  /\ pc \in {"shrink", "compact"} => Ahead
  /\ pc = "reduce" => step \in overSteps
  /\ pc \in {"reduce", "shrink"} => cause # "idle"
  /\ pc \in OpenPCs => overStreak < 3 /\ reason # Irreducible
  /\ GivesUpAfterTwoCompactions

LEMMA TimesStep ==
  ASSUME TimesInv, CountInv, CountInv', [Next]_vars
  PROVE  TimesInv'
<1> USE DEF OpenPCs
<1>1. step' \in Nat /\ overStreak' \in Nat /\ step \in Nat
  BY AgentAssumption DEF CountInv
<1>2. CASE StepLimit \/ ChatFails \/ CompactFails \/ Finish \/ Report
  <2>1. pc' \notin OpenPCs /\ step' = step /\ compactedAt' = compactedAt /\ lastFit' = lastFit
    BY <1>2 DEF StepLimit, ChatFails, CompactFails, Finish, Report, Ends, history
  <2> QED
    BY <1>1, <2>1 DEF TimesInv
<1>3. CASE TimeLimit \/ NextStep
  <2>1. step' = step + 1 /\ compactedAt' = compactedAt /\ lastFit' = lastFit
    BY <1>3 DEF TimeLimit, NextStep, history
  <2> QED
    BY <1>1, <2>1 DEF TimesInv
<1>4. CASE ContextFits
  <2>1. pc' = "top" /\ step' = step /\ compactedAt' = compactedAt /\ lastFit' = step
    BY <1>4 DEF ContextFits
  <2> QED
    BY <1>1, <2>1 DEF TimesInv
<1>5. CASE Compact
  <2>1. pc' = "top" /\ step' = step /\ compactedAt' = compactedAt \cup {step} /\ lastFit' = lastFit
    BY <1>5 DEF Compact
  <2> QED
    BY <1>1, <2>1 DEF TimesInv
<1>6. ASSUME step' = step, compactedAt' = compactedAt, lastFit' = lastFit,
             pc' \in OpenPCs \ {"top"} => pc \in OpenPCs \ {"top"}
      PROVE  TimesInv'
  BY <1>1, <1>6 DEF TimesInv
<1>7. CASE Truncated \/ Overflow \/ (\E long \in Thinking : Narrate(long))
  <2>1. pc \in OpenPCs \ {"top"} /\ step' = step /\ compactedAt' = compactedAt /\ lastFit' = lastFit
    BY <1>7 DEF Truncated, Overflow, Narrate, Asking, history
  <2> QED
    BY <1>6, <2>1
<1>8. CASE \E long \in Thinking, n \in 1..MaxCalls, s \in Signatures : CallTools(n, s, long)
  <2>1. pc \in OpenPCs \ {"top"} /\ step' = step /\ compactedAt' = compactedAt /\ lastFit' = lastFit
    BY <1>8 DEF CallTools, Asking, history
  <2> QED
    BY <1>6, <2>1
<1>9. CASE SkippedCall \/ BlockedCall \/ RunCall
  <2>1. pc' = pc /\ step' = step /\ compactedAt' = compactedAt /\ lastFit' = lastFit
    BY <1>9 DEF SkippedCall, BlockedCall, RunCall, PlainCall, NoteCall, FlagCall, RunbookCall,
                BashOnOwnFiles, Answer, history
  <2> QED
    BY <1>6, <2>1
<1>10. CASE ToolsDone \/ Bookkeeping \/ Critic \/ ContextOver \/ Reduce \/ Shrink
  <2>1. pc \in OpenPCs \ {"top"} /\ step' = step /\ compactedAt' = compactedAt /\ lastFit' = lastFit
    BY <1>10 DEF ToolsDone, Bookkeeping, ComparesCalls, Critic, ContextOver, Reduce, Shrink, history
  <2> QED
    BY <1>6, <2>1
<1>12. CASE Undecodable \/ LeaveCall
  <2>1. pc' \notin OpenPCs /\ step' = step /\ compactedAt' = compactedAt /\ lastFit' = lastFit
    BY <1>12, Undecoded, LeavesCalls DEF history
  <2> QED
    BY <1>1, <2>1 DEF TimesInv
<1>11. CASE UNCHANGED vars
  <2>1. pc' = pc /\ step' = step /\ compactedAt' = compactedAt /\ lastFit' = lastFit
    BY <1>11 DEF vars, history
  <2> QED
    BY <1>6, <2>1
<1> QED
  BY <1>2, <1>3, <1>4, <1>5, <1>7, <1>8, <1>9, <1>10, <1>11, <1>12 DEF Next, AskLlm

(* What a compaction adds to the streak, and what a fitting step takes away.   *)
LEMMA FreshSize ==
  ASSUME TimesInv
  PROVE  /\ IsFiniteSet(Fresh) /\ Cardinality(Fresh) \in Nat
         /\ pc \in OpenPCs \ {"top"} =>
              Cardinality({s \in compactedAt \cup {step} : s > lastFit}) = Cardinality(Fresh) + 1
         /\ \A n \in Nat : compactedAt \subseteq 0..n => {s \in compactedAt : s > n} = {}
<1>1. IsFiniteSet(0..step)
  BY FS_Interval DEF TimesInv
<1>2. IsFiniteSet(Fresh)
  BY <1>1, FS_Subset DEF Fresh, TimesInv
<1>3. Cardinality(Fresh) \in Nat
  BY <1>2, FS_CardinalityType
<1>4. ASSUME pc \in OpenPCs \ {"top"}
      PROVE  Cardinality({s \in compactedAt \cup {step} : s > lastFit}) = Cardinality(Fresh) + 1
  <2>1. step > lastFit /\ step \notin Fresh
    BY <1>4 DEF TimesInv, Fresh
  <2>2. {s \in compactedAt \cup {step} : s > lastFit} = Fresh \cup {step}
    BY <2>1 DEF Fresh
  <2> QED
    BY <1>2, <2>1, <2>2, FS_AddElement
<1>5. ASSUME NEW n \in Nat, compactedAt \subseteq 0..n PROVE {s \in compactedAt : s > n} = {}
  <2>1. \A s \in compactedAt : ~(s > n)
    BY <1>5
  <2> QED
    BY <2>1
<1> QED
  BY <1>2, <1>3, <1>4, <1>5

LEMMA StreakStep ==
  ASSUME TimesInv, StreakInv, CountInv, OutcomeInv, [Next]_vars
  PROVE  StreakInv'
<1> USE DEF OpenPCs, EvenPCs, Irreducible
<1> DEFINE count == Cardinality(Fresh)
<1>1. count \in Nat /\ overStreak \in 0..3 /\ pc \in PCs
  BY FreshSize DEF CountInv, OutcomeInv
<1>2. ASSUME compactedAt' = compactedAt, lastFit' = lastFit PROVE Cardinality(Fresh)' = count
  BY <1>2 DEF Fresh
<1>3. ASSUME compactedAt' = compactedAt, lastFit' = lastFit, overStreak' = overStreak
      PROVE  (Even' <=> Even) /\ (Ahead' <=> Ahead)
  BY <1>2, <1>3 DEF Even, Ahead
<1>4. ASSUME compactedAt' = compactedAt, lastFit' = lastFit, step' = step, overSteps' = overSteps,
             reason' = reason
      PROVE  GivesUpAfterTwoCompactions'
  BY <1>4 DEF StreakInv, GivesUpAfterTwoCompactions
<1>5. ASSUME reason' # Irreducible PROVE GivesUpAfterTwoCompactions'
  BY <1>5 DEF GivesUpAfterTwoCompactions
<1>6. CASE StepLimit \/ TimeLimit \/ ChatFails \/ CompactFails
  <2>1. pc' = "finish" /\ reason' # Irreducible
    BY <1>6 DEF StepLimit, TimeLimit, ChatFails, CompactFails, Ends
  <2> QED
    BY <1>5, <2>1 DEF StreakInv
<1>7. CASE Finish \/ Report
  <2>1. /\ pc' \notin OpenPCs /\ reason' = reason /\ step' = step
        /\ compactedAt' = compactedAt /\ lastFit' = lastFit /\ overSteps' = overSteps
    BY <1>7 DEF Finish, Report, outcome, history
  <2> QED
    BY <1>4, <2>1 DEF StreakInv
<1>8. ASSUME pc \in EvenPCs, pc' \in EvenPCs \ {"reduce"}, compactedAt' = compactedAt,
             lastFit' = lastFit, overStreak' = overStreak, reason' = reason
      PROVE  StreakInv'
  BY <1>3, <1>5, <1>8 DEF StreakInv
<1>9. CASE NextStep \/ Truncated
  <2>1. /\ pc \in EvenPCs /\ pc' \in EvenPCs \ {"reduce"}
        /\ compactedAt' = compactedAt /\ lastFit' = lastFit
        /\ overStreak' = overStreak /\ reason' = reason
    BY <1>9 DEF NextStep, Truncated, history, counters, outcome
  <2> QED
    BY <1>8, <2>1
<1>10. ASSUME NEW long \in Thinking, Narrate(long) PROVE StreakInv'
  <2>1. /\ pc \in EvenPCs /\ compactedAt' = compactedAt /\ lastFit' = lastFit
        /\ overStreak' = overStreak
        /\ \/ pc' = "finish" /\ reason' # Irreducible
           \/ pc' = "top" /\ reason' = reason
    BY <1>10 DEF Narrate, Asking, Ends, history, outcome
  <2>2. CASE pc' = "finish" /\ reason' # Irreducible
    BY <1>5, <2>2 DEF StreakInv
  <2>3. CASE pc' = "top" /\ reason' = reason
    BY <1>8, <2>1, <2>3
  <2> QED
    BY <2>1, <2>2, <2>3
<1>11. ASSUME NEW long \in Thinking, NEW n \in 1..MaxCalls, NEW s \in Signatures,
              CallTools(n, s, long)
       PROVE  StreakInv'
  <2>1. /\ pc \in EvenPCs /\ pc' \in EvenPCs \ {"reduce"}
        /\ compactedAt' = compactedAt /\ lastFit' = lastFit
        /\ overStreak' = overStreak /\ reason' = reason
    BY <1>11 DEF CallTools, Asking, history, outcome
  <2> QED
    BY <1>8, <2>1
<1>12. CASE SkippedCall \/ BlockedCall \/ RunCall
  <2>1. /\ pc = "tools" /\ pc' = "tools" /\ compactedAt' = compactedAt /\ lastFit' = lastFit
        /\ overStreak' = overStreak /\ reason' = reason
    BY <1>12 DEF SkippedCall, BlockedCall, RunCall, PlainCall, NoteCall, FlagCall, RunbookCall,
                BashOnOwnFiles, NextCall, Answer, history, counters
  <2> QED
    BY <1>8, <2>1
<1>13. CASE ToolsDone
  <2>1. /\ pc = "tools" /\ compactedAt' = compactedAt /\ lastFit' = lastFit
        /\ overStreak' = overStreak
        /\ \/ pc' = "finish" /\ reason' # Irreducible
           \/ pc' = "after" /\ reason' = reason
    BY <1>13 DEF ToolsDone, Ends, history, outcome, counters
  <2>2. CASE pc' = "finish" /\ reason' # Irreducible
    BY <1>5, <2>2 DEF StreakInv
  <2>3. CASE pc' = "after" /\ reason' = reason
    BY <1>8, <2>1, <2>3
  <2> QED
    BY <2>1, <2>2, <2>3
<1>14. CASE Bookkeeping
  <2>1. /\ pc = "after" /\ compactedAt' = compactedAt /\ lastFit' = lastFit
        /\ overStreak' = overStreak /\ reason' = reason
        /\ (pc' = "critic" /\ cause' = "idle") \/ pc' = "context"
    BY <1>14 DEF Bookkeeping, ComparesCalls, history, outcome, counters
  <2>2. Even' /\ reason' # Irreducible /\ overStreak' < 3
    BY <1>3, <2>1 DEF StreakInv
  <2> QED
    BY <1>5, <2>1, <2>2 DEF StreakInv
<1>15. CASE Critic
  <2>1. /\ pc = "critic" /\ compactedAt' = compactedAt /\ lastFit' = lastFit
        /\ overStreak' = overStreak /\ reason' = reason
        /\ IF cause = "idle" THEN pc' = "context" ELSE pc' = "compact"
    BY <1>15 DEF Critic, history, outcome
  <2>2. (IF cause = "idle" THEN Even' ELSE Ahead') /\ reason' # Irreducible /\ overStreak' < 3
    BY <1>3, <2>1 DEF StreakInv
  <2> QED
    BY <1>5, <2>1, <2>2 DEF StreakInv
<1>16. CASE ContextFits
  <2>1. /\ pc = "context" /\ pc' = "top" /\ overStreak' = 0 /\ compactedAt' = compactedAt
        /\ lastFit' = step /\ reason' = reason
    BY <1>16 DEF ContextFits, StreakEnds, outcome
  <2>2. Fresh' = {}
    BY <2>1, FreshSize DEF Fresh, TimesInv
  <2>3. Even' /\ reason' # Irreducible
    BY <2>1, <2>2, FS_EmptySet DEF Even, StreakInv
  <2>4. overStreak' < 3
    <3>1. overStreak' = 0
      BY <2>1
    <3> QED
      BY <3>1
  <2> QED
    BY <1>5, <2>1, <2>3, <2>4 DEF StreakInv
<1>17. CASE Overflow \/ ContextOver
  <2>1. /\ pc \in EvenPCs /\ pc' = "reduce" /\ cause' # "idle" /\ overSteps' = overSteps \cup {step}
        /\ step' = step /\ overStreak' = overStreak /\ reason' = reason
        /\ compactedAt' = compactedAt /\ lastFit' = lastFit
    BY <1>17 DEF Overflow, ContextOver, Asking, counters, outcome
  <2>2. Even' /\ reason' # Irreducible /\ overStreak' < 3 /\ step' \in overSteps'
    BY <1>3, <2>1 DEF StreakInv
  <2> QED
    BY <1>5, <2>1, <2>2 DEF StreakInv
<1>18. CASE Reduce
  <2>a. /\ pc = "reduce" /\ overStreak' = overStreak + 1 /\ cause' = cause /\ step' = step
        /\ compactedAt' = compactedAt /\ lastFit' = lastFit /\ overSteps' = overSteps
        /\ \/ pc' = "finish" /\ overStreak' >= 3
           \/ overStreak' = 2 /\ pc' = "shrink" /\ reason' = reason
           \/ overStreak' = 1 /\ pc' = "critic" /\ reason' = reason
    BY <1>18 DEF Reduce, Ends, history, outcome
  <2>b. overStreak' \in {1, 2} => overStreak' < 3
    OBVIOUS
  <2>1. /\ pc = "reduce" /\ overStreak' = overStreak + 1 /\ cause' = cause /\ step' = step
        /\ compactedAt' = compactedAt /\ lastFit' = lastFit /\ overSteps' = overSteps
        /\ \/ pc' = "finish" /\ overStreak' >= 3
           \/ pc' \in {"shrink", "critic"} /\ overStreak' < 3 /\ reason' = reason
    BY <2>a, <2>b
  <2>2. Even /\ overStreak < 3 /\ cause # "idle" /\ reason # Irreducible /\ step \in overSteps
    BY <2>1 DEF StreakInv
  <2>3. Ahead'
    BY <1>1, <1>2, <2>1, <2>2 DEF Even, Ahead
  <2>4. CASE pc' = "finish" /\ overStreak' >= 3
    <3>a. count = overStreak
      BY <2>2 DEF Even
    <3> HIDE DEF count
    <3>b. overStreak \in 0..3 /\ overStreak' = overStreak + 1 /\ overStreak' >= 3 /\ overStreak < 3
      BY <1>1, <2>1, <2>2, <2>4
    <3>c. overStreak = 2
      BY <3>b
    <3>1. count = 2
      BY <3>a, <3>c
    <3>2. Cardinality({s \in compactedAt' : s > lastFit'}) = 2
      BY <2>1, <3>1 DEF Fresh, count
    <3>3. GivesUpAfterTwoCompactions'
      BY <2>1, <2>2, <3>2 DEF GivesUpAfterTwoCompactions
    <3> QED
      BY <2>4, <3>3 DEF StreakInv
  <2>5. CASE pc' \in {"shrink", "critic"} /\ overStreak' < 3 /\ reason' = reason
    BY <1>5, <2>1, <2>2, <2>3, <2>5 DEF StreakInv
  <2> QED
    BY <2>1, <2>4, <2>5
<1>19. CASE Shrink
  <2>1. /\ pc = "shrink" /\ compactedAt' = compactedAt /\ lastFit' = lastFit
        /\ overStreak' = overStreak /\ cause' = cause
        /\ \/ pc' = "finish" /\ reason' # Irreducible
           \/ pc' = "critic" /\ reason' = reason
    BY <1>19 DEF Shrink, Ends, history, counters, outcome
  <2>2. Ahead' /\ cause' # "idle" /\ overStreak' < 3 /\ reason # Irreducible
    BY <1>3, <2>1 DEF StreakInv
  <2> QED
    BY <1>5, <2>1, <2>2 DEF StreakInv
<1>20. CASE Compact
  <2>1. /\ pc = "compact" /\ pc' = "top" /\ compactedAt' = compactedAt \cup {step}
        /\ lastFit' = lastFit /\ overStreak' = overStreak /\ reason' = reason
    BY <1>20 DEF Compact, outcome
  <2>2. Ahead /\ overStreak < 3 /\ reason # Irreducible
    BY <2>1 DEF StreakInv
  <2>3. Cardinality(Fresh)' = count + 1
    BY <2>1, FreshSize DEF Fresh
  <2>4. Even'
    BY <2>1, <2>2, <2>3 DEF Even, Ahead
  <2> QED
    BY <1>5, <2>1, <2>2, <2>4 DEF StreakInv
<1>22. CASE Undecodable \/ LeaveCall
  <2>1. pc \in {"after", "tools"} /\ pc' \notin OpenPCs
        /\ (reason' = reason \/ reason' \in {"error: case file", "error: output"})
    BY <1>22, Undecoded, LeavesCalls DEF Ends
  <2>2. reason # Irreducible
    BY <2>1 DEF StreakInv
  <2> QED
    BY <1>5, <2>1, <2>2 DEF StreakInv
<1>21. CASE UNCHANGED vars
  <2>1. /\ pc' = pc /\ step' = step /\ overStreak' = overStreak /\ cause' = cause /\ reason' = reason
        /\ compactedAt' = compactedAt /\ lastFit' = lastFit /\ overSteps' = overSteps
    BY <1>21 DEF vars, history, counters, outcome
  <2> QED
    BY <1>3, <1>4, <2>1 DEF StreakInv
<1> QED
  BY <1>6, <1>7, <1>9, <1>10, <1>11, <1>12, <1>13, <1>14, <1>15, <1>16, <1>17, <1>18, <1>19, <1>20,
     <1>21, <1>22 DEF Next, AskLlm

(* The loop gives a run up as irreducible only after two compactions since the *)
(* context last fitted and a third overflow, for any limits and any answers.   *)
THEOREM GivesUpOnlyAfterTwo == Spec => []GivesUpAfterTwoCompactions
<1>1. Init => TimesInv /\ StreakInv
  <2> SUFFICES ASSUME Init PROVE TimesInv /\ StreakInv
    OBVIOUS
  <2>1. /\ pc = "top" /\ step = 0 /\ overStreak = 0 /\ lastFit = 0 /\ compactedAt = {} /\ reason = ""
    BY DEF Init
  <2>2. Fresh = {}
    BY <2>1 DEF Fresh
  <2>3. Even
    BY <2>1, <2>2, FS_EmptySet DEF Even
  <2>4. TimesInv
    <3>1. pc \notin OpenPCs \ {"top"}
      BY <2>1 DEF OpenPCs
    <3>a. step = 0 /\ overStreak = 0 /\ lastFit = 0
      BY <2>1
    <3>2. step \in Nat /\ overStreak \in Nat /\ lastFit \in Nat /\ lastFit <= step
      BY <3>a
    <3>3. compactedAt \in SUBSET (0..step)
      BY <2>1
    <3> QED
      BY <3>1, <3>2, <3>3 DEF TimesInv
  <2>5. reason # Irreducible
    BY <2>1 DEF Irreducible
  <2>6. GivesUpAfterTwoCompactions
    BY <2>5 DEF GivesUpAfterTwoCompactions, Irreducible
  <2>7. overStreak < 3
    <3>1. overStreak = 0
      BY <2>1
    <3> QED
      BY <3>1
  <2>8. pc = "top"
    BY <2>1
  <2> QED
    BY <2>3, <2>4, <2>5, <2>6, <2>7, <2>8 DEF StreakInv
<1>2. LoopInv /\ LoopInv' /\ TimesInv /\ StreakInv /\ [Next]_vars => TimesInv' /\ StreakInv'
  BY TimesStep, StreakStep DEF LoopInv
<1>3. StreakInv => GivesUpAfterTwoCompactions
  BY DEF StreakInv
<1> QED
  BY <1>1, <1>2, <1>3, LoopInit, LoopStep, PTL DEF Spec

-----------------------------------------------------------------------------
(* Repeated calls.  recent and, once they are made, the current calls are what *)
(* the last messages with calls of the conversation look like, none left out   *)
(* and all made after the steps in done, the compactions so far.               *)
AreLast(ms, q, p, done) ==
  /\ p \in [1..Len(q) -> CallsOf(ms)]
  /\ \A k \in 1..Len(q) : ms[p[k]].sig = q[k]
  /\ \A k, l \in 1..Len(q) : k < l => p[k] < p[l]
  /\ \A k \in 1..Len(q), j \in CallsOf(ms) : j >= p[k] => \E l \in 1..Len(q) : p[l] = j
  /\ \A k \in 1..Len(q), s \in done : s < ms[p[k]].step
LastCalls(ms, q, done) == \E p : AreLast(ms, q, p, done)

RecentInv ==
  /\ pc \in {"tools", "after"} => LastCalls(messages, Append(recent, sig), compactedAt)
  /\ pc \in OpenPCs \ {"tools", "after"} => LastCalls(messages, recent, compactedAt)

LEMMA LastNone ==
  ASSUME NEW ms, NEW done
  PROVE  LastCalls(ms, << >>, done)
<1> DEFINE p == [k \in 1..0 |-> k]
<1>1. Len(<< >>) = 0 /\ 1..0 = {}
  OBVIOUS
<1>2. p \in [1..Len(<< >>) -> CallsOf(ms)]
  BY <1>1
<1> HIDE DEF p
<1>3. AreLast(ms, << >>, p, done)
  BY <1>1, <1>2 DEF AreLast
<1> QED
  BY <1>3 DEF LastCalls

LEMMA LastSame ==
  ASSUME NEW ms, NEW new, NEW q, NEW done, LastCalls(ms, q, done), CallsOf(new) = CallsOf(ms),
         \A c \in CallsOf(ms) : new[c] = ms[c]
  PROVE  LastCalls(new, q, done)
<1>1. PICK p : AreLast(ms, q, p, done)
  BY DEF LastCalls
<1>2. AreLast(new, q, p, done)
  BY <1>1 DEF AreLast
<1> QED
  BY <1>2 DEF LastCalls

LEMMA LastAnother ==
  ASSUME NEW ms \in Seq(Messages), NEW m \in Messages, m.role = "call",
         NEW q \in Seq(Signatures), NEW done, LastCalls(ms, q, done), \A s \in done : s < m.step
  PROVE  LastCalls(ms \o <<m>>, Append(q, m.sig), done)
<1> DEFINE new == ms \o <<m>>
           r == Append(q, m.sig)
           l == Len(ms)
           n == Len(q)
<1>1. /\ l \in Nat /\ new[l + 1] = m /\ \A i \in 1..l : new[i] = ms[i]
      /\ CallsOf(new) = CallsOf(ms) \cup {l + 1} /\ DOMAIN ms = 1..l
  BY OneMore
<1>2. Len(r) = n + 1 /\ n \in Nat /\ r[n + 1] = m.sig /\ \A k \in 1..n : r[k] = q[k]
  BY AppendProperties
<1>3. CallsOf(ms) \subseteq 1..l
  BY <1>1 DEF CallsOf
<1>4. PICK p : AreLast(ms, q, p, done)
  BY DEF LastCalls
<1>5. /\ p \in [1..n -> CallsOf(ms)]
      /\ \A k \in 1..n : ms[p[k]].sig = q[k]
      /\ \A k, i \in 1..n : k < i => p[k] < p[i]
      /\ \A k \in 1..n, j \in CallsOf(ms) : j >= p[k] => \E i \in 1..n : p[i] = j
      /\ \A k \in 1..n, s \in done : s < ms[p[k]].step
  BY <1>4 DEF AreLast
<1> DEFINE f == [k \in 1..(n + 1) |-> IF k = n + 1 THEN l + 1 ELSE p[k]]
<1> HIDE DEF new, r, l, n
<1>6. f[n + 1] = l + 1 /\ \A k \in 1..n : f[k] = p[k] /\ p[k] \in 1..l /\ p[k] \in CallsOf(ms)
  BY <1>2, <1>3, <1>5
<1>7. \A k : k \in 1..(n + 1) <=> k \in 1..n \/ k = n + 1
  BY <1>2
<1>8. f \in [1..(n + 1) -> CallsOf(new)]
  BY <1>1, <1>6, <1>7
<1> HIDE DEF f
<1>9. \A k \in 1..(n + 1) : new[f[k]].sig = r[k]
  BY <1>1, <1>2, <1>5, <1>6, <1>7
<1>10. ASSUME NEW k \in 1..(n + 1), NEW i \in 1..(n + 1), k < i PROVE f[k] < f[i]
  <2>1. k \in 1..n
    BY <1>2, <1>10
  <2>2. CASE i = n + 1
    BY <1>1, <1>6, <2>1, <2>2
  <2>3. CASE i \in 1..n
    BY <1>5, <1>6, <1>10, <2>1, <2>3
  <2> QED
    BY <1>7, <2>2, <2>3
<1>11. ASSUME NEW k \in 1..(n + 1), NEW j \in CallsOf(new), j >= f[k]
       PROVE  \E i \in 1..(n + 1) : f[i] = j
  <2>1. n + 1 \in 1..(n + 1)
    BY <1>2
  <2>2. CASE j = l + 1
    BY <1>6, <2>1, <2>2
  <2>3. CASE j \in CallsOf(ms)
    <3>1. k \in 1..n
      BY <1>1, <1>3, <1>6, <1>7, <1>11, <2>3
    <3>2. PICK i \in 1..n : p[i] = j
      BY <1>5, <1>6, <1>11, <2>3, <3>1
    <3> QED
      BY <1>6, <1>7, <3>2
  <2> QED
    BY <1>1, <2>2, <2>3
<1>14. \A k \in 1..(n + 1), s \in done : s < new[f[k]].step
  BY <1>1, <1>5, <1>6, <1>7
<1>12. AreLast(new, r, f, done)
  BY <1>2, <1>8, <1>9, <1>10, <1>11, <1>14 DEF AreLast
<1>13. LastCalls(new, r, done)
  BY <1>12 DEF LastCalls
<1> QED
  BY <1>13 DEF new, r

LEMMA LastTail ==
  ASSUME NEW ms \in Seq(Messages), NEW q \in Seq(Signatures), NEW done, Len(q) > 0,
         LastCalls(ms, q, done)
  PROVE  LastCalls(ms, Tail(q), done)
<1> DEFINE r == Tail(q)
           n == Len(q)
<1>1. n \in Nat /\ n > 0 /\ q # << >>
  OBVIOUS
<1>2. Len(r) = n - 1 /\ \A k \in 1..(n - 1) : r[k] = q[k + 1]
  BY <1>1, HeadTailProperties
<1>3. CallsOf(ms) \subseteq 1..Len(ms) /\ Len(ms) \in Nat
  BY DEF CallsOf
<1>4. PICK p : AreLast(ms, q, p, done)
  BY DEF LastCalls
<1>5. /\ p \in [1..n -> CallsOf(ms)]
      /\ \A k \in 1..n : ms[p[k]].sig = q[k]
      /\ \A k, i \in 1..n : k < i => p[k] < p[i]
      /\ \A k \in 1..n, j \in CallsOf(ms) : j >= p[k] => \E i \in 1..n : p[i] = j
      /\ \A k \in 1..n, s \in done : s < ms[p[k]].step
  BY <1>4 DEF AreLast
<1> DEFINE f == [k \in 1..(n - 1) |-> p[k + 1]]
<1> HIDE DEF r, n
<1>6. \A k \in 1..(n - 1) : k + 1 \in 1..n /\ f[k] = p[k + 1]
  BY <1>1
<1>7. f \in [1..(n - 1) -> CallsOf(ms)]
  BY <1>1, <1>5
<1> HIDE DEF f
<1>8. \A k \in 1..(n - 1) : ms[f[k]].sig = r[k]
  BY <1>2, <1>5, <1>6
<1>9. \A k, i \in 1..(n - 1) : k < i => f[k] < f[i]
  BY <1>1, <1>5, <1>6
<1>10. ASSUME NEW k \in 1..(n - 1), NEW j \in CallsOf(ms), j >= f[k]
       PROVE  \E i \in 1..(n - 1) : f[i] = j
  <2>1. PICK i \in 1..n : p[i] = j
    BY <1>5, <1>6, <1>10
  <2>2. 1 \in 1..n /\ k + 1 \in 1..n /\ 1 < k + 1
    BY <1>1
  <2>3. p[1] < p[k + 1] /\ j >= p[k + 1]
    BY <1>5, <1>6, <1>10, <2>2
  <2>4. p[1] \in Nat /\ p[k + 1] \in Nat /\ j \in Nat
    BY <1>3, <1>5, <2>2
  <2>5. i # 1
    BY <2>1, <2>3, <2>4
  <2>6. i - 1 \in 1..(n - 1) /\ (i - 1) + 1 = i
    BY <1>1, <2>5
  <2> QED
    BY <1>6, <2>1, <2>6
<1>13. \A k \in 1..(n - 1), s \in done : s < ms[f[k]].step
  BY <1>5, <1>6
<1>11. AreLast(ms, r, f, done)
  BY <1>2, <1>7, <1>8, <1>9, <1>10, <1>13 DEF AreLast
<1>12. LastCalls(ms, r, done)
  BY <1>11 DEF LastCalls
<1> QED
  BY <1>12 DEF r

(* The last three calls looking alike, there are three of them and they do.    *)
LEMMA ThreeAlike ==
  ASSUME NEW ms \in Seq(Messages), NEW q \in Seq(Signatures), NEW done, LastCalls(ms, q, done),
         Repeats(q)
  PROVE  \E i \in CallsOf(ms) :
           /\ Cardinality({j \in CallsOf(ms) : j >= i}) = 3
           /\ \A j \in CallsOf(ms) : j >= i => ms[j].sig = ms[i].sig
           /\ \A s \in done : s < ms[i].step
<1>1. Len(q) = 3 /\ q[2] = q[1] /\ q[3] = q[1]
  BY DEF Repeats
<1>2. CallsOf(ms) \subseteq 1..Len(ms) /\ Len(ms) \in Nat
  BY DEF CallsOf
<1>3. PICK p : AreLast(ms, q, p, done)
  BY DEF LastCalls
<1>4. 1 \in 1..3 /\ 2 \in 1..3 /\ 3 \in 1..3 /\ \A k \in 1..3 : k \in {1, 2, 3}
  OBVIOUS
<1>5. /\ p[1] \in CallsOf(ms) /\ p[2] \in CallsOf(ms) /\ p[3] \in CallsOf(ms)
      /\ \A k \in 1..3 : ms[p[k]].sig = q[1]
      /\ p[1] < p[2] /\ p[2] < p[3]
      /\ \A j \in CallsOf(ms) : j >= p[1] => \E i \in 1..3 : p[i] = j
      /\ \A s \in done : s < ms[p[1]].step
  <2>1. /\ p \in [1..3 -> CallsOf(ms)]
        /\ \A k \in 1..3 : ms[p[k]].sig = q[k]
        /\ \A k, l \in 1..3 : k < l => p[k] < p[l]
        /\ \A k \in 1..3, j \in CallsOf(ms) : j >= p[k] => \E l \in 1..3 : p[l] = j
        /\ \A k \in 1..3, s \in done : s < ms[p[k]].step
    BY <1>1, <1>3 DEF AreLast
  <2>2. p[1] < p[2] /\ p[2] < p[3]
    BY <1>4, <2>1
  <2>3. \A k \in 1..3 : ms[p[k]].sig = q[1]
    BY <1>1, <1>4, <2>1
  <2> QED
    BY <1>4, <2>1, <2>2, <2>3
<1> DEFINE a == p[1]
           b == p[2]
           c == p[3]
<1>6. a \in Nat /\ b \in Nat /\ c \in Nat /\ a < b /\ b < c
  BY <1>2, <1>5
<1>7. {j \in CallsOf(ms) : j >= a} = {a, b, c}
  <2>1. ASSUME NEW j \in CallsOf(ms), j >= a PROVE j \in {a, b, c}
    BY <1>4, <1>5, <2>1
  <2>2. a >= a /\ b >= a /\ c >= a
    BY <1>6
  <2> HIDE DEF a, b, c
  <2>3. a \in CallsOf(ms) /\ b \in CallsOf(ms) /\ c \in CallsOf(ms)
    BY <1>5 DEF a, b, c
  <2> QED
    BY <2>1, <2>2, <2>3
<1>8. Cardinality({a, b, c}) = 3
  <2> HIDE DEF a, b, c
  <2> DEFINE A == {a}
             B == {a, b}
  <2>1. IsFiniteSet(A) /\ Cardinality(A) = 1
    BY FS_Singleton
  <2>2. b \notin A /\ c \notin B
    BY <1>6
  <2>3. A \cup {b} = B /\ B \cup {c} = {a, b, c}
    OBVIOUS
  <2> HIDE DEF A, B
  <2>4. IsFiniteSet(A \cup {b}) /\ Cardinality(A \cup {b}) = Cardinality(A) + 1
    BY <2>1, <2>2, FS_AddElement
  <2>5. IsFiniteSet(B) /\ Cardinality(B) = 2
    <3>1. A \cup {b} = B
      BY <2>3
    <3>2. IsFiniteSet(B) /\ Cardinality(B) = Cardinality(A) + 1
      BY <2>4, <3>1
    <3> QED
      BY <2>1, <3>2
  <2>6. Cardinality(B \cup {c}) = Cardinality(B) + 1
    BY <2>2, <2>5, FS_AddElement
  <2>7. Cardinality(B \cup {c}) = 3
    BY <2>5, <2>6
  <2> QED
    BY <2>3, <2>7
<1>9. ASSUME NEW j \in CallsOf(ms), j >= a PROVE ms[j].sig = ms[a].sig
  <2>1. PICK i \in 1..3 : p[i] = j
    BY <1>5, <1>9
  <2>2. ms[p[i]].sig = q[1] /\ ms[p[1]].sig = q[1]
    BY <1>4, <1>5
  <2> QED
    BY <2>1, <2>2
<1>10. a \in CallsOf(ms) /\ \A s \in done : s < ms[a].step
  BY <1>5
<1> HIDE DEF a, b, c
<1>11. Cardinality({j \in CallsOf(ms) : j >= a}) = 3
  BY <1>7, <1>8
<1> QED
  BY <1>9, <1>10, <1>11

(* A step that adds no call and compacts nothing. *)
LEMMA CallsStay ==
  ASSUME messages \in Seq(Messages), step \in 0..MaxSteps, Replied => step >= 1,
         Quiet \/ Says \/ Replied
  PROVE  CallsOf(messages') = CallsOf(messages)
         /\ \A c \in CallsOf(messages) : messages'[c] = messages[c]
<1>1. CallsOf(messages) \subseteq 1..Len(messages)
  BY DEF CallsOf
<1>2. CASE Quiet
  BY <1>2 DEF Quiet
<1>3. CASE Says
  <2>1. PICK more : IsPlain(more) /\ messages' = messages \o more
    BY <1>3 DEF Says
  <2>2. CallsOf(messages \o more) = CallsOf(messages)
        /\ \A i \in 1..Len(messages) : (messages \o more)[i] = messages[i]
    BY <2>1, PlainMore
  <2> QED
    BY <1>1, <2>1, <2>2
<1>4. CASE Replied
  <2>1. PICK kind \in {"answered", "skipped", "final"} : messages' = messages \o <<ToolMsg(kind)>>
    BY <1>4 DEF Replied
  <2>2. step \in 1..MaxSteps
    BY <1>4
  <2>3. ToolMsg(kind) \in Messages /\ ToolMsg(kind).role = "tool"
    BY <2>2 DEF ToolMsg, Messages
  <2> DEFINE m == ToolMsg(kind)
  <2> HIDE DEF m
  <2>4. CallsOf(messages \o <<m>>) = CallsOf(messages)
        /\ \A i \in 1..Len(messages) : (messages \o <<m>>)[i] = messages[i]
    BY <2>3, OneMore DEF m
  <2> QED
    BY <1>1, <2>1, <2>4 DEF m
<1> QED
  BY <1>2, <1>3, <1>4

LEMMA RecentStep ==
  ASSUME LoopInv, LoopInv', TimesInv, RecentInv, [Next]_vars
  PROVE  RecentInv'
<1> USE DEF OpenPCs
<1>1. /\ messages \in Seq(Messages) /\ CountInv /\ step \in 0..MaxSteps
      /\ g4Due \in BOOLEAN /\ g4Due' \in BOOLEAN
      /\ sig \in Signatures /\ recent \in Seq(Signatures)
  BY DEF LoopInv, MsgInv, CountInv, BoolInv, DataInv
<1>2. Replied => step >= 1
  <2>1. pc = "tools" => step >= 1
    BY <1>1 DEF CountInv
  <2> QED
    BY <2>1 DEF Replied
<1>3. ASSUME Carries, NEW q, LastCalls(messages, q, compactedAt)
      PROVE  LastCalls(messages', q, compactedAt)
  <2>1. Quiet \/ Says \/ Replied
    BY <1>1, <1>3, Carried
  <2>2. CallsOf(messages') = CallsOf(messages)
        /\ \A c \in CallsOf(messages) : messages'[c] = messages[c]
    BY <1>1, <1>2, <2>1, CallsStay
  <2> QED
    BY <1>3, <2>2, LastSame
<1>4. ASSUME pc' \notin OpenPCs PROVE RecentInv'
  BY <1>4 DEF RecentInv
<1>5. ASSUME Carries, pc \in OpenPCs \ {"tools", "after"}, pc' \in OpenPCs \ {"tools", "after"},
             recent' = recent, compactedAt' = compactedAt
      PROVE  RecentInv'
  BY <1>3, <1>5 DEF RecentInv
<1>6. ASSUME Carries, pc \in {"tools", "after"}, pc' \in {"tools", "after"},
             recent' = recent, sig' = sig, compactedAt' = compactedAt
      PROVE  RecentInv'
  BY <1>3, <1>6 DEF RecentInv
<1>7. CASE StepLimit \/ TimeLimit \/ ChatFails \/ CompactFails \/ Finish \/ Report
           \/ Undecodable \/ LeaveCall
  <2>1. pc' \notin OpenPCs
    BY <1>7, Undecoded, LeavesCalls DEF StepLimit, TimeLimit, ChatFails, CompactFails, Finish,
         Report, Ends
  <2> QED
    BY <1>4, <2>1
<1>8. CASE NextStep \/ Truncated \/ Overflow \/ Critic \/ ContextFits \/ ContextOver
  <2>1. /\ pc \in OpenPCs \ {"tools", "after"} /\ pc' \in OpenPCs \ {"tools", "after"}
        /\ recent' = recent /\ compactedAt' = compactedAt
    BY <1>8 DEF NextStep, Truncated, Overflow, Critic, ContextFits, ContextOver, Asking, call, history
  <2>2. Carries
    BY <1>8 DEF Carries
  <2> QED
    BY <1>5, <2>1, <2>2
<1>9. CASE Reduce \/ Shrink \/ \E long \in Thinking : Narrate(long)
  <2>1. /\ pc \in OpenPCs \ {"tools", "after"} /\ pc' \in {"finish", "shrink", "critic", "top"}
        /\ recent' = recent /\ compactedAt' = compactedAt
    BY <1>9 DEF Reduce, Shrink, Narrate, Asking, Ends, call, history
  <2>2. Carries
    BY <1>9 DEF Carries
  <2>3. CASE pc' = "finish"
    BY <1>4, <2>3
  <2> QED
    BY <1>5, <2>1, <2>2, <2>3
<1>10. CASE SkippedCall \/ BlockedCall \/ RunCall
  <2>1. /\ pc = "tools" /\ pc' = "tools" /\ recent' = recent /\ sig' = sig
        /\ compactedAt' = compactedAt
    BY <1>10 DEF SkippedCall, BlockedCall, RunCall, PlainCall, NoteCall, FlagCall, RunbookCall,
                BashOnOwnFiles, NextCall, Answer, history
  <2>2. Carries
    BY <1>10 DEF Carries
  <2> QED
    BY <1>6, <2>1, <2>2
<1>11. CASE ToolsDone
  <2>1. /\ pc = "tools" /\ pc' \in {"finish", "after"} /\ recent' = recent /\ sig' = sig
        /\ compactedAt' = compactedAt
    BY <1>11 DEF ToolsDone, Ends, call, history
  <2>2. Carries
    BY <1>11 DEF Carries
  <2>3. CASE pc' = "finish"
    BY <1>4, <2>3
  <2> QED
    BY <1>6, <2>1, <2>2, <2>3
<1>12. ASSUME NEW long \in Thinking, NEW n \in 1..MaxCalls, NEW s \in Signatures,
              CallTools(n, s, long)
       PROVE  RecentInv'
  <2>1. /\ pc \in {"chat", "retry"} /\ pc' = "tools" /\ recent' = recent /\ sig' = s
        /\ messages' = Append(messages, CallMsg(n, s)) /\ compactedAt' = compactedAt
    BY <1>12 DEF CallTools, Asking, WithCall, history
  <2>2. step \in 1..MaxSteps
    BY <1>1, <2>1 DEF CountInv
  <2> DEFINE m == CallMsg(n, s)
  <2>3. m \in Messages /\ m.role = "call" /\ m.sig = s /\ m.step = step
    BY <2>2 DEF CallMsg, Messages
  <2>8. \A d \in compactedAt : d < step
    BY <2>1, <2>2 DEF TimesInv
  <2>4. messages' = messages \o <<m>>
    BY <2>1, AppendIsConcat
  <2> HIDE DEF m
  <2>5. LastCalls(messages, recent, compactedAt)
    BY <2>1 DEF RecentInv
  <2>6. LastCalls(messages \o <<m>>, Append(recent, m.sig), compactedAt)
    BY <1>1, <2>3, <2>5, <2>8, LastAnother
  <2>7. LastCalls(messages', Append(recent', sig'), compactedAt')
    BY <2>1, <2>3, <2>4, <2>6
  <2> QED
    BY <2>1, <2>7 DEF RecentInv
<1>13. CASE Bookkeeping
  <2> DEFINE q == Append(recent, sig)
             seen == LastThree(q)
  <2>1. /\ pc = "after" /\ pc' \in {"critic", "context"} /\ recent' \in {seen, << >>}
        /\ compactedAt' = compactedAt
    BY <1>13 DEF Bookkeeping, ComparesCalls, history
  <2>2. LastCalls(messages, q, compactedAt) /\ q \in Seq(Signatures) /\ Len(q) \in Nat
    BY <1>1, <2>1 DEF RecentInv
  <2> HIDE DEF q
  <2>3. LastCalls(messages, seen, compactedAt)
    <3>1. CASE Len(q) > 3
      <4>1. Len(q) > 0
        BY <2>2, <3>1
      <4>2. LastCalls(messages, Tail(q), compactedAt)
        BY <1>1, <2>2, <4>1, LastTail
      <4> QED
        BY <3>1, <4>2 DEF LastThree
    <3>2. CASE ~(Len(q) > 3)
      BY <2>2, <3>2 DEF LastThree
    <3> QED
      BY <3>1, <3>2
  <2> HIDE DEF seen
  <2>4. LastCalls(messages, recent', compactedAt)
    BY <2>1, <2>3, LastNone
  <2>5. Carries
    BY <1>13 DEF Carries
  <2>6. LastCalls(messages', recent', compactedAt')
    BY <1>3, <2>1, <2>4, <2>5
  <2> QED
    BY <2>1, <2>6 DEF RecentInv
<1>14. CASE Compact
  <2>1. pc' = "top" /\ recent' = << >>
    BY <1>14 DEF Compact, ForgetRepeats
  <2> QED
    BY <2>1, LastNone DEF RecentInv
<1>15. CASE UNCHANGED vars
  <2>1. /\ pc' = pc /\ recent' = recent /\ sig' = sig /\ messages' = messages
        /\ compactedAt' = compactedAt
    BY <1>15 DEF vars, call, history
  <2> QED
    BY <2>1 DEF RecentInv
<1> QED
  BY <1>7, <1>8, <1>9, <1>10, <1>11, <1>12, <1>13, <1>14, <1>15 DEF Next, AskLlm

(* The model is told that it repeats itself only when its last three messages  *)
(* with calls, all still in the conversation and made since the last           *)
(* compaction, made the same calls.                                            *)
THEOREM RepeatsAreTrue == Spec => RepeatIsTrue
<1> DEFINE Told == pc = "after" /\ messages' # messages
                   => \E i \in CallsOf(messages) :
                        /\ Cardinality({j \in CallsOf(messages) : j >= i}) = 3
                        /\ \A j \in CallsOf(messages) : j >= i => messages[j].sig = messages[i].sig
                        /\ \A s \in compactedAt : s < messages[i].step
<1>1. Init => RecentInv /\ TimesInv
  <2> SUFFICES ASSUME Init PROVE RecentInv /\ TimesInv
    OBVIOUS
  <2>1. /\ pc = "top" /\ recent = << >> /\ step = 0 /\ overStreak = 0 /\ compactedAt = {}
        /\ lastFit = 0
    BY DEF Init
  <2>2. RecentInv
    BY <2>1, LastNone DEF RecentInv
  <2>3. TimesInv
    BY <2>1 DEF TimesInv
  <2> QED
    BY <2>2, <2>3
<1>2. LoopInv /\ LoopInv' /\ TimesInv /\ RecentInv /\ [Next]_vars => RecentInv' /\ TimesInv'
  BY RecentStep, TimesStep DEF LoopInv
<1>3. LoopInv /\ RecentInv /\ [Next]_vars => [Told]_vars
  <2> SUFFICES ASSUME LoopInv, RecentInv, Next, pc = "after", messages' # messages
               PROVE  Told
    OBVIOUS
  <2>1. Bookkeeping \/ Undecodable
    BY LeavesCalls DEF Next, AskLlm, StepLimit, TimeLimit, NextStep, Truncated, ChatFails, Overflow,
           Narrate, CallTools, Asking, SkippedCall, BlockedCall, RunCall, PlainCall, NoteCall,
           FlagCall, RunbookCall, BashOnOwnFiles, NextCall, ToolsDone, Critic, ContextFits, ContextOver,
           Reduce, Shrink, Compact, CompactFails, Finish, Report
  <2> DEFINE q == Append(recent, sig)
             seen == LastThree(q)
  <2>2. Repeats(seen)
    BY <2>1 DEF Bookkeeping, Undecodable, ComparesCalls
  <2>3. /\ messages \in Seq(Messages) /\ LastCalls(messages, q, compactedAt)
        /\ q \in Seq(Signatures) /\ Len(q) \in Nat /\ Len(recent) <= 3
        /\ seen \in Seq(Signatures)
    <3>1. recent \in Seq(Signatures) /\ Len(recent) <= 3 /\ sig \in Signatures
      BY DEF LoopInv, DataInv
    <3> QED
      BY <3>1, LastThreeIs DEF LoopInv, MsgInv, RecentInv
  <2> HIDE DEF q
  <2>4. LastCalls(messages, seen, compactedAt)
    <3>1. CASE Len(q) > 3
      <4>1. Len(q) > 0
        BY <2>3, <3>1
      <4>2. LastCalls(messages, Tail(q), compactedAt)
        BY <2>3, <4>1, LastTail
      <4> QED
        BY <3>1, <4>2 DEF LastThree
    <3>2. CASE ~(Len(q) > 3)
      BY <2>3, <3>2 DEF LastThree
    <3> QED
      BY <3>1, <3>2
  <2> HIDE DEF seen
  <2> QED
    BY <2>2, <2>3, <2>4, ThreeAlike
<1>4. RepeatIsTrue <=> [][Told]_vars
  BY PTL DEF RepeatIsTrue
<1> QED
  BY <1>1, <1>2, <1>3, <1>4, LoopInit, LoopStep, PTL DEF Spec

-----------------------------------------------------------------------------
(* What a compaction keeps.  A step's calls are the first thing said in it, so *)
(* calls and the steps they are made in are the same in number, and whatever   *)
(* belongs to one of the last KeepRecent such steps stands in the tail.        *)
Ordered(ms, now) ==
  /\ \A c \in CallsOf(ms), i \in DOMAIN ms : i < c => ms[i].step < ms[c].step
  /\ \A i \in DOMAIN ms : ms[i].step <= now
Earlier(ms, now) == \A i \in DOMAIN ms : ms[i].step < now

OrderInv == Ordered(messages, step) /\ (pc \in {"chat", "retry"} => Earlier(messages, step))

LEMMA StepNumbers ==
  ASSUME NEW ms \in Seq(Messages)
  PROVE  /\ \A i \in DOMAIN ms : ms[i].step \in 0..MaxSteps
         /\ \A c \in CallsOf(ms) : ms[c].step \in 1..MaxSteps
<1>1. \A m \in Messages : m.step \in 0..MaxSteps
  BY AgentAssumption DEF Messages
<1>2. \A m \in Messages : m.role = "call" => m.step \in 1..MaxSteps
  BY DEF Messages, PlainRoles
<1>3. \A i \in DOMAIN ms : ms[i] \in Messages
  OBVIOUS
<1> QED
  BY <1>1, <1>2, <1>3 DEF CallsOf, IsCall

LEMMA OrderedPlain ==
  ASSUME NEW ms \in Seq(Messages), NEW more, IsPlain(more), step \in 0..MaxSteps, Ordered(ms, step)
  PROVE  Ordered(ms \o more, step)
<1> DEFINE new == ms \o more
<1>1. /\ Len(new) >= Len(ms) /\ Len(ms) \in Nat /\ Len(new) \in Nat
      /\ DOMAIN new = 1..Len(new) /\ DOMAIN ms = 1..Len(ms)
      /\ \A i \in 1..Len(ms) : new[i] = ms[i]
      /\ \A i \in (Len(ms) + 1)..Len(new) : new[i].step = step
      /\ CallsOf(new) = CallsOf(ms)
  BY PlainMore
<1>2. CallsOf(ms) \subseteq 1..Len(ms)
  BY <1>1 DEF CallsOf
<1> HIDE DEF new
<1>3. ASSUME NEW i \in DOMAIN new PROVE new[i].step <= step
  <2>1. CASE i \in 1..Len(ms)
    BY <1>1, <2>1 DEF Ordered
  <2>2. CASE i \in (Len(ms) + 1)..Len(new)
    BY <1>1, <2>2
  <2> QED
    BY <1>1, <2>1, <2>2
<1>4. ASSUME NEW c \in CallsOf(new), NEW i \in DOMAIN new, i < c
      PROVE  new[i].step < new[c].step
  <2>1. i \in DOMAIN ms /\ c \in CallsOf(ms) /\ new[i] = ms[i] /\ new[c] = ms[c]
    BY <1>1, <1>2, <1>4
  <2> QED
    BY <1>4, <2>1 DEF Ordered
<1>5. Ordered(new, step)
  BY <1>3, <1>4 DEF Ordered
<1> QED
  BY <1>5 DEF new

LEMMA OrderedOneMore ==
  ASSUME NEW ms \in Seq(Messages), NEW m \in Messages, m.step = step, step \in 0..MaxSteps,
         Ordered(ms, step), m.role = "call" => Earlier(ms, step)
  PROVE  Ordered(ms \o <<m>>, step)
<1> DEFINE new == ms \o <<m>>
           l == Len(ms)
<1>1. /\ l \in Nat /\ DOMAIN new = 1..(l + 1) /\ DOMAIN ms = 1..l
      /\ new[l + 1] = m /\ \A i \in 1..l : new[i] = ms[i]
      /\ m.role # "call" => CallsOf(new) = CallsOf(ms)
      /\ m.role = "call" => CallsOf(new) = CallsOf(ms) \cup {l + 1}
  BY OneMore
<1>2. CallsOf(ms) \subseteq 1..l
  BY <1>1 DEF CallsOf
<1> HIDE DEF new, l
<1>3. \A i : i \in 1..(l + 1) <=> i \in 1..l \/ i = l + 1
  BY <1>1
<1>4. ASSUME NEW i \in DOMAIN new PROVE new[i].step <= step
  BY <1>1, <1>3 DEF Ordered
<1>5. ASSUME NEW c \in CallsOf(new), NEW i \in DOMAIN new, i < c
      PROVE  new[i].step < new[c].step
  <2>1. CASE c \in CallsOf(ms)
    <3>1. i \in DOMAIN ms /\ new[i] = ms[i] /\ new[c] = ms[c]
      BY <1>1, <1>2, <1>5, <2>1
    <3> QED
      BY <1>5, <2>1, <3>1 DEF Ordered
  <2>2. CASE c = l + 1 /\ m.role = "call"
    <3>1. i \in DOMAIN ms /\ new[i] = ms[i] /\ new[c].step = step
      BY <1>1, <1>5, <2>2
    <3> QED
      BY <2>2, <3>1 DEF Earlier
  <2> QED
    BY <1>1, <2>1, <2>2
<1>6. Ordered(new, step)
  BY <1>4, <1>5 DEF Ordered
<1> QED
  BY <1>6 DEF new

LEMMA OrderedCompact ==
  ASSUME NEW ms \in Seq(Messages), OpensWell(ms), step \in 0..MaxSteps, Ordered(ms, step)
  PROVE  Ordered(CompactedMessages(ms), step)
<1> DEFINE t == TailStart(ms)
           new == CompactedMessages(ms)
           l == Len(ms)
<1>1. t \in 3..(l + 1) /\ l \in Nat /\ DOMAIN ms = 1..l /\ l >= 2
  BY TailStartsWithCall DEF OpensWell
<1>2. /\ new \in Seq(Messages) /\ Len(new) = l + 4 - t
      /\ new[1] = ms[1] /\ new[2] = ms[2] /\ new[3].role = "reset" /\ new[3].step = 0
      /\ \A i \in 4..Len(new) : new[i] = ms[i + t - 4]
  BY CompactedIs
<1>3. DOMAIN new = 1..(l + 4 - t)
  BY <1>2
<1> HIDE DEF t, new, l
<1>4. ms[1].role = "system" /\ ms[2].role = "task"
  BY DEF OpensWell
<1>5. ASSUME NEW i \in DOMAIN new, i >= 4
      PROVE  i + t - 4 \in DOMAIN ms /\ i + t - 4 > 2 /\ new[i] = ms[i + t - 4]
  BY <1>1, <1>2, <1>3, <1>5
<1>6. \A i \in DOMAIN new : i = 1 \/ i = 2 \/ i = 3 \/ i >= 4
  BY <1>1, <1>3
<1>7. ASSUME NEW i \in DOMAIN new PROVE new[i].step <= step
  <2>1. ms[1].step <= step /\ ms[2].step <= step
    BY <1>1 DEF Ordered
  <2>2. CASE i >= 4
    BY <1>5, <2>2 DEF Ordered
  <2>3. new[3].step <= step
    BY <1>2
  <2> QED
    BY <1>2, <1>6, <2>1, <2>2, <2>3
<1>8. ASSUME NEW c \in CallsOf(new), NEW i \in DOMAIN new, i < c
      PROVE  new[i].step < new[c].step
  <2>1. c \in DOMAIN new /\ new[c].role = "call"
    BY <1>8 DEF CallsOf, IsCall
  <2>2. c >= 4
    BY <1>2, <1>4, <1>6, <2>1
  <2>3. c + t - 4 \in CallsOf(ms) /\ new[c] = ms[c + t - 4] /\ c + t - 4 > 2
    BY <1>5, <2>1, <2>2 DEF CallsOf, IsCall
  <2>4. ms[c + t - 4].step \in 1..MaxSteps
    BY <2>3, StepNumbers
  <2> DEFINE d == c + t - 4
  <2>5. d \in CallsOf(ms) /\ new[c] = ms[d] /\ d > 2 /\ ms[d].step \in 1..MaxSteps /\ d \in Nat
    BY <1>1, <1>3, <2>1, <2>3, <2>4
  <2>6. CASE i >= 4
    <3>1. i + t - 4 \in DOMAIN ms /\ new[i] = ms[i + t - 4] /\ i + t - 4 < d
      BY <1>1, <1>3, <1>5, <1>8, <2>1, <2>6
    <3> HIDE DEF d
    <3> QED
      BY <2>5, <3>1 DEF Ordered
  <2> HIDE DEF d
  <2>7. CASE i = 3
    BY <1>2, <2>5, <2>7
  <2>8. CASE i \in {1, 2}
    <3>1. i \in DOMAIN ms /\ i < d /\ new[i] = ms[i]
      BY <1>1, <1>2, <2>5, <2>8
    <3> QED
      BY <2>5, <3>1 DEF Ordered
  <2> QED
    BY <1>6, <2>6, <2>7, <2>8
<1>9. Ordered(new, step)
  BY <1>7, <1>8 DEF Ordered
<1> QED
  BY <1>9 DEF new

LEMMA OrderStep ==
  ASSUME LoopInv, LoopInv', OrderInv, [Next]_vars
  PROVE  OrderInv'
<1>1. /\ messages \in Seq(Messages) /\ OpensWell(messages) /\ CountInv
      /\ step \in 0..MaxSteps /\ step' \in 0..MaxSteps
      /\ g4Due \in BOOLEAN /\ g4Due' \in BOOLEAN
  BY DEF LoopInv, MsgInv, CountInv, BoolInv
<1>2. \A i \in DOMAIN messages : messages[i].step \in 0..MaxSteps
  BY <1>1, StepNumbers
<1>3. CASE NextStep \/ TimeLimit
  <2>1. messages' = messages /\ step' = step + 1
    BY <1>3 DEF NextStep, TimeLimit
  <2>2. Earlier(messages, step + 1) /\ Ordered(messages, step + 1)
    BY <1>1, <1>2 DEF OrderInv, Ordered, Earlier
  <2> QED
    BY <2>1, <2>2 DEF OrderInv
<1>4. CASE Truncated \/ UNCHANGED vars
  <2>1. messages' = messages /\ step' = step /\ (pc' \in {"chat", "retry"} => pc \in {"chat", "retry"})
    BY <1>4 DEF Truncated, vars
  <2> QED
    BY <2>1 DEF OrderInv
<1>5. ASSUME NEW long \in Thinking, NEW n \in 1..MaxCalls, NEW s \in Signatures,
             CallTools(n, s, long)
      PROVE  OrderInv'
  <2>1. /\ pc \in {"chat", "retry"} /\ pc' = "tools" /\ step' = step
        /\ messages' = Append(messages, CallMsg(n, s))
    BY <1>5 DEF CallTools, Asking, WithCall
  <2>2. step \in 1..MaxSteps
    BY <1>1, <2>1 DEF CountInv, OpenPCs
  <2> DEFINE m == CallMsg(n, s)
  <2>3. m \in Messages /\ m.role = "call" /\ m.step = step
    BY <2>2 DEF CallMsg, Messages
  <2>4. messages' = messages \o <<m>>
    BY <2>1, AppendIsConcat
  <2> HIDE DEF m
  <2>5. Ordered(messages \o <<m>>, step)
    BY <1>1, <2>1, <2>3, OrderedOneMore DEF OrderInv
  <2> QED
    BY <2>1, <2>4, <2>5 DEF OrderInv
<1>6. CASE Compact
  <2>1. pc' = "top" /\ step' = step /\ messages' = CompactedMessages(messages)
    BY <1>6 DEF Compact
  <2>2. Ordered(CompactedMessages(messages), step)
    BY <1>1, OrderedCompact DEF OrderInv
  <2> QED
    BY <2>1, <2>2 DEF OrderInv
<1>7. ASSUME Carries, pc' \notin {"chat", "retry"}, step' = step PROVE OrderInv'
  <2>1. CASE messages' = messages
    BY <1>7, <2>1 DEF OrderInv
  <2>2. CASE Says
    <3>1. PICK more : IsPlain(more) /\ messages' = messages \o more
      BY <2>2 DEF Says
    <3>2. Ordered(messages \o more, step)
      BY <1>1, <3>1, OrderedPlain DEF OrderInv
    <3> QED
      BY <1>7, <3>1, <3>2 DEF OrderInv
  <2>3. CASE Replied
    <3>1. PICK kind \in {"answered", "skipped", "final"} : messages' = messages \o <<ToolMsg(kind)>>
      BY <2>3 DEF Replied
    <3>2. step \in 1..MaxSteps
      <4>1. pc = "tools"
        BY <1>1, <2>3 DEF Replied, CountInv
      <4> QED
        BY <1>1, <4>1 DEF CountInv, OpenPCs
    <3> DEFINE m == ToolMsg(kind)
    <3>3. m \in Messages /\ m.role = "tool" /\ m.step = step
      BY <3>2 DEF ToolMsg, Messages
    <3> HIDE DEF m
    <3>4. Ordered(messages \o <<m>>, step)
      BY <1>1, <3>3, OrderedOneMore DEF OrderInv
    <3> QED
      BY <1>7, <3>1, <3>4 DEF OrderInv, m
  <2> QED
    BY <1>1, <1>7, <2>1, <2>2, <2>3, Carried DEF Quiet
<1>8. CASE StepLimit \/ ChatFails \/ Overflow \/ \E long \in Thinking : Narrate(long)
  <2>1. pc' \notin {"chat", "retry"} /\ step' = step
    BY <1>8 DEF StepLimit, ChatFails, Overflow, Narrate, Ends
  <2> QED
    BY <1>7, <1>8, <2>1 DEF Carries
<1>9. CASE SkippedCall \/ BlockedCall \/ RunCall \/ ToolsDone
  <2>1. pc' \notin {"chat", "retry"} /\ step' = step
    BY <1>9 DEF SkippedCall, BlockedCall, RunCall, PlainCall, NoteCall, FlagCall, RunbookCall,
                BashOnOwnFiles, NextCall, Answer, ToolsDone, Ends
  <2> QED
    BY <1>7, <1>9, <2>1 DEF Carries
<1>10. CASE Bookkeeping \/ Undecodable \/ LeaveCall \/ Critic \/ ContextFits \/ ContextOver
            \/ Reduce \/ Shrink \/ CompactFails \/ Finish \/ Report
  <2>1. pc' \notin {"chat", "retry"} /\ step' = step
    BY <1>10, Undecoded, LeavesCalls DEF Bookkeeping, ComparesCalls, Critic, ContextFits, ContextOver, Reduce, Shrink, CompactFails,
                 Finish, Report, Ends
  <2> QED
    BY <1>7, <1>10, <2>1 DEF Carries
<1> QED
  BY <1>3, <1>4, <1>5, <1>6, <1>8, <1>9, <1>10 DEF Next, AskLlm

(* The messages of a recent step all stand in the tail. *)
LEMMA RecentInTail ==
  ASSUME NEW ms \in Seq(Messages), OpensWell(ms), Ordered(ms, step), NEW c \in CallsOf(ms),
         LET steps0 == {ms[j].step : j \in CallsOf(ms)}
         IN  Cardinality({s \in steps0 : s >= ms[c].step}) <= KeepRecent
  PROVE  /\ TailStart(ms) <= c
         /\ \A i \in DOMAIN ms : ms[i].step = ms[c].step => i >= c
<1> DEFINE calls == CallsOf(ms)
           since == {j \in calls : j >= c}
           later == {s \in {ms[j].step : j \in calls} : s >= ms[c].step}
           f == [j \in since |-> ms[j].step]
<1>1. calls \subseteq 1..Len(ms) /\ Len(ms) \in Nat /\ DOMAIN ms = 1..Len(ms)
  BY DEF CallsOf
<1>2. \A j \in DOMAIN ms : ms[j].step \in 0..MaxSteps
  BY StepNumbers
<1>3. \A i \in DOMAIN ms, j \in calls : i < j => ms[i].step < ms[j].step
  BY DEF Ordered
<1>4. ASSUME NEW i \in DOMAIN ms, ms[i].step = ms[c].step PROVE i >= c
  BY <1>1, <1>2, <1>3, <1>4
<1>5. IsFiniteSet(later)
  <2>1. IsFiniteSet(0..MaxSteps)
    BY AgentAssumption, FS_Interval
  <2>2. later \subseteq 0..MaxSteps
    BY <1>1, <1>2
  <2> QED
    BY <2>1, <2>2, FS_Subset
<1>6. f \in [since -> later]
  <2>1. ASSUME NEW j \in since PROVE ms[j].step >= ms[c].step
    <3>1. CASE j = c
      BY <1>1, <1>2, <3>1
    <3>2. CASE c < j
      BY <1>1, <1>2, <1>3, <3>2
    <3> QED
      BY <1>1, <3>1, <3>2
  <2> QED
    BY <2>1
<1>7. ASSUME NEW i \in since, NEW j \in since, f[i] = f[j] PROVE i = j
  <2>1. ms[i].step = ms[j].step /\ i \in calls /\ j \in calls
    BY <1>7
  <2>2. i \in DOMAIN ms /\ j \in DOMAIN ms /\ i \in Nat /\ j \in Nat
    BY <1>1, <2>1
  <2>3. ~(i < j) /\ ~(j < i)
    BY <1>2, <1>3, <2>1, <2>2
  <2> QED
    BY <2>2, <2>3
<1>8. f \in Injection(since, later)
  <2> HIDE DEF f, since, later
  <2> QED
    BY <1>6, <1>7 DEF Injection, IsInjective
<1>9. IsFiniteSet(since) /\ Cardinality(since) <= Cardinality(later)
  <2> HIDE DEF f, since, later
  <2>1. IsFiniteSet(since)
    BY <1>5, <1>8, FS_Injection
  <2> QED
    BY <1>5, <1>8, FS_Injection
<1>10. Cardinality(since) <= KeepRecent
  <2>1. Cardinality(later) <= KeepRecent
    OBVIOUS
  <2>2. Cardinality(later) \in Nat /\ Cardinality(since) \in Nat
    BY <1>5, <1>9, FS_CardinalityType
  <2> HIDE DEF since, later
  <2> QED
    BY <1>9, <2>1, <2>2, AgentAssumption
<1> DEFINE kept == {i \in calls : IsRecent(calls, i)}
<1>11. c \in kept
  BY <1>10 DEF IsRecent
<1>12. kept \in SUBSET (1..Len(ms)) /\ kept # {}
  BY <1>1, <1>11
<1> HIDE DEF kept
<1>13. \E i \in kept : \A j \in kept : i <= j
  BY <1>1, <1>12, First
<1>14. TailStart(ms) = CHOOSE i \in kept : \A j \in kept : i <= j
  BY <1>11 DEF TailStart, kept
<1>15. TailStart(ms) <= c
  BY <1>11, <1>13, <1>14
<1> QED
  BY <1>4, <1>15

(* A compaction keeps the last KeepRecent tool steps word for word, in order   *)
(* and as far from the end, and nothing is added to them.                      *)
THEOREM CompactionsKeepRecent == Spec => CompactionKeepsRecent
<1> DEFINE Kept == compactedAt' # compactedAt
                   => \A s \in RecentSteps : OfStep(messages', s) = OfStep(messages, s)
<1>1. Init => OrderInv
  <2> SUFFICES ASSUME Init PROVE OrderInv
    OBVIOUS
  <2>1. pc = "top" /\ step = 0
    BY DEF Init
  <2> DEFINE sys == [role |-> "system", step |-> 0]
             task == [role |-> "task", step |-> 0]
             m == <<sys, task>>
  <2>2. messages = m
    BY DEF Init
  <2>3. DOMAIN m = {1, 2} /\ m[1] = sys /\ m[2] = task
    OBVIOUS
  <2>4. sys.role = "system" /\ task.role = "task" /\ sys.step = 0 /\ task.step = 0
    OBVIOUS
  <2> HIDE DEF m, sys, task
  <2>5. CallsOf(m) = {} /\ \A i \in DOMAIN m : m[i].step = 0
    BY <2>3, <2>4 DEF CallsOf, IsCall
  <2>6. Ordered(m, 0)
    BY <2>5 DEF Ordered
  <2> QED
    BY <2>1, <2>2, <2>6 DEF OrderInv
<1>2. LoopInv /\ LoopInv' /\ OrderInv /\ [Next]_vars => OrderInv'
  BY OrderStep
<1>3. LoopInv /\ OrderInv /\ [Next]_vars => [Kept]_vars
  <2> SUFFICES ASSUME LoopInv, OrderInv, Next, compactedAt' # compactedAt, NEW s \in RecentSteps
               PROVE  OfStep(messages', s) = OfStep(messages, s)
    OBVIOUS
  <2>1. Compact
    <3>1. ASSUME Overflow \/ ContextOver \/ ContextFits PROVE FALSE
      BY <3>1 DEF Overflow, ContextOver, ContextFits
    <3>2. ASSUME SkippedCall \/ BlockedCall \/ RunCall PROVE FALSE
      BY <3>2 DEF SkippedCall, BlockedCall, RunCall, PlainCall, NoteCall, FlagCall, RunbookCall,
                  BashOnOwnFiles, Answer, history
    <3>3. ASSUME NEW long \in Thinking, Narrate(long) PROVE FALSE
      BY <3>3 DEF Narrate, history
    <3>4. ASSUME NEW long \in Thinking, NEW n \in 1..MaxCalls, NEW g \in Signatures,
                 CallTools(n, g, long)
          PROVE  FALSE
      BY <3>4 DEF CallTools, history
    <3>5. ASSUME StepLimit \/ TimeLimit \/ NextStep \/ Truncated \/ ChatFails \/ ToolsDone PROVE FALSE
      BY <3>5 DEF StepLimit, TimeLimit, NextStep, Truncated, ChatFails, ToolsDone, history
    <3>7. ASSUME Undecodable \/ LeaveCall PROVE FALSE
      BY <3>7, Undecoded, LeavesCalls DEF history
    <3>6. ASSUME Bookkeeping \/ Critic \/ Reduce \/ Shrink \/ CompactFails \/ Finish \/ Report
          PROVE  FALSE
      BY <3>6 DEF Bookkeeping, ComparesCalls, Critic, Reduce, Shrink, CompactFails, Finish, Report, history
    <3> QED
      BY <3>1, <3>2, <3>3, <3>4, <3>5, <3>6, <3>7 DEF Next, AskLlm
  <2>2. messages \in Seq(Messages) /\ OpensWell(messages) /\ Ordered(messages, step)
    BY DEF LoopInv, MsgInv, OrderInv
  <2> DEFINE ms == messages
             new == CompactedMessages(ms)
             t == TailStart(ms)
             l == Len(ms)
  <2>3. messages' = new
    BY <2>1 DEF Compact
  <2>4. PICK c \in CallsOf(ms) :
          /\ s = ms[c].step
          /\ Cardinality({u \in CallSteps : u >= s}) <= KeepRecent
    BY DEF RecentSteps, CallSteps
  <2>5. t <= c /\ \A i \in DOMAIN ms : ms[i].step = s => i >= c
    BY <2>2, <2>4, RecentInTail DEF CallSteps
  <2>6. t \in 3..(l + 1) /\ l \in Nat /\ DOMAIN ms = 1..l /\ ms[1].role = "system"
        /\ ms[2].role = "task"
    BY <2>2, TailStartsWithCall DEF OpensWell
  <2>7. /\ new \in Seq(Messages) /\ Len(new) = l + 4 - t
        /\ new[1] = ms[1] /\ new[2] = ms[2] /\ new[3].step = 0
        /\ \A i \in 4..Len(new) : new[i] = ms[i + t - 4]
    BY <2>2, CompactedIs
  <2>8. DOMAIN new = 1..(l + 4 - t)
    BY <2>7
  <2>9. c \in 3..l /\ s \in 1..MaxSteps
    <3>1. c \in 1..l /\ ms[c].role = "call"
      BY <2>4, <2>6 DEF CallsOf, IsCall
    <3> HIDE DEF ms, l
    <3>2. c # 1 /\ c # 2
      BY <2>6, <3>1
    <3> QED
      BY <2>2, <2>4, <2>6, <3>1, <3>2, StepNumbers DEF ms
  <2> HIDE DEF new, t, l
  <2>10. ms[1].step # s /\ ms[2].step # s
    BY <2>5, <2>6, <2>9
  <2>11. \A i \in DOMAIN new : new[i].step = s => i >= 4
    BY <2>6, <2>7, <2>8, <2>9, <2>10
  <2>12. ASSUME NEW i \in DOMAIN new, new[i].step = s
         PROVE  \E j \in DOMAIN ms : ms[j].step = s /\ l - j = Len(new) - i /\ ms[j] = new[i]
    <3>a. /\ i \in 4..(l + 4 - t) /\ t \in 3..(l + 1) /\ l \in Nat /\ Len(new) = l + 4 - t
          /\ DOMAIN ms = 1..l
      BY <2>6, <2>7, <2>8, <2>11, <2>12
    <3>b. i + t - 4 \in 1..l /\ l - (i + t - 4) = Len(new) - i
      BY <3>a
    <3>c. new[i] = ms[i + t - 4]
      BY <2>7, <3>a
    <3>1. i + t - 4 \in DOMAIN ms /\ new[i] = ms[i + t - 4] /\ l - (i + t - 4) = Len(new) - i
      BY <3>a, <3>b, <3>c
    <3> QED
      BY <2>12, <3>1
  <2>13. ASSUME NEW j \in DOMAIN ms, ms[j].step = s
         PROVE  \E i \in DOMAIN new : new[i].step = s /\ Len(new) - i = l - j /\ new[i] = ms[j]
    <3>1. j >= t
      BY <2>5, <2>6, <2>9, <2>13
    <3> DEFINE i == j + 4 - t
    <3>a. /\ j \in 1..l /\ j >= t /\ t \in 3..(l + 1) /\ l \in Nat /\ Len(new) = l + 4 - t
          /\ DOMAIN new = 1..(l + 4 - t)
      BY <2>6, <2>7, <2>8, <3>1
    <3>b. i + t - 4 = j /\ Len(new) - i = l - j /\ i \in 4..(l + 4 - t)
      BY <3>a
    <3>2. i \in 4..Len(new) /\ i \in DOMAIN new /\ i + t - 4 = j /\ Len(new) - i = l - j
      BY <3>a, <3>b
    <3> HIDE DEF i
    <3>3. new[i] = ms[j]
      BY <2>7, <3>2
    <3> QED
      BY <2>13, <3>2, <3>3
  <2> HIDE DEF ms
  <2>14. OfStep(new, s) = OfStep(ms, s)
    <3>1. OfStep(new, s) = {<<Len(new) - i, new[i]>> : i \in {k \in DOMAIN new : new[k].step = s}}
      BY DEF OfStep
    <3>2. OfStep(ms, s) = {<<l - j, ms[j]>> : j \in {k \in DOMAIN ms : ms[k].step = s}}
      BY DEF OfStep, l
    <3>3. OfStep(new, s) \subseteq OfStep(ms, s)
      BY <2>12, <3>1, <3>2
    <3>4. OfStep(ms, s) \subseteq OfStep(new, s)
      BY <2>13, <3>1, <3>2
    <3> QED
      BY <3>3, <3>4
  <2> QED
    BY <2>3, <2>14 DEF ms
<1>4. CompactionKeepsRecent <=> [][Kept]_vars
  BY PTL DEF CompactionKeepsRecent
<1> QED
  BY <1>1, <1>2, <1>3, <1>4, LoopInit, LoopStep, PTL DEF Spec

-----------------------------------------------------------------------------
(* The argument under RunReturns, as far as it is one of safety: every step of *)
(* the loop brings it nearer to its end, and at its end the result is there.   *)

(* What a step of max_steps can still take from each place in the loop: a      *)
(* compaction goes through the critic a second time, with another cause.       *)
ToTheTop(p, c, n) ==
  CASE p \in {"returned", "raised", "exited"} -> 0
    [] p = "report" -> 1
    [] p = "finish" -> 2
    [] p = "top" -> 3
    [] p = "compact" -> 4
    [] p = "critic" -> IF c = "idle" THEN 9 ELSE 5
    [] p = "shrink" -> 6
    [] p = "reduce" -> 7
    [] p = "context" -> 8
    [] p = "after" -> 10
    [] p = "tools" -> 11 + n
    [] p = "retry" -> 12 + MaxCalls
    [] p = "chat" -> 13 + MaxCalls
OfOneStep == MaxCalls + 14
Remaining == (MaxSteps - step) * OfOneStep + ToTheTop(pc, cause, pending)

(* No step of the loop leaves as much to do as there was, so a run takes at    *)
(* most as many as Remaining is at the start.                                  *)
StepsAreBounded ==
  [][Remaining' \in Nat /\ Remaining \in Nat /\ Remaining' < Remaining]_vars

(* A run that returns has written its result; one that an exception leaves has *)
(* not only when .revagent is gone, and has otherwise failed at a case file    *)
(* that is gone or garbled.  (A tool that exits the program leaves none.)      *)
EndsWithResult ==
  /\ pc = "returned" => resultWritten
  /\ pc = "raised" => IF resultWritten THEN ~Readable ELSE ~workDir

(* What brings a compaction about is not what brings the critic about alone. *)
CauseInv == pc \in {"reduce", "shrink"} => cause \in {"overflow", "threshold"}

LEMMA CauseStep ==
  ASSUME CauseInv, [Next]_vars
  PROVE  CauseInv'
<1> USE DEF CauseInv
<1>1. CASE StepLimit \/ TimeLimit \/ NextStep
  BY <1>1 DEF StepLimit, TimeLimit, NextStep, Ends
<1>2. CASE Truncated \/ ChatFails \/ Overflow
  BY <1>2 DEF Truncated, ChatFails, Overflow, Ends
<1>3. ASSUME NEW long \in Thinking, Narrate(long) PROVE pc' \in {"top", "finish"}
  BY <1>3 DEF Narrate, Ends
<1>4. ASSUME NEW long \in Thinking, NEW n \in 1..MaxCalls, NEW s \in Signatures,
             CallTools(n, s, long)
      PROVE  pc' = "tools"
  BY <1>4 DEF CallTools
<1>5. CASE SkippedCall \/ BlockedCall \/ RunCall
  BY <1>5 DEF SkippedCall, BlockedCall, RunCall, PlainCall, NoteCall, FlagCall, RunbookCall,
              BashOnOwnFiles, Answer, NextCall
<1>6. CASE ToolsDone \/ Bookkeeping \/ Critic \/ ContextFits \/ ContextOver
  BY <1>6 DEF ToolsDone, Bookkeeping, ComparesCalls, Critic, ContextFits, ContextOver, Ends
<1>10. CASE Undecodable \/ LeaveCall
  BY <1>10, Undecoded, LeavesCalls
<1>7. CASE Reduce \/ Shrink \/ Compact \/ CompactFails
  BY <1>7 DEF Reduce, Shrink, Compact, CompactFails, Ends
<1>8. CASE Finish \/ Report
  BY <1>8 DEF Finish, Report
<1>9. CASE UNCHANGED vars
  BY <1>9 DEF vars
<1> QED
  BY <1>1, <1>2, <1>3, <1>4, <1>5, <1>6, <1>7, <1>8, <1>9, <1>10 DEF Next, AskLlm

(* A sum with less is less. *)
LEMMA Less == \A n, a, b \in Nat : b < a => n + a \in Nat /\ n + b \in Nat /\ n + b < n + a
OBVIOUS

Closer == Remaining' \in Nat /\ Remaining \in Nat /\ Remaining' < Remaining

(* Within a step less is left of it. *)
LEMMA Nearer ==
  ASSUME step \in 0..MaxSteps, step' = step,
         NEW a \in Nat, ToTheTop(pc, cause, pending) = a,
         NEW b \in Nat, ToTheTop(pc', cause', pending') = b, b < a
  PROVE  Closer
<1> DEFINE before == (MaxSteps - step) * OfOneStep
<1>1. MaxSteps - step \in Nat /\ OfOneStep \in Nat
  BY AgentAssumption DEF OfOneStep
<1>2. before \in Nat
  BY <1>1
<1>3. Remaining = before + a /\ Remaining' = before + b
  BY DEF Remaining, OfOneStep
<1> HIDE DEF before
<1>4. before + a \in Nat /\ before + b \in Nat /\ before + b < before + a
  BY <1>2, Less
<1> QED
  BY <1>3, <1>4 DEF Closer

(* A new step takes less than what a step is counted for. *)
LEMMA NewStep ==
  ASSUME step \in 0..MaxSteps, step < MaxSteps, pc = "top", step' = step + 1,
         NEW b \in Nat, ToTheTop(pc', cause', pending') = b, b < OfOneStep
  PROVE  Closer
<1> DEFINE k == (MaxSteps - step) - 1
           after == k * OfOneStep
<1>1. k \in Nat /\ OfOneStep \in Nat /\ MaxSteps - step = k + 1 /\ MaxSteps - (step + 1) = k
  BY AgentAssumption DEF OfOneStep
<1> HIDE DEF k
<1>2. after \in Nat /\ (k + 1) * OfOneStep = after + OfOneStep
  BY <1>1
<1>3. Remaining = (after + OfOneStep) + 3 /\ Remaining' = after + b
  <2>1. ToTheTop(pc, cause, pending) = 3
    BY DEF ToTheTop
  <2> QED
    BY <1>1, <1>2, <2>1 DEF Remaining, OfOneStep
<1>4. OfOneStep \in Nat
  BY <1>1
<1> HIDE DEF after
<1>5. /\ (after + OfOneStep) + 3 \in Nat /\ after + b \in Nat
      /\ after + b < (after + OfOneStep) + 3
  BY <1>2, <1>4
<1> QED
  BY <1>3, <1>5 DEF Closer

(* The places an answer leads to. *)
LEMMA AnswerRank ==
  ASSUME NEW p, NEW c, NEW n \in 0..MaxCalls
  PROVE  /\ p = "chat" => ToTheTop(p, c, n) = 13 + MaxCalls
         /\ p = "retry" => ToTheTop(p, c, n) = 12 + MaxCalls
         /\ p = "tools" => ToTheTop(p, c, n) = 11 + n
         /\ p \in {"finish", "reduce", "top"} => ToTheTop(p, c, n) \in 0..10
BY DEF ToTheTop

(* What follows on each place in the loop but those where the model is asked   *)
(* and its calls are run.                                                      *)
Behind(p, c) ==
  CASE p = "after" -> {"critic", "context", "finish"}
    [] p = "critic" /\ c = "idle" -> {"context"}
    [] p = "critic" /\ c # "idle" -> {"compact"}
    [] p = "context" -> {"top", "reduce"}
    [] p = "reduce" -> {"finish", "shrink", "critic"}
    [] p = "shrink" -> {"finish", "critic"}
    [] p = "compact" -> {"top", "finish"}
    [] p = "top" -> {"finish"}
    [] p = "finish" -> {"report", "raised"}
    [] p = "report" -> {"returned", "raised"}
    [] OTHER -> {}

LEMMA PlaceRank ==
  ASSUME NEW p \in PCs, NEW c, NEW n, NEW q \in PCs, NEW d, NEW m,
         q \in Behind(p, c), p \in {"reduce", "shrink"} => d # "idle"
  PROVE  \E a, b \in Nat : ToTheTop(p, c, n) = a /\ ToTheTop(q, d, m) = b /\ b < a
BY DEF ToTheTop, Behind, PCs

(* What an answer leads to is nearer than waiting for it. *)
LEMMA AnswerIsNearer ==
  ASSUME step \in 0..MaxSteps, pending \in 0..MaxCalls, NEW n \in 0..MaxCalls, pending' = n,
         Asking, step' = step,
         (pc = "chat" /\ pc' = "retry") \/ pc' \in {"finish", "reduce", "top", "tools"}
  PROVE  Closer
<1>1. MaxCalls \in Nat
  BY AgentAssumption
<1> DEFINE a == ToTheTop(pc, cause, pending)
           b == ToTheTop(pc', cause', n)
<1>2. a \in Nat /\ a >= 12 + MaxCalls /\ (pc = "chat" => a > 12 + MaxCalls)
  <2>1. CASE pc = "chat"
    <3>1. a = 13 + MaxCalls
      BY <2>1, AnswerRank
    <3> HIDE DEF a
    <3> QED
      BY <1>1, <2>1, <3>1
  <2>2. CASE pc = "retry"
    <3>1. a = 12 + MaxCalls
      BY <2>2, AnswerRank
    <3> HIDE DEF a
    <3> QED
      BY <1>1, <2>2, <3>1
  <2> QED
    BY <2>1, <2>2 DEF Asking
<1>3. b \in Nat /\ b <= 12 + MaxCalls /\ (pc' # "retry" => b < 12 + MaxCalls)
  <2>1. CASE pc' = "retry"
    <3>1. b = 12 + MaxCalls
      BY <2>1, AnswerRank
    <3> HIDE DEF b
    <3> QED
      BY <1>1, <2>1, <3>1
  <2>2. CASE pc' = "tools"
    <3>1. b = 11 + n
      BY <2>2, AnswerRank
    <3>2. 11 + n \in Nat /\ 11 + n < 12 + MaxCalls
      BY <1>1
    <3> HIDE DEF b
    <3> QED
      BY <1>1, <2>2, <3>1, <3>2
  <2>3. CASE pc' \in {"finish", "reduce", "top"}
    <3>1. b \in 0..10
      BY <2>3, AnswerRank
    <3> HIDE DEF b
    <3> QED
      BY <1>1, <2>3, <3>1
  <2> QED
    BY <2>1, <2>2, <2>3
<1>4. b < a
  <2>1. pc = "chat" \/ pc' # "retry"
    OBVIOUS
  <2> HIDE DEF a, b
  <2> QED
    BY <1>1, <1>2, <1>3, <2>1
<1> QED
  <2>1. b = ToTheTop(pc', cause', pending')
    OBVIOUS
  <2> HIDE DEF a, b
  <2> QED
    BY <1>2, <1>3, <1>4, <2>1, Nearer DEF a

(* Answering a call of the message, whatever it does. *)
LEMMA CallIsNearer ==
  ASSUME step \in 0..MaxSteps, pending \in 0..MaxCalls, pending' \in 0..MaxCalls,
         pc = "tools", NEW kind, Answer(kind)
  PROVE  Closer
<1>1. MaxCalls \in Nat
  BY AgentAssumption
<1>2. pc' = "tools" /\ step' = step /\ pending' = pending - 1
  BY DEF Answer
<1>3. /\ ToTheTop(pc, cause, pending) = 11 + pending
      /\ ToTheTop(pc', cause', pending') = 11 + pending'
  BY <1>2, AnswerRank
<1>4. 11 + pending \in Nat /\ 11 + pending' \in Nat /\ 11 + pending' < 11 + pending
  BY <1>1, <1>2
<1> QED
  BY <1>2, <1>3, <1>4, Nearer

(* Everything else the loop does in a step. *)
LEMMA PlaceIsNearer ==
  ASSUME step \in 0..MaxSteps, step' = step, pc \in PCs, pc' \in PCs, pc' \in Behind(pc, cause),
         pc \in {"reduce", "shrink"} => cause' # "idle"
  PROVE  Closer
<1>1. PICK a \in Nat, b \in Nat : /\ ToTheTop(pc, cause, pending) = a
                                  /\ ToTheTop(pc', cause', pending') = b /\ b < a
  BY PlaceRank
<1> QED
  BY <1>1, Nearer

(* Whatever the loop does, less is left. *)
LEMMA StepIsNearer ==
  ASSUME LoopInv, LoopInv', CauseInv, Next
  PROVE  Closer
<1>1. MaxCalls \in Nat /\ MaxSteps \in Nat
  BY AgentAssumption
<1>2. step \in 0..MaxSteps /\ pending \in 0..MaxCalls /\ pc \in PCs
  BY DEF LoopInv, CountInv, DataInv
<1>3. pending' \in 0..MaxCalls /\ pc' \in PCs
  BY DEF LoopInv, CountInv, DataInv
<1>4. CASE StepLimit
  <2>1. pc = "top" /\ pc' = "finish" /\ step' = step
    BY <1>4 DEF StepLimit, Ends
  <2> QED
    BY <1>2, <1>3, <2>1, PlaceIsNearer DEF Behind
<1>5. CASE TimeLimit
  <2>1. pc = "top" /\ pc' = "finish" /\ step' = step + 1 /\ step < MaxSteps
    BY <1>5 DEF TimeLimit, Ends
  <2>2. ToTheTop(pc', cause', pending') = 2
    BY <2>1 DEF ToTheTop
  <2>3. 2 < OfOneStep
    BY <1>1 DEF OfOneStep
  <2> QED
    BY <1>2, <2>1, <2>2, <2>3, NewStep
<1>6. CASE NextStep
  <2>1. pc = "top" /\ pc' = "chat" /\ step' = step + 1 /\ step < MaxSteps
    BY <1>6 DEF NextStep
  <2>2. ToTheTop(pc', cause', pending') = 13 + MaxCalls
    BY <2>1 DEF ToTheTop
  <2>3. 13 + MaxCalls \in Nat /\ 13 + MaxCalls < OfOneStep
    BY <1>1 DEF OfOneStep
  <2> QED
    BY <1>2, <2>1, <2>2, <2>3, NewStep
<1>7. CASE AskLlm
  <2>1. ASSUME NEW long \in Thinking, Narrate(long)
        PROVE  Asking /\ step' = step /\ pc' \in {"top", "finish"}
    BY <2>1 DEF Narrate, Ends
  <2>2. ASSUME NEW long \in Thinking, NEW n \in 1..MaxCalls, NEW s \in Signatures,
               CallTools(n, s, long)
        PROVE  Asking /\ step' = step /\ pc' = "tools"
    BY <2>2 DEF CallTools
  <2>3. /\ Asking /\ step' = step
        /\ (pc = "chat" /\ pc' = "retry") \/ pc' \in {"finish", "reduce", "top", "tools"}
    <3>1. CASE Truncated
      BY <3>1 DEF Truncated, Asking
    <3>2. CASE ChatFails \/ Overflow
      BY <3>2 DEF ChatFails, Overflow, Ends
    <3> QED
      BY <1>7, <2>1, <2>2, <3>1, <3>2 DEF AskLlm
  <2> QED
    BY <1>2, <1>3, <2>3, AnswerIsNearer
<1>8. CASE SkippedCall \/ BlockedCall \/ RunCall
  <2>1. PICK kind : Answer(kind)
    BY <1>8 DEF SkippedCall, BlockedCall, RunCall, PlainCall, NoteCall, FlagCall, RunbookCall,
                BashOnOwnFiles
  <2>2. pc = "tools"
    BY <1>8 DEF SkippedCall, BlockedCall, RunCall, PlainCall, NoteCall, FlagCall, RunbookCall,
                BashOnOwnFiles, NextCall
  <2> QED
    BY <1>2, <1>3, <2>1, <2>2, CallIsNearer
<1>9. CASE ToolsDone
  <2>1. pc = "tools" /\ step' = step /\ pc' \in {"finish", "after"} /\ pending = 0
    BY <1>9 DEF ToolsDone, Ends
  <2>2. ToTheTop(pc, cause, pending) = 11
    BY <2>1 DEF ToTheTop
  <2>3. ToTheTop(pc', cause', pending') \in {2, 10}
    BY <2>1 DEF ToTheTop
  <2>4. PICK b \in Nat : ToTheTop(pc', cause', pending') = b /\ b < 11
    BY <2>3
  <2> QED
    BY <1>2, <2>1, <2>2, <2>4, Nearer
<1>11. CASE LeaveCall
  <2>1. pc = "tools" /\ step' = step /\ pc' \in {"finish", "exited"} /\ pending > 0
    BY <1>11, LeavesCalls
  <2>2. ToTheTop(pc, cause, pending) = 11 + pending
    BY <2>1 DEF ToTheTop
  <2>3. ToTheTop(pc', cause', pending') \in {0, 2}
    BY <2>1 DEF ToTheTop
  <2>4. PICK b \in Nat : ToTheTop(pc', cause', pending') = b /\ b < 11
    BY <2>3
  <2>5. 11 + pending \in Nat /\ b < 11 + pending
    BY <1>1, <1>2, <2>4
  <2> QED
    BY <1>2, <2>1, <2>2, <2>4, <2>5, Nearer
<1>10. CASE \/ Bookkeeping \/ Undecodable \/ Critic \/ ContextFits \/ ContextOver \/ Reduce \/ Shrink
            \/ Compact \/ CompactFails \/ Finish \/ Report
  <2> DEFINE On == /\ step' = step /\ pc' \in Behind(pc, cause)
                   /\ pc \in {"reduce", "shrink"} => cause' # "idle"
  <2>1. ASSUME Bookkeeping PROVE On
    BY <2>1 DEF Bookkeeping, ComparesCalls, Behind
  <2>9. ASSUME Undecodable PROVE On
    BY <2>9, Undecoded DEF Behind
  <2>2. ASSUME Critic PROVE On
    BY <2>2 DEF Critic, Behind
  <2>3. ASSUME ContextFits \/ ContextOver PROVE On
    BY <2>3 DEF ContextFits, ContextOver, Behind
  <2>4. ASSUME Reduce PROVE On
    BY <2>4 DEF Reduce, Ends, Behind, progress, CauseInv
  <2>5. ASSUME Shrink PROVE On
    BY <2>5 DEF Shrink, Ends, Behind, CauseInv
  <2>6. ASSUME Compact \/ CompactFails PROVE On
    BY <2>6 DEF Compact, CompactFails, Ends, Behind
  <2>7. ASSUME Finish \/ Report PROVE On
    BY <2>7 DEF Finish, Report, Behind
  <2>8. On
    BY <1>10, <2>1, <2>2, <2>3, <2>4, <2>5, <2>6, <2>7, <2>9
  <2> QED
    BY <1>2, <1>3, <2>8, PlaceIsNearer
<1> QED
  BY <1>4, <1>5, <1>6, <1>7, <1>8, <1>9, <1>10, <1>11 DEF Next

(* Every step of the loop leaves less to do than there was, whatever the model *)
(* answers, the tools do and the critic and the compactions add: a run takes   *)
(* no more steps than Remaining says at its start.                             *)
THEOREM EveryStepIsNearer == Spec => StepsAreBounded
<1>1. Init => CauseInv
  BY DEF Init, CauseInv
<1>2. LoopInv /\ LoopInv' /\ CauseInv /\ [Next]_vars => [Closer]_vars
  BY StepIsNearer
<1>3. StepsAreBounded <=> [][Closer]_vars
  BY PTL DEF StepsAreBounded, Closer
<1>4. CauseInv /\ [Next]_vars => CauseInv'
  BY CauseStep
<1> QED
  BY <1>1, <1>2, <1>3, <1>4, LoopInit, LoopStep, PTL DEF Spec

ResultInv ==
  /\ pc \in {"report", "returned"} => resultWritten
  /\ pc = "raised" => IF resultWritten THEN ~Readable ELSE ~workDir

LEMMA ResultStep ==
  ASSUME ResultInv, [Next]_vars
  PROVE  ResultInv'
<1>1. ASSUME NEW long \in Thinking, Narrate(long) PROVE pc' \in {"top", "finish"}
  BY <1>1 DEF Narrate, Ends
<1>2. ASSUME NEW long \in Thinking, NEW n \in 1..MaxCalls, NEW s \in Signatures,
             CallTools(n, s, long)
      PROVE  pc' = "tools"
  BY <1>2 DEF CallTools
<1>3. ASSUME StepLimit \/ TimeLimit \/ NextStep \/ Truncated \/ ChatFails \/ Overflow
      PROVE  pc' \in {"finish", "chat", "retry", "reduce"}
  BY <1>3 DEF StepLimit, TimeLimit, NextStep, Truncated, ChatFails, Overflow, Ends
<1>4. ASSUME SkippedCall \/ BlockedCall \/ RunCall PROVE pc' = "tools"
  BY <1>4 DEF SkippedCall, BlockedCall, RunCall, PlainCall, NoteCall, FlagCall, RunbookCall,
              BashOnOwnFiles, Answer, NextCall
<1>5. ASSUME ToolsDone \/ Bookkeeping \/ Critic \/ ContextFits \/ ContextOver
      PROVE  pc' \in {"finish", "after", "critic", "context", "compact", "top", "reduce"}
  BY <1>5 DEF ToolsDone, Bookkeeping, Critic, ContextFits, ContextOver, Ends
<1>11. ASSUME Undecodable \/ LeaveCall PROVE pc' \in {"finish", "exited"}
  BY <1>11, Undecoded, LeavesCalls
<1>6. ASSUME Reduce \/ Shrink \/ Compact \/ CompactFails
      PROVE  pc' \in {"finish", "shrink", "critic", "top"}
  BY <1>6 DEF Reduce, Shrink, Compact, CompactFails, Ends
<1>7. CASE Finish
  <2>1. CASE workDir
    BY <1>7, <2>1 DEF Finish, ResultInv, files
  <2>2. CASE ~workDir
    BY <1>7, <2>2 DEF Finish, ResultInv, files
  <2> QED
    BY <2>1, <2>2
<1>8. CASE Report
  BY <1>8 DEF Report, ResultInv, Readable, files, outcome
<1>9. CASE UNCHANGED vars
  BY <1>9 DEF vars, files, outcome, ResultInv, Readable
<1>10. ASSUME pc' \notin {"report", "returned", "raised"} PROVE ResultInv'
  BY <1>10 DEF ResultInv
<1> QED
  BY <1>1, <1>2, <1>3, <1>4, <1>5, <1>6, <1>7, <1>8, <1>9, <1>10, <1>11
  DEF Next, AskLlm

(* When the loop is at its end the result is written, unless .revagent is gone *)
(* or a tool exited the program; with EveryStepIsNearer this is what           *)
(* RunReturns says, but for the loop's taking a next step.                     *)
THEOREM ResultAtTheEnd == Spec => []EndsWithResult
<1>1. Init => ResultInv
  BY DEF Init, ResultInv
<1>2. ResultInv /\ [Next]_vars => ResultInv'
  BY ResultStep
<1>3. ResultInv => EndsWithResult
  BY DEF ResultInv, EndsWithResult
<1> QED
  BY <1>1, <1>2, <1>3, PTL DEF Spec
=============================================================================
