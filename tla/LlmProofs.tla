------------------------------ MODULE LlmProofs ------------------------------
(* For any number of retries, budgets, replies and calls: what the client is   *)
(* left with after a call that was answered, refused, or broke off.  The       *)
(* inductive invariant is ControlInv, of budget and retries, and StreamInv, of *)
(* the reply that is coming in.                                                *)
EXTENDS LlmClient, SequenceTheorems, TLAPS

(* ------------------------- budget and retries ------------------------------ *)
(* A call of complete keeps the default aside; a chat asks for no budget. *)
BudgetInv ==
  /\ BudgetOfCall
  /\ pc # "idle" /\ caller = "complete" => old_max = Default
  /\ caller = "chat" => asked = 0

(* Retries of the calls before this one, and of this one so far. *)
Pending == IF pc = "wait" THEN 1 ELSE 0
RetryInv ==
  /\ RetriesAreCounted
  /\ pc = "idle" => OutageIsBounded
  /\ pc # "idle" => /\ calls >= 1
                    /\ total_retries <= (calls - 1) * Retries + attempt + Pending
                    /\ attempt + Pending <= Retries

ControlInv == TypeOK /\ BudgetInv /\ RetryInv

LEMMA Multiples ==
  ASSUME NEW n \in Nat, NEW r \in Nat
  PROVE  n * r \in Nat /\ (n + 1) * r = n * r + r
OBVIOUS

(* ------------------------------- the stream -------------------------------- *)
(* While a reply comes in, what came and what is still to come make it up.     *)
Args(i) == IF i \in DOMAIN got.calls THEN got.calls[i] ELSE <<>>

Coming == [content : Seq(Fragments), reasoning : Seq(Fragments),
           calls : Seq(Seq(Fragments)), finish : Finishes, usage : Nat]
Gathered == [content : Seq(Fragments), reasoning : Seq(Fragments),
             calls : UNION {[D -> Seq(Fragments)] : D \in SUBSET DOMAIN reply.calls},
             finish : Finishes, usage : Nat]
Gathering == todo \in Coming /\ got \in Gathered

TextsAddUp == \A f \in Texts : got[f] \o todo[f] = reply[f]
CallsAddUp ==
  /\ DOMAIN todo.calls = DOMAIN reply.calls
  /\ \A i \in DOMAIN reply.calls : Args(i) \o todo.calls[i] = reply.calls[i]
EndAddsUp ==
  /\ todo.finish = "none" => got.finish = reply.finish
  /\ todo.finish # "none" => todo.finish = reply.finish /\ got.finish = "none"
  /\ todo.usage = 0 => got.usage = reply.usage
  /\ todo.usage # 0 => todo.usage = reply.usage /\ got.usage = 0

StreamInv ==
  /\ pc = "stream" => /\ reply \in Replies
                      /\ Gathering
                      /\ TextsAddUp
                      /\ CallsAddUp
                      /\ EndAddsUp
  /\ pc # "idle" => outcome = "none"
  /\ ThresholdIsLastChat
  /\ ReplyIsWhole

LEMMA InitControl == Init => ControlInv
<1> SUFFICES ASSUME Init PROVE ControlInv
  OBVIOUS
<1>1. TypeOK
  BY LlmAssumption DEF Init, TypeOK, Finishes
<1>2. BudgetInv
  BY LlmAssumption DEF Init, BudgetInv, BudgetOfCall
<1>3. pc = "idle" /\ calls = 0 /\ total_retries = 0 /\ requests = 0
  BY DEF Init
<1>4. RetriesAreCounted
  <2> DEFINE owed == IF pc \in {"request", "wait"} THEN 1 ELSE 0
  <2>1. owed = 0
    BY <1>3
  <2> HIDE DEF owed
  <2>2. requests = calls + total_retries - owed
    BY <1>3, <2>1
  <2> QED
    BY <2>2 DEF RetriesAreCounted, owed
<1>5. OutageIsBounded
  <2>1. Retries \in Nat
    BY LlmAssumption
  <2>2. calls * Retries = 0
    BY <1>3, <2>1
  <2> QED
    BY <1>3, <2>2 DEF OutageIsBounded
<1>6. RetryInv
  BY <1>3, <1>4, <1>5 DEF RetryInv
<1> QED
  BY <1>1, <1>2, <1>6 DEF ControlInv

(* complete's finally clause puts back the default, whoever called. *)
LEMMA RestoreGivesDefault ==
  ASSUME ControlInv, pc # "idle", Restore
  PROVE  max_tokens' = Default /\ old_max' = old_max
BY LlmAssumption DEF ControlInv, TypeOK, BudgetInv, BudgetOfCall, Restore

(* Within a call, retries stay below what its calls are allowed. *)
LEMMA OutageInCall ==
  ASSUME ControlInv, pc # "idle"
  PROVE  total_retries <= calls * Retries
<1> DEFINE n == calls - 1
<1>1. n \in Nat /\ calls = n + 1
  BY LlmAssumption DEF ControlInv, TypeOK, RetryInv
<1>2. /\ attempt + Pending <= Retries /\ Retries \in Nat
      /\ attempt \in Nat /\ Pending \in Nat
  BY LlmAssumption DEF ControlInv, TypeOK, RetryInv, Pending
<1>3. n * Retries \in Nat /\ (n + 1) * Retries = n * Retries + Retries
  BY <1>1, <1>2, Multiples
<1>5. total_retries <= n * Retries + attempt + Pending
  BY DEF ControlInv, RetryInv
<1>4. total_retries \in Nat
  BY DEF ControlInv, TypeOK
<1> HIDE DEF n
<1> QED
  BY <1>1, <1>2, <1>3, <1>4, <1>5

LEMMA NextControl == ControlInv /\ StreamInv /\ [Next]_vars => ControlInv'
<1> SUFFICES ASSUME ControlInv, StreamInv, [Next]_vars PROVE ControlInv'
  OBVIOUS
<1> USE LlmAssumption DEF ControlInv
<1>1. CASE UNCHANGED vars
  BY <1>1 DEF vars, TypeOK, BudgetInv, BudgetOfCall, RetryInv, RetriesAreCounted, OutageIsBounded, Pending
<1>2. ASSUME NEW c \in {"chat", "complete"}, NEW m \in Budgets \cup {0}, Begin(c, m),
             c = "chat" => m = 0 /\ UNCHANGED budget,
             c = "complete" => /\ old_max' = max_tokens
                               /\ max_tokens' = IF m > max_tokens THEN m ELSE max_tokens
      PROVE  ControlInv'
  <2>1. max_tokens = Default
    BY <1>2 DEF Begin, BudgetInv, BudgetOfCall
  <2>2. TypeOK'
    BY <1>2, <2>1 DEF TypeOK, Begin, budget
  <2>3. BudgetInv'
    BY <1>2, <2>1 DEF TypeOK, BudgetInv, BudgetOfCall, Begin, budget
  <2>4. RetryInv'
    <3>1. total_retries <= calls * Retries /\ calls \in Nat /\ calls' = calls + 1
      BY <1>2 DEF TypeOK, RetryInv, OutageIsBounded, Begin
    <3>2. calls * Retries \in Nat /\ (calls' - 1) * Retries = calls * Retries
      BY <3>1
    <3>3. RetriesAreCounted'
      BY <1>2, <3>1 DEF TypeOK, RetryInv, RetriesAreCounted, Begin
    <3>4. /\ pc' = "request" /\ attempt' = 0 /\ total_retries' = total_retries
          /\ Pending' = 0
      BY <1>2 DEF Begin, Pending
    <3>5. total_retries' <= (calls' - 1) * Retries + attempt' + Pending'
      BY <3>1, <3>2, <3>4 DEF TypeOK
    <3> QED
      BY <3>1, <3>3, <3>4, <3>5 DEF RetryInv
  <2> QED
    BY <2>2, <2>3, <2>4
<1>3. CASE Chat
  BY <1>2, <1>3 DEF Chat
<1>4. ASSUME NEW m \in Budgets, Complete(m) PROVE ControlInv'
  BY <1>2, <1>4 DEF Complete
<1>5. ASSUME NEW r \in Replies, Send(r) PROVE ControlInv'
  BY <1>5 DEF Send, TypeOK, BudgetInv, BudgetOfCall, RetryInv, RetriesAreCounted, Pending,
     call, budget, results
<1>6. ASSUME pc # "idle", Raise, UNCHANGED attempt, UNCHANGED delay, UNCHANGED total_retries,
             requests' \in Nat, requests' = calls + total_retries
      PROVE  ControlInv'
  <2>1. max_tokens' = Default /\ old_max' = old_max
    BY <1>6, RestoreGivesDefault DEF Raise, RestoreRaised
  <2>2. TypeOK'
    BY <1>6, <2>1 DEF TypeOK, Raise, call
  <2>3. BudgetInv'
    BY <1>6, <2>1 DEF BudgetInv, BudgetOfCall, Raise, call
  <2>4. RetryInv'
    <3>1. RetriesAreCounted'
      BY <1>6 DEF TypeOK, RetriesAreCounted, Raise, call
    <3>2. OutageIsBounded' /\ pc' = "idle"
      BY <1>6, OutageInCall DEF OutageIsBounded, Raise, call
    <3> QED
      BY <3>1, <3>2 DEF RetryInv
  <2> QED
    BY <2>2, <2>3, <2>4
<1>7. CASE Rejected
  BY <1>6, <1>7 DEF Rejected, TypeOK, RetryInv, RetriesAreCounted
<1>8. CASE Dropped
  <2>1. requests' \in Nat /\ requests' = calls + total_retries /\ pc # "idle" /\ pc # "wait"
    BY <1>8 DEF Dropped, TypeOK, RetryInv, RetriesAreCounted
  <2>2. CASE ~MayRetry
    BY <1>6, <1>8, <2>1, <2>2 DEF Dropped, Counts, TypeOK
  <2>3. CASE MayRetry
    <3>1. /\ pc' = "wait" /\ total_retries' = total_retries + 1
          /\ UNCHANGED <<call, budget, results, attempt, delay>>
      BY <1>8, <2>3 DEF Dropped, Counts
    <3>2. TypeOK'
      BY <2>1, <3>1 DEF TypeOK, call, budget, results
    <3>3. BudgetInv'
      BY <2>1, <3>1 DEF BudgetInv, BudgetOfCall, call, budget
    <3>4. RetryInv'
      <4>1. RetriesAreCounted'
        BY <2>1, <3>1 DEF TypeOK, RetriesAreCounted, call
      <4>2. /\ calls >= 1 /\ total_retries <= (calls - 1) * Retries + attempt
            /\ attempt < Retries
        BY <2>1, <2>3 DEF TypeOK, RetryInv, Pending, MayRetry
      <4>3. (calls - 1) * Retries \in Nat
        BY <4>2, Multiples DEF TypeOK
      <4>4. total_retries' <= (calls' - 1) * Retries + attempt' + 1 /\ attempt' + 1 <= Retries
        BY <3>1, <4>2, <4>3 DEF TypeOK, call
      <4> QED
        BY <3>1, <4>1, <4>2, <4>4 DEF RetryInv, Pending, call
    <3> QED
      BY <3>2, <3>3, <3>4
  <2> QED
    BY <2>2, <2>3
<1>9. CASE Wait
  <2>1. TypeOK' /\ BudgetInv'
    BY <1>9 DEF Wait, TypeOK, BudgetInv, BudgetOfCall, RetryInv, Pending, call, budget, results
  <2>2. RetryInv'
    <3>1. (calls - 1) * Retries \in Int
      BY DEF TypeOK
    <3> QED
      BY <1>9, <3>1 DEF Wait, TypeOK, RetryInv, RetriesAreCounted, Pending, call
  <2> QED
    BY <2>1, <2>2
<1>10. ASSUME pc = "stream", UNCHANGED <<pc, call, budget, retry, results>> PROVE ControlInv'
  BY <1>10 DEF TypeOK, BudgetInv, BudgetOfCall, RetryInv, RetriesAreCounted, Pending,
     call, budget, retry, results
<1>11. ASSUME NEW f \in Texts, Text(f) PROVE ControlInv'
  BY <1>10, <1>11 DEF Text
<1>12. ASSUME NEW i \in DOMAIN todo.calls, Arguments(i) PROVE ControlInv'
  BY <1>10, <1>12 DEF Arguments
<1>13. CASE Finish \/ Usage
  BY <1>10, <1>13 DEF Finish, Usage
<1>14. CASE Answered
  <2>0. got.usage \in Nat /\ got.finish \in Finishes
    BY <1>14 DEF Answered, StreamInv, Gathering, Gathered
  <2>1. max_tokens' = Default /\ old_max' = old_max
    BY <1>14, RestoreGivesDefault DEF Answered
  <2>2. TypeOK'
    <3>1. FinishOf(got) \in Finishes
      BY <2>0 DEF FinishOf, Finishes
    <3>2. last_finish_reason' \in Finishes /\ last_prompt_tokens' \in Nat
      BY <1>14, <2>0, <3>1 DEF TypeOK, Answered
    <3>3. lastChat' \in Nat
      BY <1>14 DEF TypeOK, Answered, StreamInv
    <3> QED
      BY <1>14, <2>1, <3>2, <3>3 DEF TypeOK, Answered, call, retry
  <2>3. BudgetInv'
    BY <1>14, <2>1 DEF BudgetInv, BudgetOfCall, Answered, call
  <2>4. RetryInv'
    BY <1>14, OutageInCall DEF RetryInv, RetriesAreCounted, OutageIsBounded, Answered, call, retry
  <2> QED
    BY <2>2, <2>3, <2>4
<1> QED
  BY <1>1, <1>3, <1>4, <1>5, <1>7, <1>8, <1>9, <1>11, <1>12, <1>13, <1>14 DEF Next

(* ---------------------------- what was streamed ---------------------------- *)
(* Moving the next fragment over leaves the whole as it was. *)
LEMMA MoveOne ==
  ASSUME NEW S, NEW s \in Seq(S), NEW t \in Seq(S), t # <<>>
  PROVE  /\ Append(s, Head(t)) \in Seq(S) /\ Tail(t) \in Seq(S)
         /\ Append(s, Head(t)) \o Tail(t) = s \o t
<1>1. Head(t) \in S /\ Tail(t) \in Seq(S)
  OBVIOUS
<1>2. t = <<Head(t)>> \o Tail(t)
  OBVIOUS
<1>3. Append(s, Head(t)) = s \o <<Head(t)>> /\ <<Head(t)>> \in Seq(S)
  BY <1>1, AppendIsConcat
<1>4. (s \o <<Head(t)>>) \o Tail(t) = s \o (<<Head(t)>> \o Tail(t))
  BY <1>1, <1>3, ConcatAssociative
<1> QED
  BY <1>1, <1>2, <1>3, <1>4

LEMMA NothingGathered ==
  ASSUME NEW r \in Replies, reply' = r, todo' = r, got' = Nothing
  PROVE  Gathering' /\ TextsAddUp' /\ CallsAddUp' /\ EndAddsUp'
<1> USE LlmAssumption
<1>1. /\ r.content \in Seq(Fragments) /\ r.reasoning \in Seq(Fragments)
      /\ r.calls \in Seq(Seq(Fragments) \ {<<>>})
      /\ r.finish \in Finishes /\ r.usage \in Nat
  OBVIOUS
<1>2. /\ r.calls \in Seq(Seq(Fragments))
      /\ \A i \in DOMAIN r.calls : r.calls[i] \in Seq(Fragments)
  BY <1>1
<1>3. r \in Coming
  BY <1>1, <1>2 DEF Coming
<1>4. Nothing \in Gathered'
  <2>1. <<>> \in [{} -> Seq(Fragments)] /\ <<>> \in Seq(Fragments) /\ "none" \in Finishes
    BY DEF Finishes
  <2>2. <<>> \in UNION {[D -> Seq(Fragments)] : D \in SUBSET DOMAIN r.calls}
    BY <2>1
  <2> QED
    BY <2>1, <2>2 DEF Gathered, Nothing
<1>5. TextsAddUp'
  <2>1. <<>> \o r.content = r.content /\ <<>> \o r.reasoning = r.reasoning
    BY <1>1, ConcatEmptySeq
  <2>2. got.content' = <<>> /\ got.reasoning' = <<>>
    BY DEF Nothing
  <2>3. (got["content"])' \o (todo["content"])' = (reply["content"])'
    BY <2>1, <2>2
  <2>4. (got["reasoning"])' \o (todo["reasoning"])' = (reply["reasoning"])'
    BY <2>1, <2>2
  <2> QED
    BY <2>3, <2>4 DEF TextsAddUp, Texts
<1>6. CallsAddUp'
  <2>1. got.calls' = <<>> /\ todo.calls' = r.calls /\ reply.calls' = r.calls
    BY DEF Nothing
  <2>2. \A i : Args(i)' = <<>>
    BY <2>1 DEF Args
  <2>3. \A i \in DOMAIN r.calls : <<>> \o r.calls[i] = r.calls[i]
    BY <1>2, ConcatEmptySeq
  <2> QED
    BY <2>1, <2>2, <2>3 DEF CallsAddUp
<1>7. EndAddsUp'
  BY <1>1 DEF EndAddsUp, Nothing
<1> QED
  BY <1>3, <1>4, <1>5, <1>6, <1>7 DEF Gathering

LEMMA TextAddsUp ==
  ASSUME StreamInv, NEW f \in Texts, Text(f)
  PROVE  Gathering' /\ TextsAddUp' /\ CallsAddUp' /\ EndAddsUp'
<1> USE DEF Text, StreamInv
<1>1. /\ got[f] \in Seq(Fragments) /\ todo[f] \in Seq(Fragments) /\ todo[f] # <<>>
      /\ todo \in Coming /\ got \in Gathered
  BY DEF Texts, Gathering, Coming, Gathered
<1>2. /\ Append(got[f], Head(todo[f])) \in Seq(Fragments) /\ Tail(todo[f]) \in Seq(Fragments)
      /\ Append(got[f], Head(todo[f])) \o Tail(todo[f]) = reply[f]
  <2> DEFINE s == got[f]
  <2> DEFINE t == todo[f]
  <2>1. s \o t = reply[f]
    BY DEF TextsAddUp
  <2>2. s \in Seq(Fragments) /\ t \in Seq(Fragments) /\ t # <<>>
    BY <1>1
  <2> HIDE DEF s, t
  <2>3. /\ Append(s, Head(t)) \in Seq(Fragments) /\ Tail(t) \in Seq(Fragments)
        /\ Append(s, Head(t)) \o Tail(t) = s \o t
    BY <2>2, MoveOne
  <2> QED
    BY <2>1, <2>3 DEF s, t
<1>3. Gathering' /\ reply' = reply
  BY <1>1, <1>2 DEF Gathering, Coming, Gathered, Texts
<1>4. \A g \in Texts : /\ got'[g] = IF g = f THEN Append(got[f], Head(todo[f])) ELSE got[g]
                       /\ todo'[g] = IF g = f THEN Tail(todo[f]) ELSE todo[g]
  BY <1>1 DEF Texts, Coming, Gathered
<1>5. /\ \A g \in {"calls", "finish", "usage"} : got'[g] = got[g] /\ todo'[g] = todo[g]
  BY <1>1 DEF Texts, Coming, Gathered
<1>6. TextsAddUp'
  BY <1>2, <1>3, <1>4 DEF TextsAddUp
<1>7. got.calls' = got.calls /\ todo.calls' = todo.calls
  BY <1>5
<1>8. CallsAddUp'
  BY <1>3, <1>7 DEF CallsAddUp, Args
<1>9. EndAddsUp'
  BY <1>3, <1>5 DEF EndAddsUp
<1> QED
  BY <1>3, <1>6, <1>8, <1>9

LEMMA ArgumentsAddUp ==
  ASSUME StreamInv, NEW i \in DOMAIN todo.calls, Arguments(i)
  PROVE  Gathering' /\ TextsAddUp' /\ CallsAddUp' /\ EndAddsUp'
<1> USE DEF Arguments, StreamInv
<1> DEFINE moved == Append(Args(i), Head(todo.calls[i]))
<1>1. /\ todo \in Coming /\ got \in Gathered /\ reply' = reply
      /\ todo.calls \in Seq(Seq(Fragments))
      /\ got.calls \in [DOMAIN got.calls -> Seq(Fragments)]
      /\ DOMAIN got.calls \subseteq DOMAIN reply.calls
      /\ i \in DOMAIN reply.calls
  BY DEF Gathering, Coming, Gathered, CallsAddUp
<1>2. /\ Args(i) \in Seq(Fragments) /\ todo.calls[i] \in Seq(Fragments) /\ todo.calls[i] # <<>>
  BY <1>1 DEF Args
<1>3. /\ moved \in Seq(Fragments) /\ Tail(todo.calls[i]) \in Seq(Fragments)
      /\ moved \o Tail(todo.calls[i]) = reply.calls[i]
  <2> DEFINE s == Args(i)
  <2> DEFINE t == todo.calls[i]
  <2>1. s \o t = reply.calls[i]
    BY <1>1 DEF CallsAddUp
  <2>2. s \in Seq(Fragments) /\ t \in Seq(Fragments) /\ t # <<>>
    BY <1>2
  <2> HIDE DEF s, t
  <2>3. /\ Append(s, Head(t)) \in Seq(Fragments) /\ Tail(t) \in Seq(Fragments)
        /\ Append(s, Head(t)) \o Tail(t) = s \o t
    BY <2>2, MoveOne
  <2> QED
    BY <2>1, <2>3 DEF s, t
<1>4. got'.calls = [j \in DOMAIN got.calls \cup {i} |-> IF j = i THEN moved ELSE Args(j)]
  BY <1>1 DEF Gathered, Args
<1>5. todo'.calls = [todo.calls EXCEPT ![i] = Tail(todo.calls[i])]
  BY <1>1 DEF Coming
<1>6. \A g \in {"content", "reasoning", "finish", "usage"} : got'[g] = got[g] /\ todo'[g] = todo[g]
  BY <1>1 DEF Coming, Gathered
<1>7. todo'.calls \in Seq(Seq(Fragments)) /\ DOMAIN todo'.calls = DOMAIN todo.calls
  BY <1>1, <1>3, <1>5, ExceptSeq
<1>8. \A j \in DOMAIN got.calls \cup {i} : got'.calls[j] \in Seq(Fragments)
  BY <1>1, <1>3, <1>4 DEF Args
<1>9. /\ DOMAIN got'.calls = DOMAIN got.calls \cup {i}
      /\ got'.calls \in [DOMAIN got'.calls -> Seq(Fragments)]
      /\ DOMAIN got'.calls \in SUBSET DOMAIN reply.calls
  BY <1>1, <1>4, <1>8
<1>10. todo' \in Coming
  BY <1>1, <1>7 DEF Coming
<1>11. got' \in Gathered'
  BY <1>1, <1>9 DEF Gathered
<1>12. TextsAddUp'
  BY <1>1, <1>6 DEF TextsAddUp, Texts
<1>13. EndAddsUp'
  BY <1>1, <1>6 DEF EndAddsUp
<1>14. CallsAddUp'
  <2>1. ASSUME NEW j \in DOMAIN reply.calls PROVE Args(j)' \o todo'.calls[j] = reply.calls[j]
    <3>1. CASE j = i
      <4>1. Args(i)' = moved
        <5>1. i \in DOMAIN got'.calls
          BY <1>9
        <5>2. got'.calls[i] = moved
          BY <1>4
        <5> QED
          BY <5>1, <5>2 DEF Args
      <4>2. todo'.calls[i] = Tail(todo.calls[i])
        BY <1>1, <1>5
      <4> HIDE DEF moved
      <4> QED
        BY <1>3, <3>1, <4>1, <4>2
    <3>2. CASE j # i
      <4>1. Args(j)' = Args(j)
        BY <1>4, <1>9, <3>2 DEF Args
      <4>2. todo'.calls[j] = todo.calls[j]
        BY <1>1, <1>5, <3>2 DEF CallsAddUp
      <4> QED
        BY <4>1, <4>2 DEF CallsAddUp
    <3> QED
      BY <3>1, <3>2
  <2> QED
    BY <1>1, <1>7, <2>1 DEF CallsAddUp
<1> QED
  BY <1>10, <1>11, <1>12, <1>13, <1>14 DEF Gathering

LEMMA EndsAddUp ==
  ASSUME StreamInv, Finish \/ Usage
  PROVE  Gathering' /\ TextsAddUp' /\ CallsAddUp' /\ EndAddsUp'
<1>1. todo \in Coming /\ got \in Gathered /\ reply' = reply
  BY DEF StreamInv, Finish, Usage, Gathering
<1>2. todo' \in Coming /\ got' \in Gathered
  <2>1. todo.finish \in Finishes /\ todo.usage \in Nat /\ "none" \in Finishes
    BY <1>1 DEF Coming, Finishes
  <2>2. todo' \in Coming
    <3>1. todo' = [todo EXCEPT !.finish = "none"] \/ todo' = [todo EXCEPT !.usage = 0]
      BY DEF Finish, Usage
    <3>2. [todo EXCEPT !.finish = "none"] \in Coming
      BY <1>1, <2>1 DEF Coming
    <3>3. [todo EXCEPT !.usage = 0] \in Coming
      BY <1>1 DEF Coming
    <3> QED
      BY <3>1, <3>2, <3>3
  <2>3. got' \in Gathered
    BY <1>1, <2>1 DEF Finish, Usage, Gathered
  <2> QED
    BY <2>2, <2>3
<1>3. \A g \in {"content", "reasoning", "calls"} : got'[g] = got[g] /\ todo'[g] = todo[g]
  BY <1>1 DEF Finish, Usage, Coming, Gathered
<1>a. TextsAddUp /\ CallsAddUp /\ EndAddsUp
  BY DEF StreamInv, Finish, Usage
<1>4. Gathering' /\ TextsAddUp' /\ CallsAddUp'
  <2>1. Gathering'
    <3>1. got' \in Gathered'
      BY <1>1, <1>2 DEF Gathered
    <3> QED
      BY <1>2, <3>1 DEF Gathering, Coming
  <2>2. TextsAddUp'
    BY <1>1, <1>3, <1>a DEF TextsAddUp, Texts
  <2>3. CallsAddUp'
    BY <1>1, <1>3, <1>a DEF CallsAddUp, Args
  <2> QED
    BY <2>1, <2>2, <2>3
<1>5. CASE Finish
  <2>1. /\ got'.finish = todo.finish /\ got'.usage = got.usage
        /\ todo'.finish = "none" /\ todo'.usage = todo.usage
    BY <1>1, <1>5 DEF Finish, Coming, Gathered
  <2>2. todo.finish # "none" /\ todo.finish = reply.finish
    BY <1>5, <1>a DEF Finish, EndAddsUp
  <2>3. EndAddsUp'
    BY <1>1, <1>a, <2>1, <2>2 DEF EndAddsUp
  <2> QED
    BY <1>4, <2>3
<1>6. CASE Usage
  <2>1. /\ got'.usage = todo.usage /\ got'.finish = got.finish
        /\ todo'.usage = 0 /\ todo'.finish = todo.finish
    BY <1>1, <1>6 DEF Usage, Coming, Gathered
  <2>2. todo.usage # 0 /\ todo.usage = reply.usage
    BY <1>6, <1>a DEF Usage, EndAddsUp
  <2>3. EndAddsUp'
    BY <1>1, <1>a, <2>1, <2>2 DEF EndAddsUp
  <2> QED
    BY <1>4, <2>3
<1> QED
  BY <1>5, <1>6

LEMMA WholeWhenSent ==
  ASSUME StreamInv, pc = "stream", AllSent, todo.finish = "none", todo.usage = 0
  PROVE  \A g \in Texts \cup {"calls", "finish", "usage"} : got[g] = reply[g]
<1> USE LlmAssumption DEF StreamInv, AllSent
<1>1. /\ reply.content \in Seq(Fragments) /\ reply.reasoning \in Seq(Fragments)
      /\ reply.calls \in Seq(Seq(Fragments) \ {<<>>})
      /\ got \in Gathered
  BY DEF Gathering
<1>2. ASSUME NEW f \in Texts PROVE got[f] = reply[f]
  <2>1. got[f] \in Seq(Fragments) /\ got[f] \o <<>> = reply[f]
    BY <1>1 DEF Gathered, TextsAddUp, Texts
  <2> QED
    BY <2>1, ConcatEmptySeq
<1>3. got.calls = reply.calls
  <2>1. ASSUME NEW i \in DOMAIN reply.calls PROVE i \in DOMAIN got.calls /\ got.calls[i] = reply.calls[i]
    <3>4. i \in DOMAIN todo.calls /\ Args(i) \o todo.calls[i] = reply.calls[i]
      BY DEF CallsAddUp
    <3>1. Args(i) \o <<>> = reply.calls[i] /\ reply.calls[i] # <<>>
      <4>1. todo.calls[i] = <<>>
        BY <3>4
      <4>2. reply.calls[i] \in Seq(Fragments) \ {<<>>}
        BY <1>1
      <4> QED
        BY <3>4, <4>1, <4>2
    <3>2. Args(i) \in Seq(Fragments)
      BY <1>1 DEF Args, Gathered
    <3>3. Args(i) = reply.calls[i]
      BY <3>1, <3>2, ConcatEmptySeq
    <3> QED
      BY <3>1, <3>3 DEF Args
  <2>5. DOMAIN got.calls \subseteq DOMAIN reply.calls
    BY <1>1 DEF Gathered
  <2>2. DOMAIN got.calls = DOMAIN reply.calls
    BY <2>1, <2>5
  <2>3. got.calls = [i \in DOMAIN got.calls |-> got.calls[i]]
    BY <1>1 DEF Gathered
  <2>4. reply.calls = [i \in DOMAIN reply.calls |-> reply.calls[i]]
    BY <1>1
  <2> QED
    BY <2>1, <2>2, <2>3, <2>4
<1>4. got.finish = reply.finish /\ got.usage = reply.usage
  BY DEF EndAddsUp
<1> QED
  BY <1>2, <1>3, <1>4

LEMMA NextStream == ControlInv /\ StreamInv /\ [Next]_vars => StreamInv'
<1> SUFFICES ASSUME ControlInv, StreamInv, [Next]_vars PROVE StreamInv'
  OBVIOUS
<1>1. CASE UNCHANGED vars
  BY <1>1 DEF vars, StreamInv, Gathering, Gathered, TextsAddUp, CallsAddUp, Args, EndAddsUp,
     ThresholdIsLastChat, ReplyIsWhole
<1>2. ASSUME pc' # "stream", pc' # "idle" => outcome' = "none",
             outcome' # "answer", UNCHANGED <<last_prompt_tokens, lastChat>>
      PROVE  StreamInv'
  BY <1>2 DEF StreamInv, ThresholdIsLastChat, ReplyIsWhole
<1>3. CASE Chat \/ \E m \in Budgets : Complete(m)
  BY <1>2, <1>3 DEF Chat, Complete, Begin
<1>4. ASSUME NEW r \in Replies, Send(r) PROVE StreamInv'
  <2>1. pc' = "stream" /\ reply' = r /\ todo' = r /\ got' = Nothing /\ UNCHANGED results
    BY <1>4 DEF Send, Fresh
  <2>2. Gathering' /\ TextsAddUp' /\ CallsAddUp' /\ EndAddsUp'
    BY <2>1, NothingGathered
  <2>3. outcome = "none"
    BY <1>4 DEF Send, StreamInv
  <2> QED
    BY <2>1, <2>2, <2>3 DEF StreamInv, ThresholdIsLastChat, ReplyIsWhole, results
<1>5. CASE Rejected \/ Dropped \/ Wait
  BY <1>2, <1>5 DEF Rejected, Dropped, Wait, Raise, StreamInv, results
<1>6. ASSUME pc = "stream", UNCHANGED <<pc, reply, results>>,
             Gathering' /\ TextsAddUp' /\ CallsAddUp' /\ EndAddsUp'
      PROVE  StreamInv'
  BY <1>6 DEF StreamInv, ThresholdIsLastChat, ReplyIsWhole, results
<1>7. ASSUME NEW f \in Texts, Text(f) PROVE StreamInv'
  BY <1>6, <1>7, TextAddsUp DEF Text
<1>8. ASSUME NEW i \in DOMAIN todo.calls, Arguments(i) PROVE StreamInv'
  BY <1>6, <1>8, ArgumentsAddUp DEF Arguments
<1>9. CASE Finish \/ Usage
  BY <1>6, <1>9, EndsAddUp DEF Finish, Usage
<1>10. CASE Answered
  <2>1. \A g \in Texts \cup {"calls", "finish", "usage"} : got[g] = reply[g]
    BY <1>10, WholeWhenSent DEF Answered
  <2>2. got.finish = reply.finish /\ got.usage = reply.usage
    BY <2>1
  <2>3. ThresholdIsLastChat'
    BY <1>10, <2>2 DEF Answered, ForChat, ThresholdIsLastChat, StreamInv
  <2>4. ReplyIsWhole'
    BY <1>10, <2>1, <2>2 DEF Answered, ReplyIsWhole, FinishOf, stream, call
  <2> QED
    BY <1>10, <2>3, <2>4 DEF Answered, StreamInv
<1> QED
  BY <1>1, <1>3, <1>4, <1>5, <1>7, <1>8, <1>9, <1>10 DEF Next

(* -------------------------------- theorems --------------------------------- *)
LEMMA InitStream == Init => StreamInv
BY DEF Init, StreamInv, ThresholdIsLastChat, ReplyIsWhole

LEMMA Invariance == Spec => [](ControlInv /\ StreamInv)
<1>1. Init => ControlInv /\ StreamInv
  BY InitControl, InitStream
<1>2. (ControlInv /\ StreamInv) /\ [Next]_vars => (ControlInv /\ StreamInv)'
  BY NextControl, NextStream
<1> QED
  BY <1>1, <1>2, PTL DEF Spec

LEMMA IdleOrNotBounded == ControlInv => OutageIsBounded
BY OutageInCall DEF ControlInv, RetryInv, OutageIsBounded

(* The client's state keeps its shape, an attempt never beyond the retries. *)
THEOREM TypeCorrect == Spec => []TypeOK
<1>1. ControlInv => TypeOK
  BY DEF ControlInv
<1> QED
  BY Invariance, <1>1, PTL

(* However a call ends, the budget complete raised is the default's again *)
(* (complete's finally clause), and chat never runs on a raised one.      *)
THEOREM BudgetReturns == Spec => []BudgetOfCall
<1>1. ControlInv => BudgetOfCall
  BY DEF ControlInv, BudgetInv
<1> QED
  BY Invariance, <1>1, PTL

(* No request leaves _create that is neither a call's first nor counted, and *)
(* an outage costs at most Retries of them for every call.                   *)
THEOREM RetriesCounted == Spec => [](RetriesAreCounted /\ OutageIsBounded)
<1>1. ControlInv => RetriesAreCounted /\ OutageIsBounded
  BY IdleOrNotBounded DEF ControlInv, RetryInv
<1> QED
  BY Invariance, <1>1, PTL

(* The agent compacts by the prompt of its last chat, whatever the critic and *)
(* the summaries asked since.                                                 *)
THEOREM ThresholdOfChat == Spec => []ThresholdIsLastChat
<1>1. StreamInv => ThresholdIsLastChat
  BY DEF StreamInv
<1> QED
  BY Invariance, <1>1, PTL

(* collect_stream gives back the reply the server sent, whatever the order of *)
(* its chunks and whatever broke off before it.                               *)
THEOREM ReplyComesWhole == Spec => []ReplyIsWhole
<1>1. StreamInv => ReplyIsWhole
  BY DEF StreamInv
<1> QED
  BY Invariance, <1>1, PTL
=============================================================================
