------------------------------ MODULE LlmClient ------------------------------
(* The model client of llm.py: one request at a time, each retried on          *)
(* transient failures, streamed, and folded into an answer chunk by chunk.     *)
(* Text is a sequence of the fragments the server cut it into.                 *)
EXTENDS Integers, Sequences

CONSTANTS
  Retries,      \* LLM.retries
  Default,      \* DEFAULT_MAX_TOKENS
  Budgets,      \* max_tokens that callers of complete pass, 0 when they pass none
  Fragments,    \* of text
  Replies,      \* what the server may answer
  MaxCalls      \* bound: calls of chat and complete

Finishes == {"none", "stop", "length", "tool_calls"}

ASSUME LlmAssumption ==
  /\ Retries \in Nat /\ Default \in Nat \ {0} /\ Budgets \subseteq Nat
  /\ MaxCalls \in Nat
  /\ Replies \subseteq [content : Seq(Fragments), reasoning : Seq(Fragments),
                         calls : Seq(Seq(Fragments) \ {<<>>}), finish : Finishes, usage : Nat]

VARIABLES
  pc,           \* "idle", "request", "stream" or "wait"
  caller,       \* "chat" or "complete", whoever called last
  asked,        \* the budget it asked for
  max_tokens, old_max,
  attempt, delay, total_retries,
  reply, todo,  \* what the server answers, and how much of it is still to come
  got,          \* what collect_stream has of it
  outcome,      \* what the last call came to: "none", "answer" or "raised"
  last_prompt_tokens, last_finish_reason,
  calls, requests, lastChat   \* history: calls made, requests sent, usage of the last answered chat

vars == <<pc, caller, asked, max_tokens, old_max, attempt, delay, total_retries, reply, todo,
          got, outcome, last_prompt_tokens, last_finish_reason, calls, requests, lastChat>>

call == <<caller, asked, calls>>
retry == <<attempt, delay, total_retries, requests>>
budget == <<max_tokens, old_max>>
stream == <<reply, todo, got>>
results == <<outcome, last_prompt_tokens, last_finish_reason, lastChat>>

Texts == {"content", "reasoning"}
Nothing == [content |-> <<>>, reasoning |-> <<>>, calls |-> <<>>, finish |-> "none", usage |-> 0]

Init ==
  /\ pc = "idle" /\ caller = "chat" /\ asked = 0 /\ calls = 0
  /\ max_tokens = Default /\ old_max = Default
  /\ attempt = 0 /\ delay = 2 /\ total_retries = 0 /\ requests = 0
  /\ reply = Nothing /\ todo = Nothing /\ got = Nothing
  /\ outcome = "none" /\ last_prompt_tokens = 0 /\ last_finish_reason = "none" /\ lastChat = 0

-----------------------------------------------------------------------------
(* The two ways in. *)
Begin(c, m) ==
  /\ pc = "idle" /\ calls < MaxCalls
  /\ calls' = calls + 1 /\ caller' = c /\ asked' = m
  /\ attempt' = 0 /\ delay' = 2
  /\ pc' = "request" /\ outcome' = "none"
  /\ UNCHANGED <<total_retries, requests, stream, last_prompt_tokens, last_finish_reason, lastChat>>

Chat == Begin("chat", 0) /\ UNCHANGED budget

Complete(m) ==
  /\ Begin("complete", m)
  /\ old_max' = max_tokens
  /\ max_tokens' = IF m > max_tokens THEN m ELSE max_tokens

(* complete's finally clause, on whichever way the request ends. *)
KeepRaised == UNCHANGED budget                       \* mutant: not when it raises
Restore ==
  /\ max_tokens' = IF caller = "complete" THEN old_max ELSE max_tokens
  /\ UNCHANGED old_max
RestoreRaised == Restore

Raise ==
  /\ pc' = "idle" /\ outcome' = "raised"
  /\ RestoreRaised
  /\ UNCHANGED <<call, last_prompt_tokens, last_finish_reason, lastChat>>

-----------------------------------------------------------------------------
(* _create. *)
Keep == got' = got                                   \* mutant: what came before a drop stays
Fresh == got' = Nothing

Send(r) ==
  /\ pc = "request"
  /\ requests' = requests + 1
  /\ reply' = r /\ todo' = r /\ Fresh
  /\ pc' = "stream"
  /\ UNCHANGED <<call, budget, attempt, delay, total_retries, results>>

(* A 4xx other than 429, a prompt that is too long among them. *)
Rejected ==
  /\ pc = "request"
  /\ requests' = requests + 1
  /\ Raise
  /\ UNCHANGED <<attempt, delay, total_retries, stream>>

MayRetry == attempt < Retries

CountsAll == 1                                       \* mutant: before it gives up
Counts == IF MayRetry THEN 1 ELSE 0

(* The connection fails, the server is overloaded, or the stream breaks off. *)
Dropped ==
  /\ \/ pc = "request" /\ requests' = requests + 1
     \/ pc = "stream" /\ UNCHANGED requests
  /\ \/ /\ ~MayRetry
        /\ Raise
     \/ /\ MayRetry
        /\ pc' = "wait"
        /\ UNCHANGED <<call, budget, results>>
  /\ total_retries' = total_retries + Counts
  /\ UNCHANGED <<attempt, delay, stream>>

Wait ==
  /\ pc = "wait"
  /\ attempt' = attempt + 1
  /\ delay' = 2 * delay
  /\ pc' = "request"
  /\ UNCHANGED <<call, budget, total_retries, requests, stream, results>>

(* One chunk: a fragment of one of the texts, ... *)
Text(f) ==
  /\ pc = "stream" /\ todo[f] # <<>>
  /\ got' = [got EXCEPT ![f] = Append(@, Head(todo[f]))]
  /\ todo' = [todo EXCEPT ![f] = Tail(@)]
  /\ UNCHANGED <<pc, call, budget, retry, reply, results>>

(* ... of the arguments of the i-th tool call, calls coming in any order, ...  *)
Arguments(i) ==
  /\ pc = "stream" /\ i \in DOMAIN todo.calls /\ todo.calls[i] # <<>>
  /\ got' = [got EXCEPT !.calls =
       [j \in DOMAIN got.calls \cup {i} |->
          LET args == IF j \in DOMAIN got.calls THEN got.calls[j] ELSE <<>>
          IN IF j = i THEN Append(args, Head(todo.calls[i])) ELSE args]]
  /\ todo' = [todo EXCEPT !.calls[i] = Tail(@)]
  /\ UNCHANGED <<pc, call, budget, retry, reply, results>>

AllSent ==
  /\ \A f \in Texts : todo[f] = <<>>
  /\ \A i \in DOMAIN todo.calls : todo.calls[i] = <<>>

(* ... the reason it ended, or the usage, in a chunk without choices.  A       *)
(* server may leave out either.                                                *)
Finish ==
  /\ pc = "stream" /\ AllSent /\ todo.finish # "none"
  /\ got' = [got EXCEPT !.finish = todo.finish]
  /\ todo' = [todo EXCEPT !.finish = "none"]
  /\ UNCHANGED <<pc, call, budget, retry, reply, results>>

Usage ==
  /\ pc = "stream" /\ AllSent /\ todo.finish = "none" /\ todo.usage # 0
  /\ got' = [got EXCEPT !.usage = todo.usage]
  /\ todo' = [todo EXCEPT !.usage = 0]
  /\ UNCHANGED <<pc, call, budget, retry, reply, results>>

ForBoth == TRUE                                      \* mutant: complete sets it too
ForChat == caller = "chat"

FinishOf(r) == IF r.finish = "none" THEN "stop" ELSE r.finish

(* The stream is over: _account, and what the caller records. *)
Answered ==
  /\ pc = "stream" /\ AllSent /\ todo.finish = "none" /\ todo.usage = 0
  /\ pc' = "idle" /\ outcome' = "answer"
  /\ Restore
  /\ last_prompt_tokens' = IF ForChat THEN got.usage ELSE last_prompt_tokens
  /\ last_finish_reason' = IF caller = "complete" THEN FinishOf(got) ELSE last_finish_reason
  /\ lastChat' = IF caller = "chat" THEN reply.usage ELSE lastChat
  /\ UNCHANGED <<call, retry, stream>>

Next ==
  \/ Chat
  \/ \E m \in Budgets : Complete(m)
  \/ \E r \in Replies : Send(r)
  \/ Rejected \/ Dropped \/ Wait
  \/ \E f \in Texts : Text(f)
  \/ \E i \in DOMAIN todo.calls : Arguments(i)
  \/ Finish \/ Usage \/ Answered

Spec == Init /\ [][Next]_vars

-----------------------------------------------------------------------------
(* A call sends at most one request and Retries more.                          *)
TypeOK ==
  /\ pc \in {"idle", "request", "stream", "wait"}
  /\ caller \in {"chat", "complete"} /\ asked \in Budgets \cup {0}
  /\ calls \in 0..MaxCalls
  /\ max_tokens \in Nat /\ old_max \in Nat
  /\ attempt \in 0..Retries /\ delay \in Nat
  /\ total_retries \in Nat /\ requests \in Nat
  /\ outcome \in {"none", "answer", "raised"}
  /\ last_prompt_tokens \in Nat /\ lastChat \in Nat
  /\ last_finish_reason \in Finishes

(* complete's docstring: "raises the budget for this call only", whatever      *)
(* becomes of it.  Were it kept, every later step could use more than the      *)
(* compaction threshold leaves room for.                                       *)
BudgetOfCall ==
  max_tokens = IF pc # "idle" /\ asked > Default THEN asked ELSE Default

(* "Every retry goes through _create below, which counts and reports it": no   *)
(* request is sent that is neither a call's first nor counted.                 *)
RetriesAreCounted ==
  requests = calls + total_retries - (IF pc \in {"request", "wait"} THEN 1 ELSE 0)

(* An outage costs at most Retries retries for every call. *)
OutageIsBounded == total_retries <= calls * Retries

(* The threshold the agent compacts at is compared with the prompt of the last *)
(* chat, not with that of a critic or a summary since.                         *)
ThresholdIsLastChat == last_prompt_tokens = lastChat

(* An answer is the one reply that came through whole: neither the order of    *)
(* the chunks nor attempts that broke off leave a trace.                       *)
ReplyIsWhole ==
  outcome = "answer" =>
    /\ \A f \in Texts \cup {"calls", "finish", "usage"} : got[f] = reply[f]
    /\ caller = "complete" => last_finish_reason = FinishOf(reply)
=============================================================================
