---------------------------- MODULE MCLlmClient ----------------------------
(* Three calls with up to two retries each.  Replies: an answer in two        *)
(* fragments of text, two tool calls, and one without finish and usage.        *)
EXTENDS LlmClient

Reply(content, reasoning, args, finish, usage) ==
  [content |-> content, reasoning |-> reasoning, calls |-> args, finish |-> finish, usage |-> usage]

MCReplies ==
  { Reply(<<"a", "b">>, <<"r">>, <<>>, "length", 5),
    Reply(<<>>, <<"r">>, <<<<"x", "y">>, <<"u", "v">>>>, "tool_calls", 7),
    Reply(<<"a">>, <<>>, <<>>, "none", 0) }
MCFragments == {"a", "b", "r", "x", "y", "u", "v"}
MCBudgets == {0, 2, 9}
=============================================================================
