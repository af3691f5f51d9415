--------------------------- MODULE MCEventStream ---------------------------
(* EventStream with deltas that complete each other's markers, markers of  *)
(* one and two digits, in range and out of it, and up to two passages.     *)
EXTENDS EventStream

SomeDeltas == {<<"[", "1", "]", "[", "0">>, <<"2", "]">>}
SomeNames == {<<>>, <<"ragent">>, <<"ragent", "layout">>, <<"ragent", "magic">>, <<"gpt", "4o">>}
Message(role, text) == [role |-> role, text |-> text]
SomeConversations ==
  {<<Message("system", "be brief")>>, <<Message("user", "")>>,
   <<Message("user", "why"), Message("assistant", "so"), Message("user", "")>>}
=============================================================================
