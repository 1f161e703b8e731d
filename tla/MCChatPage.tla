---------------------------- MODULE MCChatPage ----------------------------
(* A small instance of ChatPage for TLC. *)
EXTENDS ChatPage, TLC

\* Every turn costs the same, and one turn uses the free quota up.
MCPricing == "sonnet" :> [input |-> 1, output |-> 2]
MCUsages == {[input |-> 1, output |-> 0, cacheRead |-> 0, cacheCreation |-> 0,
              calls |-> 0]}

\* A thread from earlier, or a new user with turns of the old page.
MCOpenings == {<<1, 0>>, <<0, 1>>}

=============================================================================
