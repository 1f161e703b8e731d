---------------------------- MODULE MCAgentRunner ----------------------------
(* The agent's loop over one sector, with baskets of up to two assets.        *)
EXTENDS AgentRunner

\* drafts are told apart by sector and day, and sectors share nothing else
OneSector == <<"DePIN">>

==============================================================================
