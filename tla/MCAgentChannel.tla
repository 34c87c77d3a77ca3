---------------------------- MODULE MCAgentChannel ----------------------------
(***************************************************************************)
(* AgentChannel with two senders and a channel of one or two nodes.        *)
(***************************************************************************)
EXTENDS AgentChannel

CONSTANTS s1, s2

\* The last node of s2 makes its handler throw.
OneFaulty == {<<s2, MaxPushes>>}
=============================================================================
