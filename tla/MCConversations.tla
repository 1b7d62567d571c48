--------------------------- MODULE MCConversations ---------------------------
(* Conversations for TLC: two agents, one session, three requests at a time. *)
EXTENDS Conversations, TLC

Symmetry == Permutations(Requests) \cup Permutations(Names) \cup Permutations(Agents)
==============================================================================
