------------------------- MODULE MCWebhookRegistry -------------------------
(* WebhookRegistry on a small instance: two subscriptions of one chat with  *)
(* the same filter.                                                         *)
EXTENDS WebhookRegistry, TLC

CONSTANTS chat, jql

MCChatOf == [s \in Subs |-> chat]
MCJqlOf == [s \in Subs |-> jql]
Symmetry == Permutations(Procs) \union Permutations(Subs)
=============================================================================
