------------------------------ MODULE MCPoller ------------------------------
(* Poller on a small instance: a plain and a mention subscription of one    *)
(* chat, searched in either order.                                          *)
EXTENDS Poller

CONSTANTS chat

MCChatOf == [s \in Subs |-> chat]
=============================================================================
