-------------------------- MODULE MCWebhookIngress --------------------------
(* WebhookIngress on a small instance: two events that share a guard key    *)
(* (two updates of an issue) and a third of another; a group chat where the *)
(* author of one of them subscribed, and a second chat.                     *)
EXTENDS WebhookIngress

CONSTANTS e1, e2, alice, bob, group, other, s1, s2, s3

MCKeyOf == [e \in Events |-> "updated"]
MCAuthorOf == [e \in Events |-> IF e = e1 THEN alice ELSE bob]
MCChatOf == [s \in Subs |-> IF s = s3 THEN other ELSE group]
MCUserOf == [s \in Subs |-> IF s = s1 THEN alice ELSE bob]
MCFound == [e \in Events |->
  IF e = e1 THEN [project |-> <<s1, s3>>, issue |-> <<s2>>, mention |-> <<>>]
  ELSE [project |-> <<s1>>, issue |-> <<>>, mention |-> <<>>]]
=============================================================================
