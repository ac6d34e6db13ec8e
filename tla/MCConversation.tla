---------------------------- MODULE MCConversation ----------------------------
(* A project with two names and two boards, one with one of each.         *)
EXTENDS Conversation, TLC

CONSTANTS w1, w2, k1, p1, p2, n1, n2, b1, b2, b3, c1

MCNamesOf == [p \in {p1, p2} |-> IF p = p1 THEN <<n1, n2>> ELSE <<n2>>]
MCBoardsOf == [p \in {p1, p2} |-> IF p = p1 THEN {b1, b2} ELSE {b3}]

\* Everything is set but a query; the first input may undo it.
Profile(m, q, v, d) ==
  [it |-> m, done |-> q, doing |-> Nothing, itype |-> v, field |-> v, language |-> v, defaults |-> d]
MCProfiles == {Profile({n1, n2}, k1, c1, <<p1, b1>>)}
=============================================================================
