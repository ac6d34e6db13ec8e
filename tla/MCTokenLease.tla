---------------------------- MODULE MCTokenLease ----------------------------
(* TokenLease on a small instance: two callers in one service, so that they *)
(* share a client cache as well as the mutex.                               *)
EXTENDS TokenLease

CONSTANT s1

MCServiceOf == [c \in Callers |-> s1]
=============================================================================
