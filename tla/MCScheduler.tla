------------------------------ MODULE MCScheduler ------------------------------
(* Two users of one group chat.                                            *)
EXTENDS Scheduler, TLC

CONSTANTS group, h1, h2, s1, u1, u2
=============================================================================
