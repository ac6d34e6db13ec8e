-------------------------- MODULE MCNotifyPipeline --------------------------
(* NotifyPipeline on a small instance: two notifications share an id and a  *)
(* second telegram-svc process overlaps the first during a deployment.      *)
EXTENDS NotifyPipeline

CONSTANTS n1, n2, k1

MCKeyOf == [n \in Notes |-> k1]
=============================================================================
