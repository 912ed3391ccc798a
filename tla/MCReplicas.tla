----------------------------- MODULE MCReplicas ------------------------------
(* An instance of Replicas for TLC: the second epoch ends before the first *)
(* has taken effect.                                                       *)
EXTENDS Replicas

MCEndTime == <<2, 4>>
=============================================================================
