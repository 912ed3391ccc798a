---------------------------- MODULE MCRpcClient -----------------------------
(* Instances of RpcClient for TLC: blocks of odd heights nominate k1.      *)
EXTENDS RpcClient

CONSTANT k1

MCVouts(h) ==
    <<[script |-> IF h[1] % 2 = 1 THEN "nomination" ELSE "payment",
       key |-> k1]>>
=============================================================================
