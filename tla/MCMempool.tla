----------------------------- MODULE MCMempool ------------------------------
(* An instance of Mempool for TLC. alice sends, bob has given away the right *)
(* to spend his coins.                                                     *)
EXTENDS Mempool

CONSTANTS alice, bob

MCTx(id, from, nonce, gas, price) ==
    [id |-> id, From |-> from, nonce |-> nonce, gas |-> gas, price |-> price,
     value |-> 0, victims |-> {}, loss |-> 0, form |-> "signed"]

(* Two ways to use alice's first nonce, one of which takes coins of bob's, *)
(* and a transaction for the second; one of bob's two does not decode.     *)
MCTxs ==
    {[MCTx(1, alice, 0, 1, 2) EXCEPT !.victims = {bob}, !.loss = 3],
     [MCTx(2, alice, 0, 1, 1) EXCEPT !.value = 3],
     MCTx(3, alice, 1, 2, 2),
     MCTx(4, bob, 0, 1, 2),
     [MCTx(5, bob, 0, 1, 1) EXCEPT !.form = "undecodable"]}

MCInitialBalance == [s \in Senders |-> IF s = alice THEN 6 ELSE 4]
=============================================================================
