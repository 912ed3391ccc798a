------------------------------- MODULE MCNode -------------------------------
(* An instance of Node and Api for TLC: five blocks, the third without     *)
(* transactions; transaction 2 waits one block longer than the others.     *)
EXTENDS Api

CONSTANTS a1, a2, a3, t1

MCChain ==
    << [Hash |-> 101, Timestamp |-> 11, txs |-> <<1, 2>>],
       [Hash |-> 102, Timestamp |-> 12, txs |-> <<3>>],
       [Hash |-> 103, Timestamp |-> 13, txs |-> <<>>],
       [Hash |-> 104, Timestamp |-> 14, txs |-> <<4>>],
       [Hash |-> 105, Timestamp |-> 15, txs |-> <<>>] >>

MCSender == <<a1, a1, a2, a3>>

MCRecipient == <<a2, a1, a1, a3>>

Emitted(a) == [Address |-> a, Topics |-> <<t1>>]

MCTxLogs == << <<Emitted(a2)>>, <<>>, <<Emitted(a1), Emitted(a2)>>, <<>> >>
=============================================================================
