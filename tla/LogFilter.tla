------------------------------ MODULE LogFilter ------------------------------
(***************************************************************************)
(* rpc/api/filters/geth_filter.go: which logs match the criteria of a      *)
(* filter. A log is a record with its address, its topics in order and the *)
(* number of its block; criteria are a set of addresses and, for every     *)
(* topic position, a set of topics, an empty set matching all.             *)
(***************************************************************************)
EXTENDS Integers, Sequences, SequencesExt

(* rpc.LatestBlockNumber, and a block number that was not given.           *)
LatestBlockNumber == -1

NilBlock == -99

includes(addresses, a) == a \in addresses

InBlockRange(log, fromBlock, toBlock) ==
    /\ ~(fromBlock >= 0 /\ fromBlock > log.BlockNumber)
    /\ ~(toBlock >= 0 /\ toBlock < log.BlockNumber)

TopicsMatch(log, topics) ==
    /\ Len(topics) <= Len(log.Topics)
    /\ \A i \in 1 .. Len(topics) :
          topics[i] = {} \/ log.Topics[i] \in topics[i]

(* The elements of a sequence that are in a set, in their order.           *)
Selected(s, S) ==
    FlattenSeq([i \in 1 .. Len(s) |-> IF s[i] \in S THEN <<s[i]>> ELSE <<>>])

filterLogs(logs, fromBlock, toBlock, addresses, topics) ==
    Selected(logs,
             {log \in ToSet(logs) :
                 /\ InBlockRange(log, fromBlock, toBlock)
                 /\ addresses = {} \/ includes(addresses, log.Address)
                 /\ TopicsMatch(log, topics)})

(* A bloom filter is the set of the addresses and topics it answers yes    *)
(* for.                                                                    *)
bloomFilter(bloom, addresses, topics) ==
    /\ addresses = {} \/ addresses \cap bloom # {}
    /\ \A i \in 1 .. Len(topics) : topics[i] = {} \/ topics[i] \cap bloom # {}
=============================================================================
