----------------------------- MODULE MCFilters ------------------------------
(* Instances of Filters for TLC: a block filter and two logs filters, of   *)
(* which one asks for an address and one gives an invalid range.           *)
EXTENDS Filters

CONSTANTS heads, logs, wrong, a1, a2, t1

MCKind == [f \in Filters |-> IF f = heads THEN "blocks" ELSE "logs"]

MCCrit ==
    [f \in Filters |->
        [FromBlock |-> IF f = wrong THEN 2 ELSE NilBlock,
         ToBlock |-> IF f = wrong THEN 1 ELSE NilBlock,
         Addresses |-> {a1},
         Topics |-> <<{}>>]]

Emitted(a) == [Address |-> a, Topics |-> <<t1>>]

(* Blocks with a matching log, without logs, and with both kinds of log.   *)
MCLogsOf == << <<Emitted(a1)>>, <<>>, <<Emitted(a2), Emitted(a1)>> >>

(* Clients that poll, or a single one that does not.                       *)
PollingOrAlone ==
    {[creating |-> {heads, logs}, idle |-> {}],
     [creating |-> {wrong}, idle |-> {}],
     [creating |-> {heads}, idle |-> {heads}],
     [creating |-> {logs}, idle |-> {logs}]}

(* Two clients of which one stops polling.                                 *)
OneStopsPolling == {[creating |-> {heads, logs}, idle |-> {logs}]}
=============================================================================
