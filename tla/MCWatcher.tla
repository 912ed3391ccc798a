----------------------------- MODULE MCWatcher ------------------------------
(* Instances of Watcher for TLC. Odd blocks of the first branch nominate   *)
(* k1 and even ones k2; later branches nominate nobody but at one height.  *)
EXTENDS Watcher

CONSTANTS k1, k2

MCNominee(hash) ==
    IF hash[2] = 0 THEN IF hash[1] % 2 = 1 THEN {k1} ELSE {k2}
    ELSE IF hash[1] = 4 THEN {k1} ELSE {}

(* Timestamps are not monotonic.                                           *)
MCTimeOf(hash) == 10 * hash[1] + (IF hash[1] % 3 = 0 THEN 15 ELSE 0) + hash[2]
=============================================================================
