----------------------------- MODULE EpochSource -----------------------------
(***************************************************************************)
(* What app.go relies on of the watcher: epochs of EpochLength main chain  *)
(* blocks each, the first one starting after LastHeight, come one by one,  *)
(* in order, without gap or repetition, through a channel that holds one.  *)
(* An epoch is identified by the height it starts at.                      *)
(***************************************************************************)
EXTENDS Integers, Sequences

CONSTANTS EpochLength, LastHeight

VARIABLES
    chan,       \* EpochChan, of capacity 1
    received    \* what Commit took out of it

vars == <<chan, received>>

StartOf(i) == LastHeight + 1 + (i - 1) * EpochLength

Init ==
    /\ chan = <<>>
    /\ received = <<>>

Send ==
    /\ chan = <<>>
    /\ chan' = <<StartOf(Len(received) + 1)>>
    /\ UNCHANGED received

Receive ==
    /\ chan # <<>>
    /\ received' = Append(received, Head(chan))
    /\ chan' = Tail(chan)

Next == Send \/ Receive

(* Nobody promises that an epoch is sent or received: the watcher panics   *)
(* at the tip, and with it the process.                                    *)
Spec == Init /\ [][Next]_vars
=============================================================================
