------------------------------- MODULE Filters -------------------------------
(***************************************************************************)
(* rpc/api/filters: the polling filters of eth_newFilter and               *)
(* eth_newBlockFilter, and the event system behind them.                   *)
(*                                                                         *)
(* Processes: Commit, which publishes each block through two bounded       *)
(* channels (app.publishNewBlock); eventLoop, which forwards the events to *)
(* the installed subscriptions through channels without a buffer; one      *)
(* goroutine per filter, which moves events into the filter under          *)
(* filtersMu; timeoutLoop, which removes filters that were not polled and  *)
(* keeps filtersMu while it unsubscribes them; and the clients' calls.     *)
(* Everybody but timeoutLoop holds filtersMu for a single step only.       *)
(*                                                                         *)
(* An event is named by the number of its block. External: event.Feed,     *)
(* whose Send waits until every subscribed channel has room.               *)
(***************************************************************************)
EXTENDS LogFilter, FiniteSets

CONSTANTS
    Filters,        \* filter ids, each used by one client
    Kind,           \* [Filters -> {"blocks", "logs"}]
    Crit,           \* [Filters -> criteria], read for logs filters
    LogsOf,         \* the logs of each block, in order
    ChanSize,       \* chainEvChanSize and logsChanSize, 10 in the source
    Scenarios       \* which clients create filters, which may stop polling

ASSUME FiltersAssumption ==
    /\ IsFiniteSet(Filters)
    /\ Kind \in [Filters -> {"blocks", "logs"}]
    /\ Len(LogsOf) \in Nat
    /\ ChanSize \in Nat \ {0}
    /\ Scenarios \subseteq [creating : SUBSET Filters, idle : SUBSET Filters]

MaxBlock == Len(LogsOf)

VARIABLES
    clients,            \* the scenario
    published,          \* blocks that publishNewBlock has finished
    publishing,         \* where publishNewBlock is: "chain" or "logs"
    chainCh, logsCh,
    loop,               \* eventLoop: the event and whom to send it to
    index,              \* eventLoop's installed subscriptions
    taken,              \* last event eventLoop took, by kind (history)
    call,               \* the client's call: NewFilter and UninstallFilter
    start,              \* taken when the filter was installed (history)
    filters,            \* api.filters
    routine,            \* the filters' goroutines
    unsub,              \* Unsubscribe of each subscription
    scan,               \* timeoutLoop: filters still to look at
    holder,             \* filtersMu is held by timeoutLoop
    got                 \* what GetFilterChanges returned so far (history)

publishVars == <<published, publishing>>
chanVars == <<chainCh, logsCh>>
loopVars == <<loop, index, taken, start>>
apiVars == <<filters, holder, scan, got>>
vars == <<clients, publishVars, chanVars, loopVars, call, apiVars, routine,
          unsub>>

-----------------------------------------------------------------------------
(* publishNewBlock: the chain event, and the logs if there are any. The    *)
(* logs carry neither block number nor transaction: a log's BlockNumber is *)
(* 0 whatever the block.                                                   *)
collectAllGethLogs(n) ==
    [i \in 1 .. Len(LogsOf[n]) |->
        [Address |-> LogsOf[n][i].Address, Topics |-> LogsOf[n][i].Topics,
         BlockNumber |-> 0]]

FaultyHasRoom(ch) == Len(ch) <= ChanSize

HasRoom(ch) == Len(ch) < ChanSize

PublishChainEvent ==
    /\ publishing = "chain"
    /\ published < MaxBlock
    /\ HasRoom(chainCh)
    /\ chainCh' = Append(chainCh, published + 1)
    /\ IF LogsOf[published + 1] # <<>>
       THEN publishing' = "logs" /\ UNCHANGED published
       ELSE published' = published + 1 /\ UNCHANGED publishing
    /\ UNCHANGED <<clients, logsCh, loopVars, call, apiVars, routine, unsub>>

PublishLogs ==
    /\ publishing = "logs"
    /\ HasRoom(logsCh)
    /\ logsCh' = Append(logsCh, published + 1)
    /\ published' = published + 1
    /\ publishing' = "chain"
    /\ UNCHANGED <<clients, chainCh, loopVars, call, apiVars, routine, unsub>>

-----------------------------------------------------------------------------
(* eventLoop. Go visits a map in any order.                                *)
Idle == loop.left = <<>>

MatchedLogs(f, n) ==
    filterLogs(collectAllGethLogs(n), Crit[f].FromBlock, Crit[f].ToBlock,
               Crit[f].Addresses, Crit[f].Topics)

Wants(f, n) == Kind[f] = "blocks" \/ MatchedLogs(f, n) # <<>>

(* handleChainEvent and handleLogs choose whom to send to.                 *)
Recipients(kind, n) == {f \in index : Kind[f] = kind /\ Wants(f, n)}

Broadcast(kind, n) ==
    /\ \E order \in SetToSeqs(Recipients(kind, n)) :
          loop' = [event |-> n, left |-> order]
    /\ taken' = [taken EXCEPT ![kind] = n]

TakeChainEvent ==
    /\ Idle
    /\ chainCh # <<>>
    /\ Broadcast("blocks", Head(chainCh))
    /\ chainCh' = Tail(chainCh)
    /\ UNCHANGED <<clients, publishVars, logsCh, index, start, call, apiVars,
                   routine, unsub>>

TakeLogs ==
    /\ Idle
    /\ logsCh # <<>>
    /\ Broadcast("logs", Head(logsCh))
    /\ logsCh' = Tail(logsCh)
    /\ UNCHANGED <<clients, publishVars, chainCh, index, start, call, apiVars,
                   routine, unsub>>

(* The send to the next subscription meets its goroutine ...               *)
SendToRoutine ==
    LET f == Head(loop.left)
    IN  /\ ~Idle
        /\ routine[f].pc = "select"
        /\ routine' = [routine EXCEPT ![f] = [pc |-> "append",
                                              event |-> loop.event]]
        /\ loop' = [loop EXCEPT !.left = Tail(@)]
        /\ UNCHANGED <<clients, publishVars, chanVars, index, taken, start,
                       call, apiVars, unsub>>

FaultyConsumes(f) == FALSE

(* ... or Unsubscribe, which consumes the event while it waits.            *)
Consumes(f) == unsub[f] = "uninstall"

SendToUnsubscribe ==
    /\ ~Idle
    /\ Consumes(Head(loop.left))
    /\ loop' = [loop EXCEPT !.left = Tail(@)]
    /\ UNCHANGED <<clients, publishVars, chanVars, index, taken, start, call,
                   apiVars, routine, unsub>>

Install(f) ==
    /\ Idle
    /\ call[f] = "subscribe"
    /\ index' = index \cup {f}
    /\ start' = [start EXCEPT ![f] = taken[Kind[f]]]
    /\ call' = [call EXCEPT ![f] = "register"]
    /\ UNCHANGED <<clients, publishVars, chanVars, loop, taken, apiVars,
                   routine, unsub>>

Uninstalled(f) == index \ {f}

(* close(f.err) ends Unsubscribe and, in time, the filter's goroutine.     *)
Uninstall(f) ==
    /\ Idle
    /\ unsub[f] = "uninstall"
    /\ index' = Uninstalled(f)
    /\ unsub' = [unsub EXCEPT ![f] = "closed"]
    /\ UNCHANGED <<clients, publishVars, chanVars, loop, taken, start, call,
                   apiVars, routine>>

EventLoop ==
    \/ TakeChainEvent
    \/ TakeLogs
    \/ SendToRoutine
    \/ SendToUnsubscribe
    \/ \E f \in Filters : Install(f) \/ Uninstall(f)

-----------------------------------------------------------------------------
(* The client's NewFilter or NewBlockFilter. SubscribeLogs refuses some    *)
(* ranges of blocks.                                                       *)
Latest(n) == IF n = NilBlock THEN LatestBlockNumber ELSE n

SubscribeLogs(crit) ==
    LET from == Latest(crit.FromBlock)
        to == Latest(crit.ToBlock)
    IN  \/ from = LatestBlockNumber /\ to = LatestBlockNumber
        \/ from >= 0 /\ to >= from
        \/ from >= 0 /\ to = LatestBlockNumber

NewFilter(f) ==
    /\ f \in clients.creating
    /\ call[f] = "none"
    /\ call' = [call EXCEPT ![f] =
                  IF Kind[f] = "blocks" \/ SubscribeLogs(Crit[f])
                  THEN "subscribe" ELSE "refused"]
    /\ UNCHANGED <<clients, publishVars, chanVars, loopVars, apiVars, routine,
                   unsub>>

(* Its second half, under filtersMu, after the subscription is installed:  *)
(* events may be on their way before the goroutine exists.                 *)
Register(f) ==
    /\ call[f] = "register"
    /\ ~holder
    /\ filters' = [g \in DOMAIN filters \cup {f} |->
                     IF g = f THEN [events |-> <<>>, expired |-> FALSE]
                     ELSE filters[g]]
    /\ routine' = [routine EXCEPT ![f].pc = "select"]
    /\ call' = [call EXCEPT ![f] = "created"]
    /\ UNCHANGED <<clients, publishVars, chanVars, loopVars, holder, scan,
                   got, unsub>>

Without(f) == [g \in DOMAIN filters \ {f} |-> filters[g]]

(* UninstallFilter deletes the filter under filtersMu and unsubscribes     *)
(* after it has released it.                                               *)
UninstallFilter(f) ==
    /\ call[f] = "created"
    /\ ~holder
    /\ f \in DOMAIN filters
    /\ filters' = Without(f)
    /\ unsub' = [unsub EXCEPT ![f] = "uninstall"]
    /\ call' = [call EXCEPT ![f] = "uninstalling"]
    /\ UNCHANGED <<clients, publishVars, chanVars, loopVars, holder, scan,
                   got, routine>>

UninstallReturn(f) ==
    /\ call[f] = "uninstalling"
    /\ unsub[f] = "closed"
    /\ call' = [call EXCEPT ![f] = "done"]
    /\ UNCHANGED <<clients, publishVars, chanVars, loopVars, apiVars, routine,
                   unsub>>

FaultyPolled(entry) == [entry EXCEPT !.expired = FALSE]

(* GetFilterChanges returns and clears the events, and restarts the timer. *)
Polled(entry) == [entry EXCEPT !.events = <<>>, !.expired = FALSE]

GetFilterChanges(f) ==
    /\ call[f] = "created"
    /\ ~holder
    /\ f \in DOMAIN filters
    /\ filters[f].events # <<>> \/ filters[f].expired
    /\ got' = [got EXCEPT ![f] = @ \o filters[f].events]
    /\ filters' = [filters EXCEPT ![f] = Polled(@)]
    /\ UNCHANGED <<clients, publishVars, chanVars, loopVars, call, holder,
                   scan, routine, unsub>>

-----------------------------------------------------------------------------
(* The goroutine of a filter. With an event in hand or after the error     *)
(* channel was closed it needs filtersMu.                                  *)
AppendEvent(f) ==
    /\ routine[f].pc = "append"
    /\ ~holder
    /\ filters' = IF f \in DOMAIN filters
                  THEN [filters EXCEPT ![f].events =
                            Append(@, routine[f].event)]
                  ELSE filters
    /\ routine' = [routine EXCEPT ![f] = [pc |-> "select", event |-> 0]]
    /\ UNCHANGED <<clients, publishVars, chanVars, loopVars, call, holder,
                   scan, got, unsub>>

EndRoutine(f) ==
    /\ routine[f].pc = "select"
    /\ unsub[f] = "closed"
    /\ ~holder
    /\ filters' = Without(f)
    /\ routine' = [routine EXCEPT ![f].pc = "done"]
    /\ UNCHANGED <<clients, publishVars, chanVars, loopVars, call, holder,
                   scan, got, unsub>>

-----------------------------------------------------------------------------
(* The timer of a filter that is not polled.                               *)
Expire(f) ==
    /\ f \in clients.idle \cap DOMAIN filters
    /\ ~filters[f].expired
    /\ filters' = [filters EXCEPT ![f].expired = TRUE]
    /\ UNCHANGED <<clients, publishVars, chanVars, loopVars, call, holder,
                   scan, got, routine, unsub>>

(* timeoutLoop: a tick, one turn per filter, the unlock.                   *)
Tick ==
    /\ ~holder
    /\ filters # <<>>
    /\ holder' = TRUE
    /\ scan' = DOMAIN filters
    /\ UNCHANGED <<clients, publishVars, chanVars, loopVars, call, filters,
                   got, routine, unsub>>

CheckDeadline(f) ==
    /\ f \in scan
    /\ unsub[f] = "none"
    /\ \A g \in scan : unsub[g] = "none"
    /\ IF filters[f].expired
       THEN unsub' = [unsub EXCEPT ![f] = "uninstall"] /\ UNCHANGED scan
       ELSE scan' = scan \ {f} /\ UNCHANGED unsub
    /\ UNCHANGED <<clients, publishVars, chanVars, loopVars, call, filters,
                   holder, got, routine>>

RemoveExpired(f) ==
    /\ f \in scan
    /\ unsub[f] = "closed"
    /\ filters' = Without(f)
    /\ scan' = scan \ {f}
    /\ UNCHANGED <<clients, publishVars, chanVars, loopVars, call, holder,
                   got, routine, unsub>>

EndScan ==
    /\ holder
    /\ scan = {}
    /\ holder' = FALSE
    /\ UNCHANGED <<clients, publishVars, chanVars, loopVars, call, filters,
                   scan, got, routine, unsub>>

Scan == EndScan \/ \E f \in Filters : CheckDeadline(f) \/ RemoveExpired(f)

-----------------------------------------------------------------------------
Init ==
    /\ clients \in Scenarios
    /\ published = 0
    /\ publishing = "chain"
    /\ chainCh = <<>>
    /\ logsCh = <<>>
    /\ loop = [event |-> 0, left |-> <<>>]
    /\ index = {}
    /\ taken = [k \in {"blocks", "logs"} |-> 0]
    /\ call = [f \in Filters |-> "none"]
    /\ start = [f \in Filters |-> 0]
    /\ filters = <<>>
    /\ routine = [f \in Filters |-> [pc |-> "none", event |-> 0]]
    /\ unsub = [f \in Filters |-> "none"]
    /\ scan = {}
    /\ holder = FALSE
    /\ got = [f \in Filters |-> <<>>]

Publish == PublishChainEvent \/ PublishLogs

Routine(f) == AppendEvent(f) \/ EndRoutine(f)

Call(f) == Register(f) \/ UninstallReturn(f)

Next ==
    \/ Publish
    \/ EventLoop
    \/ Tick
    \/ Scan
    \/ \E f \in Filters :
          \/ NewFilter(f) \/ UninstallFilter(f) \/ GetFilterChanges(f)
          \/ Call(f) \/ Routine(f) \/ Expire(f)

(* Go schedules every goroutine, and its mutex lets nobody starve, however *)
(* often timeoutLoop takes it. Nothing is assumed of what clients call.    *)
Fairness ==
    /\ WF_vars(Publish)
    /\ WF_vars(EventLoop)
    /\ WF_vars(Scan)
    /\ \A f \in Filters :
          /\ SF_vars(Call(f))
          /\ SF_vars(Routine(f))
          /\ WF_vars(Uninstall(f))

Spec == Init /\ [][Next]_vars /\ Fairness

-----------------------------------------------------------------------------
(* Properties.                                                             *)

(* The types of all variables.                                             *)
TypeOK ==
    /\ clients \in Scenarios
    /\ published \in 0 .. MaxBlock
    /\ publishing \in {"chain", "logs"}
    /\ chainCh \in Seq(1 .. MaxBlock) /\ Len(chainCh) <= ChanSize
    /\ logsCh \in Seq(1 .. MaxBlock) /\ Len(logsCh) <= ChanSize
    /\ loop \in [event : 0 .. MaxBlock, left : Seq(Filters)]
    /\ index \subseteq Filters
    /\ taken \in [{"blocks", "logs"} -> 0 .. MaxBlock]
    /\ call \in [Filters -> {"none", "refused", "subscribe", "register",
                             "created", "uninstalling", "done"}]
    /\ start \in [Filters -> 0 .. MaxBlock]
    /\ DOMAIN filters \subseteq Filters
    /\ \A f \in DOMAIN filters :
          filters[f] \in [events : Seq(1 .. MaxBlock), expired : BOOLEAN]
    /\ routine \in [Filters -> [pc : {"none", "select", "append", "done"},
                                event : 0 .. MaxBlock]]
    /\ unsub \in [Filters -> {"none", "uninstall", "closed"}]
    /\ scan \subseteq Filters
    /\ holder \in BOOLEAN
    /\ got \in [Filters -> Seq(1 .. MaxBlock)]

(* What is on its way to a filter: in the hand of its goroutine, and in    *)
(* the event loop.                                                         *)
InFlight(f) ==
    (IF routine[f].pc = "append" THEN <<routine[f].event>> ELSE <<>>)
        \o (IF f \in ToSet(loop.left) THEN <<loop.event>> ELSE <<>>)

(* What a filter is owed: its events since it was installed.               *)
Owed(f) ==
    {n \in start[f] + 1 .. taken[Kind[f]] :
        Kind[f] = "logs" => LogsOf[n] # <<>> /\ Wants(f, n)}

(* The elements of S, each once and in ascending order.                    *)
Ascending(s, S) ==
    ToSet(s) = S /\ \A i, j \in 1 .. Len(s) : i < j => s[i] < s[j]

(* GetFilterChanges, "returns the logs for the filter with the given id    *)
(* since last time it was called": between the event loop, the goroutine   *)
(* and the polls no event is lost, repeated or reordered as long as the    *)
(* filter is there.                                                        *)
NothingLost ==
    \A f \in DOMAIN filters :
        unsub[f] = "none" =>
            Ascending(got[f] \o filters[f].events \o InFlight(f), Owed(f))

(* Unsubscribe, "this ensures that the manager won't use the event channel *)
(* which will probably be closed by the client asap after this method      *)
(* returns".                                                               *)
UninstalledIsSilent ==
    \A f \in Filters :
        unsub[f] = "closed" => f \notin index \cup ToSet(loop.left)

(* Nothing the clients do with their filters stops Commit from publishing  *)
(* blocks: the event loop always gets rid of its events, although every    *)
(* channel to a filter has no buffer.                                      *)
CommitNotBlocked == <>(published = MaxBlock)

(* A filter that is uninstalled or timed out goes away completely: the     *)
(* call returns, the entry is gone and its goroutine ends.                 *)
FilterRemoved ==
    \A f \in Filters :
        unsub[f] = "uninstall" ~>
            /\ f \notin DOMAIN filters
            /\ routine[f].pc = "done"
            /\ call[f] # "uninstalling"
=============================================================================
