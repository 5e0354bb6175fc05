--------------------------- MODULE EventProcessor ---------------------------
(***************************************************************************)
(* The Ethereum event processor, for one event of one contract: it sends   *)
(* each subscribed listener the events logged since the last one its       *)
(* database remembers, then the live ones                                  *)
(* (core-db/src/app/ethereum/ethereum-event-processor.ts).                 *)
(*                                                                         *)
(* The event loop runs the awaits of the first subscribe() call and the    *)
(* callbacks of live events in any order.  A callback sends its event to   *)
(* the listeners without waiting for their promises, then stores the       *)
(* event's block.  Sending the fetched history takes no turn of the event  *)
(* loop, so it is one step.                                                *)
(*                                                                         *)
(* An event is its position in the contract's log, and logs[i] its         *)
(* Ethereum block.  The provider starts polling at its current block, that *)
(* block included.                                                         *)
(***************************************************************************)
EXTENDS Integers, Sequences, SequencesExt

CONSTANTS
    Listeners,         \* the event handlers that subscribe
    MaxBlock,          \* bound: Ethereum blocks
    MaxPerBlock,       \* bound: events of the contract in one block
    MaxEvents,         \* bound: events of the contract
    MaxCrashes         \* bound: crashes of the node

ASSUME ProcessorAssumption ==
    /\ MaxBlock \in Nat
    /\ MaxPerBlock \in Nat
    /\ MaxEvents \in Nat
    /\ MaxCrashes \in Nat

VARIABLES
    height,      \* the Ethereum node's current block
    logs,        \* the block of each event so far
    subscribed,  \* subscriptions
    sync,        \* where the first subscribe() is suspended
    current,     \* currentBlockNumber, 0 until it is fetched
    from,        \* fromBlock of the history's filter
    next,        \* the next live event
    puts,        \* blocks being stored, in order
    stored,      \* the database: the last block with an event that was sent
    got,         \* per listener, the events sent to it so far
    working,     \* <<listener, event>>: calls of handle() under way
    done,        \* per listener, the events it has handled to the end
    completed,   \* the listeners whose onSyncCompleted was called
    crashes,
    raced        \* history: what the code has no answer to has happened

ethereum == <<height, logs>>
outcome  == <<got, working, done>>
vars     == <<ethereum, subscribed, sync, current, from, next, puts, stored,
              outcome, completed, crashes, raced>>

Init ==
    /\ height = 1 /\ logs = <<>>
    /\ subscribed = {}
    /\ sync = "none"
    /\ current = 0 /\ from = 0 /\ next = 0
    /\ puts = <<>> /\ stored = 0
    /\ got = [l \in Listeners |-> <<>>]
    /\ working = {}
    /\ done = [l \in Listeners |-> {}]
    /\ completed = {}
    /\ crashes = 0
    /\ raced = FALSE

-----------------------------------------------------------------------------
\* A block is mined, with n events of the contract.
Mine(n) ==
    /\ height < MaxBlock
    /\ Len(logs) + n <= MaxEvents
    /\ height' = height + 1
    /\ logs' = logs \o [i \in 1..n |-> height + 1]
    /\ UNCHANGED <<subscribed, sync, current, from, next, puts, stored,
                   outcome, completed, crashes, raced>>

\* The first event of block b or later.
FirstFrom(b) == Min({i \in DOMAIN logs : logs[i] >= b} \cup {Len(logs) + 1})

\* handleEvent, for consecutive events and every subscribed listener.
Send(events) ==
    /\ got' = [l \in Listeners |->
                  IF l \in subscribed THEN got[l] \o events ELSE got[l]]
    /\ working' = working \cup (subscribed \X Range(events))
    /\ UNCHANGED done

\* finishSync: onSyncCompleted of every listener subscribed by now.
FinishSync ==
    /\ sync' = "completed"
    /\ completed' = completed \cup subscribed

(***************************************************************************)
(* subscribe().  The first listener of an event starts the provider's live *)
(* events and fetches the history; a later one is only added.              *)
(***************************************************************************)
Subscribe(l) ==
    /\ l \notin subscribed
    /\ subscribed' = subscribed \cup {l}
    /\ IF subscribed = {}
       THEN sync' = "blockNumber" /\ next' = FirstFrom(height)
       ELSE UNCHANGED <<sync, next>>
    /\ UNCHANGED <<ethereum, current, from, puts, stored, outcome, completed,
                   crashes, raced>>

BlockNumberFetched ==
    /\ sync = "blockNumber"
    /\ current' = IF current = 0 THEN height ELSE current
    /\ sync' = "lastSynced"
    /\ UNCHANGED <<ethereum, subscribed, from, next, puts, stored, outcome,
                   completed, crashes, raced>>

\* Mutant: the history starts a block late.
HistoryStart_Late == stored + 2

\* The block after the last one stored; earliestBlock, 0, if none is.
HistoryStart == stored + 1

\* Mutant: the history counts as fetched whenever Ethereum is not behind.
LastSyncedRead_NotBehind ==
    /\ sync = "lastSynced"
    /\ IF current >= stored
       THEN FinishSync /\ UNCHANGED from
       ELSE from' = HistoryStart /\ sync' = "logs" /\ UNCHANGED completed
    /\ UNCHANGED <<ethereum, subscribed, current, next, puts, stored, outcome,
                   crashes, raced>>

LastSyncedRead ==
    /\ sync = "lastSynced"
    /\ IF current = stored
       THEN FinishSync /\ UNCHANGED from
       ELSE from' = HistoryStart /\ sync' = "logs" /\ UNCHANGED completed
    /\ UNCHANGED <<ethereum, subscribed, current, next, puts, stored, outcome,
                   crashes, raced>>

\* The events from block b on, in the order they were logged.
EventsFrom(b) ==
    [i \in 1..(Len(logs) + 1 - FirstFrom(b)) |-> FirstFrom(b) + i - 1]

HistoryFetched ==
    /\ sync = "logs"
    /\ Send(EventsFrom(from))
    /\ FinishSync
    /\ UNCHANGED <<ethereum, subscribed, current, from, next, puts, stored,
                   crashes, raced>>

-----------------------------------------------------------------------------
\* The callback of contract.on, up to its write.
LiveEvent ==
    /\ subscribed # {}
    /\ next <= Len(logs)
    /\ Send(<<next>>)
    /\ next' = next + 1
    /\ puts' = Append(puts, logs[next])
    /\ raced' = (raced \/ sync # "completed")
    /\ UNCHANGED <<ethereum, subscribed, sync, current, from, stored,
                   completed, crashes>>

BlockStored ==
    /\ puts # <<>>
    /\ stored' = Head(puts)
    /\ puts' = Tail(puts)
    /\ UNCHANGED <<ethereum, subscribed, sync, current, from, next, outcome,
                   completed, crashes, raced>>

\* A listener's promise resolves.
Handled(l, e) ==
    /\ <<l, e>> \in working
    /\ working' = working \ {<<l, e>>}
    /\ done' = [done EXCEPT ![l] = @ \cup {e}]
    /\ UNCHANGED <<ethereum, subscribed, sync, current, from, next, puts,
                   stored, got, completed, crashes, raced>>

\* Some events of the stored block have not come yet.
BlockIsCut == next \in DOMAIN logs /\ logs[next] <= stored

Crash ==
    /\ subscribed # {}
    /\ crashes < MaxCrashes
    /\ raced' = (raced \/ working # {} \/ BlockIsCut)
    /\ crashes' = crashes + 1
    /\ subscribed' = {} /\ sync' = "none"
    /\ current' = 0 /\ from' = 0 /\ next' = 0
    /\ puts' = <<>>
    /\ working' = {} /\ completed' = {}
    /\ UNCHANGED <<ethereum, stored, got, done>>

SyncStep == BlockNumberFetched \/ LastSyncedRead \/ HistoryFetched

Next ==
    \/ \E n \in 0..MaxPerBlock : Mine(n)
    \/ \E l \in Listeners : Subscribe(l)
    \/ SyncStep
    \/ LiveEvent
    \/ BlockStored
    \/ \E l \in Listeners, e \in DOMAIN logs : Handled(l, e)
    \/ Crash

Spec == Init /\ [][Next]_vars

(***************************************************************************)
(* Fairness: the event loop and the provider make progress, listeners      *)
(* finish, and the program subscribes its listeners when it starts.        *)
(***************************************************************************)
Fairness ==
    /\ \A l \in Listeners : WF_vars(Subscribe(l))
    /\ WF_vars(SyncStep)
    /\ WF_vars(LiveEvent)
    /\ WF_vars(BlockStored)
    /\ \A l \in Listeners : WF_vars(\E e \in DOMAIN logs : Handled(l, e))

FairSpec == Spec /\ Fairness

-----------------------------------------------------------------------------
(***************************************************************************)
(* Properties.  The code has no answer to three things, which the history  *)
(* variable raced records: a live event while the history is being fetched *)
(* (it moves the stored block past the events not fetched yet), a crash    *)
(* while a listener is at work on an event whose block is stored already,  *)
(* and a crash between the events of one block.                            *)
(***************************************************************************)
\* Every variable keeps to the values its uses in the code expect.
TypeOK ==
    /\ height \in Nat
    /\ logs \in Seq(Nat)
    /\ subscribed \subseteq Listeners
    /\ sync \in {"none", "blockNumber", "lastSynced", "logs", "completed"}
    /\ current \in Nat /\ from \in Nat /\ next \in Nat
    /\ puts \in Seq(Nat) /\ stored \in Nat
    /\ got \in [Listeners -> Seq(Nat)]
    /\ working \subseteq Listeners \X Nat
    /\ done \in [Listeners -> SUBSET Nat]
    /\ completed \subseteq subscribed
    /\ crashes \in 0..MaxCrashes
    /\ raced \in BOOLEAN

\* "This will also fetch and send the provided event handler all historical
\* events not in the database" (ethereum-event-processor.ts:43): once a
\* listener is told that the sync is completed, no event up to the live ones
\* is forgotten: it was handled, in this run or before, or is being handled.
NothingForgotten ==
    ~raced => \A l \in completed : \A e \in 1..(next - 1) :
        e \in done[l] \/ <<l, e>> \in working

\* A listener first sees the events in the order they were logged: the
\* submitter ignores an event that comes before its predecessor.
FirstSeenInOrder ==
    ~raced => \A l \in Listeners : \A i \in DOMAIN got[l] :
        \A e \in 1..(got[l][i] - 1) : \E j \in 1..i : got[l][j] = e

(***************************************************************************)
(* The inductive invariant behind the two, for a processor with one        *)
(* listener: a second one gets no history.                                 *)
(***************************************************************************)
OneListener == \A l, m \in Listeners : l = m

\* Events are logged in the order of their blocks, and the next live event is
\* one of them or the one to come.
LogInv ==
    /\ subscribed # {} => next \in 1..(Len(logs) + 1)
    /\ stored <= height
    /\ \A i \in DOMAIN puts : puts[i] <= height
    /\ \A i \in DOMAIN logs : logs[i] <= height
    /\ \A i, j \in DOMAIN logs : i <= j => logs[i] <= logs[j]

\* What the steps of the first subscribe() have established.
SyncInv ==
    /\ sync = "none" <=> subscribed = {}
    /\ sync \in {"none", "blockNumber"} => current = 0
    /\ completed = IF sync = "completed" THEN subscribed ELSE {}
    /\ ~raced =>
         /\ sync # "completed" => puts = <<>>
         /\ sync = "lastSynced" => \A e \in 1..(next - 1) : logs[e] <= current
         /\ sync = "logs" => from = HistoryStart

Known(l, e) == e \in done[l] \/ <<l, e>> \in working
WasSent(l, e) == \E j \in DOMAIN got[l] : got[l][j] = e

\* What a listener knows it was sent; and as long as the history has not been
\* fetched, it knows all events up to the last block stored.
CoveredInv ==
    /\ \A l \in Listeners : \A e \in done[l] : WasSent(l, e)
    /\ \A w \in working : WasSent(w[1], w[2])
    /\ ~raced /\ sync # "completed" =>
          \A l \in Listeners, e \in DOMAIN logs :
              logs[e] <= stored => Known(l, e)

EventInv ==
    LogInv /\ SyncInv /\ CoveredInv /\ NothingForgotten /\ FirstSeenInOrder

\* What the program sees of the log, at any time.
DeliveryInv == TypeOK /\ NothingForgotten /\ FirstSeenInOrder

\* In spite of crashes, every listener is told time and again that the sync is
\* completed, and has then handled every event there is.
EveryEventIsHandled ==
    \A l \in Listeners :
        []<>(l \in completed /\ (raced \/ DOMAIN logs \subseteq done[l]))
=============================================================================
