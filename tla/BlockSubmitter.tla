--------------------------- MODULE BlockSubmitter ---------------------------
(***************************************************************************)
(* The rollup block submitter: a durable queue of rollup blocks that are   *)
(* sent to the rollup contract one at a time, in order, each after the     *)
(* contract's event has confirmed the one before                           *)
(* (unipig/src/aggregator/rollup-block-submitter.ts; the copy in           *)
(* rollup-aggregator/src/app/block-submitter.ts has the same control).     *)
(*                                                                         *)
(* The code is a set of asynchronous methods on one Node.js event loop: a  *)
(* call runs without interruption until it awaits a database write or an   *)
(* RPC, and other calls may run meanwhile.  Process Main is the chain of   *)
(* awaits of init() and of the aggregator's submitBlock() calls (which the *)
(* aggregator's lock serialises); each member of Handlers is one           *)
(* invocation of handleNewRollupBlock(), which nothing serialises.         *)
(* pc[p] names the await process p is suspended at and arg[p] the block    *)
(* number captured by that call.  A database write lands and resumes its   *)
(* caller in one step; a crash may come before it.                         *)
(*                                                                         *)
(* A block is its number.  The contract does not see that number: it gives *)
(* the i-th block it receives the number i, in the event as well           *)
(* (RollupChain.sol, submitBlock).                                         *)
(***************************************************************************)
EXTENDS Integers, Sequences, SequencesExt

CONSTANTS
    Main,         \* the process that runs init() and submitBlock()
    Handlers,     \* concurrent invocations of handleNewRollupBlock()
    MaxBlock,     \* bound: the aggregator produces blocks 1..MaxBlock
    MaxTx,        \* bound: Ethereum transactions accepted in all
    MaxCrashes,   \* bound: crashes of the node
    Serialized,   \* no call starts while another is suspended
    CrashPoints,  \* the awaits at which the node may crash
    RpcMayFail,   \* the Ethereum node may reject a transaction
    ReplyMayBeLost \* it may accept one and fail to say so

Procs == {Main} \cup Handlers

\* The awaits of the code; "idle" is a process that is not in a call.
Awaits == {"putBlock", "putQueued",         \* submitBlock, 105 and 111
           "calling", "accepted",           \* trySubmitNextBlock, 179
           "putSubmitted",                  \* trySubmitNextBlock, 193
           "putConfirmed", "putRaised"}     \* handleNewRollupBlock, 133, 141
PCs == Awaits \cup {"idle"}

ASSUME SubmitterAssumption ==
    /\ Main \notin Handlers
    /\ MaxBlock \in Nat
    /\ MaxTx \in Nat
    /\ MaxCrashes \in Nat
    /\ Serialized \in BOOLEAN
    /\ CrashPoints \subseteq PCs
    /\ RpcMayFail \in BOOLEAN
    /\ ReplyMayBeLost \in BOOLEAN

VARIABLES
    status,         \* "down", "starting" (in init) or "running"
    lastSubmitted,  \* the submitter's memory
    lastConfirmed,
    lastQueued,
    blockQueue,
    pc, arg,        \* the suspended calls
    db,             \* the keys last_confirmed, last_submitted, last_queued
    dbBlocks,       \* the blocks stored under BLOCK_n
    mempool,        \* transactions accepted by the Ethereum node, not mined
    chain,          \* the blocks in the contract, in the order it got them
    crashes,        \* number of crashes so far
    overlap         \* a call has started while another was suspended

memory == <<lastSubmitted, lastConfirmed, lastQueued, blockQueue>>
disk   == <<db, dbBlocks>>
ether  == <<mempool, chain>>
vars   == <<status, memory, pc, arg, disk, ether, crashes, overlap>>

(***************************************************************************)
(* Start: the node is installed with an empty database and contract.       *)
(***************************************************************************)
Init ==
    /\ status = "down"
    /\ lastSubmitted = 0 /\ lastConfirmed = 0 /\ lastQueued = 0
    /\ blockQueue = <<>>
    /\ pc = [p \in Procs |-> "idle"]
    /\ arg = [p \in Procs |-> 0]
    /\ db = [confirmed |-> 0, submitted |-> 0, queued |-> 0]
    /\ dbBlocks = {}
    /\ mempool = <<>>
    /\ chain = <<>>
    /\ crashes = 0
    /\ overlap = FALSE

-----------------------------------------------------------------------------
(***************************************************************************)
(* Control helpers.                                                        *)
(***************************************************************************)
Suspend(p, at, n) ==
    /\ pc' = [pc EXCEPT ![p] = at]
    /\ arg' = [arg EXCEPT ![p] = n]

\* The call returns; if it was init(), the node is up.
Return(p) ==
    /\ Suspend(p, "idle", 0)
    /\ status' = "running"

\* The call throws.  init() rethrows and the node exits; the other callers
\* live on.
Throw(p) ==
    /\ Suspend(p, "idle", 0)
    /\ status' = IF status = "starting" THEN "down" ELSE status

\* No call is suspended.
Quiet == \A p \in Procs : pc[p] = "idle"

\* May a call start now?
MayStart == Serialized => Quiet

\* One does.
Starts == overlap' = (overlap \/ ~Quiet)

\* Mutant: the comparison is off by one.
NothingPending_Strict(submitted, confirmed, queued, queue) ==
    submitted < confirmed /\ submitted < queued /\ queue # <<>>

\* The early return of trySubmitNextBlock, negated, on the given memory.
NothingPending(submitted, confirmed, queued, queue) ==
    /\ submitted <= confirmed
    /\ submitted < queued
    /\ queue # <<>>

\* Mutant: pop() for shift().
NextToSubmit_Newest(queue) == Last(queue)

NextToSubmit(queue) == Head(queue)

\* trySubmitNextBlock up to its RPC, on the memory its caller leaves.
TrySubmitNextBlock(p, submitted, confirmed, queued, queue) ==
    IF NothingPending(submitted, confirmed, queued, queue)
    THEN /\ Suspend(p, "calling", NextToSubmit(queue))
         /\ UNCHANGED status
    ELSE Return(p)

-----------------------------------------------------------------------------
(***************************************************************************)
(* init(): read the three counters, reload the unconfirmed blocks, then    *)
(* try to submit.  A block missing from the database would make the        *)
(* deserialisation throw.                                                  *)
(***************************************************************************)
BlocksToReload == (db.confirmed + 1)..db.queued

\* Mutant: the loop index is off by one.
ReloadedQueue_OffByOne ==
    [i \in 1..(db.queued - db.confirmed) |-> db.confirmed + i + 1]

ReloadedQueue == [i \in 1..(db.queued - db.confirmed) |-> db.confirmed + i]

Start ==
    /\ status = "down"
    /\ BlocksToReload \subseteq dbBlocks
    /\ lastSubmitted' = db.submitted
    /\ lastConfirmed' = db.confirmed
    /\ lastQueued' = db.queued
    /\ blockQueue' = ReloadedQueue
    /\ IF NothingPending(db.submitted, db.confirmed, db.queued, ReloadedQueue)
       THEN /\ Suspend(Main, "calling", NextToSubmit(ReloadedQueue))
            /\ status' = "starting"
       ELSE Return(Main)
    /\ UNCHANGED <<disk, ether, crashes, overlap>>

(***************************************************************************)
(* submitBlock().  The aggregator passes its pending block, whose number   *)
(* is at most one above the last queued one; an old number is ignored.     *)
(***************************************************************************)
SubmitBlock(n) ==
    /\ status = "running"
    /\ pc[Main] = "idle"
    /\ MayStart
    /\ n > lastQueued
    /\ blockQueue' = Append(blockQueue, n)
    /\ Suspend(Main, "putBlock", n)
    /\ Starts
    /\ UNCHANGED <<status, lastSubmitted, lastConfirmed, lastQueued, disk,
                   ether, crashes>>

\* Mutant: the write of BLOCK_n is forgotten.
BlockStored_NoWrite ==
    /\ pc[Main] = "putBlock"
    /\ lastQueued' = arg[Main]
    /\ Suspend(Main, "putQueued", arg[Main])
    /\ UNCHANGED <<status, lastSubmitted, lastConfirmed, blockQueue, disk,
                   ether, crashes, overlap>>

\* Mutant: the block is sent without waiting for the write of last_queued.
BlockStored_SendsAtOnce ==
    /\ pc[Main] = "putBlock"
    /\ dbBlocks' = dbBlocks \cup {arg[Main]}
    /\ lastQueued' = arg[Main]
    /\ TrySubmitNextBlock(Main, lastSubmitted, lastConfirmed, arg[Main],
                          blockQueue)
    /\ UNCHANGED <<lastSubmitted, lastConfirmed, blockQueue, db, ether,
                   crashes, overlap>>

BlockStored ==
    /\ pc[Main] = "putBlock"
    /\ dbBlocks' = dbBlocks \cup {arg[Main]}
    /\ lastQueued' = arg[Main]
    /\ Suspend(Main, "putQueued", arg[Main])
    /\ UNCHANGED <<status, lastSubmitted, lastConfirmed, blockQueue, db,
                   ether, crashes, overlap>>

QueuedStored ==
    /\ pc[Main] = "putQueued"
    /\ db' = [db EXCEPT !.queued = arg[Main]]
    /\ TrySubmitNextBlock(Main, lastSubmitted, lastConfirmed, lastQueued,
                          blockQueue)
    /\ UNCHANGED <<memory, dbBlocks, ether, crashes, overlap>>

(***************************************************************************)
(* The RPC of trySubmitNextBlock: the Ethereum node takes the transaction  *)
(* (and its answer comes back or not) or rejects it.                       *)
(***************************************************************************)
RpcAccepted(p) ==
    /\ pc[p] = "calling"
    /\ Len(chain) + Len(mempool) < MaxTx
    /\ mempool' = Append(mempool, arg[p])
    /\ Suspend(p, "accepted", arg[p])
    /\ UNCHANGED <<status, memory, disk, chain, crashes, overlap>>

RpcRejected(p) ==
    /\ RpcMayFail
    /\ pc[p] = "calling"
    /\ Throw(p)
    /\ UNCHANGED <<memory, disk, ether, crashes, overlap>>

RpcReplyLost(p) ==
    /\ ReplyMayBeLost
    /\ pc[p] = "accepted"
    /\ Throw(p)
    /\ UNCHANGED <<memory, disk, ether, crashes, overlap>>

\* Mutant: lastSubmitted is stored but not kept in memory.
RpcReplied_NotKept(p) ==
    /\ pc[p] = "accepted"
    /\ Suspend(p, "putSubmitted", arg[p])
    /\ UNCHANGED <<status, memory, disk, ether, crashes, overlap>>

RpcReplied(p) ==
    /\ pc[p] = "accepted"
    /\ lastSubmitted' = arg[p]
    /\ Suspend(p, "putSubmitted", arg[p])
    /\ UNCHANGED <<status, lastConfirmed, lastQueued, blockQueue, disk,
                   ether, crashes, overlap>>

\* Mutant: written under the wrong key.
SubmittedStored_WrongKey(p) ==
    /\ pc[p] = "putSubmitted"
    /\ db' = [db EXCEPT !.confirmed = arg[p]]
    /\ Return(p)
    /\ UNCHANGED <<memory, dbBlocks, ether, crashes, overlap>>

SubmittedStored(p) ==
    /\ pc[p] = "putSubmitted"
    /\ db' = [db EXCEPT !.submitted = arg[p]]
    /\ Return(p)
    /\ UNCHANGED <<memory, dbBlocks, ether, crashes, overlap>>

(***************************************************************************)
(* handleNewRollupBlock(): the contract's event number, which may be       *)
(* delivered late, repeatedly or never, confirms the head of the queue or  *)
(* is ignored (an ignored event changes nothing and has no action).        *)
(***************************************************************************)
Confirms(n) == blockQueue # <<>> /\ n = Head(blockQueue)

\* Mutant: the confirmation is not stored.
HandleNewRollupBlock_NotStored(h, n) ==
    /\ status = "running" /\ pc[h] = "idle" /\ MayStart /\ Confirms(n)
    /\ blockQueue' = Tail(blockQueue)
    /\ lastConfirmed' = n
    /\ TrySubmitNextBlock(h, lastSubmitted, n, lastQueued, Tail(blockQueue))
    /\ Starts
    /\ UNCHANGED <<lastSubmitted, lastQueued, disk, ether, crashes>>

HandleNewRollupBlock(h, n) ==
    /\ status = "running"
    /\ pc[h] = "idle"
    /\ MayStart
    /\ Confirms(n)
    /\ blockQueue' = Tail(blockQueue)
    /\ lastConfirmed' = n
    /\ Suspend(h, "putConfirmed", n)
    /\ Starts
    /\ UNCHANGED <<status, lastSubmitted, lastQueued, disk, ether, crashes>>

ConfirmedStored(h) ==
    /\ pc[h] = "putConfirmed"
    /\ db' = [db EXCEPT !.confirmed = arg[h]]
    /\ \/ /\ lastSubmitted < lastConfirmed
          /\ lastSubmitted' = arg[h]
          /\ Suspend(h, "putRaised", arg[h])
          /\ UNCHANGED status
       \/ /\ lastSubmitted >= lastConfirmed
          /\ TrySubmitNextBlock(h, lastSubmitted, lastConfirmed, lastQueued,
                                blockQueue)
          /\ UNCHANGED lastSubmitted
    /\ UNCHANGED <<lastConfirmed, lastQueued, blockQueue, dbBlocks, ether,
                   crashes, overlap>>

RaisedStored(h) ==
    /\ pc[h] = "putRaised"
    /\ db' = [db EXCEPT !.submitted = arg[h]]
    /\ TrySubmitNextBlock(h, lastSubmitted, lastConfirmed, lastQueued,
                          blockQueue)
    /\ UNCHANGED <<memory, dbBlocks, ether, crashes, overlap>>

-----------------------------------------------------------------------------
(***************************************************************************)
(* The environment: the Ethereum node mines the account's transactions in  *)
(* nonce order, and the node crashes, losing everything but disk and       *)
(* chain.                                                                  *)
(***************************************************************************)
Mine ==
    /\ mempool # <<>>
    /\ chain' = Append(chain, Head(mempool))
    /\ mempool' = Tail(mempool)
    /\ UNCHANGED <<status, memory, pc, arg, disk, crashes, overlap>>

Crash ==
    /\ status # "down"
    /\ crashes < MaxCrashes
    /\ \A p \in Procs : pc[p] \in CrashPoints
    /\ crashes' = crashes + 1
    /\ status' = "down"
    /\ lastSubmitted' = 0 /\ lastConfirmed' = 0 /\ lastQueued' = 0
    /\ blockQueue' = <<>>
    /\ pc' = [p \in Procs |-> "idle"]
    /\ arg' = [p \in Procs |-> 0]
    /\ UNCHANGED <<disk, ether, overlap>>

\* The awaited operation of process p completes.
Resume(p) ==
    \/ RpcAccepted(p) \/ RpcReplied(p) \/ SubmittedStored(p)
    \/ p = Main /\ (BlockStored \/ QueuedStored)
    \/ p \in Handlers /\ (ConfirmedStored(p) \/ RaisedStored(p))

Next ==
    \/ Start
    \/ \E n \in 1..MaxBlock : n <= lastQueued + 1 /\ SubmitBlock(n)
    \/ \E p \in Procs : Resume(p) \/ RpcRejected(p) \/ RpcReplyLost(p)
    \/ \E h \in Handlers, n \in 1..Len(chain) : HandleNewRollupBlock(h, n)
    \/ Mine
    \/ Crash

Spec == Init /\ [][Next]_vars

(***************************************************************************)
(* Fairness: the event loop resumes every call whose operation completed,  *)
(* a supervisor restarts the node, Ethereum mines, and the event processor *)
(* delivers the event of the block at the head of the queue, again after a *)
(* crash unless the crash came while the event was being handled.  Nothing *)
(* obliges the aggregator to produce blocks or the node to crash.          *)
(***************************************************************************)
Fairness ==
    /\ WF_vars(Start)
    /\ WF_vars(Mine)
    /\ \A p \in Procs : WF_vars(Resume(p))
    /\ WF_vars(\E h \in Handlers, n \in 1..Len(chain) :
                  HandleNewRollupBlock(h, n))

FairSpec == Spec /\ Fairness

-----------------------------------------------------------------------------
(***************************************************************************)
(* Properties.                                                             *)
(***************************************************************************)
Numbers == 0..MaxBlock

\* Every variable keeps to the values its uses in the code expect; the
\* counters never leave 0..MaxBlock.
TypeOK ==
    /\ status \in {"down", "starting", "running"}
    /\ lastSubmitted \in Numbers
    /\ lastConfirmed \in Numbers
    /\ lastQueued \in Numbers
    /\ blockQueue \in Seq(Numbers)
    /\ pc \in [Procs -> PCs]
    /\ arg \in [Procs -> Numbers]
    /\ db \in [confirmed : Numbers, submitted : Numbers, queued : Numbers]
    /\ dbBlocks \subseteq Numbers
    /\ mempool \in Seq(Numbers)
    /\ chain \in Seq(Numbers)
    /\ crashes \in 0..MaxCrashes
    /\ overlap \in BOOLEAN

\* The transactions the Ethereum node took, mined or not, in order.
Sent == chain \o mempool

\* Whatever calls overlap, whenever the node crashes and whichever RPC is
\* lost, the submitter never runs ahead: the i-th block the contract gets is
\* never one whose number is above i, so no block can take the place of a
\* predecessor that has not been sent (trySubmitNextBlock sends the head of
\* the queue, and the head moves only when the contract's event counts it).
NeverEarly ==
    /\ \A i \in 1..Len(chain) : chain[i] <= i
    /\ \A i \in 1..Len(mempool) : mempool[i] <= Len(chain) + 1

\* Whenever the node restarts, every block init() reloads was stored: the
\* counter last_queued never runs ahead of the BLOCK_n keys.
RecoveryReadsStoredBlocks == BlocksToReload \subseteq dbBlocks

\* Until calls overlap, a block is durable, and counted in last_queued, before
\* it is sent: no crash can make the aggregator build a second block of a
\* number the contract already has.
SentIsDurable ==
    ~overlap =>
        \A i \in DOMAIN Sent : Sent[i] \in dbBlocks /\ Sent[i] <= db.queued

\* Until calls overlap, the stored counters never go back, across crashes
\* included, and a confirmation is stored only once the contract has as many
\* blocks.
DurableProgress ==
    [][~overlap' => /\ db'.confirmed >= db.confirmed
                    /\ db'.submitted >= db.submitted
                    /\ db'.queued >= db.queued
                    /\ db'.confirmed <= Len(chain')]_db

\* "This will succeed if there is no pending block that has been submitted
\* but not confirmed" (rollup-aggregator/src/app/block-submitter.ts:177): a
\* block is sent only when all those sent before are confirmed.
OneUnconfirmed == Len(Sent) <= db.confirmed + 1

\* The contract gets every block once and in order, so that the number in
\* its event is the number the aggregator gave the block.
ChainFollowsQueue == \A i \in DOMAIN Sent : Sent[i] = i

(***************************************************************************)
(* The inductive invariants behind NeverEarly and                          *)
(* RecoveryReadsStoredBlocks.                                              *)
(***************************************************************************)
\* The number of the newest block submitBlock() has taken.
LastTaken == IF pc[Main] = "putBlock" THEN arg[Main] ELSE lastQueued

\* The queue holds the consecutive numbers up to the newest block taken, and
\* skips none after the last confirmed one.
QueueShape ==
    /\ \A i \in 1..Len(blockQueue) :
          blockQueue[i] = LastTaken - Len(blockQueue) + i
    /\ LastTaken - Len(blockQueue) <= lastConfirmed

\* Every number confirmed, or on its way to be stored as confirmed, is
\* covered by the length of the chain.
ConfirmedIsMined ==
    /\ lastConfirmed <= Len(chain)
    /\ db.confirmed <= Len(chain)
    /\ \A p \in Procs : pc[p] = "putConfirmed" => arg[p] <= Len(chain)

CallsAreNotEarly ==
    \A p \in Procs : pc[p] = "calling" => arg[p] <= Len(chain) + 1

OrderInv == QueueShape /\ ConfirmedIsMined /\ CallsAreNotEarly /\ NeverEarly

StorageInv ==
    /\ pc[Main] = "putBlock" => arg[Main] = lastQueued + 1
    /\ pc[Main] = "putQueued" => arg[Main] = lastQueued
    /\ 1..lastQueued \subseteq dbBlocks
    /\ 1..db.queued \subseteq dbBlocks

(***************************************************************************)
(* The inductive invariant behind SentIsDurable and DurableProgress.       *)
(***************************************************************************)
\* One call at a time, and only init() before the node is up.
OneAtATime ==
    /\ \A p, q \in Procs : pc[p] # "idle" /\ pc[q] # "idle" => p = q
    /\ \A p \in Procs :
          /\ status = "down" => pc[p] = "idle"
          /\ status = "starting" /\ p # Main => pc[p] = "idle"
          /\ pc[p] \in {"putBlock", "putQueued"} => p = Main

\* The queue holds the blocks taken and not confirmed.
QueueExact ==
    /\ Len(blockQueue) = LastTaken - lastConfirmed
    /\ \A i \in 1..Len(blockQueue) : blockQueue[i] = lastConfirmed + i

\* Memory agrees with the database, but for the write under way, and the
\* block being sent is queued and above last_submitted.
MemoryFollows ==
    /\ (\A p \in Procs : pc[p] # "putConfirmed")
          => lastConfirmed = db.confirmed
    /\ \A p \in Procs : pc[p] = "putConfirmed" =>
          arg[p] = lastConfirmed /\ lastConfirmed = db.confirmed + 1
    /\ (\A p \in Procs : pc[p] \notin {"putSubmitted", "putRaised"})
          => lastSubmitted = db.submitted
    /\ \A p \in Procs : pc[p] \in {"putSubmitted", "putRaised"} =>
          lastSubmitted = arg[p] /\ arg[p] > db.submitted
    /\ \A p \in Procs : pc[p] \in {"calling", "accepted"} =>
          arg[p] > db.submitted
    /\ \A p \in Procs : pc[p] = "calling" => arg[p] \in 1..db.queued
    /\ pc[Main] # "putQueued" => lastQueued = db.queued
    /\ pc[Main] = "putQueued" => lastQueued = db.queued + 1
                                /\ arg[Main] = lastQueued
    /\ pc[Main] = "putBlock" => arg[Main] = lastQueued + 1

SentIsQueued == \A i \in DOMAIN Sent : Sent[i] \in 1..db.queued

SerialInv ==
    ~overlap =>
        /\ OneAtATime /\ SentIsQueued
        /\ db.confirmed <= db.queued
        /\ status # "down" => MemoryFollows /\ QueueExact

(***************************************************************************)
(* The environment in which each block reaches the contract exactly once,  *)
(* and the inductive invariant that shows it.                              *)
(***************************************************************************)
ExactEnvironment ==
    /\ Serialized
    /\ ~ReplyMayBeLost
    /\ CrashPoints \cap {"accepted", "putSubmitted"} = {}

NumSent == Len(chain) + Len(mempool)

OneCall == OneAtATime /\ \A p \in Procs : pc[p] # "putRaised"

\* The contract and the transactions on their way to it.
ChainExact ==
    /\ \A i \in 1..Len(chain) : chain[i] = i
    /\ \A i \in 1..Len(mempool) : mempool[i] = Len(chain) + i
    /\ db.confirmed <= Len(chain)
    /\ NumSent <= db.confirmed + 1
    /\ NumSent <= db.queued

\* last_submitted counts what was sent, but for the send under way.
SubmittedExact ==
    /\ (\A p \in Procs : pc[p] \notin {"accepted", "putSubmitted"})
          => db.submitted = NumSent
    /\ \A p \in Procs : pc[p] \in {"accepted", "putSubmitted"} =>
          /\ arg[p] = NumSent
          /\ db.submitted = NumSent - 1
          /\ db.confirmed = NumSent - 1

\* Memory agrees with the database, but for the write under way.
MemoryExact ==
    /\ (\A p \in Procs : pc[p] # "putConfirmed")
          => lastConfirmed = db.confirmed
    /\ \A p \in Procs : pc[p] = "putConfirmed" =>
          /\ arg[p] = lastConfirmed
          /\ lastConfirmed = db.confirmed + 1
          /\ lastConfirmed <= Len(chain)
    /\ (\A p \in Procs : pc[p] # "putSubmitted")
          => lastSubmitted = db.submitted
    /\ \A p \in Procs : pc[p] = "putSubmitted" => lastSubmitted = arg[p]
    /\ pc[Main] # "putQueued" => lastQueued = db.queued
    /\ pc[Main] = "putQueued" => lastQueued = db.queued + 1
                                /\ arg[Main] = lastQueued
    /\ pc[Main] = "putBlock" => arg[Main] = lastQueued + 1
    /\ \A p \in Procs : pc[p] = "calling" =>
          /\ arg[p] = NumSent + 1
          /\ db.confirmed = NumSent
          /\ NumSent < db.queued

ExactInv ==
    /\ OneCall /\ ChainExact /\ SubmittedExact
    /\ status # "down" => MemoryExact /\ QueueExact

(***************************************************************************)
(* What the submitter promises, as an abstract ledger that is refined by   *)
(* the durable state and the chain.                                        *)
(***************************************************************************)
Ledger == INSTANCE RollupLedger
          WITH queued <- db.queued, posted <- chain, confirmed <- db.confirmed

\* The contract gets the queued blocks once each and in order, each after its
\* predecessor is confirmed: trySubmitNextBlock keeps the ledger.
LedgerSafety == Ledger!Spec

\* And every queued block is eventually posted and confirmed, when the
\* Ethereum node rejects nothing and no crash loses an event.
LedgerFair == Ledger!FairSpec
=============================================================================
