-------------------------- MODULE RollupAggregator --------------------------
(***************************************************************************)
(* The rollup aggregator: it applies client transactions to the rollup     *)
(* state, signs receipts that promise each transition a slot of a block,   *)
(* and submits the pending block when it is full or old                    *)
(* (unipig/src/aggregator/rollup-aggregator.ts).                           *)
(*                                                                         *)
(* Client requests and submitBlock() calls take turns under one FIFO       *)
(* AsyncLock.  lock is the queue of its callers, the head holding it, and  *)
(* at the await the holder is suspended at; a database write lands and     *)
(* resumes the holder in one step, and a crash may come before it.         *)
(*                                                                         *)
(* A state root is the number of updates the state machine has applied,    *)
(* and a transition is the root it carries.  The submitter is the one of   *)
(* BlockSubmitter, seen through the ledger it implements: the blocks       *)
(* queued reach the contract once each and in order, at any time, with the *)
(* content they then have in the submitter's memory.                       *)
(***************************************************************************)
EXTENDS Integers, Sequences, SequencesExt

CONSTANTS
    Threshold,       \* blockSubmissionTransitionCount
    MaxRequests,     \* bound: client requests in all
    MaxCrashes,      \* bound: crashes of the node
    CrashPoints,     \* the awaits at which the node may crash
    SubmitMayFail,   \* the submitter may throw after queueing a block
    FaucetMayFail,   \* the second faucet transfer may fail after the first
    RefusalMayApply  \* the state machine may refuse what it has applied

\* What the lock protects: applyTransaction, requestFaucetFunds, getState and
\* submitBlock.
Jobs == {"transaction", "faucet", "query", "submit"}

\* The awaits of the lock's holder; "begin" is a job that has done nothing.
Awaits == {"begin", "applied",                   \* stateMachine, 261 and 331
           "putTransition", "putLast",           \* addToPendingBlock
           "putBlock", "putQueued", "trying",    \* submitter.submitBlock
           "resetLast", "putPending"}            \* submitBlock, 526 and 527

ASSUME AggregatorAssumption ==
    /\ Threshold \in Nat \ {0}
    /\ MaxRequests \in Nat
    /\ MaxCrashes \in Nat
    /\ CrashPoints \subseteq Awaits
    /\ SubmitMayFail \in BOOLEAN
    /\ FaucetMayFail \in BOOLEAN
    /\ RefusalMayApply \in BOOLEAN

VARIABLES
    up,         \* the node runs
    pending,    \* pendingBlock: its number and its transitions
    shared,     \* pendingBlock is also an element of the submitter's queue
    lock, at,   \* the callers of the lock, and where its holder is
    updates,    \* roots the holder has applied and not yet recorded
    timers,     \* number of armed submission timeouts
    due,        \* the interval since the last submission has elapsed
    root,       \* the state machine's database: its state root
    db,         \* the aggregator's keys: pending_block_number,
                \* last_transition and TRANS_i
    stored,     \* the submitter's database: BLOCK_n
    lastQueued, \* the submitter's database: last_queued
    held,       \* the blocks as the submitter holds them in memory
    chain,      \* the blocks in the contract
    receipts,   \* the receipts signed, in this run and earlier ones
    requests, crashes,
    inStep      \* no crash, failure or refusal has come while the three
                \* databases differ

memory    == <<pending, shared, updates, timers, due>>
submitter == <<stored, lastQueued, held>>
vars      == <<up, memory, lock, at, root, db, submitter, chain, receipts,
               requests, crashes, inStep>>

\* Where neither the state machine nor the submitter is ahead of the
\* aggregator's own database.
InStep == {"begin", "putBlock", "putQueued"}

\* last_transition is not in the database.
Absent == -1

\* A pending_block_number missing from the database is read as 1.
Init ==
    /\ up = FALSE
    /\ pending = [number |-> 1, transitions |-> <<>>]
    /\ shared = FALSE
    /\ lock = <<>> /\ at = "begin" /\ updates = <<>>
    /\ timers = 0 /\ due = FALSE
    /\ root = 0
    /\ db = [number |-> 1, last |-> Absent, slots |-> <<>>]
    /\ stored = <<>> /\ lastQueued = 0 /\ held = <<>>
    /\ chain = <<>>
    /\ receipts = {}
    /\ requests = 0 /\ crashes = 0
    /\ inStep = TRUE

-----------------------------------------------------------------------------
(***************************************************************************)
(* Helpers.                                                                *)
(***************************************************************************)
\* Key i of a store whose keys are 1, 2, ... is written.
Put(store, i, value) ==
    IF i <= Len(store) THEN [store EXCEPT ![i] = value]
                       ELSE Append(store, value)

\* The job at the head of the lock is at its first await.
Holds(job) == up /\ lock # <<>> /\ Head(lock) = job /\ at = "begin"

\* The holder returns or throws, and the lock goes to the next caller.
Release ==
    /\ lock' = Tail(lock)
    /\ at' = "begin"
    /\ updates' = <<>>

PendingFull == Len(pending.transitions) >= Threshold

\* Mutant: the index is that of the next transition.
Receipt_NextIndex(r) ==
    [block |-> pending.number, index |-> Len(pending.transitions) + 1,
     root |-> r]

\* What is signed: the pending block's number, its length, and a state root.
Receipt(r) ==
    [block |-> pending.number, index |-> Len(pending.transitions), root |-> r]

-----------------------------------------------------------------------------
(***************************************************************************)
(* init(): a fresh install has no last_transition and returns early, with  *)
(* no timeout armed; otherwise the pending block is read back and one is.  *)
(* The submitter has reloaded its queue before.                            *)
(***************************************************************************)
RecoveredBlock ==
    [number |-> db.number, transitions |-> SubSeq(db.slots, 1, db.last)]

Start ==
    /\ ~up
    /\ up' = TRUE
    /\ held' = SubSeq(stored, 1, lastQueued)
    /\ IF db.last = Absent
       THEN pending' = [number |-> 1, transitions |-> <<>>] /\ timers' = 0
       ELSE pending' = RecoveredBlock /\ timers' = 1
    /\ due' = FALSE
    /\ UNCHANGED <<shared, lock, at, updates, root, db, stored, lastQueued,
                   chain, receipts, requests, crashes, inStep>>

\* A client calls applyTransaction, requestFaucetFunds or getState.
Request(job) ==
    /\ up
    /\ job # "submit"
    /\ requests < MaxRequests
    /\ requests' = requests + 1
    /\ lock' = Append(lock, job)
    /\ UNCHANGED <<up, memory, at, root, db, submitter, chain, receipts,
                   crashes, inStep>>

\* getState.
QueryAnswered ==
    /\ Holds("query")
    /\ receipts' = receipts \cup {Receipt(root)}
    /\ Release
    /\ UNCHANGED <<up, pending, shared, timers, due, root, db, submitter,
                   chain, requests, crashes, inStep>>

(***************************************************************************)
(* applyTransaction and requestFaucetFunds: the state machine applies one  *)
(* or two updates, then addToPendingBlock pushes and stores a transition   *)
(* for each, and the new length.                                           *)
(***************************************************************************)
\* addToPendingBlock, up to the next write.  The submitter's queue may hold
\* the same object.
Push(r) ==
    LET grown == [pending EXCEPT !.transitions = Append(@, r)]
    IN  /\ pending' = grown
        /\ held' = IF shared THEN [held EXCEPT ![pending.number] =
                                                   grown.transitions]
                             ELSE held
        /\ at' = "putTransition"

TransactionApplied ==
    /\ Holds("transaction")
    /\ root' = root + 1
    /\ Push(root + 1)
    /\ UNCHANGED <<up, shared, updates, timers, due, lock, db, stored,
                   lastQueued, chain, receipts, requests, crashes, inStep>>

FirstFaucetTransferApplied ==
    /\ Holds("faucet")
    /\ root' = root + 1
    /\ updates' = <<root + 1>>
    /\ at' = "applied"
    /\ UNCHANGED <<up, pending, shared, timers, due, lock, db, submitter,
                   chain, receipts, requests, crashes, inStep>>

SecondFaucetTransferApplied ==
    /\ up /\ at = "applied"
    /\ root' = root + 1
    /\ updates' = <<root + 1>>
    /\ Push(Head(updates))
    /\ UNCHANGED <<up, shared, timers, due, lock, db, stored, lastQueued,
                   chain, receipts, requests, crashes, inStep>>

\* The state machine refuses the transaction, or the first faucet transfer.
Refused ==
    /\ Holds("transaction") \/ Holds("faucet")
    /\ Release
    /\ UNCHANGED <<up, pending, shared, timers, due, root, db, submitter,
                   chain, receipts, requests, crashes, inStep>>

\* It throws after it has written a leaf, or both and the root: an unfunded
\* swap fails on the sender's negative balance beside the pool's write, which
\* goes on; a swap the aggregator signed for a sender without a slot, and a
\* transfer to oneself, fail when the update is looked up again.
RefusedApplied ==
    /\ RefusalMayApply
    /\ Holds("transaction") \/ Holds("faucet")
    /\ root' = root + 1
    /\ inStep' = FALSE
    /\ Release
    /\ UNCHANGED <<up, pending, shared, timers, due, db, submitter, chain,
                   receipts, requests, crashes>>

\* It refuses the second faucet transfer, the first stays applied, and the
\* second may have been, too.
SecondFaucetTransferRefused ==
    /\ FaucetMayFail
    /\ up /\ at = "applied"
    /\ root' \in {root} \cup (IF RefusalMayApply THEN {root + 1} ELSE {})
    /\ inStep' = FALSE
    /\ Release
    /\ UNCHANGED <<up, pending, shared, timers, due, db, submitter, chain,
                   receipts, requests, crashes>>

TransitionStored ==
    /\ up /\ at = "putTransition"
    /\ db' = [db EXCEPT !.slots = Put(@, Len(pending.transitions),
                                      Last(pending.transitions))]
    /\ IF updates # <<>>
       THEN Push(Head(updates)) /\ updates' = Tail(updates)
       ELSE at' = "putLast" /\ UNCHANGED <<pending, held, updates>>
    /\ UNCHANGED <<up, shared, timers, due, lock, root, stored, lastQueued,
                   chain, receipts, requests, crashes, inStep>>

\* The lock is released, the receipt signed, and a full block submitted by a
\* call nobody awaits, behind the callers already waiting.
LastStored ==
    /\ up /\ at = "putLast"
    /\ db' = [db EXCEPT !.last = Len(pending.transitions)]
    /\ receipts' = receipts \cup {Receipt(Last(pending.transitions))}
    /\ lock' = IF PendingFull THEN Append(Tail(lock), "submit")
                              ELSE Tail(lock)
    /\ at' = "begin"
    /\ UNCHANGED <<up, memory, root, submitter, chain, requests, crashes,
                   inStep>>

(***************************************************************************)
(* submitBlock(): a short and recent block, or an empty one, re-arms the   *)
(* timeout.  Otherwise the block goes to the submitter, which ignores an   *)
(* old number, and a new pending block replaces it, in memory first and    *)
(* then in the database.                                                   *)
(***************************************************************************)
NotYet == ~PendingFull /\ (~due \/ pending.transitions = <<>>)

\* Mutant: the timeout is not armed again.
Deferred_NotRearmed ==
    /\ Holds("submit")
    /\ NotYet
    /\ Release
    /\ UNCHANGED <<up, pending, shared, timers, due, root, db, submitter,
                   chain, receipts, requests, crashes, inStep>>

\* Mutant: a timeout is cleared where one should be set.
Deferred_ClearsTimeout ==
    /\ Holds("submit")
    /\ NotYet
    /\ timers' = timers - 1
    /\ Release
    /\ UNCHANGED <<up, pending, shared, due, root, db, submitter, chain,
                   receipts, requests, crashes, inStep>>

Deferred ==
    /\ Holds("submit")
    /\ NotYet
    /\ timers' = timers + 1
    /\ Release
    /\ UNCHANGED <<up, pending, shared, due, root, db, submitter, chain,
                   receipts, requests, crashes, inStep>>

\* Mutant: the new block keeps the number of the old one.
NextBlock_SameNumber ==
    /\ pending' = [pending EXCEPT !.transitions = <<>>]
    /\ shared' = FALSE
    /\ at' = "resetLast"

NextBlock ==
    /\ pending' = [number |-> pending.number + 1, transitions |-> <<>>]
    /\ shared' = FALSE
    /\ at' = "resetLast"

Submitted ==
    /\ Holds("submit")
    /\ ~NotYet
    /\ IF pending.number <= Len(held)
       THEN NextBlock /\ UNCHANGED held
       ELSE /\ held' = Append(held, pending.transitions)
            /\ shared' = TRUE
            /\ at' = "putBlock"
            /\ UNCHANGED pending
    /\ UNCHANGED <<up, updates, timers, due, lock, root, db, stored,
                   lastQueued, chain, receipts, requests, crashes, inStep>>

BlockStored ==
    /\ up /\ at = "putBlock"
    /\ stored' = Put(stored, pending.number, pending.transitions)
    /\ at' = "putQueued"
    /\ UNCHANGED <<up, memory, lock, root, db, lastQueued, held, chain,
                   receipts, requests, crashes, inStep>>

QueuedStored ==
    /\ up /\ at = "putQueued"
    /\ lastQueued' = pending.number
    /\ at' = "trying"
    /\ UNCHANGED <<up, memory, lock, root, db, stored, held, chain, receipts,
                   requests, crashes, inStep>>

Queued ==
    /\ up /\ at = "trying"
    /\ NextBlock
    /\ UNCHANGED <<up, updates, timers, due, lock, root, db, submitter, chain,
                   receipts, requests, crashes, inStep>>

\* trySubmitNextBlock throws, and so does submitBlock: the block stays
\* pending and no timeout is armed.
SubmitFailed ==
    /\ SubmitMayFail
    /\ up /\ at = "trying"
    /\ inStep' = FALSE
    /\ Release
    /\ UNCHANGED <<up, pending, shared, timers, due, root, db, submitter,
                   chain, receipts, requests, crashes>>

\* Mutant: last_transition is not reset.
LastReset_NotWritten ==
    /\ up /\ at = "resetLast"
    /\ at' = "putPending"
    /\ UNCHANGED <<up, memory, lock, root, db, submitter, chain, receipts,
                   requests, crashes, inStep>>

LastReset ==
    /\ up /\ at = "resetLast"
    /\ db' = [db EXCEPT !.last = 0]
    /\ at' = "putPending"
    /\ UNCHANGED <<up, memory, lock, root, submitter, chain, receipts,
                   requests, crashes, inStep>>

\* Mutant: pending_block_number is not written.
PendingStored_NotWritten ==
    /\ up /\ at = "putPending"
    /\ due' = FALSE
    /\ timers' = timers + 1
    /\ Release
    /\ UNCHANGED <<up, pending, shared, root, db, submitter, chain, receipts,
                   requests, crashes, inStep>>

PendingStored ==
    /\ up /\ at = "putPending"
    /\ db' = [db EXCEPT !.number = pending.number]
    /\ due' = FALSE
    /\ timers' = timers + 1
    /\ Release
    /\ UNCHANGED <<up, pending, shared, root, submitter, chain, receipts,
                   requests, crashes, inStep>>

-----------------------------------------------------------------------------
(***************************************************************************)
(* Time, the submitter's sends, and crashes.                               *)
(***************************************************************************)
TimeoutFires ==
    /\ up
    /\ timers > 0
    /\ timers' = timers - 1
    /\ lock' = Append(lock, "submit")
    /\ UNCHANGED <<up, pending, shared, updates, due, at, root, db, submitter,
                   chain, receipts, requests, crashes, inStep>>

IntervalElapses ==
    /\ up
    /\ ~due
    /\ due' = TRUE
    /\ UNCHANGED <<up, pending, shared, updates, timers, lock, at, root, db,
                   submitter, chain, receipts, requests, crashes, inStep>>

Post ==
    /\ up
    /\ Len(chain) < lastQueued
    /\ chain' = Append(chain, held[Len(chain) + 1])
    /\ UNCHANGED <<up, memory, lock, at, root, db, submitter, receipts,
                   requests, crashes, inStep>>

Crash ==
    /\ up
    /\ crashes < MaxCrashes
    /\ at \in CrashPoints
    /\ crashes' = crashes + 1
    /\ inStep' = (inStep /\ at \in InStep)
    /\ up' = FALSE
    /\ pending' = [number |-> 1, transitions |-> <<>>]
    /\ shared' = FALSE
    /\ lock' = <<>> /\ at' = "begin" /\ updates' = <<>>
    /\ timers' = 0 /\ due' = FALSE
    /\ held' = <<>>
    /\ UNCHANGED <<root, db, stored, lastQueued, chain, receipts, requests>>

\* The holder of the lock goes on.
Resume ==
    \/ QueryAnswered
    \/ TransactionApplied \/ FirstFaucetTransferApplied
    \/ SecondFaucetTransferApplied \/ TransitionStored \/ LastStored
    \/ Deferred \/ Submitted \/ BlockStored \/ QueuedStored \/ Queued
    \/ LastReset \/ PendingStored

Next ==
    \/ Start
    \/ \E job \in Jobs : Request(job)
    \/ Resume
    \/ Refused \/ RefusedApplied \/ SecondFaucetTransferRefused
    \/ SubmitFailed
    \/ TimeoutFires \/ IntervalElapses \/ Post \/ Crash

Spec == Init /\ [][Next]_vars

(***************************************************************************)
(* Fairness: the node is restarted, its event loop resumes what it can,    *)
(* time passes, and the submitter sends what it has queued (BlockSubmitter *)
(* implements the fair ledger when no transaction is rejected).  Clients   *)
(* and crashes are under no obligation.                                    *)
(***************************************************************************)
Fairness ==
    /\ WF_vars(Start)
    /\ WF_vars(Resume)
    /\ WF_vars(TimeoutFires)
    /\ WF_vars(IntervalElapses)
    /\ WF_vars(Post)

FairSpec == Spec /\ Fairness

-----------------------------------------------------------------------------
(***************************************************************************)
(* Properties.                                                             *)
(***************************************************************************)
Blocks == Seq(Seq(Nat))

SwitchType ==
    /\ up \in BOOLEAN /\ shared \in BOOLEAN /\ due \in BOOLEAN
    /\ inStep \in BOOLEAN

ControlType ==
    /\ lock \in Seq(Jobs)
    /\ at \in Awaits
    /\ timers \in Nat
    /\ requests \in 0..MaxRequests
    /\ crashes \in 0..MaxCrashes

StateType ==
    /\ root \in Nat
    /\ updates \in Seq(Nat)
    /\ receipts \subseteq [block : Nat, index : Nat, root : Nat]

PendingType == pending \in [number : Nat, transitions : Seq(Nat)]

DatabaseType ==
    db \in [number : Nat, last : Nat \cup {Absent}, slots : Seq(Nat)]

QueueType ==
    /\ stored \in Blocks /\ held \in Blocks /\ chain \in Blocks
    /\ lastQueued \in Nat

\* Every variable keeps to the values its uses in the code expect; a block
\* number and a root are never negative, last_transition may be absent.
TypeOK ==
    /\ SwitchType /\ ControlType /\ StateType
    /\ PendingType /\ DatabaseType /\ QueueType

\* Wherever the node crashes and whatever the submitter's calls do, the
\* pending block is the submitter's newest or the one after it, and so is the
\* one that a restart would recover: no number is skipped, none falls behind,
\* and init() of the submitter finds every block it counts.
NumbersAreContiguous ==
    /\ up => pending.number \in {Len(held), Len(held) + 1}
    /\ db.number \in {lastQueued, lastQueued + 1}
    /\ lastQueued <= Len(stored)

\* Whenever no call is under way, a restart would recover exactly the block
\* in memory: no write is left to be made by a call that has returned.
QuietIsDurable ==
    up /\ at = "begin" =>
        IF db.last = Absent THEN pending.transitions = <<>>
                            ELSE pending = RecoveredBlock

\* The root after transition i of block b of the contract; transition 0
\* stands for the end of the block before.
RootAt(b, i) ==
    IF i > 0 THEN chain[b][i]
    ELSE IF b > 1 THEN Last(chain[b - 1])
    ELSE 0

\* "the updated state and block and transition in which it will be updated,
\* guaranteed by the aggregator's signature" (types/unipig-aggregator.ts:18):
\* once the contract has the block a receipt names, that block has the
\* receipt's root at the receipt's index.
ReceiptsHonoured ==
    \A r \in receipts :
        r.block <= Len(chain) =>
            /\ r.index <= Len(chain[r.block])
            /\ RootAt(r.block, r.index) = r.root

\* So it is while no crash or failure, nor a refusal of what was applied, has
\* come where the databases differ.
ReceiptsHonouredInStep == inStep => ReceiptsHonoured

\* Until then, too, every transition in the contract starts from the root the
\* one before it left, within a block and across blocks, which is what the
\* validator and the fraud proof evaluate.
ChainIsValid ==
    inStep =>
        \A b \in DOMAIN chain : \A i \in DOMAIN chain[b] :
            chain[b][i] = RootAt(b, i - 1) + 1

\* Until then the aggregator never signs two roots for the same slot.
NoEquivocation ==
    inStep =>
        \A r, s \in receipts :
            r.block = s.block /\ r.index = s.index => r.root = s.root

\* What the aggregator signs and posts is one sequence of transitions.
ChainInv == ChainIsValid /\ NoEquivocation

\* A submission timeout is set, or a call it made waits for the lock.
Armed == timers > 0 \/ \E i \in DOMAIN lock : lock[i] = "submit"

\* Every transition that was promised a slot is in the contract.
AllPosted == \A r \in receipts : r.index >= 1 => r.block <= Len(chain)

\* Until then every transition that was promised a slot reaches the contract,
\* unless it is in the first block of a fresh install, which arms no
\* submission timeout.  (Requests are bounded, so that promises end.)
ReceiptsArePosted ==
    []<>(AllPosted \/ ~inStep \/ (lastQueued = 0 /\ ~Armed))

(***************************************************************************)
(* The inductive invariant behind TypeOK, NumbersAreContiguous and         *)
(* QuietIsDurable.                                                         *)
(***************************************************************************)
Submitting == {"putBlock", "putQueued", "trying"}
Resetting  == {"resetLast", "putPending"}

\* A job under way holds the lock; nothing survives in memory when down.
LockShape ==
    /\ ~up => at = "begin"
    /\ at # "begin" => lock # <<>>
    /\ at = "applied" => updates # <<>>
    /\ at \in {"putTransition", "putLast"} => pending.transitions # <<>>
    /\ at \in Resetting => pending.transitions = <<>>

\* How far the submitter's memory, its database, the contract and the
\* pending block are apart.
QueueShape ==
    /\ Len(chain) <= lastQueued
    /\ lastQueued <= Len(stored)
    /\ db.number \in {lastQueued, lastQueued + 1}
    /\ up => /\ pending.number \in {Len(held), Len(held) + 1}
             /\ Len(held) = IF at \in {"putBlock", "putQueued"}
                            THEN lastQueued + 1 ELSE lastQueued
    /\ at \in Submitting => pending.number = Len(held)
    /\ at = "putQueued" => pending.number <= Len(stored)

\* The first n transitions of the pending block are stored.
StoredUpTo(n) ==
    /\ n <= Len(db.slots)
    /\ n <= Len(pending.transitions)
    /\ \A i \in 1..n : db.slots[i] = pending.transitions[i]

\* How much of the pending block the aggregator's database holds.
SlotShape ==
    /\ db.last = Absent => db.number = 1
    /\ db.last # Absent => db.last <= Len(db.slots)
    /\ up /\ at \notin Resetting => pending.number = db.number
    /\ up /\ at \in {"begin", "applied"} \cup Submitting =>
          IF db.last = Absent
          THEN pending.transitions = <<>>
          ELSE db.last = Len(pending.transitions) /\ StoredUpTo(db.last)
    /\ at = "putTransition" => StoredUpTo(Len(pending.transitions) - 1)
    /\ at = "putLast" => StoredUpTo(Len(pending.transitions))
    /\ at = "putPending" => db.last = 0

DurabilityInv == LockShape /\ QueueShape /\ SlotShape

(***************************************************************************)
(* The inductive invariant behind ReceiptsHonouredInStep and ChainInv:     *)
(* while the databases are in step, the blocks queued and the pending one  *)
(* hold the transitions 1, 2, 3, ... of one sequence.                      *)
(***************************************************************************)
\* The root after the n-th block, and after all those queued.
EndOf(n) == IF n = 0 THEN 0 ELSE Last(stored[n])
Base == EndOf(lastQueued)

\* The transitions that last_transition counts.
Recorded == IF db.last = Absent THEN 0 ELSE db.last

\* The pending block is not queued, and so is the one the database has.
Pending == at \notin {"trying"} \cup Resetting

BlocksFollow ==
    \A n \in 1..lastQueued :
        /\ stored[n] # <<>>
        /\ \A i \in 1..Len(stored[n]) : stored[n][i] = EndOf(n - 1) + i

CopiesAgree ==
    /\ \A n \in 1..Len(chain) : chain[n] = stored[n]
    /\ up => \A n \in 1..lastQueued : held[n] = stored[n]
    /\ shared => at \in Submitting
    /\ at \in {"putBlock", "putQueued"} =>
          /\ held[pending.number] = pending.transitions
          /\ pending.transitions # <<>>
    /\ at = "putQueued" => stored[pending.number] = pending.transitions
    /\ at = "trying" => stored[lastQueued] = pending.transitions

SlotsFollow ==
    /\ Pending =>
          /\ db.number = lastQueued + 1
          /\ \A i \in 1..Recorded : db.slots[i] = Base + i
    /\ up /\ Pending => Recorded <= Len(pending.transitions)
    /\ at \in Resetting => pending.number = lastQueued + 1
    /\ up /\ at # "trying" =>
          \A i \in 1..Len(pending.transitions) :
              pending.transitions[i] = Base + i

RootFollows ==
    /\ ~up => root = Base + Recorded
    /\ up => root = IF at = "trying" THEN Base
                    ELSE Base + Len(pending.transitions) + Len(updates)
    /\ \A i \in 1..Len(updates) :
          updates[i] = Base + Len(pending.transitions) + i
    /\ at = "applied" => Len(updates) = 1
    /\ at \notin {"applied", "putTransition"} => updates = <<>>

ReceiptsFollow ==
    \A r \in receipts :
        /\ r.block \in 1..(lastQueued + 1)
        /\ r.root = EndOf(r.block - 1) + r.index
        /\ IF r.block <= lastQueued THEN r.index <= Len(stored[r.block])
                                    ELSE Pending /\ r.index <= Recorded

OneSequence ==
    BlocksFollow /\ CopiesAgree /\ SlotsFollow /\ RootFollows /\ ReceiptsFollow

SequenceInv == inStep => OneSequence
=============================================================================
