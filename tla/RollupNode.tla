------------------------------ MODULE RollupNode ------------------------------
(***************************************************************************)
(* The generic rollup node: the state machine that numbers transactions    *)
(* (rollup-core/src/app/state-machine.ts), the aggregator that passes      *)
(* their results on in order (rollup-aggregator/src/app/aggregator.ts),    *)
(* the block builder that collects them, writes their storage into trees   *)
(* and submits blocks (block-builder.ts), and the queue of the block       *)
(* submitter (block-submitter.ts; BlockSubmitter models what follows).     *)
(*                                                                         *)
(* A transaction is its number: what is known of it is the storage it      *)
(* modifies.  Each await is a step; a database write lands and resumes its *)
(* caller in one, and so does an update of a tree.  The roots of the trees *)
(* are in memory only: the builder never stores them.  Their nodes are all *)
(* in one store, under their hash and key, and hurt one another there.     *)
(***************************************************************************)
EXTENDS Integers, SequencesExt, FiniteSetsExt

CONSTANTS
    Modified,    \* of each transaction, the <<contract, slot>> it modifies
    MaxPerBlock, \* maxTransactionsPerBlock
    MaxCrashes,  \* bound: crashes of the node
    MaxFailures  \* bound: calls that throw, nodes of trees that meet

ASSUME NodeAssumption ==
    /\ Modified \in Seq(SUBSET (Nat \X Nat))
    /\ MaxPerBlock \in Nat \ {0}
    /\ MaxCrashes \in Nat /\ MaxFailures \in Nat

VARIABLES
    status,     \* "down", "building" (in the builder's init), "processing"
                \* (in the aggregator's init) or "running"
    remembers,  \* whether getTransactionResultsSince returns the results, as
                \* its interface says, or none, as here
    machine,    \* the next number in memory, the one stored, the transaction
                \* applied, and the results not yet with their callers
    aggregator, \* the queue of results, the callers of its lock, and the
                \* result that the holder is processing
    pending,    \* the builder's pending block
    lock,       \* who waits for the builder's lock: "add", "timer", "init"
    build,      \* the block that its holder builds and submits
    trees,      \* of each contract, its subtree and its leaf in the base tree
    clock,      \* timeouts armed since the last submission and before it;
                \* whether the maximal delay has elapsed
    db,         \* the stored transactions, count, block number and next one
    handed,     \* the blocks given to the submitter and those it queued
    issued,     \* numbers whose results were returned
    faults,     \* what has gone wrong so far, for the properties: a failed
                \* "number" or "submit", an "overlap", a tree "reopened", a
                \* value "misplaced", a "crash"
    spent       \* crashes and failures so far

builderVars == <<pending, lock, build, trees, clock, handed>>

vars == <<status, remembers, machine, aggregator, builderVars, db, issued,
          faults, spent>>

Transactions == DOMAIN Modified
None == 0
Absent == -1

Contracts == {k[1] : k \in UNION Range(Modified)}
Slots == {k[2] : k \in UNION Range(Modified)}

Block(number, txs) == [blockNumber |-> number, txs |-> txs]

NoAggregator == [queue |-> {}, next |-> 1, callers |-> 0, at |-> "idle",
                 res |-> None, index |-> 0]

NoBuild == [at |-> "none", block |-> Block(0, <<>>), jobs |-> {},
            root |-> <<>>]

Clock(armed, old) == [armed |-> armed, old |-> old, elapsed |-> FALSE]

\* What a slot holds is the last transaction that wrote it.
EmptyTree == [s \in Slots |-> None]
NoLeaf == <<>>

NoTrees ==
    [c \in Contracts |->
        [opened |-> 0, content |-> EmptyTree, leaf |-> NoLeaf]]

Init ==
    /\ status = "running"
    /\ remembers \in BOOLEAN
    /\ machine = [next |-> 1, stored |-> 1, applying |-> None,
                  returned |-> {}]
    /\ aggregator = NoAggregator
    /\ pending = Block(0, <<>>)
    /\ lock = <<>> /\ build = NoBuild /\ trees = NoTrees
    /\ clock = Clock(1, 0)
    /\ db = [txs |-> <<>>, count |-> Absent, number |-> Absent,
             next |-> Absent]
    /\ handed = [all |-> <<>>, queued |-> <<>>]
    /\ issued = {} /\ faults = {}
    /\ spent = [crashes |-> 0, failures |-> 0]

-----------------------------------------------------------------------------
(***************************************************************************)
(* The state machine: applyTransaction, one at a time.  A number is taken  *)
(* before it is stored, and gone if that fails.                            *)
(***************************************************************************)
Apply ==
    /\ status = "running"
    /\ machine.applying = None
    /\ machine.next \in Transactions
    /\ machine' = [machine EXCEPT !.applying = machine.next, !.next = @ + 1]
    /\ UNCHANGED <<status, remembers, aggregator, builderVars, db, issued,
                   faults, spent>>

\* Mutant: stores the number it has just given, not the next one.
NumberToStore_Applied == machine.applying

NumberToStore == machine.next

NumberStored ==
    /\ machine.applying # None
    /\ machine' = [machine EXCEPT !.stored = NumberToStore,
                                  !.applying = None,
                                  !.returned = @ \cup {machine.applying}]
    /\ issued' = issued \cup {machine.applying}
    /\ UNCHANGED <<status, remembers, aggregator, builderVars, db, faults,
                   spent>>

Fails(fault) ==
    /\ spent.failures < MaxFailures
    /\ spent' = [spent EXCEPT !.failures = @ + 1]
    /\ faults' = faults \cup {fault}

NumberFails ==
    /\ machine.applying # None
    /\ Fails("number")
    /\ machine' = [machine EXCEPT !.applying = None]
    /\ UNCHANGED <<status, remembers, aggregator, builderVars, db, issued>>

-----------------------------------------------------------------------------
(***************************************************************************)
(* The aggregator.  Results may come out of order; the holder of the lock  *)
(* passes on those that are next, one after the other.                     *)
(***************************************************************************)
HandleResult(n) ==
    /\ machine' = [machine EXCEPT !.returned = @ \ {n}]
    /\ aggregator' = [aggregator EXCEPT !.queue = @ \cup {n},
                                        !.callers = @ + 1]
    /\ UNCHANGED <<status, remembers, builderVars, db, issued, faults, spent>>

NextIsQueued ==
    aggregator.queue # {} /\ Min(aggregator.queue) = aggregator.next

\* Nothing to pass on: the caller returns.
Process ==
    /\ aggregator.at = "idle"
    /\ aggregator.callers > 0
    /\ ~NextIsQueued
    /\ aggregator' = [aggregator EXCEPT !.callers = @ - 1]
    /\ status' = IF status = "processing" THEN "running" ELSE status
    /\ UNCHANGED <<remembers, machine, builderVars, db, issued, faults, spent>>

\* The result goes to the builder, which ignores it if it is its last one.
IsDuplicate(n) == pending.txs # <<>> /\ Last(pending.txs) = n

AddTransactionResult ==
    /\ aggregator.at = "idle"
    /\ aggregator.callers > 0
    /\ NextIsQueued
    /\ LET n == Min(aggregator.queue)
       IN  IF IsDuplicate(n)
           THEN /\ aggregator' = [aggregator EXCEPT !.queue = @ \ {n},
                                                    !.at = "next", !.res = n]
                /\ UNCHANGED pending
           ELSE /\ aggregator' = [aggregator EXCEPT
                                     !.queue = @ \ {n}, !.at = "tx",
                                     !.res = n, !.index = Len(pending.txs) + 1]
                /\ pending' = [pending EXCEPT !.txs = Append(@, n)]
    /\ faults' = IF build.at # "none" THEN faults \cup {"overlap"} ELSE faults
    /\ UNCHANGED <<status, remembers, machine, lock, build, trees, clock, db,
                   handed, issued, spent>>

TransactionStored ==
    /\ aggregator.at = "tx"
    /\ db' = [db EXCEPT !.txs =
                  [i \in DOMAIN @ \cup {aggregator.index} |->
                      IF i = aggregator.index THEN aggregator.res ELSE @[i]]]
    /\ aggregator' = [aggregator EXCEPT !.at = "count",
                                        !.index = Len(pending.txs)]
    /\ UNCHANGED <<status, remembers, machine, builderVars, issued, faults,
                   spent>>

\* A full block is submitted before the call returns.
CountStored ==
    /\ aggregator.at = "count"
    /\ db' = [db EXCEPT !.count = aggregator.index]
    /\ IF Len(pending.txs) >= MaxPerBlock
       THEN /\ aggregator' = [aggregator EXCEPT !.at = "submitting"]
            /\ lock' = Append(lock, "add")
       ELSE /\ aggregator' = [aggregator EXCEPT !.at = "next"]
            /\ UNCHANGED lock
    /\ UNCHANGED <<status, remembers, machine, pending, build, trees, clock,
                   handed, issued, faults, spent>>

\* What is stored is the number of the transaction, not the next one.
NextStored ==
    /\ aggregator.at = "next"
    /\ db' = [db EXCEPT !.next = aggregator.res]
    /\ aggregator' = [aggregator EXCEPT !.at = "idle",
                                        !.next = aggregator.res + 1,
                                        !.res = None, !.index = 0]
    /\ UNCHANGED <<status, remembers, machine, builderVars, issued, faults,
                   spent>>

-----------------------------------------------------------------------------
(***************************************************************************)
(* submitBlock: one holder of the builder's lock at a time.                *)
(***************************************************************************)
Holds(by) == lock # <<>> /\ Head(lock) = by

\* The call returns to addTransactionResult, to init or to the timer.
Return ==
    /\ lock' = Tail(lock)
    /\ aggregator' = IF Holds("add")
                     THEN [aggregator EXCEPT !.at = "next"]
                     ELSE IF Holds("init")
                     THEN [aggregator EXCEPT !.callers = 1]
                     ELSE aggregator
    /\ status' = IF Holds("init") THEN "processing" ELSE status

\* Mutant: submits full blocks only, however long they wait.
NotYet_Full == Len(pending.txs) < MaxPerBlock

NotYet == Len(pending.txs) < MaxPerBlock /\ (~clock.elapsed \/ pending.txs = <<>>)

Deferred ==
    /\ lock # <<>> /\ build.at = "none"
    /\ NotYet
    /\ clock' = [clock EXCEPT !.armed = @ + 1]
    /\ Return
    /\ UNCHANGED <<remembers, machine, pending, build, trees, db, handed,
                   issued, faults, spent>>

\* Where in a block the transactions are that modify a slot.
Modifying(block, k) ==
    {i \in DOMAIN block.txs : k \in Modified[block.txs[i]]}

\* Mutant: takes the first transaction that modified a slot.
ModifiedStorage_First(block) ==
    [k \in UNION {Modified[n] : n \in Range(block.txs)} |->
        block.txs[Min(Modifying(block, k))]]

\* The slots that a block modifies, each with its last transaction.
ModifiedStorage(block) ==
    [k \in UNION {Modified[n] : n \in Range(block.txs)} |->
        block.txs[Max(Modifying(block, k))]]

Job(key, value) ==
    [contract |-> key[1], slot |-> key[2], value |-> value, opened |-> 0]

\* Two slots of a contract that has no tree yet.
OpensTwice(keys) ==
    \E k, l \in keys :
        k[1] = l[1] /\ k[2] # l[2] /\ trees[k[1]].leaf = NoLeaf

\* The next pending block is there before anything is awaited.
BuildBlock ==
    /\ lock # <<>> /\ build.at = "none"
    /\ ~NotYet
    /\ LET storage == ModifiedStorage(pending)
       IN  /\ build' = [NoBuild EXCEPT !.at = "storage", !.block = pending,
                            !.jobs = {Job(k, storage[k]) : k \in DOMAIN storage}]
           /\ faults' = faults
                  \cup (IF OpensTwice(DOMAIN storage) THEN {"reopened"} ELSE {})
                  \cup (IF aggregator.at \in {"tx", "count"} THEN {"overlap"}
                                                            ELSE {})
    /\ pending' = Block(pending.blockNumber + 1, <<>>)
    /\ UNCHANGED <<status, remembers, machine, aggregator, lock, trees, clock,
                   db, handed, issued, spent>>

-----------------------------------------------------------------------------
(***************************************************************************)
(* The store of the trees.  An update leaves an empty node beside each one *)
(* of its path, under a hash and a key that another tree may have as well, *)
(* and deletes the path it replaces, whichever tree it belongs to.  So a   *)
(* tree whose path is not complete may find another's node where it should *)
(* store its own, or miss one that it has just stored, and puts the value  *)
(* in place of an inner node; another may have lost nodes, and throws when *)
(* it is updated next.                                                     *)
(***************************************************************************)
Neighbour(k) == IF k % 2 = 0 THEN k + 1 ELSE k - 1

Holding(c, s) == s \in Slots /\ trees[c].content[s] # None

InBase(c) == c \in Contracts /\ trees[c].leaf # NoLeaf

\* The base tree has the empty leaf beside its neighbour's for the contract's.
\* One byte is no root: to make a subtree of it throws.
IsPlaceholder(c) == trees[c].leaf = NoLeaf /\ InBase(Neighbour(c))

\* An update that puts the value a slot has deletes its own path.  Nodes of
\* trees that a crash or an error has left behind are found as well.
OldNodes == faults \cap {"crash", "submit", "reopened", "misplaced"} # {}

\* The slots of two trees are the same or neighbours, or their updates are in
\* one block: whether nodes meet depends on values and timing.
MeetsAnother(j) ==
    \/ OldNodes
    \/ Holding(j.contract, j.slot)
    \/ InBase(Neighbour(j.slot))
    \/ \E k \in DOMAIN ModifiedStorage(build.block) : k[1] # j.contract
    \/ \E c \in Contracts \ {j.contract} :
          Holding(c, j.slot) \/ Holding(c, Neighbour(j.slot))

\* updateStorageSlot up to its update: a contract without a leaf gets a new
\* subtree, whatever another job has put there.  A slot of the contract's
\* number, in any subtree, may have deleted the empty leaf.
OpenSubtree(j) ==
    /\ j.opened = 0
    /\ IsPlaceholder(j.contract) =>
          \E c \in Contracts : Holding(c, j.contract)
    /\ LET c == trees[j.contract]
           opened == IF c.leaf = NoLeaf
                     THEN [c EXCEPT !.opened = @ + 1, !.content = EmptyTree]
                     ELSE c
       IN  /\ trees' = [trees EXCEPT ![j.contract] = opened]
           /\ build' = [build EXCEPT !.jobs = (@ \ {j}) \cup
                            {[j EXCEPT !.opened = opened.opened]}]
    /\ UNCHANGED <<status, remembers, machine, aggregator, pending, lock,
                   clock, db, handed, issued, faults, spent>>

\* The subtree updated is the one the job has opened, or found.
UpdateStorageSlot(j) ==
    /\ j.opened # 0
    /\ trees' = IF trees[j.contract].opened = j.opened
                THEN [trees EXCEPT ![j.contract].content[j.slot] = j.value]
                ELSE trees
    /\ build' = [build EXCEPT !.jobs = @ \ {j}]
    /\ UNCHANGED <<status, remembers, machine, aggregator, pending, lock,
                   clock, db, handed, issued, faults, spent>>

BaseTree == [c \in Contracts |-> trees[c].leaf]

\* The contracts' leaves, then the root: nothing else touches the trees.
UpdateContractSlots ==
    /\ build.at = "storage"
    /\ build.jobs = {}
    /\ LET contracts == {k[1] : k \in DOMAIN ModifiedStorage(build.block)}
       IN  trees' = [c \in Contracts |->
                        IF c \in contracts
                        THEN [trees[c] EXCEPT !.leaf = trees[c].content]
                        ELSE trees[c]]
    /\ build' = [build EXCEPT !.at = "submitting", !.root = BaseTree']
    /\ UNCHANGED <<status, remembers, machine, aggregator, pending, lock,
                   clock, db, handed, issued, faults, spent>>

\* A subtree's empty leaf is where a new contract's should be, unless it has
\* been deleted since.
ContractMeetsSlot ==
    /\ build.jobs = {}
    /\ \E k \in DOMAIN ModifiedStorage(build.block), c \in Contracts :
          trees[k[1]].leaf = NoLeaf /\ Holding(c, Neighbour(k[1]))

\* A value is not where its slot is.  The updates of its block that are still
\* to come are not followed: they are part of the step.
Misplace ==
    /\ build.at = "storage"
    /\ (\E j \in build.jobs : j.opened # 0 /\ MeetsAnother(j))
          \/ ContractMeetsSlot
    /\ Fails("misplaced")
    /\ build' = [build EXCEPT !.at = "submitting", !.jobs = {},
                              !.root = BaseTree]
    /\ UNCHANGED <<status, remembers, machine, aggregator, pending, lock,
                   trees, clock, db, handed, issued>>

\* The error ends the call: processing stops at this result, init fails, or
\* no timeout is armed.
Throw ==
    /\ build' = NoBuild
    /\ lock' = Tail(lock)
    /\ aggregator' = IF Holds("add")
                     THEN [aggregator EXCEPT !.at = "idle", !.res = None,
                                             !.index = 0, !.callers = @ - 1]
                     ELSE aggregator
    /\ status' = IF Holds("init") THEN "down" ELSE status

\* A subtree cannot be made, or an update throws for want of nodes.  The block
\* is gone.  What other updates of it still write is not followed: nothing is
\* claimed of the trees from here on.
BuildFails ==
    /\ build.at = "storage"
    /\ \/ /\ \E j \in build.jobs : j.opened = 0 /\ IsPlaceholder(j.contract)
          /\ faults' = faults \cup {"submit"}
          /\ UNCHANGED spent
       \/ /\ \E j \in build.jobs : j.opened # 0 /\ MeetsAnother(j)
          /\ Fails("submit")
    /\ Throw
    /\ UNCHANGED <<remembers, machine, pending, trees, clock, db, handed,
                   issued>>

-----------------------------------------------------------------------------
LastQueued == IF handed.queued = <<>> THEN 0
              ELSE Last(handed.queued).blockNumber

\* The submitter ignores a block that is not newer than its last one.
Hand(block) ==
    handed' = [all    |-> Append(handed.all, block),
               queued |-> IF block.blockNumber <= LastQueued
                          THEN handed.queued
                          ELSE Append(handed.queued, block)]

Submitted ==
    /\ build.at = "submitting"
    /\ Hand(build.block)
    /\ build' = [build EXCEPT !.at = "count"]
    /\ UNCHANGED <<status, remembers, machine, aggregator, pending, lock,
                   trees, clock, db, issued, faults, spent>>

\* It throws, before or after it has queued the block.
SubmitFails ==
    /\ build.at = "submitting"
    /\ Fails("submit")
    /\ Hand(build.block) \/ UNCHANGED handed
    /\ Throw
    /\ UNCHANGED <<remembers, machine, pending, trees, clock, db, issued>>

\* Mutant: leaves the count to the next transaction.
CountReset_Skipped ==
    /\ build.at = "count"
    /\ build' = [build EXCEPT !.at = "number"]
    /\ UNCHANGED <<status, remembers, machine, aggregator, pending, lock,
                   trees, clock, db, handed, issued, faults, spent>>

CountReset ==
    /\ build.at = "count"
    /\ db' = [db EXCEPT !.count = 0]
    /\ build' = [build EXCEPT !.at = "number"]
    /\ UNCHANGED <<status, remembers, machine, aggregator, pending, lock,
                   trees, clock, handed, issued, faults, spent>>

BlockNumberStored ==
    /\ build.at = "number"
    /\ db' = [db EXCEPT !.number = pending.blockNumber]
    /\ build' = NoBuild
    /\ clock' = Clock(1, clock.armed + clock.old)
    /\ Return
    /\ UNCHANGED <<remembers, machine, pending, trees, handed, issued, faults,
                   spent>>

\* A timeout armed before the last submission comes too early.
TimeoutFires ==
    /\ status \in {"processing", "running"}
    /\ \/ /\ clock.armed > 0
          /\ clock' = [clock EXCEPT !.armed = @ - 1, !.elapsed = TRUE]
       \/ /\ clock.old > 0
          /\ clock' = [clock EXCEPT !.old = @ - 1]
    /\ lock' = Append(lock, "timer")
    /\ UNCHANGED <<status, remembers, machine, aggregator, pending, build,
                   trees, db, handed, issued, faults, spent>>

-----------------------------------------------------------------------------
(***************************************************************************)
(* Crash and restart.  Without a stored count the builder starts fresh;    *)
(* else it recovers its pending block and tries to submit it at once.      *)
(***************************************************************************)
Fresh == db.count = Absent

\* Mutant: recovers one transaction too few.
RecoveredBlock_OneShort ==
    IF Fresh THEN Block(0, <<>>)
    ELSE Block(IF db.number = Absent THEN 1 ELSE db.number,
               [i \in 1..(db.count - 1) |-> db.txs[i]])

RecoveredBlock ==
    IF Fresh THEN Block(0, <<>>)
    ELSE Block(IF db.number = Absent THEN 1 ELSE db.number,
               [i \in 1..db.count |-> db.txs[i]])

\* The results from the one last processed on: it is taken for the next.
RecoveredResults ==
    IF remembers /\ db.next # Absent THEN {n \in issued : n >= db.next} ELSE {}

NextToProcess == IF db.next = Absent THEN 1 ELSE db.next

Restarted ==
    /\ status' = IF Fresh THEN "processing" ELSE "building"
    /\ machine' = [machine EXCEPT !.next = machine.stored, !.applying = None,
                                  !.returned = {}]
    /\ aggregator' = [NoAggregator EXCEPT
                         !.next = NextToProcess,
                         !.queue = RecoveredResults,
                         !.callers = IF Fresh THEN 1 ELSE 0]
    /\ pending' = RecoveredBlock
    /\ lock' = IF Fresh THEN <<>> ELSE <<"init">>
    /\ build' = NoBuild
    /\ trees' = NoTrees
    /\ clock' = Clock(IF Fresh THEN 1 ELSE 0, 0)
    /\ UNCHANGED <<remembers, db, handed, issued>>

Crash ==
    /\ status # "down"
    /\ spent.crashes < MaxCrashes
    /\ spent' = [spent EXCEPT !.crashes = @ + 1]
    /\ faults' = faults \cup {"crash"}
    /\ Restarted

\* After an init that failed.
Start ==
    /\ status = "down"
    /\ Restarted
    /\ UNCHANGED <<faults, spent>>

StateMachine == Apply \/ NumberStored \/ NumberFails

Aggregator ==
    \/ \E n \in machine.returned : HandleResult(n)
    \/ Process \/ AddTransactionResult
    \/ TransactionStored \/ CountStored \/ NextStored

Builder ==
    \/ Deferred \/ BuildBlock
    \/ \E j \in build.jobs : OpenSubtree(j) \/ UpdateStorageSlot(j)
    \/ UpdateContractSlots \/ Misplace \/ BuildFails
    \/ Submitted \/ SubmitFails
    \/ CountReset \/ BlockNumberStored

Next ==
    \/ StateMachine \/ Aggregator \/ Builder
    \/ TimeoutFires
    \/ Crash \/ Start

Fairness ==
    /\ WF_vars(NumberStored \/ Aggregator)
    /\ WF_vars(Builder)
    /\ WF_vars(TimeoutFires)

Spec == Init /\ [][Next]_vars /\ Fairness

-----------------------------------------------------------------------------
(***************************************************************************)
(* Properties.                                                             *)
(***************************************************************************)
Blocks == [blockNumber : Nat, txs : Seq(Transactions)]

NodeType ==
    /\ status \in {"down", "building", "processing", "running"}
    /\ remembers \in BOOLEAN
    /\ issued \subseteq Transactions
    /\ faults \subseteq {"number", "submit", "overlap", "reopened",
                         "misplaced", "crash"}
    /\ spent \in [crashes : 0..MaxCrashes, failures : 0..MaxFailures]

CallsType ==
    /\ machine \in [next : Nat, stored : Nat, applying : Nat,
                    returned : SUBSET Transactions]
    /\ aggregator \in [queue : SUBSET Transactions, next : Nat, callers : Nat,
                       at : {"idle", "tx", "count", "submitting", "next"},
                       res : Nat, index : Nat]

BuilderType ==
    /\ pending \in Blocks
    /\ lock \in Seq({"add", "timer", "init"})
    /\ build = [at |-> build.at, block |-> build.block, jobs |-> build.jobs,
                root |-> build.root]
    /\ build.at \in {"none", "storage", "submitting", "count", "number"}
    /\ build.block \in Blocks
    /\ clock \in [armed : Nat, old : Nat, elapsed : BOOLEAN]
    /\ handed \in [all : Seq(Blocks), queued : Seq(Blocks)]

DatabaseType ==
    /\ db = [txs |-> db.txs, count |-> db.count, number |-> db.number,
             next |-> db.next]
    /\ \A i \in DOMAIN db.txs : i \in Nat /\ db.txs[i] \in Transactions
    /\ {db.count, db.number, db.next} \subseteq Nat \cup {Absent}

\* The variables keep to the values their uses in the code expect: a number
\* is never negative, a key of the database may be absent.
TypeOK == NodeType /\ CallsType /\ BuilderType /\ DatabaseType

Accidents == {"submit", "crash"}

Txs(blocks) == FlattenSeq([i \in DOMAIN blocks |-> blocks[i].txs])

Taken ==
    Txs(handed.all)
        \o (IF build.at \in {"storage", "submitting"} THEN build.block.txs
                                                     ELSE <<>>)
        \o pending.txs

\* Unless building or submitting one threw or the node crashed, the blocks handed over, the
\* one being built and the pending one are, in order, the transactions passed
\* on so far, each once: whatever the timer submits while one is added.
TransactionsInOrder ==
    faults \cap Accidents = {} =>
        Taken = [i \in 1..(IF aggregator.at = "idle" THEN aggregator.next - 1
                                                     ELSE aggregator.res) |-> i]

\* A number whose result was returned is never given again, not even after a
\* crash or a failed write.
NumbersAreUnique == machine.applying \notin issued

\* The blocks the submitter queues are numbered 1, 2, ... as those of the
\* contract, whenever the node crashes, unless building or submitting failed.
QueuedNumbersAreContiguous ==
    "submit" \notin faults =>
        \A i \in DOMAIN handed.queued : handed.queued[i].blockNumber = i

\* The builder counts blocks from 0, the submitter from 1: without a crash or
\* a failed submission, it queues every block but the first.
OnlyBlockZeroIsIgnored ==
    faults \cap Accidents = {} /\ handed.all # <<>> =>
        handed.queued = Tail(handed.all)

\* Numbers: a transaction's is its own, and the queue's are the contract's,
\* but for the block the submitter drops.
NumberingInv ==
    TypeOK /\ NumbersAreUnique /\ QueuedNumbersAreContiguous
           /\ OnlyBlockZeroIsIgnored

Quiet == status = "running" /\ aggregator.at = "idle" /\ build.at = "none"

\* A node that is neither processing nor submitting would recover its pending
\* block, after crashes too, unless a transaction was added while a block
\* was submitted, or building or submitting one failed.
QuietIsDurable ==
    Quiet /\ faults \cap {"overlap", "submit"} = {} =>
        /\ RecoveredBlock.txs = pending.txs
        /\ RecoveredBlock.blockNumber = pending.blockNumber
              \/ pending.blockNumber = 0
        /\ db.next # Absent => db.next >= aggregator.next - 1

\* No two blocks queued have a transaction in common, though a block may be
\* recovered and submitted again after a crash: unless the machine remembers
\* its results, for then a restarted node processes the last ones again.
NoTransactionTwice ==
    /\ faults \cap {"overlap", "submit"} = {}
    /\ remembers => "crash" \notin faults
    => IsInjective(Txs(handed.queued))

\* Whatever was numbered reaches the submitter once, in the order of numbers.
EachOnceInOrder == TransactionsInOrder /\ NoTransactionTwice

\* What a slot holds after transactions in order.
Written(c, s, txs) ==
    Max({None} \cup {n \in Range(txs) : <<c, s>> \in Modified[n]})

\* The root submitted with a block commits, for every contract written so far,
\* to the last value of each of its slots, unless the node was restarted, two
\* slots of a contract without a tree were in one block, or nodes of two trees
\* met in their store.
RootCommitsToStorage ==
    /\ build.at = "submitting"
    /\ faults \cap {"crash", "submit", "reopened", "misplaced"} = {}
    => LET txs == Txs(handed.all) \o build.block.txs
            content(c) == [s \in Slots |-> Written(c, s, txs)]
        IN  \A c \in Contracts :
                build.root[c] = IF content(c) = EmptyTree THEN NoLeaf
                                                          ELSE content(c)

\* Unless something throws or the node crashes, every transaction is handed
\* over in a block, also when no other follows that would fill it: time and
\* again, all those processed so far are.
EventuallyHanded ==
    []<>(\/ issued \subseteq Range(Txs(handed.all))
         \/ faults \cap ({"number"} \cup Accidents) # {})

(***************************************************************************)
(* The inductive invariants behind TypeOK, NumberingInv, QuietIsDurable,   *)
(* EachOnceInOrder and RootCommitsToStorage.                               *)
(***************************************************************************)
\* A number is returned only below the one stored.
NumberShape ==
    /\ issued \subseteq 1..(machine.stored - 1)
    /\ machine.stored <= machine.next
    /\ machine.applying # None =>
          /\ machine.applying = machine.next - 1
          /\ machine.stored <= machine.applying
          /\ machine.applying \in Transactions
    /\ machine.returned \subseteq issued
    /\ aggregator.queue \subseteq issued
    /\ aggregator.at # "idle" =>
          aggregator.res = aggregator.next /\ aggregator.res \in issued
    /\ db.next # Absent => db.next \in issued

\* Who waits for whom.
CallShape ==
    /\ aggregator.at # "idle" => aggregator.callers > 0
    /\ \A i \in DOMAIN lock : lock[i] = "add" => aggregator.at = "submitting"
    /\ \A i, j \in DOMAIN lock : lock[i] = "add" /\ lock[j] = "add" => i = j
    /\ build.at # "none" => lock # <<>>
    /\ status = "down" => "submit" \in faults

\* Every transaction that the count covers is stored.
StoredShape ==
    /\ 1..Len(pending.txs) \subseteq
          DOMAIN db.txs \cup (IF aggregator.at = "tx" THEN {aggregator.index}
                                                     ELSE {})
    /\ aggregator.at = "count" => 1..aggregator.index \subseteq DOMAIN db.txs
    /\ db.count # Absent => 1..db.count \subseteq DOMAIN db.txs

\* A block is taken from the pending one and not yet handed over.
Taking == build.at \in {"storage", "submitting"}

\* The numbers of the blocks.
BlockShape ==
    /\ "submit" \notin faults =>
          /\ \A i \in DOMAIN handed.queued : handed.queued[i].blockNumber = i
          /\ IF Taking
             THEN build.block.blockNumber <= Len(handed.queued) + 1
             ELSE pending.blockNumber <= Len(handed.queued) + 1
          /\ db.number # Absent => db.number <= Len(handed.queued) + 1
    /\ build.at # "none" => pending.blockNumber = build.block.blockNumber + 1
    /\ faults \cap Accidents = {} =>
          /\ handed.queued = IF handed.all = <<>> THEN <<>> ELSE Tail(handed.all)
          /\ pending.blockNumber = Len(handed.all) + (IF Taking THEN 1 ELSE 0)

NodeInv == TypeOK /\ NumberShape /\ CallShape /\ StoredShape /\ BlockShape

\* What a restart would recover, at every await.
RecoveredTxs == RecoveredBlock.txs

SameUpTo(n) == \A i \in 1..n : db.txs[i] = pending.txs[i]

Durable ==
    /\ aggregator.at \in {"tx", "count"} =>
          /\ build.at = "none"
          /\ aggregator.index = Len(pending.txs) /\ pending.txs # <<>>
          /\ aggregator.res = Last(pending.txs)
          /\ db.count = IF Fresh THEN Absent ELSE aggregator.index - 1
          /\ Fresh => aggregator.index = 1
    /\ aggregator.at = "tx" => SameUpTo(aggregator.index - 1)
    /\ aggregator.at = "count" => SameUpTo(aggregator.index)
    /\ aggregator.at \notin {"tx", "count"} /\ build.at = "none" =>
          RecoveredTxs = pending.txs
    /\ build.at # "none" => pending.txs = <<>> /\ ~Fresh
    /\ build.at \in {"storage", "submitting", "count"} =>
          RecoveredTxs = build.block.txs
    /\ build.at = "number" => db.count = 0
    /\ Fresh => pending.blockNumber = 0
    /\ LET number == IF build.at = "none" THEN pending.blockNumber
                                          ELSE build.block.blockNumber
       IN  RecoveredBlock.blockNumber = number \/ number = 0
    /\ db.next # Absent => aggregator.next <= db.next + 1

Unhurt == faults \cap {"overlap", "submit"} = {}

DurableShape == Unhurt => Durable

Ordered ==
    /\ Taken = [i \in 1..Len(Taken) |-> i]
    /\ Len(Taken) = IF aggregator.at = "idle" THEN aggregator.next - 1
                                              ELSE aggregator.next

OrderShape == faults \cap Accidents = {} => Ordered

\* A node that waits for a result which was returned before a crash.
Stuck ==
    /\ aggregator.at = "idle" /\ aggregator.next \in issued
    /\ aggregator.next \notin aggregator.queue \cup machine.returned

Increasing(txs) ==
    \A i, j \in DOMAIN txs : i < j => txs[i] < txs[j]

Below(txs, others) ==
    \A i \in DOMAIN txs : \A j \in DOMAIN others : txs[i] < others[j]

\* The block after the blocks queued, if it is one the submitter will queue.
Fits(block) ==
    /\ Increasing(block.txs)
    /\ block.blockNumber > Len(handed.queued) =>
          Below(Txs(handed.queued), block.txs)

\* Passed on already, or nothing will be passed on any more.
PassedOn(txs) ==
    \/ \A i \in DOMAIN txs : \/ txs[i] < aggregator.next
                             \/ /\ txs[i] = aggregator.next
                                /\ aggregator.at # "idle"
    \/ Stuck

NothingYet ==
    /\ aggregator.next = 1 /\ aggregator.at = "idle"
    /\ db.next = Absent /\ Fresh
    /\ Txs(handed.queued) = <<>> /\ pending.txs = <<>>
    /\ build.at = "none"

Once ==
    /\ Increasing(Txs(handed.queued))
    /\ IF Taking THEN Fits(build.block) ELSE Fits(pending)
    /\ PassedOn(Txs(handed.queued)) /\ PassedOn(pending.txs)
    /\ PassedOn(build.block.txs)
    /\ build.at # "none" => Increasing(build.block.txs)
    /\ (IF build.at = "none" THEN pending ELSE build.block).blockNumber = 0 =>
          handed.queued = <<>>
    /\ build.at \in {"count", "number"} =>
          build.block.blockNumber <= Len(handed.queued)
    /\ 1 \notin issued => NothingYet

TwiceShape == Unhurt /\ (remembers => "crash" \notin faults) => Once

\* The transactions whose storage is in the base tree.
Committed ==
    Txs(handed.all)
        \o (IF build.at = "submitting" THEN build.block.txs ELSE <<>>)

ValueOf(c, s) == Written(c, s, Committed)

StorageOf(c) == [s \in Slots |-> ValueOf(c, s)]

LeafOf(content) == IF content = EmptyTree THEN NoLeaf ELSE content

\* What the block being built modifies, and what of it is in the subtrees.
Storage == ModifiedStorage(build.block)

IsJob(j, k) == j.contract = k[1] /\ j.slot = k[2]

Updated(k) ==
    /\ build.at = "storage" /\ k \in DOMAIN Storage
    /\ \A j \in build.jobs : ~IsJob(j, k)

SubtreeOf(c) ==
    [s \in Slots |-> IF Updated(<<c, s>>) THEN Storage[<<c, s>>]
                                         ELSE ValueOf(c, s)]

JobShape ==
    /\ \A j \in build.jobs :
          /\ j = [contract |-> j.contract, slot |-> j.slot,
                  value |-> j.value, opened |-> j.opened]
          /\ <<j.contract, j.slot>> \in DOMAIN Storage
          /\ j.value = Storage[<<j.contract, j.slot>>]
          /\ j.opened # 0 => j.opened = trees[j.contract].opened
    /\ \A i, j \in build.jobs :
          i.contract = j.contract /\ i.slot = j.slot => i = j

TreesFollow ==
    /\ trees = [c \in Contracts |->
                   [opened |-> trees[c].opened, content |-> SubtreeOf(c),
                    leaf |-> LeafOf(StorageOf(c))]]
    /\ build.at = "storage" => JobShape /\ ~OpensTwice(DOMAIN Storage)
    /\ build.at # "storage" => build.jobs = {}
    /\ build.at = "submitting" => build.root = BaseTree

TreeShape ==
    faults \cap ({"reopened", "misplaced"} \cup Accidents) = {} => TreesFollow
=============================================================================
