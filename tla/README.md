# Formal models of Pigi

TLA+ models of the rollup and plasma software in this repository, the TLC
configurations that check them on small instances, and theorems about them that
the TLA+ proof system checks. Paths below are relative to `src/packages/`.

## 1. The system

Pigi is a set of TypeScript packages and Solidity contracts for layer-2 chains.
Its most complete program is *Unipig*, an optimistic rollup of a Uniswap
exchange: an aggregator applies client transactions off-chain, promises each a
place in a block by a signed receipt, and submits blocks to a contract; a
validator replays the blocks and proves fraud. `rollup-aggregator` and
`rollup-core` generalise it. `plasma` and `ovm` hold an earlier plasma operator
and the predicates of a state channel; `core-db` and `core-utils` are shared.

| Component | Source | State it keeps | Operations | What makes it hard | What makes it correct |
|---|---|---|---|---|---|
| Block submitter | `unipig/src/aggregator/rollup-block-submitter.ts`, `rollup-aggregator/src/app/block-submitter.ts` | last submitted, confirmed and queued number, queue of blocks; the same in its database | init, submitBlock, handleNewRollupBlock | calls overlap at their awaits; crash between RPC and write; the contract renumbers blocks | every block once, in order, one unconfirmed at a time |
| Aggregator | `unipig/src/aggregator/rollup-aggregator.ts` | pending block, timeouts; block number, length and transitions in its database | applyTransaction, requestFaucetFunds, getState, submitBlock, init | one lock, calls nobody awaits, three databases written in turn | receipts are honoured, one root per slot, no gap between transitions |
| Ethereum event processor | `core-db/src/app/ethereum/ethereum-event-processor.ts` | subscriptions, sync status; last synced block in its database | subscribe, live callback | live events during the fetch of the history; listeners not awaited | no event forgotten, first seen in order |
| Ethereum block processor | `core-db/src/app/ethereum/ethereum-block-processor.ts` | as above, for blocks | subscribe | as above | as above |
| Rollup state machine | `unipig/src/common/rollup-state-machine.ts` | balances in a sparse Merkle tree, slot of each address, durable root | applyTransaction(s), getState, init | partial failure of a batch, awaited checks, slot allocation | balances conserved, never negative, root recoverable |
| Fraud guard, state validator | `unipig/src/validator/` | position, snapshots, last validated block | handleNewRollupBlock, checkNextTransition | restart in the middle of a block, order of events | an invalid block is proved invalid, a valid one never |
| Rollup contracts | `unipig/src/contracts/`, `rollup-contracts/contracts/` | array of block roots | submitBlock, proveTransitionInvalid, pruneBlocksAfter | numbering from 0 and from 1, pruning without shrinking | only invalid transitions are pruned |
| Generic rollup node | `rollup-aggregator/src/app/aggregator.ts`, `block-builder.ts`, `rollup-core/src/app/state-machine.ts` | transaction number, pending block | applyTransaction, addTransactionResult, submitBlock | keys shared by consecutive blocks, asynchronous build | each transaction result in one block, in order |
| Sparse Merkle tree | `core-db/src/app/block-production/merkle-tree.ts` | nodes by hash, root | update, verifyAndStore, getMerkleProof | parallel writes and deletes of nodes | the root commits to the leaves |
| Merkle interval tree | `core-db/src/app/block-production/merkle-interval-tree.ts` | tree over sorted ranges | generate, inclusion proof | implicit bounds of inner nodes | disjoint ranges have unique proofs |
| Database layer | `core-db/src/app/db.ts`, `range-bucket.ts`, ... | key-value store, ranges by their end | put, get, del over a range | splitting of overlapping ranges | ranges stay disjoint |
| Plasma operator | `plasma/src/app/` | next block, pending state updates, verified states | addPendingStateUpdate, submitNextBlock, executeTransaction | finalised before it is submitted | a state update is in one block |
| OVM deciders, state channel | `ovm/src/app/` | messages, signatures, decisions | createNewMessage, handleMessage, decide, exit | conflicting or repeated messages | the last agreed state can be exited |
| Transition codec | `unipig/src/common/serialization/`, decoding in `UnipigTransitionEvaluator.sol` | none | encode and parse transactions, transitions, states, receipts | formats without a tag, told apart by which parser throws; three readers in two languages | what is parsed back encodes to the same bytes; the contract rebuilds the bytes the client signed |
| Clients, utilities, web site | `unipig/src/common/`, `core-utils/src/app/`, `unipig/src/web/` | none of their own | transport, cryptography, user interface | | |

How they interact: `exec/unipig-aggregator.ts` creates the state machine, the
submitter and the aggregator, each on a database of its own, and subscribes the
aggregator to the contract's `NewRollupBlock` event. The aggregator calls the
state machine and the submitter under its lock; the event processor calls the
aggregator, which calls the submitter's handler without any lock. The submitter
calls the contract; the contract's event comes back through the event processor.
The validator subscribes to the same event and calls the contract to prove
fraud.

## 2. The modules

### BlockSubmitter

One variable per field of the class (`lastSubmitted`, `lastConfirmed`,
`lastQueued`, `blockQueue`), `db` and `dbBlocks` for its keys, `mempool` and
`chain` for the Ethereum node and the contract. A block is its number. Process
`Main` runs `init()` and the aggregator's `submitBlock()` calls, which the
aggregator's lock keeps apart; each member of `Handlers` is an invocation of
`handleNewRollupBlock()`. `pc[p]` is the await at which `p` is suspended: a call
runs from one await to the next in one action, as the event loop runs it, and a
write lands and resumes its caller in one step (a crash may come first).

| Action | Code (`rollup-block-submitter.ts`) |
|---|---|
| `Start` | `init()`, 47-91, up to its RPC |
| `SubmitBlock`, `BlockStored`, `QueuedStored` | `submitBlock()`, 93-117, between its awaits |
| `HandleNewRollupBlock`, `ConfirmedStored`, `RaisedStored` | `handleNewRollupBlock()`, 119-152 |
| `TrySubmitNextBlock`, `RpcAccepted`, `RpcReplied`, `RpcRejected`, `RpcReplyLost`, `SubmittedStored` | `trySubmitNextBlock()`, 154-197 |
| `Mine` | the contract's `submitBlock` (`RollupChain.sol`, 58-73), which numbers blocks by arrival |

`CONSTANT`s choose the environment: whether calls overlap (`Serialized`), at
which awaits the node may crash (`CrashPoints`), whether a transaction may be
rejected (`RpcMayFail`) or its answer lost (`ReplyMayBeLost`). The history
variable `overlap` records that a call started while another one was under way:
`SentIsDurable` and `DurableProgress` are promised until then. A call that
changes nothing (an old block, an event that does not confirm the head) has no
action. Failing database writes, reorganisations of Ethereum and the content of
blocks are not modelled.

`RollupLedger` is what the submitter promises: blocks are queued, posted once
each in order, and confirmed before the next is posted. `LedgerSafety` and
`LedgerFair` state that the submitter implements it, with the durable
`last_queued`, the contract and the durable `last_confirmed` as its state.

### RollupAggregator

`lock` is the FIFO queue of the callers of the AsyncLock, its head the holder,
`at` the await of the holder. A state root is the number of updates the state
machine has applied, and a transition is the root it carries: a gap or a
repetition in the contract is then visible as a jump of the roots. `db` holds
`pending_block_number`, `last_transition` and the `TRANS_i` keys; `stored` and
`lastQueued` are the submitter's database and `held` its memory, which shares
the pending block object while `shared` holds. The sends of the submitter are
one action, `Post`, that takes the queued blocks in order: this is
`RollupLedger`, which `BlockSubmitter` implements in its exact environment.

| Action | Code (`rollup-aggregator.ts`) |
|---|---|
| `Start` | `init()`, 129-189, after the submitter's |
| `Request` | a client call reaches `lock.acquire` (214, 260, 329) |
| `QueryAnswered` | `getState()`, 208-246 |
| `TransactionApplied`, `FirstFaucetTransferApplied`, `SecondFaucetTransferApplied`, `Refused`, `RefusedApplied`, `SecondFaucetTransferRefused` | the state machine's part of `applyTransaction()` and `requestFaucetFunds()` |
| `Push`, `TransitionStored`, `LastStored` | `addToPendingBlock()`, 425-470, the receipt, and the check for a full block (272, 343) |
| `Deferred`, `Submitted`, `BlockStored`, `QueuedStored`, `Queued`, `SubmitFailed`, `LastReset`, `PendingStored` | `submitBlock()`, 499-536, with the submitter's writes |
| `TimeoutFires`, `IntervalElapses` | `setBlockSubmissionTimeout()`, 538-542, and the clock |

`RefusedApplied` is a transaction that the state machine answers with an error
after it has changed its tree: a swap that the sender cannot pay for (the check
is not awaited, `rollup-state-machine.ts`, 559; the pool's leaf is written by
607-610 beside the sender's, which fails), a transfer to oneself (the root is
stored at 326, the sender's proof of before it fails at 345), and a swap signed
by the aggregator for a sender without a slot (331). `RefusalMayApply` allows
it; the second transfer of a faucet request may be refused in the same way.

The history variable `inStep` records whether the three databases (the state
machine's, the submitter's and the aggregator's) still belong together: a crash
outside the awaits `InStep`, a submitter call that throws, a faucet request
applied by half and a refusal that was applied make it false, and the properties
about receipts are promised as long as it is true. A receipt counts as signed
when the lock is released: the answer may leave at any time after. Not modelled:
`tx_count`, `synced` (a request before the sync is refused without effect),
signatures, and the limit of waiting callers of AsyncLock.

### EventProcessor

One event of one contract. An event is its position in the contract's log.
`sync` is the await of the first `subscribe()` call; `LiveEvent` and
`BlockStored` are the two halves of the live callback. `got` is a history of
what each listener was sent, `done` what it finished, `working` its calls that
nobody awaits. The provider polls from its current block on (that is ethers, not
this repository). The history variable `raced` records what the code has no
answer to: a live event while the history is being fetched, a crash while a
listener is at work on an event whose block is stored already, and a crash
between two events of one block.

### SparseMerkleTree

`root` is the node in memory, `db` the stored nodes, a function from identifiers
(hash and place) to values, `saved` the root hash its user stores
(`rollup-state-machine.ts`, 326). Hashes are ideal: a hash is the value it
commits to, so two nodes collide only if the code identifies them. An operation
is an operator from a store and a root to an outcome: what it returns, the root
it leaves and the batches it writes, in order. An action applies an outcome;
`CrashInUpdate` applies a prefix of the batches and any part of the next.

| Operator, action | Code (`merkle-tree.ts`) |
|---|---|
| `NodesInPath`, `UpdatedPath` | `getNodesInPath`, 425-461, `updateNode`, 472-486 |
| `VerifyAndStoreResult`, `Unknown`, `Branch`; `VerifyAndStore` | `verifyAndStore`, 122-187, with 500-516 and 548-572 |
| `EmptyPathSiblings`, `EmptyPathResult` | `verifyAndStorePartiallyEmptyPath`, 344-374 |
| `UpdateResult`; `Update` | `update`, 189-240 |
| `BatchUpdateResult`; `BatchUpdate` | `batchUpdate`, 242-271, of two leaves |
| `GivenSiblings`, `HasProof`; `GetMerkleProof`, `StoreEmptyPath` | `getMerkleProof`, 273-342, which gives the lock back half-way |
| `GetLeaf` | `getLeaf`, 84-120 |
| `Loaded`; `Restart` | `populateZeroHashesAndRoot`, 580-620 |

`leaves`, `written`, `proved` and `kept` are the history the properties compare
the tree with, and `Commitment` is the reference: the root hash computed level
by level. Updates are supposed to change their leaf. A proof of the wrong
length, failing database calls, and the order of the reads that
`getMerkleProof` makes without the lock are not modelled: siblings read half
before and half after an update are no siblings of either root, and refused.
Once a crash or a restart has taken the tree away from its last root (`clean`),
it is only read: `ReadsAreTrue` is about those states too. The module's own
`TreeInit`, `TreeNext` and `TreeSpec` carry that prefix because one module,
`CoreDb_proofs`, holds the proofs about it and about `EventProcessor`.

### UnipigTransactions, UnipigTransitionEvaluator

Operators only. `UnipigTransactions` is what the state machine computes: the
leaves a transfer or a swap writes (`TransferWrites`, `SwapWrites`, with the
rounding of `NewOutputBalance`), what it refuses (`Refused`), the slot a new
account gets (`NextSlot`, `WithKey`) and the whole of a transaction that ends
well (`ApplyTransaction`). `UnipigTransitionEvaluator` is what the contracts
compute from a transition and two proved slots (`EvaluateTransition`), with
their own checks and roundings, and the Merkle proofs by which slots are proved
(`Verify`, which reads as many bits of a slot as there are levels: `Path`). A
state root is the content of the tree, a signature is the signed
transaction with its signer. The contract's arithmetic is modulo `Width`, which
stands for 2^32; the model's numbers stay small, so that every overflow of the
code that matters can happen. The machine's numbers are JavaScript doubles
(`rollup-state-machine.ts`, 586-591, 631), modelled as exact numbers. The
programs' fee of 30 leaves more room than a double loses; with a fee of 0 and
balances near 2^31 the quotient could round to a whole number, and the pool's
product fall by one, which `SwapsKeepTheProduct` does not show.

An empty leaf that stands next to a stored one is a node of a single byte, which
`deserializeState` does not parse (433-435). `Unparsed` is an account that has a
slot but only such a leaf: every transaction with it is refused.

### RollupFraud

Composes three actors over the contract: an aggregator that posts what its state
machine computes or, in other behaviours, false transitions (`Aggregate`,
`Cheat`, `Post`); the fraud guard with its validator; and anyone who calls
`proveTransitionInvalid` (`Challenge`).

| Action | Code |
|---|---|
| `Post`, `SubmitBlock` | `RollupChain.submitBlock`, 55-73 |
| `Challenge`, `ProveTransitionInvalid`, `ProvesInvalid`, `PruneBlocksAfter` | `RollupChain.sol`, 49-53, 94-257 |
| `Receive` | `rollup-fraud-guard.ts`, `handle`, `handleNewRollupBlock`, 73-124: old blocks, gaps, blocks that do not parse |
| `CheckNextTransition`, `CheckFails`, `BlockChecked` | `rollup-state-validator.ts`, `checkNextTransition`, 114-196, `validateStoredBlock`, 203-267 |
| `DetectFraud`, `ContractFraudProof` | `generateContractFraudProof`, 269-360, and `submitFraudProof` |
| `Saved`, `Restart` | `lastBlockValidated` in the database, 135-143, and a new process |

What the contract takes for a transition of a block is what an inclusion proof
leads to, and it compares neither the index with the size of the block nor the
number of siblings with the height of its tree (`RollupChain.sol`, 245-257;
`RollupMerkleUtils.sol`, 95-109). So an `IncludedTransition` carries its number
of siblings, `NodeOf` is what the bits of the index lead to in a tree of
`Levels` levels, and all that is not a transition, inner nodes and padding, is
`Garbled`: it does not decode, and an element that does not decode is pruned
(154-157). `Challenge` is about any two of the `Inclusions` of the chain.
`Element` is a transition with its own index and all its siblings, as the guard
takes it from its copy of the block (`GetIncludedTransition`), and `AtItsPlace`
says so of an included transition; the history variable `misled` records that
the contract has pruned for an element that is not at its place.

`SameLeaves` says whether the leaves that the machine stores are those that the
contract computes. In the programs they are not: the machine hashes the UTF-8
text of the hexadecimal encoding (`rollup-state-machine.ts`, 683-689), the
contract the bytes of `abi.encode` (`RollupChain.sol`, 240-244 and 269-280), so
no occupied slot can be proved, and neither can a transition with a wrong root
be pruned. The contract's own test converts the leaves
(`unipig/test/contracts/RollupChain.spec.ts`, 393-423). The run `fraud` has the
leaves of that test, `fraud_rejected` those of the programs.

A block has the number of its event, counted from 1; `IncludedTransition` and
`PruneBlocksAfter` use the contract's index, one lower. Signatures and hashes
are ideal. Not modelled: the wording of messages, the gas and the receipt of the
guard's transaction.

`STATE_TREE_HEIGHT` is the contract's constant of that name, `TreeHeight` the
state machine's `treeHeight`. The contract counts the levels above a leaf, the
machine counts the root's level too, so `HeightsAgree` says that the first is
one below the second. In the programs both are 32 (`RollupChain.sol`, 24;
`rollup-state-machine.ts`, 97 and 123): then the contract looks for the siblings
of the slots one level off, and the root it computes after a transition is that
of no tree of the machine (the second disjunct of `ProvesInvalid`). The
contract's own test builds its tree with `treeHeight + 1` levels
(`unipig/test/contracts/RollupChain.spec.ts`, 385-389). The run `fraud` uses
heights that agree, as that test does, and `fraud_rejected` heights that are
equal, as the programs do.

### UnipigStateMachine

The same state machine as a process over its database. `op` is the transaction
that holds the lock, `jobs` its two calls of `setAddressState`, which run side
by side; `disk` holds the entries of the address map, its size, the last open
slot and the root. A new account has its slot in memory before anything is
awaited; at capacity (`full`) it gets none. `faults` is a history of what the
properties have to except: a job that failed, after which the other one outlives
its transaction (`failed`), a transfer to oneself (`self`), a slot that the
machine gives but the tree does not have (`beyond`: `MaxAddresses` is twice the
number of leaves), an account known without a leaf (`orphan`), a last slot
stored without its account (`torn`), and a tree whose stored nodes are not those
of the stored root (`broken`). After `failed` even the address map is
unreliable: a job that goes on stores an entry late, and after a crash in
between two accounts share a slot.

An update of a leaf deletes the nodes of the root before it. `tree` is the
leaves that the root in memory commits to, `hidden` the slots that the nodes in
the database no longer lead to, and `Seen` what a read finds. `Start` goes on
with any root: if the stored one is not the tree's, the root is a placeholder
without children (`merkle-tree.ts`, 599-607), every balance reads as 0, and all
that a client asks is answered from there. A crash may also come between the
writes of an update (`Halved`), which loses any node of one path and what is
under it (`Branches`); later updates may then hide more (`Misplaced`: a path
that seems stored, 131-134, is not). `Whole` is that neither half a transaction
nor a broken tree has occurred. Only a missing entry of the address map makes
`create` throw (`status` is then `"lost"`).

| Action | Code (`rollup-state-machine.ts`) |
|---|---|
| `Begin` | `applyTransaction`, 281-323, up to the first writes |
| `EntryStored`, `CountStored`, `LastStored`, `LeafStored`, `JobFails` | `getOrCreateAddressKey`, 638-677, `setAddressState`, 448-477 |
| `StatesWritten`, `RootStored` | 325-358 |
| `Start`, `GenesisWrite`, `Created` | `init`, 131-197, `create`, 91-116 |
| `Crash` | a crash at any of these |

### RollupNode

The generic node: state machine, aggregator and block builder, each at its own
await, and the submitter's queue (`Hand`), which is where `BlockSubmitter` takes
over. A transaction is its number and the storage slots it modifies
(`Modified`). `Apply`, `NumberStored`, `NumberFails` give numbers;
`HandleResult`, `Process`, `NextStored` pass results on in order;
`AddTransactionResult`, `TransactionStored`, `CountStored`, `Submitted`,
`CountReset`, `BlockNumberStored` and `TimeoutFires` are the builder's, and
`UpdateContractSlots`, `UpdateStorageSlot` its trees, with the writes of one
block's slots side by side. `clock` counts the timeouts that are armed. `faults`
says which of a failed write, a failed submission, an overlap, a doubly opened
tree, a misplaced value and a crash have happened.

All trees of the builder, the base tree and the contracts' subtrees, keep their
nodes in one database (`block-builder.ts`, 117, 135, 382, 393), under the node's
hash and key and nothing of the tree (`merkle-tree.ts`, 662-681). Nodes of two
trees that agree in both are one node, and whoever deletes it deletes it for
both. What then happens depends on hashes and on the order of writes that run
side by side; the model says when nodes can meet (`MeetsAnother`,
`ContractMeetsSlot`: the same slots or neighbours in two subtrees, a slot next
to a contract's number, a block that writes two contracts, anything left behind
by an error), and leaves the outcome open: nothing, a value or a contract's leaf
that is not where it belongs (`Misplace`), or an update that throws and takes
the block with it (`BuildFails`, `Throw`). One case is certain: a contract whose
neighbour `c` xor 1 has a leaf finds the base tree's one-byte placeholder where
its own leaf should be, takes it for a root, and `create()` throws
(`IsPlaceholder`), unless a slot of the same key has deleted it before.

### Deciders, StateChannel

`Deciders` is each decider and quantifier as an operator from what one client
knows (the signatures and preimages in its databases) and the input to a
decision: yes, no, or unknown for the `CannotDecideError`, with its
justification. `Truth` is the reference: what a property says given everything
that was ever signed. `Decide` and `Truth` are written out for properties nested
two deep (`DecideSimple`, `DecideFlat`), as those that clients exit with are, so
that they can be proved about.

`StateChannel` is the clients: a call is a task in the bag `tasks[c]` that goes
on from await to await (`CreateNewMessage`, `SignAndSaveMessage`,
`HandleMessage`, `StoreReceived`, `CheckNewMessage`, `ExitChannel`,
`MarkChannelExited`, `HandleChannelExit`). What is sent stays in `signed` and
may be received at any time, again, or never. The message database is an
interface of `src/`; it is modelled by its documentation and by the
implementation in the tests. `mishaps` says which messages crossed, overtook
each other, were not acceptable or were misread, and `made` which messages were
created and by whom; both are only for the properties.

A message travels as text, in which numbers are written in hexadecimal
(`core-utils/src/app/number.ts`, 98-100) and from which they are read as decimal
(`ovm/src/app/serialization/serializers.ts`, 109 and 128): 16 arrives as 10.
`ReadNumber` is that conversion, `ReadBack` what it makes of a message,
`Received` what a recipient gets of an `Envelope`; the deciders parse the values
of quantifiers in the same way (`Instance`). The properties hold as long as no
message with such a number was created (`Readable`). Signatures do not catch it:
what is signed and verified is the text taken for hexadecimal
(`core-utils/src/app/signatures.ts`, 18 and 31), and since a JSON text begins
with a brace, every signature is one of the empty message. In the model a
signature therefore goes with its message whatever that is read as; that it
would also verify on any other message of its signer is not modelled, because no
client of the repository moves a signature. The last section of the module is
the inductive invariant `Inv`.

Two exceptions in the properties are what the code does, found when the
invariant was sought; the bounds of the run are too small to reach either:

* `ValidStatesAgree` leaves out a message that both parties created. When their
  calls of `createNewMessage` overlap and give the same balances, each signs the
  very message of the other unawares, and with another such pair the two hold
  two messages of one nonce that both have signed;
* `UpheldExitsStand` is about a client with one channel. The claim of
  `exitChannel` quantifies over all messages that the claimant has signed,
  without a channel, so a higher nonce in a channel with a third client refutes
  a sound exit.

### TransitionCodec

Encoders and parsers as operators over sequences of 32-byte words; the ABI coder
of ethers is external (`Encode`, `Decode`, `Readable`), and reads what an offset
leads to, whether or not an encoder put it there. A reading across two words is
`Straddling`. A sender may name any address as its recipient (`Clients`), and a
new account's address stands where other formats have the token type: a creation
of account 0 or 1 whose amount is a readable offset is read back as a transfer
(`CreatesTokenAddress`), and the properties of the transition except it. The
actions take one transaction along its way: `SendTransaction`,
`AddToPendingBlock`, the receipt (`ReadReceipt`), `RecoverPending` after a
restart of the aggregator, `QueueBlock` and `RecoverQueue` of the submitter,
`PostBlock`, `GuardReads`. `Nothing` is what has not been made yet. Programs get
their receipts as JSON; that a receipt is parsed back from its encoding
(`ReadReceipt`) is what the package's tests and users do. `CodecInit`,
`CodecNext` and `CodecSpec` carry a prefix because `NodeAndCodec_proofs` holds
the proofs about this module and about `RollupNode`, which need the same lemmas
about sequences.

### MC modules

`MCBlockSubmitter` and `MCRollupAggregator` name the sets of crash points the
runs use, `MCSparseMerkleTree` one content of each shape for the trees known by
their root hash: the code treats left and right alike, so the other contents
only exchange children. `MCRollupFraud` and `MCUnipigStateMachine` give a
genesis and the transactions, `MCRollupNode` the slots that transactions write
(in two contracts that are neighbours, one slot beside the other's number),
`MCStateChannel` the messages, `MCTransitionCodec` balances and the words of a
signature. `EventProcessor` needs no definitions.

## 3. The runs

Some of the properties are conjunctions of named parts, one per line below the
table.

| Run | Checks | Shows |
|---|---|---|
| `submitter_any` | `TypeOK`, `NeverEarly`, `RecoveryReadsStoredBlocks`, `SentIsDurable`, `DurableProgress` | overlap, crashes at every await, rejected and unanswered transactions: no block overtakes its predecessors, and `init()` finds every block it reloads; until calls overlap, a block is durable before it is sent and the counters never go back |
| `submitter_exact` | `ChainFollowsQueue`, `LedgerSafety`, `LedgerFair` | without overlap or rejections, and without a crash between the acceptance of a block and the write of `last_submitted` or while a confirmation is handled, the fair ledger is implemented: every queued block is posted once, in order, and confirmed |
| `aggregator` | `TypeOK`, `NumbersAreContiguous`, `QuietIsDurable`, `ReceiptsHonouredInStep`, `ChainInv`, `ReceiptsArePosted` | crashes anywhere, a throwing submitter, half-applied faucet requests, refusals of what was applied: numbers stay contiguous and a quiet node is durable; while the databases are in step, receipts are honoured and in the end posted, no slot is signed for two roots, transitions follow each other |
| `aggregator_crash` | `ReceiptsHonoured`, violated | a crash after the submitter has queued block n: the recovered block n grows, and its growth is never posted |
| `events` | `DeliveryInv`, `EveryEventIsHandled` | one listener, up to two events per block: unless one of the three races happened, each event is handled, first seen in order; every start ends its synchronisation |
| `machine` | `AccountsInv`, `SupplyIsConserved`, `QuietIsRecoverable`, `PoolProductNeverDrops` | four transactions and two crashes at any write and within any update of the tree: accounts and slots are recovered, tokens are conserved and the pool's product never falls, as long as no crash breaks the tree and no transaction fails half-way; after that the process runs on, and nothing is claimed of what it reads |
| `fraud` | `ValidatorInv`, `HonestAreSafe`, `PrunedOnlyForFraud`, `AllAgree` | two blocks of two transitions, sound and false, events late, repeated and ahead, a restart, any challenge, with heights and leaves that agree: as long as the contract is not given something else than a transition at its place (`misled`), no sound block is pruned, only fraud is; and validator and contract take the same transitions for fraud |
| `fraud_rejected` | `FraudProofsPrune`, violated | the guard's own proof of a real fraud is not accepted: its block numbers are one too high, its first slot comes with the second slot's siblings, and the leaves of the machine are not those of the contract |
| `node` | `NumberingInv`, `EachOnceInOrder`, `QuietIsDurable`, `RootCommitsToStorage`, `EventuallyHanded` | three transactions on two neighbouring contracts, submission by size and by time, one crash, one failure or meeting of two trees: which promises of the generic node hold always, and which only without an overlap, a failure or a crash |
| `tree` | `RootInv`, `LeavesInv`, `OnlyTrueLeavesAreVerified`, `KnownPathsAreUpdated` | any four operations on four leaves: the root commits to the leaves, no stored path cuts another off, stale leaves pass for no proof, a torn tree reads no wrong leaf |
| `channel` | `AgreementInv`, `ExitsInv`, `DecisionsAreSound`, `EventuallyCountersigned` | two clients, two calls each at a time, a network that loses, repeats and reorders: until a message is read back as another one, one state per nonce is signed by both, upheld exits stand, decisions are sound |
| `codec` | `TransitionInv`, `ContractInv`, `ReceiptIsProvable` | a transition keeps its fields and its bytes from the aggregator to the contract and the guard, restarts included, and the contract rebuilds the bytes the client signed, unless it creates an account whose address is the number of a token type |

* `ChainInv`: `ChainIsValid`, `NoEquivocation`.
* `DeliveryInv`: `TypeOK`, `NothingForgotten`, `FirstSeenInOrder`.
* `AccountsInv`: `TypeOK`, `AccountsAreRecoverable`, `LeavesBelongToAddresses`,
  `KnownAccountsHaveLeaves`, `NextSlotIsForeseen`.
* `ValidatorInv`: `TypeOK`, `ValidatorFollowsChain`; `HonestAreSafe`:
  `HonestChainStands`, `HonestNeverAccused`; `AllAgree`: `EvaluatorAgrees`,
  `GuardAgreesWithContract`. The last of these needs `SameLeaves` and
  `HeightsAgree`.
* `NumberingInv`: `TypeOK`, `NumbersAreUnique`, `QueuedNumbersAreContiguous`,
  `OnlyBlockZeroIsIgnored`; `EachOnceInOrder`: `TransactionsInOrder`,
  `NoTransactionTwice`.
* `RootInv`: `TreeTypeOK`, `RootCommits`; `LeavesInv`:
  `WrittenLeavesHaveProofs`, `ReadsAreTrue`.
* `AgreementInv`: `TypeOK`, `ValidStatesAgree`, `OneMessagePerNonce`;
  `ExitsInv`: `UpheldExitsStand`, `RefutationsAreNewer`.
* `TransitionInv`: `CodecTypeOK`, `TransitionIsKept`, `OneEncoding`,
  `SignedTransactionIsKept`; `ContractInv`: `ContractReadsTheSame`,
  `SignatureHoldsInContract`.

**What fails outside these environments.** The models also show, when a
hypothesis of a property is dropped:

* two overlapping calls of the submitter send a block twice; the contract's
  numbers then run ahead, the event of the copy confirms the next block, and
  that block is never sent (`Serialized = FALSE` with `ChainFollowsQueue`). A
  crash between the RPC and the write of `last_submitted` sends a block twice as
  well, and a rejected transaction is not retried until another block is queued;
* a fresh install of the aggregator arms no timeout, so that its first
  transactions wait until they fill a block; a crash between the writes of
  `last_transition` and `pending_block_number` signs the slots of a block twice.
  After a refusal that was applied (`RefusedApplied`) the next transition does
  not follow from the one before, and the guard will call it fraud;
* a live event that comes before the last synced block is read stores its own
  block, and the history before it is never fetched (`raced`); a second listener
  gets no history;
* a crash in a tree's first update may leave the empty leaf stored; the same
  update, made again on the next start, takes it for a stored path, turns the
  root into a leaf and returns true (`clean`). An update of a leaf to the value
  it has deletes the nodes it has just stored;
* the contract and the state machine differ on some transactions (`Divergent`):
  the contract refuses to spend a whole balance and to pay the pool, rounds a
  swap's fee and output down, and wants the sender's own signature; it takes an
  amount of zero, and its balances wrap round, so that in one account a credit
  of half their range looks like the debit. Posting a transition that only the
  machine accepts lets anyone prune the block. An aggregator after a refusal
  that was applied is not sound in the sense of this run;
* the contract takes an inner node, a leaf of padding, or a transition under an
  index that its tree does not have for a transition of the block. Of a block of
  two honest transitions the preimage of the root, 64 bytes, is included without
  siblings; it does not decode, and the block is pruned. `HonestChainStands` and
  `PrunedOnlyForFraud` without `misled` are violated in this way;
* the machine's leaves are not the contract's (`SameLeaves` false): no occupied
  slot can be proved, so of a false transition between accounts that exist
  nothing can be proved but that it does not decode. `GuardAgreesWithContract`
  without that condition is violated with the leaves of `fraud_rejected`;
* with the heights that the programs have (`HeightsAgree` false), and leaves
  that agree, any valid transition but the first of all can be proved invalid:
  `fraud` with `STATE_TREE_HEIGHT = 3` violates `HonestChainStands` after two
  transitions of a sound aggregator;
* the guard gives up on a transition whose slot is beyond the tree
  (`Unsupported`), where the contract reads only the slot's lower bits (`Path`)
  and may evaluate it: such a block is never proved invalid by the guard;
* an unfunded swap passes the check that is not awaited and fails half-way, and
  a transfer to oneself makes tokens (`failed`, `self`);
* a crash between the first leaf that a transaction writes and the root stored
  after the last leaves a root whose nodes are deleted: the next process starts,
  reads every balance as 0, and answers from there. A crash within an update
  loses some of the leaves, and later updates may lose more (`broken`). A crash
  after the address map is written and before the leaf leaves an account whose
  transactions are refused for ever if its neighbour has a leaf (`Unparsed`);
* in the generic node, a contract whose neighbour in the base tree has a leaf
  cannot be made (`IsPlaceholder`): `create()` throws, and the block is lost
  with the transactions in it. Trees that share nodes may leave a value where no
  proof finds it or an update that throws, and a slot that is written with the
  value it has deletes its own path (`misplaced`, `submit`);
* in a state channel, a nonce or balance of 16 or more is read back as another
  one: the recipient countersigns a message that the sender never made, the
  sender keeps it as a conflict, and the recipient may exit with what the
  sender's deciders refute (`misread`). Every signature is one of the empty
  message;
* the creation of account 1 with 32 tokens, say, is read back as a transfer of
  token 1 by the recovering aggregator, the submitter and the guard, and so are
  other amounts that are readable offsets (`CreatesTokenAddress`).

`submitter_exact` checks `LedgerSafety` with fewer failures than the theorem
`SubmitterImplementsLedger` allows, so that liveness can be checked with it.

**Bounds.** Three to six blocks and three crashes cover a block in the contract,
one in flight, one queued and one being queued, with a second failure during the
recovery from a first. Three client requests with a threshold of two transitions
fill a block, exceed it by a faucet request, and start the next. Three Ethereum
blocks after the first with up to two events each, three events in all, and a
crash cover an event before, at and after the stored block, and a block cut in
two. Nothing in that code depends on larger numbers: it compares neighbouring
counters and handles the head of a queue. A tree of three levels has a root that
is kept in memory, inner nodes, and leaves next to each other and apart; four
operations write a leaf, its neighbour and one in the other half, and restart.
Two blocks of two transitions have the first transition of all, one with its
predecessor in the same block, and one in the block before; the transactions of
`MCRollupFraud` and `MCUnipigStateMachine` include a new account, a payment to
the pool, a wrong signer, a payment to oneself, swaps that are exact, rounded,
below their minimum and unfunded. A block of two transitions has a root above
its leaves that the contract takes for a third; padding needs a block of three,
and is treated the same. Three transactions in blocks of two leave a full block
and a partial one; they write one slot twice, a second contract that is the
neighbour of the first in the base tree, and a slot of it beside the first one's
number, so that a contract is refused, and trees can meet. Three channel
messages of which the last may agree or conflict with the second, or have the
smallest balance that is misread (16), and two calls at a time, let messages
cross, overtake and repeat. `TransitionCodec` uses amounts that are readable as
an offset or a length (32, 33 between two words, 224), 1, which is a token type
too, and one that is no uint32 (512: `Width` stands for 2^32 there); its clients
include account 1. `MaxTx`, `MaxRequests`, `MaxBlock`, `MaxPerBlock`,
`MaxEvents`, `MaxCrashes`, `MaxSteps`, `MaxBlocks`, `MaxTransitions`,
`MaxRestarts`, `MaxTransactions`, `MaxFailures`, `MaxCalls` and `MaxExits` are
the only bounds, all in guards; the constant sets of transactions and messages
bound the rest, `CrashInUpdate` leaves out trees started from a root hash, and a
tree that is not `clean` is only read. `CHECK_DEADLOCK` is off because every
bounded system comes to rest when its bounds are used up.

**Fairness.** Weak fairness of every resumption (Node.js runs the callback of a
finished operation), of mining, of the restart by a supervisor, of timeouts and
the clock. `BlockSubmitter` also assumes that the event of the head of the queue
is delivered; `EventProcessor` checks when that is justified: not after a crash
while it was being handled, which `submitter_exact` excludes. `RollupAggregator`
assumes that queued blocks are posted, which is `LedgerFair`. `StateChannel`
assumes that a message that is sent is in the end received, which a sender that
repeats it provides; it is written as a formula over the bag of tasks because
weak fairness of each task would need a name for it. Clients, crashes and
failures are under no fairness.

## 4. The proofs

The theorems hold for every value of the constants that the named assumption of
the module allows: `SubmitterAssumption`, `AggregatorAssumption`,
`ProcessorAssumption`, `NodeAssumption` (bounds are numbers, sets are sets),
`TreeAssumption` (the tree has at least two levels, its known contents are
leaves of the given values, and again the powers of two up to its height),
`ChannelAssumption` (balances are numbers), `MachineAssumption` (the genesis
lists different accounts, the pool first, and fits the tree; transactions are
signed ones), `TransactionsAssumption` (slot 0's and the aggregator's addresses
exist, a fee below 100 %, and the powers of two up to the tree's height, which
the provers do not know), `FraudAssumption` (a genesis and transactions as
above, as `unipig-aggregator.ts` and the clients give them) and
`PowersAssumption` (there is a power of two between a block's size and its
double, another fact that the provers do not know). `CodecAssumption` is about
single words: no word of a signature is as small as an offset of these formats,
which the code does not check, and which is as unlikely as two texts of one
hash. It says nothing of addresses: any sender chooses its recipient, and the
properties except what goes wrong with that (`CreatesTokenAddress`). Five
hypotheses stand in the theorems that need them: `ExactEnvironment`;
`OneListener`, because a second listener of the event processor gets no history;
`HeightsAgree` and `SameLeaves`, because with other heights or other leaves the
statement is false (section 3); and, in `ProductNeverDrops`, that nobody sends a
transfer in the pool's name, which the machine accepts from the aggregator (it
may sign for any sender) and which takes from the pool.

| Module | Theorems | Inductive invariant |
|---|---|---|
| `BlockSubmitter_proofs` | `TypeCorrect`, `OrderIsKept`, `RecoveryIsSafe`, `SentBlocksAreDurable`, `ProgressIsDurable`, `ExactlyOnceInOrder`, `AtMostOneUnconfirmed`, `SubmitterImplementsLedger` | `OrderInv`, `StorageInv`, `SerialInv`, `ExactInv` |
| `CoreDb_proofs`, of `EventProcessor` | `TypeCorrect`, `EventsAreDelivered` | `EventInv` |
| `CoreDb_proofs`, of `SparseMerkleTree` | `PathsAlwaysHold`, `RootsAreTrue`, `LeavesAreKept`, `VerifiedLeavesAreTrue`, `UpdatesAreTaken` | `PathsInv` |
| `RollupAggregator_proofs` | `TypeCorrect`, `NoNumberIsSkipped`, `RestartRecoversPending`, `ReceiptsAreHonoured`, `ChainIsOneSequence` | `DurabilityInv`, `SequenceInv` |
| `NodeAndCodec_proofs`, of `RollupNode` | `TypeCorrect`, `NumbersAreKept`, `QuietNodesAreDurable`, `TransactionsAreSubmittedOnce`, `RootsCommit` | `NodeInv`, `DurableShape`, `OrderShape`, `TwiceShape`, `TreeShape` |
| `NodeAndCodec_proofs`, of `TransitionCodec` | `TransitionsAreKept`, `ContractAgrees`, `ReceiptsAreProvable` | `CodecInv` |
| `UnipigTransactions_proofs` | `TokensAreMoved`, `SwapsKeepTheProduct` | about operators |
| `UnipigStateMachine_proofs` | `TypeCorrect`, `AccountsAgree`, `QuietRecovers`, `ProductNeverDrops`, `SupplyStays` | `Inv`, `PoolKept`, `SupplyShape` |
| `StateChannel_proofs` | `ShapesAreKept`, `NoncesAgree`, `ExitsStand`, `DecisionsStand` | `Inv`, `UpheldShape` |
| `RollupFraud_proofs` | `ValidatorFollows`, `HonestBlocksPassTheGuard`, `SoundAggregatorsAreSafe`, `OnlyFraudIsPruned`, `EvaluatorAgreesWithMachine`, `AllComputeTheSame` | `FraudInv` |

In each, one lemma per action shows that the step keeps the invariant, and the
theorem combines them. Why the invariants are needed:

* **Submitter.** `NeverEarly` is not inductive, because what may be sent next
  depends on the shape of the queue (`QueueShape`), on confirmations being
  covered by the chain (`ConfirmedIsMined`) and on the calls under way
  (`CallsAreNotEarly`); `StorageInv` counts the blocks written but not yet in
  `last_queued`. `SerialInv` is about the time until calls overlap: then one
  call is under way, and memory is the database but for the write that `pc`
  names (`MemoryFollows`), so that what is sent is durable and counters only
  rise. `ExactInv` adds that contract and database agree; it maps each step to
  one of `RollupLedger` or to a stutter.
* **Event processor.** `EventInv` says where the fetch of the history stands
  (`SyncInv`), that events are logged in the order of their blocks (`LogInv`),
  and that until the history is fetched the listener knows all events up to the
  last block stored (`CoveredInv`): what is not fetched need not be.
* **Sparse Merkle tree.** A root that is right does not stay right by itself: an
  update reads the siblings it hashes from the store, and a proof is checked
  against a root that earlier nodes, never deleted, may also have had.
  `PathsInv` says what a store may hold. After a clean history (`Sound`) it is
  some nodes of the one tree that the root commits to, and no others; each lies
  below nodes stored with their values (`Connected`), so that a stored leaf,
  which `verifyAndStore` trusts unseen, is on a stored path; and a node stored
  with its value has both children stored (`Paired`), so that no path breaks off
  next to another one. In a tree grown from nothing, what is not stored is empty
  (`Spare`). `Widened` says what one operation makes of such a store, for
  `verifyAndStore` and for `update`, whose new nodes differ from the deleted old
  ones at every level because a hash is the value it commits to;
  `WidenedIsSound` and `WidenedKeeps` give the invariant back, whatever else was
  stored, and `BatchUpdateKeeps` composes them. After a crash in the middle of
  the writes only this is left: every stored value is the one its hash commits
  to (`StoreIsTrue`), and that alone makes every read true (`ReadIsTrue`). The
  levels are recursive functions over descending depths; the lemmas `FromZero`
  and `ToZero` are the inductions they need, instances of `NatMin`.
* **Aggregator.** What the database holds at rest depends on what each suspended
  step has yet to write (`SlotShape` says how much of the pending block is
  stored at every await), and a number can only be skipped if the submitter's
  memory, its two keys, the contract and the pending block drift apart.
  `SequenceInv` says that, while the databases are in step, the queued blocks
  and the pending one are one sequence (`BlocksFollow`, `SlotsFollow`), every
  copy of a block is that block (`CopiesAgree`), the state machine's root is its
  end (`RootFollows`), and a receipt names a place of it (`ReceiptsFollow`).
* **Generic node.** `NodeInv` holds in every environment. `Durable` says, for
  every await, what a restart would recover; `Ordered` that blocks and pending
  block together are 1, 2, 3, ...; `Once` that numbers increase from block to
  block, also over a crash, after which a block may be built again. The last two
  need that the flattened sequence of the blocks grows by a block at its end:
  `FlattenSeq` is defined by a CHOOSE over a recursive function, and the lemmas
  `JoinsExists` to `FlattenAppend` prove that such a function exists and that
  any two agree. `TreeShape` says, at every await of the builder, what the trees
  hold: the last value of each slot over the blocks handed over, and, while a
  block's slots are written side by side, that value or the new one for each
  slot whose write is not or is done. The tree that a write has opened before
  its await must still be the contract's when it goes on (`JobShape`), which
  fails only if two slots of a block open one. The roots are promised until
  nodes of two trees have met to a value's harm (`misplaced`), which an
  invariant of the contents cannot exclude; a subtree that cannot be made
  changes no tree. That the last transaction of a block is also the latest of
  all is where `OrderShape` comes in.
* **State machine.** A crash may come between any two writes, so `Inv` says for
  every moment what a restart would read. While a process lives the stored map
  is the map in memory for the accounts that its size counts (`MapFollows`,
  `Counts`), which are all but one that is being created (`JobsFollow`); leaves
  belong to counted accounts only (`LeavesFollow`), because a leaf is written
  last; and the jobs are those of one transaction (`OpFollows`), of whose two
  accounts one is known. `DiskShape` is what a crash leaves of that and what a
  restart starts from, `LeafShape` and `LastShape` the same for what `orphan`
  and `torn` except. What is said of leaves is said as long as no tree is broken
  (`Whole`): then a read finds what the root commits to, and the stored root is
  the tree's whenever a process could find it. `PoolKept` carries the product of
  the pool's balances from the transaction that computes them
  (`SwapsKeepTheProduct`: a division rounded up, and a fee of any size) to the
  leaf. `SupplyShape` counts the tokens of the leaves as they will be once the
  two jobs have written (`Planned`): jobs write one leaf each, in any order, so
  only that sum stays the same from `Begin` to the last write. A sum over slots
  is a CHOOSE over recursive functions on subsets; the lemmas from `LeastNumber`
  to `SupplyMoves` prove that such a function exists, that a sum splits into
  parts, and therefore that two slots that exchange tokens (`TokensAreMoved`)
  leave it as it was.
* **Fraud.** The actors' machines never meet; what they have in common is roots.
  So `MachineShape` says that keys and leaves name the same accounts and used
  slots come first, and therefore that a machine is known by its leaves
  (`MachineOf`). `ComputedChain` says what stands on the chain before anything
  false does, `ClaimedChain` what may stand there at all, and `GuardShape` how
  far the guard has come. The lemma `BothAgree` compares the two computations,
  transfers, creations and swaps with their roundings and 32-bit wrap-around,
  for every machine of that shape; `Recovered` shows that the validator rebuilds
  the signed transaction from slots; `InvalidIsFraudulent` that a proof which
  the contract accepts of two elements at their places is about a transition
  that does not follow, for any siblings of the slots; `ElementsAtTheirPlace`
  that those the guard takes from its blocks are; `SlotIsProved`, conversely,
  that the siblings of a slot prove it; `EvaluationChanges` that a transition
  that claims the old root is always caught.
* **State channel.** Two clients never see each other's database; `Inv` relates
  them through what was made and sent. Every message that is stored, signed,
  sent or under way was made by a party of its channel (`StoredShape`,
  `SignedShape`, `SentShape`, `CallShape`), and a client signs only what it
  created or what it keeps. A slot of a database is taken once, so what two
  clients received into the same slot is the same message (`KeptAgree`), as long
  as what arrives is what was sent (`Readable`): whoever passes on a message has
  kept one of its slot. That gives one state per nonce. While nothing crosses or
  overtakes, `OrderlyShape` says that each slot is made once (`MadeOnce`), which
  needs that whoever has signed what it keeps also counts its own signature
  (`SignedIsKept`): that is what `createNewMessage` counts. `UpheldShape` adds
  that whoever upheld its claim signs nothing newer: its channel is exited, and
  every other signature is of a first message. `ClaimDecided` computes what is
  decided about a claim, `NestedSound` that a decision about any property two
  deep agrees with `Truth`.
* **Transition codec.** `CodecInv` says that whatever exists is one transition:
  every copy is the one that was built or its checksummed form, every text is
  the encoding of it (`Copies`, `Texts`), it is made of the request
  (`MadeOfRequest`), and the receipt encodes to what was signed
  (`ReceiptIsSigned`). That it is inductive rests on what the coder does with
  texts of any numbers: `OneTail` and `TwoTails` compute the words of a format
  whose last one or two values have no fixed size, through `FlattenSeq`, and
  `SignedRead` and `SignedTextRead` read them back. `SwapRead`, `TransferRead`
  and `CreateRead` say that each parser gives back what was written for it;
  `TransferIsNoSwap` and `CreateIsNoOther` that no parser that is tried earlier
  takes it: where that parser looks for an offset there is a part of the
  signature, or where it looks for a token type there is an address, which is
  none unless `CreatesTokenAddress`. `ReadAs` sums this up for the three kinds,
  with the contract's decoder, which goes by the length of the text.

Only model-checked:

* liveness (`LedgerFair`, `ReceiptsArePosted`, `EveryEventIsHandled`,
  `EventuallyHanded`, `EventuallyCountersigned`), which the prover does not
  reach;
* the two violations, which are counterexamples.

Every other property of a passing run is stated by a theorem.

## 5. Not modelled, and what is left

* Ethereum block processor: the shape of the event processor, for whole blocks,
  and used by no program of the repository.
* Merkle interval tree, range bucket and plasma operator: an earlier design that
  the rollup programs do not use. The interval tree is pure; the range bucket
  would be the next module, as operators over small ranges.
* Clients: `rollup-client.ts` and `unipig-transitioner.ts` send a request and
  check the answer; what they encode and sign is in `TransitionCodec`.
* `MerkleInclusionProofDecider` opens a sparse Merkle tree and asks it; the tree
  is modelled, the decider is not.
* In the aggregator: `tx_count`, which takes part in no decision, the `synced`
  flag and the HTTP server. In all: cryptography, transports, logging, the web
  site and the build tooling, which have no state of their own, and failing
  database writes except where a module names them.

Left to prove: nothing that the runs check but liveness.
