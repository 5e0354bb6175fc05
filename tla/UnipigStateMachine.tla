-------------------------- MODULE UnipigStateMachine --------------------------
(***************************************************************************)
(* The rollup state machine as a process: what applyTransaction() awaits,  *)
(* what it leaves in the database, and what create() finds there after a   *)
(* crash (unipig/src/common/rollup-state-machine.ts).                      *)
(*                                                                         *)
(* A transaction holds the machine's lock while it writes the states of    *)
(* its two accounts.  The two writes are jobs that run side by side: a new *)
(* account's first stores its entry of the address map, then the map's     *)
(* size and the last open slot, in any order, then its leaf.  When both    *)
(* are done the root is stored.  A job that fails gives the lock back at   *)
(* once, and the other goes on without it.                                 *)
(*                                                                         *)
(* A database write lands and resumes its job in one step, and so does an  *)
(* update of the tree (SparseMerkleTree takes it apart), unless the        *)
(* process dies in the middle of it.  An update deletes the nodes of the   *)
(* root before it: only the tree of the last root can be read.  A process  *)
(* that finds another root stored runs on nevertheless: its tree is a root *)
(* without nodes, and reads every leaf as missing.                         *)
(***************************************************************************)
EXTENDS UnipigTransactions, FiniteSetsExt

CONSTANTS
    Genesis,         \* the genesis states, in the order of their slots
    Transactions,    \* the signed transactions that clients send
    MaxTransactions, \* bound: transactions accepted in all
    MaxCrashes       \* bound: crashes of the process

ASSUME MachineAssumption ==
    /\ Genesis \in Seq(States) /\ Len(Genesis) \in 1..Cardinality(Slots)
    /\ Genesis[1].pubkey = Uniswap
    /\ \A i, k \in DOMAIN Genesis :
          Genesis[i].pubkey = Genesis[k].pubkey => i = k
    /\ \A tx \in Transactions : SignedTransaction(tx)
    /\ MaxTransactions \in Nat
    /\ MaxCrashes \in Nat

VARIABLES
    status,    \* "down", "genesis" (in create), "running", or "lost": create()
               \* threw, for an entry is missing
    keys,      \* the memory: addressesToKeys
    lastOpen,  \* and lastOpenKey
    tree,      \* the leaves that the tree's root commits to
    hidden,    \* those of its slots that its nodes in the database no longer
               \* lead to
    op,        \* the transaction that holds the lock
    jobs,      \* the calls of setAddressState under way
    disk,      \* the keys ADDR_IDX_i, the map's size, the last open slot and
               \* the root
    faults,    \* what has gone wrong so far, for the properties
    accepted, crashes

vars == <<status, keys, lastOpen, tree, hidden, op, jobs, disk, faults,
          accepted, crashes>>

NoRoot == <<>>

Idle == [doing |-> "nothing", number |-> 0, root |-> NoRoot]

EmptyTree == [s \in Slots |-> Empty]

\* A leaf that no path leads to reads as one that is not there.
Seen == [s \in Slots |-> IF s \in hidden THEN Empty ELSE tree[s]]

TheMachine == Machine(keys, lastOpen, Seen)

\* The leaves under each node of the path to a slot, from the leaf upwards.
Branches(slot) ==
    {{s \in Slots : s \div 2^k = slot \div 2^k} : k \in 0..(TreeHeight - 1)}

Init ==
    /\ status = "down"
    /\ keys = <<>> /\ lastOpen = 0
    /\ tree = EmptyTree /\ hidden = {}
    /\ op = Idle /\ jobs = {}
    /\ disk = [entries |-> <<>>, count |-> 0, last |-> 0, root |-> NoRoot]
    /\ faults = {}
    /\ accepted = 0 /\ crashes = 0

-----------------------------------------------------------------------------
(***************************************************************************)
(* setAddressState and getOrCreateAddressKey, for a machine.  A new        *)
(* address has its slot, in memory, before anything is awaited; at         *)
(* capacity it gets none, and the call is to throw.                        *)
(***************************************************************************)
\* Mutant: the entry's index is the size of the map with the entry.
Entry_SizeAfter(machine) == Cardinality(DOMAIN machine.keys) + 2

Entry(machine) == Cardinality(DOMAIN machine.keys) + 1

Job(machine, write, number) ==
    LET known == write.address \in DOMAIN machine.keys
        keyed == WithKey(machine, write.address)
    IN  [address  |-> write.address,
         balances |-> write.balances,
         slot     |-> IF known THEN machine.keys[write.address]
                               ELSE keyed.lastOpen,
         entry    |-> IF known THEN 0 ELSE Entry(machine),
         at       |-> IF known THEN "leaf"
                      ELSE IF write.address \in DOMAIN keyed.keys THEN "entry"
                      ELSE "full",
         left     |-> {}, count |-> 0, last |-> 0,
         of       |-> number]

Becomes(j, next) == jobs' = (jobs \ {j}) \cup {next}

EntryStored(j) ==
    /\ j.at = "entry"
    /\ disk' = [disk EXCEPT !.entries =
                    [i \in DOMAIN disk.entries \cup {j.entry} |->
                        IF i = j.entry THEN <<j.address, j.slot>>
                                       ELSE disk.entries[i]]]
    /\ Becomes(j, [j EXCEPT !.at = "counts", !.left = {"count", "last"},
                            !.count = Cardinality(DOMAIN keys),
                            !.last = lastOpen])
    /\ UNCHANGED <<status, keys, lastOpen, tree, hidden, op, faults, accepted,
                   crashes>>

\* Mutant: the leaf of a new account is not written.
Counted_NoLeaf(j, key) ==
    jobs' = IF j.left = {key} THEN jobs \ {j}
            ELSE (jobs \ {j}) \cup {[j EXCEPT !.left = @ \ {key}]}

Counted(j, key) ==
    Becomes(j, [j EXCEPT !.left = @ \ {key},
                         !.at = IF j.left = {key} THEN "leaf" ELSE "counts"])

CountStored(j) ==
    /\ "count" \in j.left
    /\ disk' = [disk EXCEPT !.count = j.count]
    /\ Counted(j, "count")
    /\ UNCHANGED <<status, keys, lastOpen, tree, hidden, op, faults, accepted,
                   crashes>>

LastStored(j) ==
    /\ "last" \in j.left
    /\ disk' = [disk EXCEPT !.last = j.last]
    /\ Counted(j, "last")
    /\ UNCHANGED <<status, keys, lastOpen, tree, hidden, op, faults, accepted,
                   crashes>>

\* A path that a crash broke is taken for stored if the empty leaf at its end
\* is: the new leaf then replaces the last node that is found on the path, and
\* all that was under it.
Misplaced(j) ==
    /\ "broken" \in faults
    /\ j.slot \in Slots /\ Seen[j.slot] = Empty
    /\ \E branch \in Branches(j.slot) \ {{j.slot}} : hidden' = hidden \cup branch

\* The tree refuses a leaf beyond its last or on a broken path, and nobody
\* asks.
LeafStored(j) ==
    /\ j.at = "leaf"
    /\ Encodable(j.balances)
    /\ \/ /\ j.slot \in hidden
          /\ UNCHANGED <<tree, hidden>>
       \/ /\ (j.slot \notin hidden /\ hidden' = hidden) \/ Misplaced(j)
          /\ tree' = [tree EXCEPT ![j.slot] = State(j.address, j.balances)]
    /\ faults' = IF j.slot \in Slots THEN faults ELSE faults \cup {"beyond"}
    /\ jobs' = jobs \ {j}
    /\ UNCHANGED <<status, keys, lastOpen, op, disk, accepted, crashes>>

\* There is no slot, or serializeBalances throws.  The transaction fails, if
\* it has not ended.
JobFails(j) ==
    /\ j.at = "full" \/ (j.at = "leaf" /\ ~Encodable(j.balances))
    /\ jobs' = jobs \ {j}
    /\ op' = IF op.number = j.of THEN Idle ELSE op
    /\ faults' = faults \cup {"failed"}
    /\ UNCHANGED <<status, keys, lastOpen, tree, hidden, disk, accepted, crashes>>

-----------------------------------------------------------------------------
(***************************************************************************)
(* applyTransaction.  The balances are read under the lock, where only a   *)
(* job left by a failed transaction could change them: in one step.        *)
(***************************************************************************)
Own(number) == {j \in jobs : j.of = number}

Begin(tx) ==
    /\ status = "running"
    /\ op = Idle
    /\ accepted < MaxTransactions
    /\ ~Refused(TheMachine, tx)
    /\ LET number == accepted + 1
           write  == Writes(TheMachine, tx)
           second == WithKey(TheMachine, write[1].address)
           keyed  == WithKey(second, write[2].address)
       IN  /\ \A i \in {1, 2} : ~Unparsed(TheMachine, write[i].address)
           /\ accepted' = number
           /\ keys' = keyed.keys
           /\ lastOpen' = keyed.lastOpen
           /\ jobs' = jobs \cup {Job(TheMachine, write[1], number),
                                 Job(second, write[2], number)}
           /\ op' = [doing |-> "writing", number |-> number, root |-> NoRoot]
           /\ faults' = IF write[1].address = write[2].address
                        THEN faults \cup {"self"} ELSE faults
    /\ UNCHANGED <<status, tree, hidden, disk, crashes>>

\* Mutant: the writes are not awaited.
StatesWritten_NotAwaited ==
    /\ op.doing = "writing"
    /\ op' = [op EXCEPT !.doing = "rooting", !.root = tree]
    /\ UNCHANGED <<status, keys, lastOpen, tree, hidden, jobs, disk, faults,
                   accepted, crashes>>

\* Both states are written: the root is read, then stored.
StatesWritten ==
    /\ op.doing = "writing"
    /\ Own(op.number) = {}
    /\ op' = [op EXCEPT !.doing = "rooting", !.root = tree]
    /\ UNCHANGED <<status, keys, lastOpen, tree, hidden, jobs, disk, faults,
                   accepted, crashes>>

\* The rest of the call, its proofs, only reads.
RootStored ==
    /\ op.doing = "rooting"
    /\ disk' = [disk EXCEPT !.root = op.root]
    /\ op' = Idle
    /\ UNCHANGED <<status, keys, lastOpen, tree, hidden, jobs, faults, accepted,
                   crashes>>

-----------------------------------------------------------------------------
(***************************************************************************)
(* create(): without a stored root, the genesis states are written, one    *)
(* after the other and without a root; else memory is read back.  It       *)
(* throws if an entry is missing, but not if the root's node is.           *)
(***************************************************************************)
StoredEntries == (1..disk.count) \cap DOMAIN disk.entries

\* Of two entries of an address the later one stays.
RecoveredKeys ==
    [a \in {disk.entries[i][1] : i \in StoredEntries} |->
        LET its == {i \in StoredEntries : disk.entries[i][1] = a}
            i   == CHOOSE i \in its : \A k \in its : k <= i
        IN  disk.entries[i][2]]

RecoveredLast ==
    LET slots == {disk.last} \cup {RecoveredKeys[a] : a \in DOMAIN RecoveredKeys}
    IN  CHOOSE m \in slots : \A s \in slots : s <= m

Start ==
    /\ status = "down"
    /\ IF disk.root = NoRoot
       THEN /\ status' = "genesis"
            /\ keys' = <<>> /\ lastOpen' = 0
            /\ tree' = EmptyTree /\ hidden' = {}
            /\ UNCHANGED faults
       ELSE /\ status' = IF StoredEntries = 1..disk.count THEN "running"
                                                          ELSE "lost"
            /\ keys' = RecoveredKeys
            /\ lastOpen' = RecoveredLast
            /\ tree' = disk.root
            /\ IF disk.root = tree
               THEN UNCHANGED <<hidden, faults>>
               ELSE hidden' = Slots /\ faults' = faults \cup {"broken"}
    /\ UNCHANGED <<op, jobs, disk, accepted, crashes>>

GenesisWrite ==
    /\ status = "genesis"
    /\ jobs = {}
    /\ Cardinality(DOMAIN keys) < Len(Genesis)
    /\ LET state == Genesis[Cardinality(DOMAIN keys) + 1]
           keyed == WithKey(TheMachine, state.pubkey)
       IN  /\ jobs' = {Job(TheMachine, Write(state.pubkey, state.balances), 0)}
           /\ keys' = keyed.keys
           /\ lastOpen' = keyed.lastOpen
    /\ UNCHANGED <<status, tree, hidden, op, disk, faults, accepted, crashes>>

Created ==
    /\ status = "genesis"
    /\ jobs = {}
    /\ Cardinality(DOMAIN keys) = Len(Genesis)
    /\ status' = "running"
    /\ UNCHANGED <<keys, lastOpen, tree, hidden, op, jobs, disk, faults,
                   accepted, crashes>>

\* The stored map has an account without a leaf, or the stored last slot is
\* beyond those of the map.
CrashFaults ==
    {f \in {"orphan", "torn"} :
        /\ disk.root # NoRoot
        /\ \/ /\ f = "orphan"
              /\ \E a \in DOMAIN RecoveredKeys :
                    /\ RecoveredKeys[a] \in Slots
                    /\ tree[RecoveredKeys[a]].pubkey # a
           \/ /\ f = "torn"
              /\ disk.last \notin {RecoveredKeys[a] : a \in DOMAIN RecoveredKeys}}

\* The puts and deletions of an update land in any order: some node of the
\* path may be gone, and with it all the leaves under it, unless they are
\* empty and the node is made again.
Halved(j) ==
    /\ j.at = "leaf" /\ j.slot \in Slots /\ Encodable(j.balances)
    /\ \E gone \in {branch \in Branches(j.slot) :
                       \E s \in branch : tree[s] # Empty} \cup {{}} :
          hidden' = hidden \cup gone

Crash ==
    /\ status \in {"genesis", "running"}
    /\ crashes < MaxCrashes
    /\ crashes' = crashes + 1
    /\ status' = "down"
    /\ keys' = <<>> /\ lastOpen' = 0
    /\ op' = Idle /\ jobs' = {}
    /\ \/ hidden' = hidden /\ faults' = faults \cup CrashFaults
       \/ /\ \E j \in jobs : Halved(j)
          /\ faults' = faults \cup CrashFaults \cup {"broken"}
    /\ UNCHANGED <<tree, disk, accepted>>

Next ==
    \/ Start \/ GenesisWrite \/ Created
    \/ \E tx \in Transactions : Begin(tx)
    \/ \E j \in jobs : \/ EntryStored(j) \/ CountStored(j) \/ LastStored(j)
                       \/ LeafStored(j) \/ JobFails(j)
    \/ StatesWritten \/ RootStored
    \/ Crash

Spec == Init /\ [][Next]_vars

-----------------------------------------------------------------------------
(***************************************************************************)
(* Properties.                                                             *)
(***************************************************************************)
\* Nothing is under way.
Quiet == status = "running" /\ op = Idle /\ jobs = {}

\* No transaction failed half-way, and no crash broke the tree: none fell
\* between the first leaf that a transaction writes and the root stored after
\* the last, or into the update of a leaf.
Whole == faults \cap {"failed", "broken"} = {}

Jobs ==
    [address : Addresses, balances : [Tokens -> Int], slot : Nat, entry : Nat,
     at : {"entry", "counts", "leaf", "full"}, left : SUBSET {"count", "last"},
     count : Nat, last : Nat, of : Nat]

\* The variables keep to their types.
TypeOK ==
    /\ status \in {"down", "genesis", "running", "lost"}
    /\ MachineType(TheMachine) /\ IsFiniteSet(DOMAIN keys)
    /\ tree \in Roots /\ hidden \subseteq Slots
    /\ hidden # {} => "broken" \in faults
    /\ op \in [doing : {"nothing", "writing", "rooting"},
               number : 0..MaxTransactions, root : {NoRoot} \cup Roots]
    /\ jobs \subseteq Jobs
    /\ disk = [entries |-> disk.entries, count |-> disk.count,
               last |-> disk.last, root |-> disk.root]
    /\ DOMAIN disk.entries \subseteq Nat
    /\ \A i \in DOMAIN disk.entries : disk.entries[i] \in Addresses \X Nat
    /\ disk.count \in Nat /\ disk.last \in Nat
    /\ disk.root \in {NoRoot} \cup Roots
    /\ faults \subseteq {"failed", "self", "beyond", "orphan", "torn", "broken"}
    /\ accepted \in 0..MaxTransactions /\ crashes \in 0..MaxCrashes

\* Whenever the process dies, the stored map has every entry up to its size,
\* and an entry for every account of the tree: the map's entry and size are
\* stored before the leaf.  Save that a job which outlives its transaction
\* may still have an entry to store, and that the tree may be broken.
AccountsAreRecoverable ==
    disk.root # NoRoot /\ Whole =>
        /\ 1..disk.count \subseteq DOMAIN disk.entries
        /\ \A s \in Slots : tree[s] # Empty =>
               \E i \in 1..disk.count : disk.entries[i] = <<tree[s].pubkey, s>>

\* No two accounts share a slot, and a leaf is that of the account that the
\* map in memory, recovered or not, gives its slot to (save for a job that
\* outlived its transaction: the entry it stores late may be another's, and
\* for a broken tree).
LeavesBelongToAddresses ==
    status = "running" /\ Whole =>
        /\ \A x, y \in DOMAIN keys : keys[x] = keys[y] => x = y
        /\ \A s \in Slots : tree[s] # Empty =>
               /\ tree[s].pubkey \in DOMAIN keys
               /\ keys[tree[s].pubkey] = s

Supply(states, indices, token) ==
    MapThenSumSet(LAMBDA i : states[i].balances[token], indices)

\* Transfers and swaps move tokens between accounts and make none, across the
\* crashes that do not break the tree too, unless a transaction failed
\* half-way, an account paid itself or has its slot beyond the tree.
SupplyIsConserved ==
    Quiet /\ Whole /\ faults \cap {"self", "beyond"} = {} =>
        \A token \in Tokens :
            Supply(tree, Slots, token) = Supply(Genesis, DOMAIN Genesis, token)

Product(leaves) ==
    leaves[UNISWAP_STORAGE_SLOT].balances[0]
        * leaves[UNISWAP_STORAGE_SLOT].balances[1]

\* The invariant of the pool: no swap makes the product of its balances
\* smaller, whichever way its output is rounded.
PoolProductNeverDrops ==
    [][status = "running" /\ status' = "running" /\ faults' = {}
        => Product(tree') >= Product(tree)]_tree

\* Once the first transaction has stored a root, a quiet process can die
\* without loss, and be read back: root and map are what memory holds.
QuietIsRecoverable ==
    Quiet /\ disk.root # NoRoot /\ Whole =>
        disk.root = tree /\ RecoveredKeys = keys

\* An account the machine knows has the leaf of its slot, unless a crash or a
\* failed transaction left it without: a transfer to it is a plain transfer
\* only if the contract finds its address in its slot.
KnownAccountsHaveLeaves ==
    Quiet /\ Whole /\ "orphan" \notin faults =>
        \A x \in DOMAIN keys : keys[x] \in Slots => tree[keys[x]].pubkey = x

\* The slot that getNextNewAccountSlot() foresees is the one the next account
\* gets, unless a crash left the last slot stored without its account or a
\* transaction failed, as one does when no slot is left.
NextSlotIsForeseen ==
    Quiet /\ Whole /\ "torn" \notin faults =>
        NextSlot(TheMachine) = lastOpen + 1

\* Memory, the stored map and the tree agree on who has which slot.
AccountsInv ==
    TypeOK /\ AccountsAreRecoverable /\ LeavesBelongToAddresses
           /\ KnownAccountsHaveLeaves /\ NextSlotIsForeseen

-----------------------------------------------------------------------------
(***************************************************************************)
(* What makes the properties inductive.                                    *)
(***************************************************************************)
\* Nothing runs in a dead process, and a root is stored by a running one.
AtRest ==
    /\ status \in {"down", "lost"} => op = Idle /\ jobs = {}
    /\ status = "genesis" => op = Idle /\ disk.root = NoRoot

\* New accounts that the stored size does not count yet.
Uncounted == {j.address : j \in {i \in jobs : i.at = "entry" \/ "count" \in i.left}}

Counts == DOMAIN keys \ Uncounted

\* The stored map is the map in memory, for the accounts that it counts.
MapFollows ==
    LET n == Cardinality(Counts)
    IN  /\ \A i \in 1..n : /\ i \in DOMAIN disk.entries
                           /\ disk.entries[i][1] \in Counts
                           /\ disk.entries[i][2] = keys[disk.entries[i][1]]
        /\ \A x \in Counts : \E i \in 1..n : disk.entries[i][1] = x
        /\ n > 0 => disk.count = n

\* A job is about the account and the slot that memory knows, and one at
\* most is that of a new account: the last of the map.
JobsFollow ==
    /\ \A j \in jobs :
          /\ j.at # "full" => j.address \in DOMAIN keys /\ j.slot = keys[j.address]
          /\ j.at = "entry" => j.entry = Cardinality(DOMAIN keys)
          /\ j.left # {} => j.at = "counts"
          /\ "count" \in j.left =>
                /\ j.count = Cardinality(DOMAIN keys)
                /\ j.count \in DOMAIN disk.entries
                /\ disk.entries[j.count] = <<j.address, j.slot>>
    /\ \A j, k \in jobs : /\ j.at # "leaf" /\ k.at # "leaf" => j = k
                          /\ j.at # "leaf" /\ k.at = "leaf" =>
                                j.address # k.address

\* The jobs are those of the transaction under way.
OpFollows ==
    status = "running" =>
        /\ op.doing # "writing" => jobs = {}
        /\ \A j \in jobs : j.of = op.number
        /\ \A j \in jobs : j.at # "leaf" => j.address # Uniswap
        /\ op.doing = "nothing" => op = Idle
        /\ op.doing = "rooting" => op.root = tree
        /\ op.doing = "nothing" /\ disk.root # NoRoot => disk.root = tree

\* The pool comes first.
PoolFollows ==
    /\ status = "running" => DOMAIN keys # {}
    /\ IF DOMAIN keys = {} THEN lastOpen = 0
       ELSE Uniswap \in DOMAIN keys /\ keys[Uniswap] = 0

LeavesFollow ==
    /\ \A x, y \in DOMAIN keys : keys[x] = keys[y] => x = y
    /\ \A s \in Slots : tree[s] # Empty =>
          tree[s].pubkey \in Counts /\ keys[tree[s].pubkey] = s

MemoryShape ==
    status \in {"genesis", "running"} =>
        /\ MapFollows /\ JobsFollow /\ OpFollows /\ PoolFollows
        /\ LeavesFollow

\* What a crash leaves of it.
DiskShape ==
    status \in {"down", "lost"} /\ disk.root # NoRoot =>
        /\ 1..disk.count \subseteq DOMAIN disk.entries
        /\ \A i, k \in 1..disk.count :
              (disk.entries[i][1] = disk.entries[k][1])
                  = (disk.entries[i][2] = disk.entries[k][2])
        /\ disk.count = Cardinality({disk.entries[i][1] : i \in 1..disk.count})
        /\ \E i \in 1..disk.count : disk.entries[i] = <<Uniswap, 0>>
        /\ \A s \in Slots : tree[s] # Empty =>
              \E i \in 1..disk.count : disk.entries[i] = <<tree[s].pubkey, s>>

\* A known account has its leaf, or a job that is to write it.
LeafShape ==
    "orphan" \notin faults =>
        /\ status \in {"genesis", "running"} =>
              \A x \in DOMAIN keys : keys[x] \in Slots =>
                  \/ tree[keys[x]].pubkey = x
                  \/ \E j \in jobs : j.address = x
        /\ status = "down" /\ disk.root # NoRoot =>
              \A x \in DOMAIN RecoveredKeys : RecoveredKeys[x] \in Slots =>
                  tree[RecoveredKeys[x]].pubkey = x

\* The last slot is some account's, unless there was none to give.
LastShape ==
    "torn" \notin faults =>
        /\ status \in {"genesis", "running"} =>
              \/ DOMAIN keys = {} \/ (\E j \in jobs : j.at = "full")
              \/ \E x \in DOMAIN keys : keys[x] = lastOpen
        /\ status = "down" /\ disk.root # NoRoot =>
              \E x \in DOMAIN RecoveredKeys : RecoveredKeys[x] = disk.last

Inv ==
    /\ TypeOK /\ AtRest
    /\ Whole => MemoryShape /\ DiskShape /\ LeafShape /\ LastShape

\* Without faults, a job that writes the pool keeps the product of its
\* balances, and no other has its leaf.
PoolKept ==
    status = "running" /\ faults = {} =>
        \A j \in jobs : j.address = Uniswap =>
            /\ j.balances[0] * j.balances[1] >= Product(tree)
            /\ \A k \in jobs : k.address = Uniswap => k = j
-----------------------------------------------------------------------------
(***************************************************************************)
(* And for the supply: the jobs of a transaction, once all have written,   *)
(* leave a tree with as many tokens as the genesis states had, those       *)
(* written so far while the first of them are.                             *)
(***************************************************************************)
\* The leaves once the jobs have written theirs.
Planned(writes, leaves) ==
    [s \in Slots |->
        IF \E j \in writes : j.slot = s
        THEN LET j == CHOOSE j \in writes : j.slot = s
             IN  State(j.address, j.balances)
        ELSE leaves[s]]

\* None of the jobs is to fail, or to write beyond the tree.
AllLand(writes) ==
    \A j \in writes :
        j.at # "full" /\ j.slot \in Slots /\ Encodable(j.balances)

Apart(writes) == \A j, k \in writes : j.slot = k.slot => j = k

Minted == IF status = "genesis" THEN 1..Cardinality(DOMAIN keys)
                                ELSE DOMAIN Genesis

SupplyShape ==
    Whole /\ faults \cap {"self", "beyond"} = {} =>
        /\ disk.root # NoRoot =>
              \A token \in Tokens : Supply(disk.root, Slots, token)
                                       = Supply(Genesis, DOMAIN Genesis, token)
        /\ status \in {"genesis", "running"} /\ AllLand(jobs) =>
              /\ Apart(jobs)
              /\ \A token \in Tokens :
                    Supply(Planned(jobs, tree), Slots, token)
                        = Supply(Genesis, Minted, token)
        /\ status = "genesis" =>
              /\ Cardinality(DOMAIN keys) <= Len(Genesis)
              /\ DOMAIN keys = {Genesis[i].pubkey :
                                   i \in 1..Cardinality(DOMAIN keys)}
=============================================================================
