-------------------------- MODULE SparseMerkleTree --------------------------
(***************************************************************************)
(* The sparse Merkle tree (core-db/src/app/block-production/merkle-tree.ts)*)
(* over its key-value store.                                               *)
(*                                                                         *)
(* The tree keeps its root in memory and its nodes in the database, under  *)
(* an identifier made of the node's hash and of its place.  Only the paths *)
(* of leaves that were written or verified are stored; a subtree known by  *)
(* its hash alone is a placeholder, and a subtree never touched is known   *)
(* to be empty.                                                            *)
(*                                                                         *)
(* update, batchUpdate, verifyAndStore and getLeaf hold the tree's lock    *)
(* from their first read to their last write: each is one action.          *)
(* getMerkleProof gives the lock back before it stores a missing path: it  *)
(* is two.  A crash may interrupt an update's writes, which are issued in  *)
(* batches and land in any order.                                          *)
(*                                                                         *)
(* Hashes are ideal: a hash is the value it commits to.  The value of a    *)
(* leaf is <<v>>, that of an inner node the pair of its children's hashes, *)
(* and that of a placeholder, or of a root that is not stored, is <<>>.    *)
(***************************************************************************)
EXTENDS Integers, Sequences, FiniteSets, SequencesExt, TLC

CONSTANTS
    Height,     \* levels of the tree, the root's included
    Values,     \* the values of leaves
    Empty,      \* the value of a leaf never written
    Contents,   \* what a tree that is known by its root hash may hold
    MaxSteps    \* bound: operations and restarts

Keys == 0..(2^(Height - 1) - 1)

ASSUME TreeAssumption ==
    /\ Height \in Nat \ {0, 1}
    /\ Empty \in Values
    /\ Contents \subseteq [Keys -> Values]
    /\ MaxSteps \in Nat
    /\ 2^0 = 1
    /\ \A n \in 0..Height : 2^n \in Nat \ {0} /\ 2^(n + 1) = 2 * 2^n

VARIABLES
    root,     \* the root node in memory
    db,       \* the stored nodes: a function from identifiers to values
    saved,    \* the root hash the tree's user has stored, to reopen it with
    asked,    \* the empty leaf whose path getMerkleProof is about to store
    leaves,   \* what the root commits to, by the updates that returned true
    written,  \* the keys updated since the tree was created
    proved,   \* the keys whose paths were stored, by a proof or an update
    kept,     \* leaves, written and proved as they were at the last save
    grown,    \* the tree started empty, not from a root hash
    refused,  \* the operations that have returned false
    clean,    \* every restart was from the tree's last root
    steps

treeVars == <<root, db, saved, asked, leaves, written, proved, kept, grown,
              refused, clean, steps>>

-----------------------------------------------------------------------------
(***************************************************************************)
(* Nodes and paths.                                                        *)
(***************************************************************************)
Hash(value) == value

Placeholder == <<>>

IsInner(node) == Len(node.value) = 2

\* The child of depth + 1 on the way to the leaf is the left one.
IsLeft(key, depth) == (key \div 2^(Height - 2 - depth)) % 2 = 0

\* The place, in its level, of the node at a depth on the way to a leaf.
NodeKey(key, depth) == key \div 2^(Height - 1 - depth)

NodeID(hash, key) == [hash |-> hash, key |-> key]

ID(node) == NodeID(node.hash, node.key)

NewNode(hash, value, key) == [hash |-> hash, value |-> value, key |-> key]

\* The hash of the child on the way to the leaf, and that of the other one.
ChildHash(node, depth, key) ==
    IF IsLeft(key, depth) THEN node.value[1] ELSE node.value[2]

SiblingHash(node, depth, key) ==
    IF IsLeft(key, depth) THEN node.value[2] ELSE node.value[1]

Pair(hash, sibling, depth, key) ==
    IF IsLeft(key, depth) THEN <<hash, sibling>> ELSE <<sibling, hash>>

\* The hash of an empty subtree whose root is at a depth.
ZeroHash[depth \in 0..(Height - 1)] ==
    IF depth = Height - 1
    THEN Hash(<<Empty>>)
    ELSE Hash(<<ZeroHash[depth + 1], ZeroHash[depth + 1]>>)

\* The nodes of a store from a root towards a leaf, as far as they go.
NodesInPath(store, top, key) ==
    LET path[depth \in 0..(Height - 1)] ==
            IF depth = 0 THEN <<top>>
            ELSE LET above == path[depth - 1]
                     node  == Last(above)
                     id    == NodeID(ChildHash(node, depth - 1, key),
                                     NodeKey(key, depth))
                 IN  IF /\ Len(above) = depth
                        /\ IsInner(node)
                        /\ id \in DOMAIN store
                     THEN Append(above, NewNode(id.hash, store[id], id.key))
                     ELSE above
    IN  path[Height - 1]

\* create(): the root is read back from its hash, if there is one.
NoHash == <<>>

Loaded(store, hash) ==
    LET id == NodeID(hash, 0)
    IN  IF hash = NoHash THEN NewNode(ZeroHash[0], Placeholder, 0)
        ELSE IF id \in DOMAIN store THEN NewNode(hash, store[id], 0)
        ELSE NewNode(hash, Placeholder, 0)

-----------------------------------------------------------------------------
(***************************************************************************)
(* Writes.  A batch is a set of puts and a set of deletes issued together; *)
(* with an identifier in both, the delete, issued later, prevails.         *)
(***************************************************************************)
Batch(nodes, ids) == [put |-> nodes, del |-> ids]

Applied(store, batch) ==
    LET new == {ID(n) : n \in batch.put}
    IN  [id \in (DOMAIN store \cup new) \ batch.del |->
            IF id \in new THEN (CHOOSE n \in batch.put : ID(n) = id).value
                           ELSE store[id]]

\* What a crash may leave of a list of batches, each awaited in turn.
Interrupted(store, batches) ==
    LET after[i \in 0..Len(batches)] ==
            IF i = 0 THEN store ELSE Applied(after[i - 1], batches[i])
    IN  UNION {{Applied(after[i - 1], Batch(nodes, ids)) :
                   nodes \in SUBSET batches[i].put,
                   ids \in SUBSET batches[i].del} :
               i \in DOMAIN batches}

\* The outcome of an operation: whether it returns true, the store and the
\* root it leaves, and the batches it has written.
Outcome(ok, store, top, batches) ==
    [ok |-> ok, db |-> store, root |-> top, writes |-> batches]

Returns(ok, store, top) == Outcome(ok, store, top, <<>>)

\* It goes on to write a batch, and to a new root.
Writes(outcome, batch, top) ==
    Outcome(outcome.ok, Applied(outcome.db, batch), top,
            Append(outcome.writes, batch))

-----------------------------------------------------------------------------
(***************************************************************************)
(* The operations.  The siblings of a proof are indexed by their depth.    *)
(***************************************************************************)
SiblingKey(key, depth) ==
    LET k == NodeKey(key, depth) IN IF k % 2 = 0 THEN k + 1 ELSE k - 1

\* Mutant: a sibling's node is stored over the one in the database.
Unknown_All(store, key, siblings) ==
    {NewNode(siblings[d], Placeholder, SiblingKey(key, d)) :
        d \in 1..(Height - 1)}

\* The siblings of a proof that the database does not hold.
Unknown(store, key, siblings) ==
    {n \in {NewNode(siblings[d], Placeholder, SiblingKey(key, d)) :
               d \in 1..(Height - 1)} : ID(n) \notin DOMAIN store}

\* The nodes from a leaf up to the root that its value and siblings give.
Branch(leaf, key, siblings) ==
    LET up[depth \in 0..(Height - 1)] ==
            IF depth = Height - 1 THEN leaf
            ELSE LET pair == Pair(up[depth + 1].hash, siblings[depth + 1],
                                  depth, key)
                 IN  NewNode(Hash(pair), pair, NodeKey(key, depth))
    IN  up

\* The stored path of a leaf makes room for the one its proof gives.
Stored(store, top, key, branch, siblings) ==
    LET old == {ID(n) : n \in ToSet(NodesInPath(store, top, key))}
        new == {branch[d] : d \in 0..(Height - 1)}
                   \cup Unknown(store, key, siblings)
    IN  Writes(Writes(Returns(TRUE, store, top), Batch({}, old), branch[0]),
               Batch(new, {}), branch[0])

\* Mutant: the root the proof leads to is not compared.
VerifyAndStoreResult_AnyRoot(store, top, key, value, siblings) ==
    LET leaf   == NewNode(Hash(<<value>>), <<value>>, key)
        branch == Branch(leaf, key, siblings)
    IN  IF ID(leaf) \in DOMAIN store THEN Returns(TRUE, store, top)
        ELSE Stored(store, top, key, branch, siblings)

VerifyAndStoreResult(store, top, key, value, siblings) ==
    LET leaf   == NewNode(Hash(<<value>>), <<value>>, key)
        branch == Branch(leaf, key, siblings)
    IN  IF ID(leaf) \in DOMAIN store THEN Returns(TRUE, store, top)
        ELSE IF branch[0].hash # top.hash THEN Returns(FALSE, store, top)
        ELSE Stored(store, top, key, branch, siblings)

\* Mutant: the stored nodes are counted one short.
EmptyPathSiblings_OneShort(store, top, key) ==
    LET path == NodesInPath(store, top, key)
    IN  [d \in 1..(Height - 1) |->
            IF d + 1 < Len(path) /\ IsInner(path[d])
            THEN SiblingHash(path[d], d - 1, key)
            ELSE ZeroHash[d]]

\* verifyAndStorePartiallyEmptyPath: below the last stored node everything
\* is taken to be empty.
EmptyPathSiblings(store, top, key) ==
    LET path == NodesInPath(store, top, key)
    IN  [d \in 1..(Height - 1) |->
            IF d <= Len(path) /\ IsInner(path[d])
            THEN SiblingHash(path[d], d - 1, key)
            ELSE ZeroHash[d]]

EmptyPathResult(store, top, key) ==
    VerifyAndStoreResult(store, top, key, Empty,
                         EmptyPathSiblings(store, top, key))

\* The nodes of a path once its last one has a new value.
UpdatedPath(path, key, value) ==
    LET n == Len(path)
        up[depth \in 0..(n - 1)] ==
            IF depth = n - 1
            THEN NewNode(Hash(<<value>>), <<value>>, path[n].key)
            ELSE LET pair == Pair(up[depth + 1].hash,
                                  SiblingHash(path[depth + 1], depth, key),
                                  depth, key)
                 IN  NewNode(Hash(pair), pair, path[depth + 1].key)
    IN  up

\* The tree with the whole path of a leaf stored.
Opened(store, top, key) ==
    IF Len(NodesInPath(store, top, key)) = Height
    THEN Returns(TRUE, store, top)
    ELSE EmptyPathResult(store, top, key)

\* Mutant: the nodes of the old path stay in the database.
UpdateResult_KeepsOldPath(store, top, key, value) ==
    LET opened  == Opened(store, top, key)
        path    == NodesInPath(opened.db, opened.root, key)
        updated == UpdatedPath(path, key, value)
        new     == {updated[d] : d \in DOMAIN updated}
    IN  IF opened.ok THEN Writes(opened, Batch(new, {}), updated[0])
                     ELSE opened

UpdateResult(store, top, key, value) ==
    LET opened  == Opened(store, top, key)
        path    == NodesInPath(opened.db, opened.root, key)
        updated == UpdatedPath(path, key, value)
        new     == {updated[d] : d \in DOMAIN updated}
        old     == {ID(n) : n \in ToSet(path)}
    IN  IF opened.ok THEN Writes(opened, Batch(new, old), updated[0])
                     ELSE opened

\* A call made within an operation, unless an earlier one returned false.
Then(before, call) ==
    LET result == IF call.verify
                  THEN VerifyAndStoreResult(before.db, before.root, call.key,
                                            call.value, call.siblings)
                  ELSE UpdateResult(before.db, before.root, call.key,
                                    call.value)
    IN  IF before.ok
        THEN [result EXCEPT !.writes = before.writes \o @]
        ELSE before

\* batchUpdate: all proofs are verified before any update.
BatchUpdateResult(store, top, updates) ==
    LET verify == [i \in DOMAIN updates |->
                      [verify |-> TRUE, key |-> updates[i].key,
                       value |-> updates[i].old,
                       siblings |-> updates[i].siblings]]
        update == [i \in DOMAIN updates |->
                      [verify |-> FALSE, key |-> updates[i].key,
                       value |-> updates[i].new]]
        calls  == verify \o update
        after[i \in 0..Len(calls)] ==
            IF i = 0 THEN Returns(TRUE, store, top)
                     ELSE Then(after[i - 1], calls[i])
    IN  after[Len(calls)]

\* getLeaf: the value of a leaf, if its path is stored; a placeholder's
\* one zero byte is no value either.
NoLeaf == Placeholder

GetLeaf(store, top, key) ==
    LET path == NodesInPath(store, top, key)
    IN  IF Len(path) = Height THEN Last(path).value ELSE NoLeaf

\* The siblings getMerkleProof meets on its way to a leaf.
GivenSiblings(store, top, key) ==
    LET path == NodesInPath(store, top, key)
    IN  [d \in {n \in DOMAIN path : IsInner(path[n])} |->
            SiblingHash(path[d], d - 1, key)]

\* They are all there, and the leaf has the value to prove.
HasProof(store, top, key, value) ==
    LET path == NodesInPath(store, top, key)
    IN  Len(path) = Height /\ Last(path).hash = Hash(<<value>>)

-----------------------------------------------------------------------------
(***************************************************************************)
(* The reference: the hash of the whole tree, level by level.              *)
(***************************************************************************)
Levels(content) ==
    LET level[depth \in 0..(Height - 1)] ==
            IF depth = Height - 1 THEN [k \in Keys |-> Hash(<<content[k]>>)]
            ELSE LET below == level[depth + 1]
                 IN  [k \in 0..(2^depth - 1) |->
                         Hash(<<below[2 * k], below[2 * k + 1]>>)]
    IN  level

Commitment(content) == Levels(content)[0][0]

TrueSiblings(content, key) ==
    LET level == Levels(content)
    IN  [d \in 1..(Height - 1) |-> level[d][SiblingKey(key, d)]]

-----------------------------------------------------------------------------
(***************************************************************************)
(* The tree in use.                                                        *)
(***************************************************************************)
AllEmpty == [k \in Keys |-> Empty]

NoRequest == [key |-> -1]

TreeInit ==
    /\ grown \in BOOLEAN
    /\ leaves \in IF grown THEN {AllEmpty} ELSE Contents
    /\ saved = IF grown THEN NoHash ELSE Commitment(leaves)
    /\ db = <<>>
    /\ root = Loaded(db, saved)
    /\ asked = NoRequest
    /\ written = {}
    /\ proved = {}
    /\ kept = [leaves |-> leaves, written |-> written, proved |-> proved]
    /\ refused = {}
    /\ clean = TRUE
    /\ steps = 0

\* Bound: once the history is not clean, the tree is only read.
Step ==
    /\ clean
    /\ steps < MaxSteps
    /\ steps' = steps + 1
    /\ UNCHANGED grown

Becomes(result) ==
    /\ root' = result.root
    /\ db' = result.db
    /\ UNCHANGED <<saved, kept>>

\* An operation that leaves the content of the tree as it is.
Verified(result, key) ==
    /\ Becomes(result)
    /\ proved' = IF result.ok THEN proved \cup {key} ELSE proved
    /\ UNCHANGED <<leaves, written, refused, clean>>

\* One that sets some leaves, if it returns true.  Callers are supposed to
\* change a leaf's value: writing the one it has puts nodes and then deletes
\* them.
Changed(name, result, changes) ==
    /\ Becomes(result)
    /\ \A k \in DOMAIN changes : changes[k] # leaves[k]
    /\ IF result.ok
       THEN /\ leaves' = [k \in Keys |-> IF k \in DOMAIN changes
                                         THEN changes[k] ELSE leaves[k]]
            /\ written' = written \cup DOMAIN changes
            /\ proved' = proved \cup DOMAIN changes
            /\ UNCHANGED refused
       ELSE /\ refused' = refused \cup {name}
            /\ UNCHANGED <<leaves, written, proved>>
    /\ UNCHANGED <<asked, clean>>

Update(key, value) ==
    /\ Step
    /\ Changed("update", UpdateResult(db, root, key, value),
               [k \in {key} |-> value])

\* The caller has the proofs of both leaves as they are.
MerkleUpdate(key, value) ==
    [key |-> key, old |-> leaves[key], new |-> value,
     siblings |-> TrueSiblings(leaves, key)]

BatchUpdate(key1, value1, key2, value2) ==
    /\ Step
    /\ key1 # key2
    /\ Changed("batchUpdate",
               BatchUpdateResult(db, root, <<MerkleUpdate(key1, value1),
                                             MerkleUpdate(key2, value2)>>),
               [k \in {key1, key2} |-> IF k = key1 THEN value1 ELSE value2])

\* A proof for the tree as it is, or for the tree that was saved.
VerifyAndStore(key, value) ==
    /\ Step
    /\ \E content \in {leaves, kept.leaves} :
          Verified(VerifyAndStoreResult(db, root, key, value,
                                        TrueSiblings(content, key)), key)
    /\ UNCHANGED asked

\* getMerkleProof of an empty leaf that is not stored: the siblings are read
\* once the lock is given back.
GetMerkleProof(key) ==
    /\ Step
    /\ asked = NoRequest
    /\ Cardinality(DOMAIN GivenSiblings(db, root, key)) # Height - 1
    /\ asked' = [key |-> key, siblings |-> EmptyPathSiblings(db, root, key)]
    /\ UNCHANGED <<root, db, saved, leaves, written, proved, kept, refused,
                   clean>>

\* It takes the lock again to verify and store them.
StoreEmptyPath ==
    /\ Step
    /\ asked # NoRequest
    /\ Verified(VerifyAndStoreResult(db, root, asked.key, Empty,
                                     asked.siblings), asked.key)
    /\ asked' = NoRequest

\* The user of the tree stores its root hash.
Save ==
    /\ Step
    /\ saved' = root.hash
    /\ kept' = [leaves |-> leaves, written |-> written, proved |-> proved]
    /\ UNCHANGED <<root, db, asked, leaves, written, proved, refused, clean>>

\* A new tree is created from the stored root hash, over what is stored.
Recreated(store) ==
    /\ db' = store
    /\ root' = Loaded(store, saved)
    /\ asked' = NoRequest
    /\ leaves' = kept.leaves
    /\ written' = kept.written
    /\ proved' = kept.proved
    /\ UNCHANGED <<saved, kept, refused>>

Restart ==
    /\ Step
    /\ Recreated(db)
    /\ clean' = (clean /\ saved = root.hash)

\* The process ends in the middle of an update's writes.  Bound: only trees
\* that started empty crash.
CrashInUpdate(key, value) ==
    /\ Step
    /\ grown
    /\ \E store \in Interrupted(db, UpdateResult(db, root, key, value).writes) :
          Recreated(store)
    /\ clean' = FALSE

TreeNext ==
    \/ \E key \in Keys, value \in Values :
          \/ Update(key, value)
          \/ VerifyAndStore(key, value)
          \/ CrashInUpdate(key, value)
    \/ \E key1, key2 \in Keys, value1, value2 \in Values :
          BatchUpdate(key1, value1, key2, value2)
    \/ \E key \in Keys : GetMerkleProof(key)
    \/ StoreEmptyPath
    \/ Save
    \/ Restart

TreeSpec == TreeInit /\ [][TreeNext]_treeVars

-----------------------------------------------------------------------------
(***************************************************************************)
(* Properties.  Those of a clean history suppose that the process never    *)
(* ended in the middle of an update, nor between one and the save of its   *)
(* root.                                                                   *)
(***************************************************************************)
\* What is stored is a placeholder or the value its hash commits to.
StoreIsTrue(store) ==
    \A id \in DOMAIN store :
        store[id] = Placeholder \/ Hash(store[id]) = id.hash

\* The variables keep to their types, and a stored node, whatever crashes
\* there were, is a placeholder or has the value its hash commits to.
TreeTypeOK ==
    /\ leaves \in [Keys -> Values]
    /\ written \subseteq proved /\ proved \subseteq Keys
    /\ StoreIsTrue(db)
    /\ asked = NoRequest \/ asked.key \in Keys
    /\ refused \subseteq {"update", "batchUpdate"}
    /\ grown \in BOOLEAN /\ clean \in BOOLEAN
    /\ steps \in 0..MaxSteps

\* After any sequence of updates, batches, proofs and restarts the root is
\* that of the whole tree, though only some paths of it are stored: an
\* ancestor's hash, a stored sibling or an empty subtree is never stale.
RootCommits == clean => root.hash = Commitment(leaves)

\* The hashes that are stored commit to what is stored under them, and the
\* root to all leaves.
RootInv == TreeTypeOK /\ RootCommits

\* Storing the path of one leaf never cuts off another one: a leaf that was
\* written can be read, and has the right proof, also after a restart.
WrittenLeavesHaveProofs ==
    clean => \A key \in written :
        /\ GetLeaf(db, root, key) = <<leaves[key]>>
        /\ HasProof(db, root, key, leaves[key])
        /\ GivenSiblings(db, root, key) = TrueSiblings(leaves, key)

\* verifyAndStore accepts a leaf exactly when the tree has it: a leaf of an
\* earlier root, still stored, is never taken for a proof.
OnlyTrueLeavesAreVerified ==
    clean => \A key \in Keys, value \in Values :
        VerifyAndStoreResult(db, root, key, value,
                             TrueSiblings(leaves, key)).ok
            <=> value = leaves[key]

\* An update is refused only if its path is neither empty nor was ever
\* stored; a batch, which has its proofs, never is ("this should never
\* happen", says batchUpdate).
KnownPathsAreUpdated ==
    clean => /\ "batchUpdate" \notin refused
             /\ grown => refused = {}
             /\ \A key \in proved, value \in Values :
                   UpdateResult(db, root, key, value).ok

\* Whatever a crash leaves of an update's writes, and from whatever root the
\* tree is opened again: a leaf that can be read has the value that root
\* commits to, and so has the proof that comes with it.
ReadsAreTrue ==
    \A key \in Keys :
        GetLeaf(db, root, key) # NoLeaf =>
            /\ GetLeaf(db, root, key) = <<leaves[key]>>
            /\ GivenSiblings(db, root, key) = TrueSiblings(leaves, key)

\* What was written can be read, and what can be read is so.
LeavesInv == WrittenLeavesHaveProofs /\ ReadsAreTrue

-----------------------------------------------------------------------------
(***************************************************************************)
(* The inductive invariant: of the tree that the root commits to, the      *)
(* store holds some nodes, each below nodes that are stored with a value,  *)
(* and never one child of a node without the other.                        *)
(***************************************************************************)
Depths == 0..(Height - 1)

Places(depth) == 0..(2^depth - 1)

\* The identifier of the node at a place of the tree.
IdAt(content, depth, place) == NodeID(Levels(content)[depth][place], place)

Held(store, content, depth, place) ==
    IdAt(content, depth, place) \in DOMAIN store

\* It is stored, and not as a placeholder.
Open(store, content, depth, place) ==
    /\ Held(store, content, depth, place)
    /\ store[IdAt(content, depth, place)] # Placeholder

Connected(store, content) ==
    \A id \in DOMAIN store :
        \E depth \in Depths : \E place \in Places(depth) :
            /\ id = IdAt(content, depth, place)
            /\ depth # 0 => Open(store, content, depth - 1, place \div 2)

Paired(store, content) ==
    \A depth \in 0..(Height - 2) : \A place \in Places(depth) :
        Open(store, content, depth, place) =>
            /\ Held(store, content, depth + 1, 2 * place)
            /\ Held(store, content, depth + 1, 2 * place + 1)

Sound(store, top, content) ==
    /\ StoreIsTrue(store)
    /\ top = Loaded(store, Commitment(content))
    /\ Connected(store, content)
    /\ Paired(store, content)

\* What is not stored, or only as a placeholder, is empty.
Spare(store, content) ==
    \A depth \in Depths : \A place \in Places(depth) :
        ~Open(store, content, depth, place) =>
            Levels(content)[depth][place] = ZeroHash[depth]

CleanShape ==
    clean =>
        /\ Sound(db, root, leaves)
        /\ \A key \in written : Open(db, leaves, Height - 1, key)
        /\ \A key \in proved : Held(db, leaves, Height - 1, key)
        /\ kept.written \subseteq written /\ kept.proved \subseteq proved
        /\ "batchUpdate" \notin refused
        /\ grown => Spare(db, leaves) /\ refused = {}

SavedShape ==
    /\ kept.leaves \in [Keys -> Values]
    /\ kept.written \subseteq kept.proved /\ kept.proved \subseteq Keys
    /\ IF saved = NoHash THEN kept.leaves = AllEmpty
                         ELSE saved = Commitment(kept.leaves)
    /\ ~clean => root = Loaded(db, saved) /\ leaves = kept.leaves

PathsInv == TreeTypeOK /\ SavedShape /\ CleanShape
=============================================================================
