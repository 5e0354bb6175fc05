----------------------- MODULE RollupAggregator_proofs -----------------------
(***************************************************************************)
(* Proofs about RollupAggregator, for every threshold, every bound and     *)
(* every environment: crashes at any await, a submitter that throws, and   *)
(* faucet requests that fail half-way.                                     *)
(***************************************************************************)
EXTENDS RollupAggregator, SequenceTheorems, TLAPS

USE AggregatorAssumption

-----------------------------------------------------------------------------
(***************************************************************************)
(* The helpers.                                                            *)
(***************************************************************************)
\* Storing the next or an earlier transition.
LEMMA PutSlot ==
    ASSUME NEW store \in Seq(Nat), NEW i \in Nat, NEW v \in Nat,
           1 <= i, i <= Len(store) + 1
    PROVE  /\ Put(store, i, v) \in Seq(Nat)
           /\ Len(Put(store, i, v)) >= Len(store)
           /\ Len(Put(store, i, v)) >= i
           /\ Put(store, i, v)[i] = v
           /\ \A j \in 1..Len(store) : j # i => Put(store, i, v)[j] = store[j]
  <1>1. CASE i <= Len(store)
    BY <1>1 DEF Put
  <1>2. CASE i = Len(store) + 1
    BY <1>2 DEF Put
  <1>3. QED
    BY <1>1, <1>2

\* Storing the next or an earlier block.
LEMMA PutBlock ==
    ASSUME NEW store \in Blocks, NEW i \in Nat, NEW v \in Seq(Nat),
           1 <= i, i <= Len(store) + 1
    PROVE  /\ Put(store, i, v) \in Blocks
           /\ Len(Put(store, i, v)) >= Len(store)
           /\ Len(Put(store, i, v)) >= i
  <1>1. CASE i <= Len(store)
    <2>1. store \in Seq(Seq(Nat)) /\ i \in 1..Len(store)
      BY <1>1 DEF Blocks
    <2>2. /\ [store EXCEPT ![i] = v] \in Seq(Seq(Nat))
          /\ Len([store EXCEPT ![i] = v]) = Len(store)
      BY <2>1, ExceptSeq
    <2>3. Put(store, i, v) = [store EXCEPT ![i] = v]
      BY <1>1 DEF Put
    <2>4. Len(store) \in Nat
      BY <2>1
    <2>5. QED
      BY <1>1, <2>2, <2>3, <2>4 DEF Blocks
  <1>2. CASE i = Len(store) + 1
    <2>1. store \in Seq(Seq(Nat)) /\ Len(store) \in Nat
      BY DEF Blocks
    <2>2. /\ Append(store, v) \in Seq(Seq(Nat))
          /\ Len(Append(store, v)) = Len(store) + 1
      BY <2>1
    <2>3. Put(store, i, v) = Append(store, v)
      BY <1>2, <2>1 DEF Put
    <2>4. Append(store, v) \in Blocks
      BY <2>2 DEF Blocks
    <2>5. Put(store, i, v) \in Blocks /\ Len(Put(store, i, v)) = i
      BY <1>2, <2>2, <2>3, <2>4, Zenon
    <2>6. i >= Len(store) /\ i >= i
      BY <1>2, <2>1
    <2>7. QED
      BY <2>5, <2>6, Zenon
  <1>3. QED
    BY <1>1, <1>2 DEF Blocks

LEMMA ReplaceFacts ==
    ASSUME NEW blocks \in Blocks, NEW i, NEW block \in Seq(Nat)
    PROVE  /\ [blocks EXCEPT ![i] = block] \in Blocks
           /\ Len([blocks EXCEPT ![i] = block]) = Len(blocks)
  <1>1. blocks \in Seq(Seq(Nat))
    BY DEF Blocks
  <1>2. CASE i \in 1..Len(blocks)
    <2>1. /\ [blocks EXCEPT ![i] = block] \in Seq(Seq(Nat))
          /\ Len([blocks EXCEPT ![i] = block]) = Len(blocks)
      BY <1>1, <1>2, ExceptSeq
    <2>2. QED
      BY <2>1 DEF Blocks
  <1>3. CASE i \notin 1..Len(blocks)
    <2>1. [blocks EXCEPT ![i] = block] = blocks
      BY <1>1, <1>3
    <2>2. QED
      BY <2>1
  <1>4. QED
    BY <1>2, <1>3

LEMMA AppendFacts ==
    ASSUME NEW S, NEW s \in Seq(S), NEW v \in S
    PROVE  /\ Append(s, v) \in Seq(S)
           /\ Append(s, v) # <<>>
           /\ Len(Append(s, v)) = Len(s) + 1
           /\ \A i \in 1..Len(s) : Append(s, v)[i] = s[i]
           /\ Append(s, v)[Len(s) + 1] = v
  OBVIOUS

LEMMA PrefixFacts ==
    ASSUME NEW s \in Seq(Nat), NEW n \in 0..Len(s)
    PROVE  /\ SubSeq(s, 1, n) \in Seq(Nat)
           /\ Len(SubSeq(s, 1, n)) = n
           /\ \A i \in 1..n : SubSeq(s, 1, n)[i] = s[i]
  OBVIOUS

LEMMA LastType ==
    ASSUME NEW S, NEW s \in Seq(S), s # <<>>
    PROVE  Last(s) \in S /\ Last(s) = s[Len(s)] /\ Len(s) >= 1
  BY DEF Last

LEMMA ReleaseType ==
    ASSUME ControlType, lock # <<>>, Release
    PROVE  /\ lock' \in Seq(Jobs)
           /\ at' = "begin" /\ at' \in Awaits
           /\ updates' = <<>> /\ updates' \in Seq(Nat)
  BY DEF ControlType, Release, Awaits

LEMMA PendingFacts ==
    ASSUME PendingType
    PROVE  /\ pending.number \in Nat
           /\ pending.transitions \in Seq(Nat)
           /\ Len(pending.transitions) \in Nat
           /\ pending = [number |-> pending.number,
                         transitions |-> pending.transitions]
  BY DEF PendingType

LEMMA ReceiptType ==
    ASSUME PendingType, NEW r \in Nat
    PROVE  Receipt(r) \in [block : Nat, index : Nat, root : Nat]
  BY DEF PendingType, Receipt

\* Push appends to the pending block, and to its copy in the submitter.
LEMMA PushFacts ==
    ASSUME PendingType, held \in Blocks, NEW r \in Nat, Push(r)
    PROVE  /\ PendingType'
           /\ pending'.number = pending.number
           /\ pending'.transitions = Append(pending.transitions, r)
           /\ held' \in Blocks /\ Len(held') = Len(held)
           /\ at' = "putTransition" /\ at' \in Awaits
  <1> DEFINE grown == Append(pending.transitions, r)
  <1>1. grown \in Seq(Nat)
    BY PendingFacts, AppendFacts
  <1>2. pending' = [number |-> pending.number, transitions |-> grown]
    BY DEF Push, PendingType
  <1>3. PendingType'
    BY <1>1, <1>2, PendingFacts DEF PendingType
  <1>4. held' = [held EXCEPT ![pending.number] = grown] \/ held' = held
    BY <1>2 DEF Push
  <1>5. held' \in Blocks /\ Len(held') = Len(held)
    <2> HIDE DEF grown
    <2>1. CASE held' = [held EXCEPT ![pending.number] = grown]
      BY <1>1, <2>1, ReplaceFacts
    <2>2. CASE held' = held
      BY <2>2
    <2>3. QED
      BY <1>4, <2>1, <2>2
  <1>6. QED
    BY <1>2, <1>3, <1>5 DEF Push, Awaits

LEMMA NextBlockFacts ==
    ASSUME PendingType, NextBlock
    PROVE  /\ PendingType'
           /\ pending'.number = pending.number + 1
           /\ pending'.transitions = <<>>
           /\ shared' \in BOOLEAN
           /\ at' = "resetLast" /\ at' \in Awaits
  <1>1. pending' = [number |-> pending.number + 1, transitions |-> <<>>]
    BY DEF NextBlock
  <1>2. <<>> \in Seq(Nat)
    OBVIOUS
  <1>3. PendingType'
    BY <1>1, <1>2, PendingFacts DEF PendingType
  <1>4. shared' \in BOOLEAN
    BY DEF NextBlock
  <1>5. QED
    BY <1>1, <1>3, <1>4 DEF NextBlock, Awaits

-----------------------------------------------------------------------------
(***************************************************************************)
(* The invariant holds at the start, and every action keeps it.            *)
(***************************************************************************)
Inv == TypeOK /\ DurabilityInv

LEMMA InitInv == Init => Inv
  <1> SUFFICES ASSUME Init PROVE Inv
    OBVIOUS
  <1>1. SwitchType
    BY DEF Init, SwitchType
  <1>10. ControlType
    <2>1. lock \in Seq(Jobs)
      BY DEF Init
    <2>2. QED
      BY <2>1 DEF Init, ControlType, Awaits
  <1>2. StateType
    BY DEF Init, StateType
  <1>3. PendingType
    BY DEF Init, PendingType
  <1>4. DatabaseType
    BY DEF Init, DatabaseType, Absent
  <1>5. QueueType
    BY DEF Init, QueueType, Blocks
  <1>6. LockShape
    BY DEF Init, LockShape, Resetting
  <1>7. QueueShape
    BY DEF Init, QueueShape, Submitting
  <1>8. SlotShape
    BY DEF Init, SlotShape, StoredUpTo, Submitting, Resetting
  <1>9. QED
    BY <1>1, <1>10, <1>2, <1>3, <1>4, <1>5, <1>6, <1>7, <1>8
       DEF Inv, TypeOK, DurabilityInv

LEMMA StartInv == Inv /\ Start => Inv'
  <1> SUFFICES ASSUME Inv, Start PROVE Inv'
    OBVIOUS
  <1> USE DEF Inv, TypeOK, DurabilityInv
  <1>1. held' \in Blocks /\ Len(held') = lastQueued
    BY DEF Start, QueueType, QueueShape, Blocks
  <1>2. UNCHANGED <<shared, lock, at, updates, root, db, stored, lastQueued,
                    chain, receipts, requests, crashes, inStep>>
    BY DEF Start
  <1>3. SwitchType'
    BY DEF Start, SwitchType
  <1>4. /\ pending' \in [number : Nat, transitions : Seq(Nat)]
        /\ timers' \in Nat
        /\ pending'.number = db.number
        /\ IF db.last = Absent
           THEN pending'.transitions = <<>>
           ELSE /\ Len(pending'.transitions) = db.last
                /\ \A i \in 1..db.last :
                      pending'.transitions[i] = db.slots[i]
    <2>1. CASE db.last = Absent
      <3>1. pending' = [number |-> 1, transitions |-> <<>>] /\ timers' = 0
        BY <2>1 DEF Start
      <3>2. db.number = 1
        BY <2>1 DEF SlotShape
      <3>3. QED
        BY <2>1, <3>1, <3>2
    <2>2. CASE db.last # Absent
      <3> DEFINE recovered == SubSeq(db.slots, 1, db.last)
      <3>1. /\ pending' = [number |-> db.number, transitions |-> recovered]
            /\ timers' = 1
        BY <2>2 DEF Start, RecoveredBlock
      <3>2. /\ db.number \in Nat /\ db.slots \in Seq(Nat)
            /\ db.last \in 0..Len(db.slots)
        BY <2>2 DEF DatabaseType, SlotShape, Absent
      <3>3. /\ recovered \in Seq(Nat)
            /\ Len(recovered) = db.last
            /\ \A i \in 1..db.last : recovered[i] = db.slots[i]
        BY <3>2, PrefixFacts
      <3> HIDE DEF recovered
      <3>4. QED
        BY <2>2, <3>1, <3>2, <3>3
    <2>3. QED
      BY <2>1, <2>2
  <1>5. TypeOK'
    BY <1>1, <1>2, <1>3, <1>4
       DEF ControlType, StateType, PendingType, DatabaseType, QueueType
  <1>6. at = "begin" /\ up'
    BY DEF Start, LockShape
  <1>7. LockShape'
    BY <1>2, <1>6 DEF LockShape, Resetting
  <1>8. QueueShape'
    BY <1>1, <1>2, <1>4, <1>6 DEF QueueShape, Submitting, QueueType,
                                  DatabaseType
  <1>9. SlotShape'
    BY <1>2, <1>4, <1>6 DEF SlotShape, StoredUpTo, Submitting, Resetting,
                            DatabaseType, Absent
  <1>10. QED
    BY <1>5, <1>7, <1>8, <1>9

LEMMA RequestInv == Inv /\ (\E job \in Jobs : Request(job)) => Inv'
  <1> SUFFICES ASSUME Inv, NEW job \in Jobs, Request(job) PROVE Inv'
    OBVIOUS
  <1> USE DEF Inv, TypeOK, DurabilityInv, memory, submitter
  <1>1. UNCHANGED <<up, pending, shared, updates, timers, due, at, root, db,
                    stored, lastQueued, held, chain, receipts, crashes,
                    inStep>>
    BY DEF Request
  <1>2. /\ lock' \in Seq(Jobs) /\ lock' # <<>>
        /\ requests' \in 0..MaxRequests
    BY AppendFacts DEF Request, ControlType
  <1>3. TypeOK'
    BY <1>1, <1>2 DEF SwitchType, ControlType, StateType, PendingType,
                      DatabaseType, QueueType
  <1>4. LockShape' /\ QueueShape' /\ SlotShape'
    BY <1>1, <1>2 DEF LockShape, QueueShape, SlotShape, StoredUpTo
  <1>5. QED
    BY <1>3, <1>4

LEMMA TimeInv == Inv /\ (TimeoutFires \/ IntervalElapses) => Inv'
  <1> SUFFICES ASSUME Inv, TimeoutFires \/ IntervalElapses PROVE Inv'
    OBVIOUS
  <1> USE DEF Inv, TypeOK, DurabilityInv, submitter
  <1>1. UNCHANGED <<up, pending, shared, updates, at, root, db,
                    stored, lastQueued, held, chain, receipts, requests,
                    crashes, inStep>>
    BY DEF TimeoutFires, IntervalElapses
  <1>2. /\ lock' \in Seq(Jobs) /\ (lock # <<>> => lock' # <<>>)
        /\ timers' \in Nat
    <2>1. CASE TimeoutFires
      <3>1. "submit" \in Jobs
        BY DEF Jobs
      <3>2. QED
        BY <2>1, <3>1, AppendFacts DEF TimeoutFires, ControlType
    <2>2. CASE IntervalElapses
      BY <2>2 DEF IntervalElapses, ControlType
    <2>3. QED
      BY <2>1, <2>2
  <1>3. due' \in BOOLEAN
    BY DEF TimeoutFires, IntervalElapses, SwitchType
  <1>4. TypeOK'
    BY <1>1, <1>2, <1>3 DEF SwitchType, ControlType, StateType, PendingType,
                            DatabaseType, QueueType
  <1>5. LockShape' /\ QueueShape' /\ SlotShape'
    BY <1>1, <1>2 DEF LockShape, QueueShape, SlotShape, StoredUpTo
  <1>6. QED
    BY <1>4, <1>5

LEMMA PostInv == Inv /\ Post => Inv'
  <1> SUFFICES ASSUME Inv, Post PROVE Inv'
    OBVIOUS
  <1> USE DEF Inv, TypeOK, DurabilityInv, memory, submitter
  <1>1. UNCHANGED <<up, pending, shared, updates, timers, due, lock, at, root,
                    db, stored, lastQueued, held, receipts, requests, crashes,
                    inStep>>
    BY DEF Post
  <1>2. chain \in Seq(Seq(Nat)) /\ held \in Seq(Seq(Nat)) /\ lastQueued \in Nat
    BY DEF QueueType, Blocks
  <1>3. Len(chain) + 1 \in 1..Len(held) /\ Len(chain) + 1 <= lastQueued
    BY <1>2 DEF Post, QueueShape
  <1>4. held[Len(chain) + 1] \in Seq(Nat)
    BY <1>2, <1>3, ElementOfSeq
  <1>5. chain' \in Seq(Seq(Nat)) /\ Len(chain') = Len(chain) + 1
    BY <1>2, <1>4, AppendFacts DEF Post
  <1>6. QueueType'
    BY <1>1, <1>5 DEF QueueType, Blocks
  <1>7. TypeOK'
    BY <1>1, <1>6 DEF SwitchType, ControlType, StateType, PendingType,
                      DatabaseType
  <1>8. QueueShape'
    BY <1>1, <1>3, <1>5 DEF QueueShape
  <1>9. LockShape' /\ SlotShape'
    BY <1>1 DEF LockShape, SlotShape, StoredUpTo
  <1>10. QED
    BY <1>7, <1>8, <1>9

LEMMA CrashInv == Inv /\ Crash => Inv'
  <1> SUFFICES ASSUME Inv, Crash PROVE Inv'
    OBVIOUS
  <1> USE DEF Inv, TypeOK, DurabilityInv
  <1>1. UNCHANGED <<root, db, stored, lastQueued, chain, receipts, requests>>
    BY DEF Crash
  <1>2. /\ SwitchType' /\ ~up'
    BY DEF Crash, SwitchType
  <1>3. /\ lock' = <<>> /\ at' = "begin" /\ updates' = <<>> /\ held' = <<>>
        /\ timers' = 0 /\ crashes' = crashes + 1 /\ crashes < MaxCrashes
        /\ pending' = [number |-> 1, transitions |-> <<>>]
    BY DEF Crash
  <1>4. ControlType'
    BY <1>1, <1>3, EmptySeq DEF ControlType, Awaits
  <1>5. StateType' /\ PendingType' /\ DatabaseType'
    BY <1>1, <1>3 DEF StateType, PendingType, DatabaseType
  <1>6. QueueType'
    BY <1>1, <1>3 DEF QueueType, Blocks
  <1>7. LockShape' /\ QueueShape' /\ SlotShape'
    BY <1>1, <1>2, <1>3 DEF LockShape, QueueShape, SlotShape, StoredUpTo,
                            Submitting, Resetting
  <1>8. QED
    BY <1>2, <1>4, <1>5, <1>6, <1>7

\* The holder returns or throws with nothing left to write.
LEMMA ReturnInv ==
    Inv /\ (\/ QueryAnswered \/ Refused \/ RefusedApplied
            \/ SecondFaucetTransferRefused \/ Deferred \/ SubmitFailed) => Inv'
  <1> DEFINE Return == \/ QueryAnswered \/ Refused \/ RefusedApplied
                       \/ SecondFaucetTransferRefused
                       \/ Deferred \/ SubmitFailed
  <1> SUFFICES ASSUME Inv, Return PROVE Inv'
    OBVIOUS
  <1> USE DEF Inv, TypeOK, DurabilityInv, submitter
  <1>1. /\ UNCHANGED <<up, pending, shared, due, db, stored, lastQueued,
                       held, chain, requests, crashes>>
        /\ Release /\ up
    BY DEF QueryAnswered, Refused, RefusedApplied,
           SecondFaucetTransferRefused, Deferred, SubmitFailed, Holds
  <1>2. at \in {"begin", "applied", "trying"} /\ lock # <<>>
    BY DEF QueryAnswered, Refused, RefusedApplied,
           SecondFaucetTransferRefused, Deferred, SubmitFailed, Holds, LockShape
  <1>3. /\ timers' \in Nat
        /\ inStep' \in BOOLEAN
        /\ root' \in Nat
    <2>1. timers' \in Nat
      BY DEF QueryAnswered, Refused, RefusedApplied,
             SecondFaucetTransferRefused, Deferred, SubmitFailed, ControlType
    <2>2. UNCHANGED inStep \/ inStep' = FALSE
      BY DEF QueryAnswered, Refused, RefusedApplied,
             SecondFaucetTransferRefused, Deferred, SubmitFailed
    <2>3. inStep' \in BOOLEAN
      BY <2>2 DEF SwitchType
    <2>4. root' \in {root, root + 1}
      BY DEF QueryAnswered, Refused, RefusedApplied,
             SecondFaucetTransferRefused, Deferred, SubmitFailed
    <2>5. root' \in Nat
      BY <2>4 DEF StateType
    <2>6. QED
      BY <2>1, <2>3, <2>5
  <1>4. receipts' \subseteq [block : Nat, index : Nat, root : Nat]
    <2>1. Receipt(root) \in [block : Nat, index : Nat, root : Nat]
      BY ReceiptType DEF StateType
    <2>2. receipts' = receipts \cup {Receipt(root)} \/ receipts' = receipts
      BY DEF QueryAnswered, Refused, RefusedApplied,
             SecondFaucetTransferRefused, Deferred, SubmitFailed
    <2>3. QED
      BY <2>1, <2>2 DEF StateType
  <1>5. /\ lock' \in Seq(Jobs) /\ at' = "begin" /\ at' \in Awaits
        /\ updates' = <<>> /\ updates' \in Seq(Nat)
    BY <1>1, <1>2, ReleaseType
  <1>6. TypeOK'
    BY <1>1, <1>3, <1>4, <1>5
       DEF SwitchType, ControlType, StateType, PendingType, DatabaseType,
           QueueType
  <1>7. LockShape'
    BY <1>1, <1>5 DEF LockShape, Resetting
  <1>8. QueueShape'
    BY <1>1, <1>2, <1>5 DEF QueueShape, Submitting
  <1>9. SlotShape'
    BY <1>1, <1>2, <1>5 DEF SlotShape, StoredUpTo, Submitting, Resetting
  <1>10. QED
    BY <1>6, <1>7, <1>8, <1>9

LEMMA FirstTransferInv == Inv /\ FirstFaucetTransferApplied => Inv'
  <1> SUFFICES ASSUME Inv, FirstFaucetTransferApplied PROVE Inv'
    OBVIOUS
  <1> USE DEF Inv, TypeOK, DurabilityInv, submitter
  <1>1. /\ UNCHANGED <<up, pending, shared, timers, due, lock, db, stored,
                       lastQueued, held, chain, receipts, requests, crashes,
                       inStep>>
        /\ root' = root + 1 /\ updates' = <<root + 1>> /\ at' = "applied"
        /\ up /\ lock # <<>> /\ at = "begin"
    BY DEF FirstFaucetTransferApplied, Holds
  <1>2. StateType'
    BY <1>1 DEF StateType
  <1>3. TypeOK'
    BY <1>1, <1>2 DEF SwitchType, ControlType, PendingType, DatabaseType,
                      QueueType, Awaits
  <1>4. LockShape'
    BY <1>1 DEF LockShape, Resetting
  <1>5. QueueShape'
    BY <1>1 DEF QueueShape, Submitting
  <1>6. SlotShape'
    BY <1>1 DEF SlotShape, StoredUpTo, Submitting, Resetting
  <1>7. QED
    BY <1>3, <1>4, <1>5, <1>6

\* A push while every transition pushed before it is stored.
LEMMA PushInv ==
    ASSUME Inv, NEW r \in Nat, Push(r), up, at # "resetLast",
           at \notin {"putBlock", "putQueued"}, lock # <<>>,
           UNCHANGED <<up, shared, timers, due, lock, stored, lastQueued,
                       chain, requests, crashes, inStep>>,
           root' \in Nat, updates' \in Seq(Nat),
           receipts' \subseteq [block : Nat, index : Nat, root : Nat],
           DatabaseType',
           db'.number = db.number /\ db'.last = db.last,
           pending.number = db.number,
           Len(pending.transitions) <= Len(db'.slots),
           \A i \in 1..Len(pending.transitions) :
              db'.slots[i] = pending.transitions[i],
           db.last # Absent => db.last <= Len(db'.slots)
    PROVE  Inv'
  <1> USE DEF Inv, TypeOK, DurabilityInv
  <1>1. /\ PendingType'
        /\ pending'.number = pending.number
        /\ pending'.transitions = Append(pending.transitions, r)
        /\ held' \in Blocks /\ Len(held') = Len(held)
        /\ at' = "putTransition" /\ at' \in Awaits
    BY PushFacts DEF QueueType
  <1>2. /\ pending.transitions \in Seq(Nat)
        /\ pending'.transitions # <<>>
        /\ Len(pending'.transitions) = Len(pending.transitions) + 1
        /\ \A i \in 1..Len(pending.transitions) :
              pending'.transitions[i] = pending.transitions[i]
    BY SMTT(30), <1>1, PendingFacts, AppendFacts
  <1>3. TypeOK'
    BY <1>1 DEF SwitchType, ControlType, StateType, QueueType
  <1>4. LockShape'
    BY <1>1, <1>2 DEF LockShape, Resetting
  <1>5. QueueShape'
    BY <1>1 DEF QueueShape, Submitting
  <1>6. SlotShape'
    BY <1>1, <1>2 DEF SlotShape, StoredUpTo, Submitting, Resetting
  <1>7. QED
    BY <1>3, <1>4, <1>5, <1>6

LEMMA AppliedInv ==
    Inv /\ (TransactionApplied \/ SecondFaucetTransferApplied) => Inv'
  <1> SUFFICES ASSUME Inv, TransactionApplied \/ SecondFaucetTransferApplied
               PROVE  Inv'
    OBVIOUS
  <1> USE DEF Inv, TypeOK, DurabilityInv
  <1>1. /\ UNCHANGED <<up, shared, timers, due, lock, db, stored, lastQueued,
                       chain, receipts, requests, crashes, inStep>>
        /\ root' = root + 1 /\ up /\ at \in {"begin", "applied"}
    BY DEF TransactionApplied, SecondFaucetTransferApplied, Holds
  <1>2. lock # <<>>
    BY DEF TransactionApplied, SecondFaucetTransferApplied, Holds, LockShape
  <1>3. PICK r \in Nat : Push(r)
    <2>1. CASE TransactionApplied
      BY <2>1 DEF TransactionApplied, StateType
    <2>2. CASE SecondFaucetTransferApplied
      <3>1. Head(updates) \in Nat
        BY <2>2 DEF SecondFaucetTransferApplied, StateType, LockShape
      <3>2. QED
        BY <2>2, <3>1 DEF SecondFaucetTransferApplied
    <2>3. QED
      BY <2>1, <2>2
  <1>4. updates' \in Seq(Nat) /\ root' \in Nat
    <2>1. root + 1 \in Nat /\ <<root + 1>> \in Seq(Nat)
      BY DEF StateType
    <2>2. updates' = updates \/ updates' = <<root + 1>>
      BY DEF TransactionApplied, SecondFaucetTransferApplied
    <2>3. QED
      BY <1>1, <2>1, <2>2 DEF StateType
  <1>5. /\ pending.number = db.number
        /\ Len(pending.transitions) <= Len(db.slots)
        /\ \A i \in 1..Len(pending.transitions) :
              db.slots[i] = pending.transitions[i]
        /\ db.last # Absent => db.last <= Len(db.slots)
    <2>1. CASE db.last = Absent
      BY <1>1, <2>1 DEF SlotShape, Resetting, DatabaseType
    <2>2. CASE db.last # Absent
      BY <1>1, <2>2 DEF SlotShape, StoredUpTo, Resetting
    <2>3. QED
      BY <2>1, <2>2
  <1>6. DatabaseType' /\ receipts' \subseteq [block : Nat, index : Nat, root : Nat]
    BY <1>1 DEF DatabaseType, StateType
  <1>7. /\ db'.number = db.number /\ db'.last = db.last /\ db' = db
        /\ at # "resetLast" /\ at \notin {"putBlock", "putQueued"}
    BY <1>1
  <1>8. QED
    BY <1>1, <1>2, <1>3, <1>4, <1>5, <1>6, <1>7, PushInv

LEMMA TransitionStoredInv == Inv /\ TransitionStored => Inv'
  <1> SUFFICES ASSUME Inv, TransitionStored PROVE Inv'
    OBVIOUS
  <1> USE DEF Inv, TypeOK, DurabilityInv
  <1> DEFINE n     == Len(pending.transitions)
             slots == Put(db.slots, n, Last(pending.transitions))
  <1>1. /\ UNCHANGED <<up, shared, timers, due, lock, root, stored,
                       lastQueued, chain, receipts, requests, crashes, inStep>>
        /\ up /\ at = "putTransition"
        /\ db' = [db EXCEPT !.slots = slots]
        /\ IF updates # <<>>
           THEN Push(Head(updates)) /\ updates' = Tail(updates)
           ELSE at' = "putLast" /\ UNCHANGED <<pending, held, updates>>
    BY DEF TransitionStored
  <1>2. pending.transitions \in Seq(Nat) /\ pending.transitions # <<>>
    BY <1>1, PendingFacts DEF LockShape
  <1>3. /\ Last(pending.transitions) \in Nat /\ n \in Nat /\ n >= 1
        /\ Last(pending.transitions) = pending.transitions[n]
    BY <1>2, LastType
  <1>4. /\ db.slots \in Seq(Nat) /\ db.number \in Nat
        /\ db.last \in Nat \cup {Absent}
        /\ db = [number |-> db.number, last |-> db.last, slots |-> db.slots]
        /\ Len(db.slots) \in Nat
    BY DEF DatabaseType
  <1>5. n <= Len(db.slots) + 1 /\ \A i \in 1..(n - 1) :
                                     db.slots[i] = pending.transitions[i]
    BY <1>1, <1>3, <1>4 DEF SlotShape, StoredUpTo
  <1>6. /\ slots \in Seq(Nat)
        /\ n <= Len(slots) /\ Len(db.slots) <= Len(slots)
        /\ slots[n] = Last(pending.transitions)
        /\ \A i \in 1..Len(db.slots) : i # n => slots[i] = db.slots[i]
    <2> HIDE DEF n, slots
    <2> DEFINE v == Last(pending.transitions)
    <2> HIDE DEF v
    <2>1. v \in Nat /\ n \in Nat /\ 1 <= n /\ n <= Len(db.slots) + 1
          /\ db.slots \in Seq(Nat)
      BY <1>3, <1>4, <1>5 DEF v
    <2>2. /\ Put(db.slots, n, v) \in Seq(Nat)
          /\ Len(Put(db.slots, n, v)) >= Len(db.slots)
          /\ Len(Put(db.slots, n, v)) >= n
          /\ Put(db.slots, n, v)[n] = v
          /\ \A j \in 1..Len(db.slots) :
                j # n => Put(db.slots, n, v)[j] = db.slots[j]
      <3>1. PICK store \in Seq(Nat) : store = db.slots
        BY <2>1
      <3>2. PICK i \in Nat : i = n
        BY <2>1
      <3>3. PICK w \in Nat : w = v
        BY <2>1
      <3>4. 1 <= i /\ i <= Len(store) + 1
        BY <2>1, <3>1, <3>2
      <3>5. /\ Put(store, i, w) \in Seq(Nat)
            /\ Len(Put(store, i, w)) >= Len(store)
            /\ Len(Put(store, i, w)) >= i
            /\ Put(store, i, w)[i] = w
            /\ \A j \in 1..Len(store) :
                  j # i => Put(store, i, w)[j] = store[j]
        BY <3>4, PutSlot
      <3>6. QED
        BY ONLY <3>1, <3>2, <3>3, <3>5
    <2>3. Len(Put(db.slots, n, v)) \in Nat /\ Len(db.slots) \in Nat
      BY <2>1, <2>2
    <2>4. QED
      BY <2>1, <2>2, <2>3 DEF v, slots
  <1>7. \A i \in 1..n : slots[i] = pending.transitions[i]
    <2> HIDE DEF slots, n
    <2> SUFFICES ASSUME NEW i \in 1..n PROVE slots[i] = pending.transitions[i]
      OBVIOUS
    <2>1. CASE i = n
      BY <1>3, <1>6, <2>1
    <2>2. CASE i # n
      <3>1. i \in 1..(n - 1) /\ i \in 1..Len(db.slots)
        BY <1>3, <1>4, <1>5, <2>2
      <3>2. QED
        BY <1>5, <1>6, <2>2, <3>1
    <2>3. QED
      BY <2>1, <2>2
  <1>8. /\ db'.slots = slots /\ db'.number = db.number /\ db'.last = db.last
        /\ DatabaseType'
    <2> HIDE DEF slots
    <2>1. db' = [number |-> db.number, last |-> db.last, slots |-> slots]
      BY <1>1, <1>4
    <2>2. QED
      BY <1>4, <1>6, <2>1 DEF DatabaseType
  <1> HIDE DEF slots
  <1>9. lock # <<>> /\ pending.number = db.number
    BY <1>1 DEF LockShape, SlotShape, Resetting
  <1>10. db.last # Absent => db.last <= Len(slots)
    BY <1>4, <1>6 DEF SlotShape, Absent
  <1>11. CASE updates # <<>>
    <2>1. Head(updates) \in Nat /\ updates' \in Seq(Nat)
      <3>1. updates' = Tail(updates) /\ updates \in Seq(Nat)
        BY <1>1, <1>11 DEF StateType
      <3>2. QED
        BY <1>11, <3>1
    <2>2. Push(Head(updates))
      BY <1>1, <1>11
    <2>3. /\ n <= Len(db'.slots)
          /\ \A i \in 1..n : db'.slots[i] = pending.transitions[i]
          /\ db.last # Absent => db.last <= Len(db'.slots)
      BY <1>6, <1>7, <1>8, <1>10
    <2>4. /\ receipts' \subseteq [block : Nat, index : Nat, root : Nat]
          /\ root' \in Nat
      BY <1>1 DEF StateType
    <2>5. at # "resetLast" /\ at \notin {"putBlock", "putQueued"} /\ up
      BY <1>1
    <2>6. QED
      BY <1>1, <1>8, <1>9, <2>1, <2>2, <2>3, <2>4, <2>5, PushInv
  <1>12. CASE updates = <<>>
    <2>1. at' = "putLast" /\ UNCHANGED <<pending, held, updates>>
      BY <1>1, <1>12
    <2>2. TypeOK'
      BY <1>1, <1>8, <2>1 DEF SwitchType, ControlType, StateType,
                              PendingType, QueueType, Awaits
    <2>3. LockShape'
      BY <1>1, <1>2, <1>9, <2>1 DEF LockShape, Resetting
    <2>4. QueueShape'
      BY <1>1, <1>8, <2>1 DEF QueueShape, Submitting
    <2>5. SlotShape'
      BY <1>1, <1>3, <1>4, <1>6, <1>7, <1>8, <1>9, <1>10, <2>1
         DEF SlotShape, StoredUpTo, Submitting, Resetting
    <2>6. QED
      BY <2>2, <2>3, <2>4, <2>5
  <1>13. QED
    BY <1>11, <1>12

LEMMA LastStoredInv == Inv /\ LastStored => Inv'
  <1> SUFFICES ASSUME Inv, LastStored PROVE Inv'
    OBVIOUS
  <1> USE DEF Inv, TypeOK, DurabilityInv, memory, submitter
  <1>1. /\ UNCHANGED <<up, pending, shared, updates, timers, due, root, stored,
                       lastQueued, held, chain, requests, crashes, inStep>>
        /\ up /\ at = "putLast" /\ at' = "begin"
        /\ db' = [db EXCEPT !.last = Len(pending.transitions)]
        /\ receipts' = receipts \cup {Receipt(Last(pending.transitions))}
        /\ lock' = Append(Tail(lock), "submit") \/ lock' = Tail(lock)
    BY DEF LastStored
  <1>2. /\ pending.transitions \in Seq(Nat) /\ pending.transitions # <<>>
        /\ Len(pending.transitions) \in Nat
    BY <1>1, PendingFacts DEF LockShape
  <1>3. receipts' \subseteq [block : Nat, index : Nat, root : Nat]
    <2>1. Last(pending.transitions) \in Nat
      BY <1>2, LastType
    <2>2. QED
      BY <1>1, <2>1, ReceiptType DEF StateType
  <1>4. lock' \in Seq(Jobs)
    <2>1. Tail(lock) \in Seq(Jobs) /\ "submit" \in Jobs
      BY <1>1 DEF ControlType, LockShape, Jobs
    <2>2. Append(Tail(lock), "submit") \in Seq(Jobs)
      BY <2>1, AppendFacts
    <2>3. QED
      BY <1>1, <2>1, <2>2
  <1>5. /\ db'.last = Len(pending.transitions) /\ db'.number = db.number
        /\ db'.slots = db.slots /\ DatabaseType'
    BY <1>1, <1>2 DEF DatabaseType
  <1>6. TypeOK'
    BY <1>1, <1>3, <1>4, <1>5 DEF SwitchType, ControlType, StateType,
                                  PendingType, QueueType, Awaits
  <1>7. LockShape'
    BY <1>1 DEF LockShape, Resetting
  <1>8. QueueShape'
    BY <1>1, <1>5 DEF QueueShape, Submitting
  <1>9. SlotShape'
    BY <1>1, <1>2, <1>5 DEF SlotShape, StoredUpTo, Submitting, Resetting,
                            Absent
  <1>10. QED
    BY <1>6, <1>7, <1>8, <1>9

\* A new pending block, with what the submitter has queued before it.
LEMMA NextBlockInv ==
    ASSUME Inv, NextBlock, up, lock # <<>>,
           at \in {"begin", "trying"},
           pending.number <= Len(held),
           UNCHANGED <<up, updates, timers, due, lock, root, db, stored,
                       lastQueued, held, chain, receipts, requests, crashes,
                       inStep>>
    PROVE  Inv'
  <1> USE DEF Inv, TypeOK, DurabilityInv
  <1>1. /\ PendingType'
        /\ pending'.number = pending.number + 1
        /\ pending'.transitions = <<>>
        /\ shared' \in BOOLEAN
        /\ at' = "resetLast" /\ at' \in Awaits
    BY NextBlockFacts
  <1>2. TypeOK'
    BY <1>1 DEF SwitchType, ControlType, StateType, DatabaseType, QueueType
  <1>3. LockShape'
    BY <1>1 DEF LockShape, Resetting
  <1>4. QueueShape'
    <2>1. pending.number \in Nat /\ Len(held) \in Nat
      BY PendingFacts DEF QueueType, Blocks
    <2>2. QED
      BY <1>1, <2>1 DEF QueueShape, Submitting
  <1>5. SlotShape'
    BY <1>1 DEF SlotShape, Submitting, Resetting
  <1>6. QED
    BY <1>2, <1>3, <1>4, <1>5

LEMMA SubmittedInv == Inv /\ Submitted => Inv'
  <1> SUFFICES ASSUME Inv, Submitted PROVE Inv'
    OBVIOUS
  <1> USE DEF Inv, TypeOK, DurabilityInv
  <1>1. /\ UNCHANGED <<up, updates, timers, due, lock, root, db, stored,
                       lastQueued, chain, receipts, requests, crashes, inStep>>
        /\ up /\ at = "begin" /\ lock # <<>>
    BY DEF Submitted, Holds
  <1>2. CASE pending.number <= Len(held)
    <2>1. NextBlock /\ UNCHANGED held
      BY <1>2 DEF Submitted
    <2>2. QED
      BY <1>1, <1>2, <2>1, NextBlockInv
  <1>3. CASE ~(pending.number <= Len(held))
    <2>1. /\ held' = Append(held, pending.transitions)
          /\ shared' = TRUE /\ at' = "putBlock" /\ UNCHANGED pending
      BY <1>3 DEF Submitted
    <2>2. held \in Seq(Seq(Nat)) /\ pending.transitions \in Seq(Nat)
      BY PendingFacts DEF QueueType, Blocks
    <2>3. held' \in Seq(Seq(Nat)) /\ Len(held') = Len(held) + 1
      BY <2>1, <2>2, AppendFacts
    <2>4. QueueType'
      BY <1>1, <2>3 DEF QueueType, Blocks
    <2>5. SwitchType'
      BY <1>1, <2>1 DEF SwitchType
    <2>6. TypeOK'
      BY <1>1, <2>1, <2>4, <2>5 DEF ControlType, StateType, PendingType,
                                    DatabaseType, Awaits
    <2>7. LockShape'
      BY <1>1, <2>1 DEF LockShape, Resetting
    <2>8. QueueShape'
      <3>1. pending.number \in Nat /\ Len(held) \in Nat
        BY <2>2, PendingFacts
      <3>2. QED
        BY <1>1, <1>3, <2>1, <2>3, <3>1 DEF QueueShape, Submitting
    <2>9. SlotShape'
      BY <1>1, <2>1 DEF SlotShape, StoredUpTo, Submitting, Resetting
    <2>10. QED
      BY <2>6, <2>7, <2>8, <2>9
  <1>4. QED
    BY <1>2, <1>3

LEMMA BlockStoredInv == Inv /\ BlockStored => Inv'
  <1> SUFFICES ASSUME Inv, BlockStored PROVE Inv'
    OBVIOUS
  <1> USE DEF Inv, TypeOK, DurabilityInv, memory
  <1>1. /\ UNCHANGED <<up, pending, shared, updates, timers, due, lock, root,
                       db, lastQueued, held, chain, receipts, requests,
                       crashes, inStep>>
        /\ up /\ at = "putBlock" /\ at' = "putQueued"
        /\ stored' = Put(stored, pending.number, pending.transitions)
    BY DEF BlockStored
  <1>2. /\ pending.number \in Nat /\ pending.transitions \in Seq(Nat)
        /\ Len(held) \in Nat /\ Len(stored) \in Nat /\ lastQueued \in Nat
    BY PendingFacts DEF QueueType, Blocks
  <1>3. 1 <= pending.number /\ pending.number <= Len(stored) + 1
    BY <1>1, <1>2 DEF QueueShape, Submitting
  <1>4. /\ stored' \in Blocks
        /\ Len(stored') >= Len(stored) /\ Len(stored') >= pending.number
    BY <1>1, <1>2, <1>3, PutBlock DEF QueueType
  <1>5. Len(stored') \in Nat
    BY <1>4 DEF Blocks
  <1>6. TypeOK'
    BY <1>1, <1>4 DEF SwitchType, ControlType, StateType, PendingType,
                      DatabaseType, QueueType, Awaits
  <1>7. LockShape'
    BY <1>1 DEF LockShape, Resetting
  <1>8. QueueShape'
    BY <1>1, <1>2, <1>4, <1>5 DEF QueueShape, Submitting
  <1>9. SlotShape'
    BY <1>1 DEF SlotShape, StoredUpTo, Submitting, Resetting
  <1>10. QED
    BY <1>6, <1>7, <1>8, <1>9

LEMMA QueuedInv == Inv /\ (QueuedStored \/ Queued) => Inv'
  <1> SUFFICES ASSUME Inv, QueuedStored \/ Queued PROVE Inv'
    OBVIOUS
  <1> USE DEF Inv, TypeOK, DurabilityInv
  <1>1. /\ pending.number \in Nat /\ Len(held) \in Nat
        /\ Len(stored) \in Nat /\ lastQueued \in Nat
    BY PendingFacts DEF QueueType, Blocks
  <1>2. CASE QueuedStored
    <2>1. /\ UNCHANGED <<up, pending, shared, updates, timers, due, lock, root,
                         db, stored, held, chain, receipts, requests, crashes,
                         inStep>>
          /\ up /\ at = "putQueued" /\ at' = "trying"
          /\ lastQueued' = pending.number
      BY <1>2 DEF QueuedStored, memory
    <2>2. TypeOK'
      BY <1>1, <2>1 DEF SwitchType, ControlType, StateType, PendingType,
                        DatabaseType, QueueType, Awaits
    <2>3. LockShape'
      BY <2>1 DEF LockShape, Resetting
    <2>4. QueueShape'
      <3>1. Len(chain) \in Nat /\ db.number \in Nat
        BY DEF QueueType, Blocks, DatabaseType
      <3>2. pending.number = db.number
        BY <2>1 DEF SlotShape, Resetting
      <3>3. QED
        BY <1>1, <2>1, <3>1, <3>2 DEF QueueShape, Submitting
    <2>5. SlotShape'
      BY <2>1 DEF SlotShape, StoredUpTo, Submitting, Resetting
    <2>6. QED
      BY <2>2, <2>3, <2>4, <2>5
  <1>3. CASE Queued
    <2>1. /\ UNCHANGED <<up, updates, timers, due, lock, root, db, stored,
                         lastQueued, held, chain, receipts, requests, crashes,
                         inStep>>
          /\ up /\ at = "trying" /\ NextBlock
      BY <1>3 DEF Queued, submitter
    <2>2. lock # <<>> /\ pending.number <= Len(held)
      BY <1>1, <2>1 DEF LockShape, QueueShape, Submitting
    <2>3. QED
      BY <2>1, <2>2, NextBlockInv
  <1>4. QED
    BY <1>2, <1>3

LEMMA ResetInv == Inv /\ (LastReset \/ PendingStored) => Inv'
  <1> SUFFICES ASSUME Inv, LastReset \/ PendingStored PROVE Inv'
    OBVIOUS
  <1> USE DEF Inv, TypeOK, DurabilityInv
  <1>1. /\ db.slots \in Seq(Nat) /\ db.number \in Nat
        /\ db.last \in Nat \cup {Absent} /\ Len(db.slots) \in Nat
        /\ db = [number |-> db.number, last |-> db.last, slots |-> db.slots]
    BY DEF DatabaseType
  <1>2. pending.number \in Nat /\ pending.transitions = <<>>
    BY PendingFacts DEF LastReset, PendingStored, LockShape, Resetting
  <1>3. CASE LastReset
    <2>1. /\ UNCHANGED <<up, pending, shared, updates, timers, due, lock, root,
                         stored, lastQueued, held, chain, receipts, requests,
                         crashes, inStep>>
          /\ up /\ at = "resetLast" /\ at' = "putPending"
          /\ db' = [db EXCEPT !.last = 0]
      BY <1>3 DEF LastReset, memory, submitter
    <2>2. /\ db'.last = 0 /\ db'.number = db.number /\ db'.slots = db.slots
          /\ DatabaseType'
      BY <1>1, <2>1 DEF DatabaseType
    <2>3. TypeOK'
      BY <2>1, <2>2 DEF SwitchType, ControlType, StateType, PendingType,
                        QueueType, Awaits
    <2>4. LockShape'
      BY <1>2, <2>1 DEF LockShape, Resetting
    <2>5. QueueShape'
      BY <2>1, <2>2 DEF QueueShape, Submitting
    <2>6. SlotShape'
      BY <1>1, <2>1, <2>2 DEF SlotShape, Submitting, Resetting, Absent
    <2>7. QED
      BY <2>3, <2>4, <2>5, <2>6
  <1>4. CASE PendingStored
    <2>1. /\ UNCHANGED <<up, pending, shared, root, stored, lastQueued, held,
                         chain, receipts, requests, crashes, inStep>>
          /\ up /\ at = "putPending" /\ Release
          /\ timers' = timers + 1 /\ due' = FALSE
          /\ db' = [db EXCEPT !.number = pending.number]
      BY <1>4 DEF PendingStored, submitter
    <2>2. /\ db'.last = db.last /\ db'.number = pending.number
          /\ db'.slots = db.slots /\ DatabaseType'
      BY <1>1, <1>2, <2>1 DEF DatabaseType
    <2>3. /\ lock' \in Seq(Jobs) /\ at' = "begin" /\ at' \in Awaits
          /\ updates' = <<>> /\ updates' \in Seq(Nat)
      BY <2>1, ReleaseType DEF LockShape
    <2>4. SwitchType'
      BY <2>1 DEF SwitchType
    <2>5. TypeOK'
      BY SMTT(30), <2>1, <2>2, <2>3, <2>4 DEF ControlType, StateType, PendingType,
                                    QueueType
    <2>6. LockShape'
      BY <2>1, <2>3 DEF LockShape, Resetting
    <2>7. QueueShape'
      BY <2>1, <2>2, <2>3 DEF QueueShape, Submitting
    <2>8. SlotShape'
      <3>1. db.last = 0 /\ Len(pending.transitions) = 0
        BY <1>2, <2>1 DEF SlotShape
      <3>2. QED
        BY <1>1, <1>2, <2>1, <2>2, <2>3, <3>1
           DEF SlotShape, StoredUpTo, Submitting, Resetting, Absent
    <2>9. QED
      BY <2>5, <2>6, <2>7, <2>8
  <1>5. QED
    BY <1>3, <1>4

-----------------------------------------------------------------------------
(***************************************************************************)
(* The theorems.                                                           *)
(***************************************************************************)
LEMMA NextInv == Inv /\ [Next]_vars => Inv'
  <1>1. Inv /\ UNCHANGED vars => Inv'
    BY DEF vars, memory, submitter, Inv, TypeOK, SwitchType, ControlType,
           StateType, PendingType, DatabaseType, QueueType, DurabilityInv,
           LockShape, QueueShape, SlotShape, StoredUpTo
  <1>2. Inv /\ Next => Inv'
    BY StartInv, RequestInv, TimeInv, PostInv, CrashInv, ReturnInv,
       FirstTransferInv, AppliedInv, TransitionStoredInv, LastStoredInv,
       SubmittedInv, BlockStoredInv, QueuedInv, ResetInv
       DEF Next, Resume
  <1>3. QED
    BY <1>1, <1>2

LEMMA InvHolds == Spec => []Inv
  BY InitInv, NextInv, PTL DEF Spec

\* Every variable keeps to its type through any run of the aggregator.
THEOREM TypeCorrect == Spec => []TypeOK
  <1>1. Inv => TypeOK
    BY DEF Inv
  <1>2. QED
    BY <1>1, InvHolds, PTL

\* Wherever the node crashes and whatever the submitter's calls do, no block
\* number is skipped between the pending block and the submitter's queue.
THEOREM NoNumberIsSkipped == Spec => []NumbersAreContiguous
  <1>1. Inv => NumbersAreContiguous
    BY DEF Inv, DurabilityInv, QueueShape, NumbersAreContiguous
  <1>2. QED
    BY <1>1, InvHolds, PTL

\* Whenever no call is under way, a restart would recover exactly the pending
\* block that is in memory.
THEOREM RestartRecoversPending == Spec => []QuietIsDurable
  <1>1. Inv => QuietIsDurable
    <2> SUFFICES ASSUME Inv, up, at = "begin", db.last # Absent
                 PROVE  pending = RecoveredBlock
      BY DEF Inv, DurabilityInv, SlotShape, QuietIsDurable
    <2> DEFINE recovered == SubSeq(db.slots, 1, db.last)
    <2>1. /\ db.slots \in Seq(Nat) /\ pending.transitions \in Seq(Nat)
          /\ pending = [number |-> pending.number,
                        transitions |-> pending.transitions]
      BY PendingFacts DEF Inv, TypeOK, DatabaseType
    <2>2. /\ pending.number = db.number
          /\ db.last = Len(pending.transitions)
          /\ db.last \in 0..Len(db.slots)
          /\ \A i \in 1..db.last : db.slots[i] = pending.transitions[i]
      BY <2>1 DEF Inv, DurabilityInv, SlotShape, StoredUpTo, Resetting
    <2>3. /\ recovered \in Seq(Nat) /\ Len(recovered) = db.last
          /\ \A i \in 1..db.last : recovered[i] = db.slots[i]
      BY <2>1, <2>2, PrefixFacts
    <2> HIDE DEF recovered
    <2>4. pending.transitions = recovered
      BY ZenonT(40), <2>1, <2>2, <2>3, SeqEqual
    <2>5. QED
      BY <2>1, <2>2, <2>4 DEF RecoveredBlock, recovered
  <1>2. QED
    BY <1>1, InvHolds, PTL

-----------------------------------------------------------------------------
(***************************************************************************)
(* Receipts are honoured and the contract gets one sequence of             *)
(* transitions, as long as no crash or failure comes where the databases   *)
(* differ: SequenceInv is inductive together with the invariant above.     *)
(*                                                                         *)
(* The roots at the ends of the blocks.                                    *)
(***************************************************************************)
LEMMA QueueFacts ==
    ASSUME Inv
    PROVE  /\ lastQueued \in Nat /\ Len(stored) \in Nat /\ Len(chain) \in Nat
           /\ Len(chain) <= lastQueued /\ lastQueued <= Len(stored)
           /\ stored \in Seq(Seq(Nat)) /\ chain \in Seq(Seq(Nat))
           /\ held \in Seq(Seq(Nat))
           /\ \A n \in 1..lastQueued : stored[n] \in Seq(Nat)
           /\ pending.number \in Nat /\ pending.transitions \in Seq(Nat)
           /\ Len(pending.transitions) \in Nat
           /\ Recorded \in Nat /\ root \in Nat /\ updates \in Seq(Nat)
           /\ Len(updates) \in Nat
  <1>1. /\ stored \in Seq(Seq(Nat)) /\ chain \in Seq(Seq(Nat))
        /\ held \in Seq(Seq(Nat)) /\ lastQueued \in Nat
    BY DEF Inv, TypeOK, QueueType, Blocks
  <1>2. Len(stored) \in Nat /\ Len(chain) \in Nat
        /\ \A n \in 1..Len(stored) : stored[n] \in Seq(Nat)
    BY <1>1
  <1>3. Len(chain) <= lastQueued /\ lastQueued <= Len(stored)
    BY DEF Inv, DurabilityInv, QueueShape
  <1>4. \A n \in 1..lastQueued : stored[n] \in Seq(Nat)
    BY <1>1, <1>2, <1>3
  <1>5. Recorded \in Nat
    BY DEF Recorded, Inv, TypeOK, DatabaseType
  <1>6. root \in Nat /\ updates \in Seq(Nat)
    BY DEF Inv, TypeOK, StateType
  <1>7. Len(updates) \in Nat
    BY <1>6
  <1>8. /\ pending.number \in Nat /\ pending.transitions \in Seq(Nat)
        /\ Len(pending.transitions) \in Nat
    BY PendingFacts DEF Inv, TypeOK
  <1>9. QED
    BY <1>1, <1>2, <1>3, <1>4, <1>5, <1>6, <1>7, <1>8

LEMMA EndFacts ==
    ASSUME Inv, BlocksFollow
    PROVE  /\ Base \in Nat
           /\ \A n \in 0..lastQueued : EndOf(n) \in Nat
           /\ \A n \in 1..lastQueued :
                 /\ Len(stored[n]) \in Nat /\ Len(stored[n]) >= 1
                 /\ EndOf(n) = EndOf(n - 1) + Len(stored[n])
                 /\ EndOf(n) = Last(stored[n])
  <1>1. ASSUME NEW n \in 1..lastQueued
        PROVE  /\ Len(stored[n]) \in Nat /\ Len(stored[n]) >= 1
               /\ EndOf(n) \in Nat
               /\ EndOf(n) = stored[n][Len(stored[n])]
               /\ EndOf(n) = Last(stored[n])
    <2>1. stored[n] \in Seq(Nat) /\ stored[n] # <<>> /\ n # 0
      BY QueueFacts DEF BlocksFollow
    <2>2. Last(stored[n]) \in Nat /\ Last(stored[n]) = stored[n][Len(stored[n])]
          /\ Len(stored[n]) >= 1 /\ Len(stored[n]) \in Nat
      BY <2>1, LastType
    <2>3. EndOf(n) = Last(stored[n])
      BY <2>1 DEF EndOf
    <2>4. QED
      BY <2>2, <2>3
  <1>2. EndOf(0) \in Nat
    BY DEF EndOf
  <1>3. \A n \in 0..lastQueued : EndOf(n) \in Nat
    BY <1>1, <1>2, QueueFacts
  <1>4. \A n \in 1..lastQueued : EndOf(n) = EndOf(n - 1) + Len(stored[n])
    BY <1>1 DEF BlocksFollow
  <1>5. Base \in Nat
    BY <1>3, QueueFacts DEF Base
  <1>6. QED
    BY <1>1, <1>3, <1>4, <1>5

\* The blocks queued are never written again.
LEMMA EndKeeps ==
    ASSUME Inv, BlocksFollow, lastQueued' = lastQueued,
           \A n \in 1..lastQueued : stored'[n] = stored[n]
    PROVE  /\ BlocksFollow'
           /\ Base' = Base
           /\ \A n \in 0..lastQueued : EndOf(n)' = EndOf(n)
  <1>1. \A n \in 0..lastQueued : EndOf(n)' = EndOf(n)
    BY QueueFacts DEF EndOf
  <1>2. Base' = Base
    BY <1>1, QueueFacts DEF Base
  <1>3. ASSUME NEW n \in 1..lastQueued
        PROVE  /\ stored'[n] # <<>>
               /\ \A i \in 1..Len(stored'[n]) :
                     stored'[n][i] = EndOf(n - 1)' + i
    <2>1. n - 1 \in 0..lastQueued
      BY QueueFacts
    <2>2. EndOf(n - 1)' = EndOf(n - 1)
      BY <1>1, <2>1
    <2>3. QED
      BY <2>2 DEF BlocksFollow
  <1>4. QED
    BY <1>1, <1>2, <1>3 DEF BlocksFollow

\* Receipts that are still right when no block has been queued and the
\* pending block has lost none of its stored transitions.
LEMMA ReceiptsKeep ==
    ASSUME Inv, OneSequence, lastQueued' = lastQueued,
           \A n \in 1..lastQueued : stored'[n] = stored[n],
           Pending => Pending' /\ Recorded <= Recorded', Recorded' \in Nat,
           NEW r \in receipts
    PROVE  /\ r.block \in 1..(lastQueued' + 1)
           /\ r.root = EndOf(r.block - 1)' + r.index
           /\ IF r.block <= lastQueued'
              THEN r.index <= Len(stored'[r.block])
              ELSE Pending' /\ r.index <= Recorded'
  <1>1. BlocksFollow /\ ReceiptsFollow
    BY DEF OneSequence
  <1>2. /\ r.block \in 1..(lastQueued + 1)
        /\ r.root = EndOf(r.block - 1) + r.index
        /\ IF r.block <= lastQueued THEN r.index <= Len(stored[r.block])
                                    ELSE Pending /\ r.index <= Recorded
    BY <1>1 DEF ReceiptsFollow
  <1>3. r.block - 1 \in 0..lastQueued /\ lastQueued \in Nat /\ Recorded \in Nat
        /\ r.index \in Nat
    <2>1. lastQueued \in Nat /\ Recorded \in Nat
      BY QueueFacts
    <2>2. r.index \in Nat
      BY DEF Inv, TypeOK, StateType
    <2>3. QED
      BY <1>2, <2>1, <2>2
  <1>4. EndOf(r.block - 1)' = EndOf(r.block - 1)
    BY <1>1, <1>3, EndKeeps
  <1>5. QED
    BY <1>2, <1>3, <1>4

-----------------------------------------------------------------------------
(***************************************************************************)
(* One lemma per action, or per group of them.                             *)
(***************************************************************************)
LEMMA InitSequence == Init => OneSequence
  BY DEF Init, OneSequence, BlocksFollow, CopiesAgree, SlotsFollow, RootFollows,
         ReceiptsFollow, Pending, Recorded, Base, EndOf, Absent, Submitting,
         Resetting

LEMMA SameSequence ==
    ASSUME OneSequence,
           UNCHANGED <<up, pending, shared, updates, at, root, db, stored,
                       lastQueued, held, chain, receipts>>
    PROVE  OneSequence'
  BY DEF OneSequence, BlocksFollow, CopiesAgree, SlotsFollow, RootFollows,
         ReceiptsFollow, Pending, Recorded, Base, EndOf

LEMMA StartSequence ==
    ASSUME Inv, Inv', OneSequence, Start
    PROVE  OneSequence'
  <1> USE DEF OneSequence
  <1>1. /\ up' /\ at = "begin" /\ updates = <<>> /\ ~up
        /\ held' = SubSeq(stored, 1, lastQueued)
        /\ UNCHANGED <<shared, at, updates, root, db, stored, lastQueued,
                       chain, receipts>>
    BY DEF Start, Inv, DurabilityInv, LockShape, RootFollows
  <1>2. Base' = Base /\ BlocksFollow' /\ Recorded' = Recorded
        /\ (Pending <=> Pending')
    BY <1>1, EndKeeps DEF Recorded, Pending
  <1>3. /\ Len(pending'.transitions) = Recorded
        /\ \A i \in 1..Recorded : pending'.transitions[i] = db.slots[i]
    BY <1>1 DEF Inv, DurabilityInv, SlotShape, StoredUpTo, Recorded
  <1>4. CopiesAgree'
    <2>1. \A n \in 1..lastQueued : held'[n] = stored[n]
      BY <1>1, QueueFacts
    <2>2. QED
      BY <1>1, <2>1 DEF CopiesAgree, Submitting
  <1>5. SlotsFollow'
    BY <1>1, <1>2, <1>3, QueueFacts DEF SlotsFollow, Pending, Resetting
  <1>6. RootFollows'
    <2>1. Len(updates) = 0 /\ root = Base + Recorded /\ Base \in Nat
          /\ Recorded \in Nat
      BY <1>1, QueueFacts, EndFacts DEF RootFollows
    <2>2. QED
      BY <1>1, <1>2, <1>3, <2>1 DEF RootFollows
  <1>7. ReceiptsFollow'
    <2>1. Recorded' \in Nat /\ Recorded <= Recorded'
      BY <1>2, QueueFacts
    <2>2. QED
      BY <1>1, <1>2, <2>1, ReceiptsKeep DEF ReceiptsFollow
  <1>8. QED
    BY <1>2, <1>4, <1>5, <1>6, <1>7

LEMMA PostSequence ==
    ASSUME Inv, OneSequence, Post
    PROVE  OneSequence'
  <1> USE DEF OneSequence
  <1>1. /\ up /\ Len(chain) < lastQueued
        /\ chain' = Append(chain, held[Len(chain) + 1])
        /\ UNCHANGED <<up, pending, shared, updates, at, root, db, stored,
                       lastQueued, held, receipts>>
    BY DEF Post, memory, submitter
  <1>2. BlocksFollow' /\ SlotsFollow' /\ RootFollows' /\ ReceiptsFollow'
    BY <1>1 DEF BlocksFollow, SlotsFollow, RootFollows, ReceiptsFollow, Pending,
                Recorded, Base, EndOf
  <1>3. Len(chain) \in Nat /\ Len(chain) + 1 \in 1..lastQueued
        /\ Len(chain) + 1 \in 1..Len(held)
    <2>1. Len(chain) \in Nat /\ Len(chain) + 1 \in 1..lastQueued
      BY <1>1, QueueFacts
    <2>2. Len(held) \in Nat /\ lastQueued <= Len(held)
      <3>1. Len(held) \in Nat /\ lastQueued \in Nat
        BY QueueFacts
      <3>2. Len(held) = lastQueued + 1 \/ Len(held) = lastQueued
        BY <1>1 DEF Inv, DurabilityInv, QueueShape
      <3>3. QED
        BY <3>1, <3>2
    <2>3. lastQueued \in Nat
      BY QueueFacts
    <2>4. QED
      BY <2>1, <2>2, <2>3
  <1>4. held[Len(chain) + 1] \in Seq(Nat)
        /\ held[Len(chain) + 1] = stored[Len(chain) + 1]
    BY <1>1, <1>3, QueueFacts DEF CopiesAgree
  <1>5. /\ Len(chain') = Len(chain) + 1
        /\ \A n \in 1..Len(chain) : chain'[n] = chain[n]
        /\ chain'[Len(chain) + 1] = stored[Len(chain) + 1]
    <2>1. chain \in Seq(Seq(Nat))
      BY QueueFacts
    <2>2. QED
      BY <1>1, <1>4, <2>1, AppendFacts
  <1>6. \A n \in 1..Len(chain') : chain'[n] = stored[n]
    BY <1>3, <1>5 DEF CopiesAgree
  <1>7. CopiesAgree'
    BY <1>1, <1>6 DEF CopiesAgree
  <1>8. QED
    BY <1>2, <1>7

LEMMA CrashSequence ==
    ASSUME Inv, OneSequence, Crash, at \in InStep
    PROVE  OneSequence'
  <1> USE DEF OneSequence
  <1>1. /\ up /\ ~up' /\ at' = "begin" /\ updates' = <<>> /\ shared' = FALSE
        /\ pending' = [number |-> 1, transitions |-> <<>>]
        /\ UNCHANGED <<root, db, stored, lastQueued, chain, receipts>>
    BY DEF Crash
  <1>2. at \in {"begin", "putBlock", "putQueued"} /\ Pending /\ Pending'
    BY <1>1 DEF InStep, Pending, Resetting
  <1>3. Base' = Base /\ BlocksFollow' /\ Recorded' = Recorded
    BY <1>1, EndKeeps DEF Recorded
  <1>4. Recorded = Len(pending.transitions)
    BY <1>1, <1>2 DEF Inv, DurabilityInv, SlotShape, Submitting, Recorded
  <1>5. CopiesAgree'
    BY <1>1 DEF CopiesAgree, Submitting
  <1>6. SlotsFollow'
    BY <1>1, <1>2, <1>3 DEF SlotsFollow, Resetting
  <1>7. RootFollows'
    <2>1. updates = <<>> /\ Len(updates) = 0
      BY <1>2 DEF RootFollows
    <2>2. root = Base + Recorded
      BY <1>1, <1>2, <1>4, <2>1, EndFacts, QueueFacts DEF RootFollows
    <2>3. QED
      BY <1>1, <1>3, <2>2 DEF RootFollows
  <1>8. ReceiptsFollow'
    <2>1. Recorded' \in Nat /\ Recorded <= Recorded'
      BY <1>3, QueueFacts
    <2>2. QED
      BY <1>1, <1>2, <2>1, ReceiptsKeep DEF ReceiptsFollow
  <1>9. QED
    BY <1>3, <1>5, <1>6, <1>7, <1>8

\* The holder returns with nothing applied; a query has its answer signed.
LEMMA ReturnSequence ==
    ASSUME Inv, Inv', OneSequence, QueryAnswered \/ Refused \/ Deferred
    PROVE  OneSequence'
  <1> USE DEF OneSequence
  <1>1. /\ UNCHANGED <<up, pending, shared, root, db, stored, lastQueued, held,
                       chain>>
        /\ up /\ at = "begin" /\ at' = "begin" /\ updates' = <<>>
        /\ receipts' = receipts \/ receipts' = receipts \cup {Receipt(root)}
    BY DEF QueryAnswered, Refused, Deferred, Holds, Release, submitter
  <1>2. updates' = updates /\ at' = at
    BY <1>1 DEF RootFollows
  <1>3. Base' = Base /\ BlocksFollow' /\ Recorded' = Recorded /\ Pending /\ Pending'
    BY <1>1, EndKeeps DEF Recorded, Pending, Resetting
  <1>4. CopiesAgree' /\ SlotsFollow' /\ RootFollows'
    BY <1>1, <1>2, <1>3 DEF CopiesAgree, SlotsFollow, RootFollows, Pending
  <1>5. Recorded' \in Nat /\ Recorded <= Recorded'
    BY <1>3, QueueFacts
  <1>6. /\ pending.number = lastQueued + 1 /\ Recorded = Len(pending.transitions)
        /\ root = Base + Recorded
    <2>1. Recorded = Len(pending.transitions) /\ pending.number = db.number
      BY <1>1 DEF Inv, DurabilityInv, SlotShape, Recorded, Resetting
    <2>2. db.number = lastQueued + 1
      BY <1>3 DEF SlotsFollow
    <2>3. Len(updates) = 0 /\ root = Base + Len(pending.transitions) + Len(updates)
      BY <1>1 DEF RootFollows
    <2>4. Base \in Nat /\ Recorded \in Nat
      BY EndFacts, QueueFacts
    <2>5. QED
      BY <2>1, <2>2, <2>3, <2>4
  <1>7. ASSUME NEW r \in receipts', r \notin receipts
        PROVE  /\ r.block \in 1..(lastQueued' + 1)
               /\ r.root = EndOf(r.block - 1)' + r.index
               /\ IF r.block <= lastQueued'
                  THEN r.index <= Len(stored'[r.block])
                  ELSE Pending' /\ r.index <= Recorded'
    <2>1. r = [block |-> lastQueued + 1, index |-> Recorded,
               root |-> Base + Recorded]
      BY <1>1, <1>6, <1>7 DEF Receipt
    <2>2. lastQueued \in Nat /\ Recorded \in Nat
      BY QueueFacts
    <2>3. r.block - 1 = lastQueued /\ r.block = lastQueued + 1
      BY <2>1, <2>2
    <2>4. EndOf(lastQueued)' = Base
      BY <1>1, EndKeeps, <2>2 DEF Base
    <2>5. QED
      BY <1>1, <1>3, <2>1, <2>2, <2>3, <2>4
  <1>8. ReceiptsFollow'
    BY <1>1, <1>3, <1>5, <1>7, ReceiptsKeep DEF ReceiptsFollow
  <1>9. QED
    BY <1>3, <1>4, <1>8

LEMMA FirstTransferSequence ==
    ASSUME Inv, Inv', OneSequence, FirstFaucetTransferApplied
    PROVE  OneSequence'
  <1> USE DEF OneSequence
  <1>1. /\ UNCHANGED <<up, pending, shared, db, stored, lastQueued, held, chain,
                       receipts>>
        /\ root' = root + 1 /\ updates' = <<root + 1>> /\ at' = "applied"
        /\ up /\ at = "begin"
    BY DEF FirstFaucetTransferApplied, Holds, submitter
  <1>2. Base' = Base /\ BlocksFollow' /\ Recorded' = Recorded /\ Pending /\ Pending'
    BY <1>1, EndKeeps DEF Recorded, Pending, Resetting
  <1>3. CopiesAgree' /\ SlotsFollow'
    BY <1>1, <1>2 DEF CopiesAgree, SlotsFollow, Submitting, Resetting
  <1>4. RootFollows'
    <2>1. Len(updates) = 0 /\ root = Base + Len(pending.transitions) + Len(updates)
      BY <1>1 DEF RootFollows
    <2>2. Base \in Nat /\ Len(pending.transitions) \in Nat /\ root \in Nat
      BY EndFacts, QueueFacts
    <2>3. root + 1 = Base + Len(pending.transitions) + 1
      BY <2>1, <2>2
    <2>4. Len(updates') = 1 /\ updates'[1] = root + 1
      BY <1>1
    <2>5. QED
      BY <1>1, <1>2, <2>3, <2>4 DEF RootFollows
  <1>5. ReceiptsFollow'
    <2>1. Recorded' \in Nat /\ Recorded <= Recorded'
      BY <1>2, QueueFacts
    <2>2. QED
      BY <1>1, <1>2, <2>1, ReceiptsKeep DEF ReceiptsFollow
  <1>6. QED
    BY <1>2, <1>3, <1>4, <1>5

\* The transition pushed is the next one of the sequence.
LEMMA PushSequence ==
    ASSUME Inv, Inv', OneSequence, NEW r \in Nat, Push(r), up,
           at \in {"begin", "applied", "putTransition"},
           r = Base + Len(pending.transitions) + 1,
           UNCHANGED <<up, shared, stored, lastQueued, chain, receipts>>,
           db'.number = db.number /\ db'.last = db.last,
           root' = r + Len(updates'),
           \A i \in 1..Len(updates') : updates'[i] = r + i
    PROVE  OneSequence'
  <1> USE DEF OneSequence
  <1>1. shared = FALSE /\ Pending
    BY DEF CopiesAgree, Submitting, Pending, Resetting, Inv, TypeOK, SwitchType
  <1>2. /\ at' = "putTransition" /\ held' = held /\ shared' = FALSE
        /\ pending'.number = pending.number
        /\ pending'.transitions = Append(pending.transitions, r)
    BY <1>1, PushFacts DEF Push, Inv, TypeOK, QueueType
  <1>3. /\ Len(pending'.transitions) = Len(pending.transitions) + 1
        /\ \A i \in 1..Len(pending.transitions) :
              pending'.transitions[i] = pending.transitions[i]
        /\ pending'.transitions[Len(pending.transitions) + 1] = r
    BY SMTT(30), <1>2, QueueFacts, AppendFacts
  <1>4. Base' = Base /\ BlocksFollow' /\ Recorded' = Recorded /\ Pending'
    BY <1>2, EndKeeps DEF Recorded, Pending, Resetting
  <1>5. Len(pending.transitions) \in Nat /\ Base \in Nat /\ Recorded \in Nat
    BY QueueFacts, EndFacts
  <1>6. \A i \in 1..Len(pending'.transitions) :
           pending'.transitions[i] = Base + i
    <2>1. \A i \in 1..Len(pending.transitions) : pending.transitions[i] = Base + i
      BY DEF SlotsFollow
    <2>2. r = Base + (Len(pending.transitions) + 1)
      BY <1>5
    <2>3. \A i \in 1..Len(pending'.transitions) :
             i \in 1..Len(pending.transitions)
             \/ i = Len(pending.transitions) + 1
      BY <1>3, <1>5
    <2>4. QED
      BY <1>3, <2>1, <2>2, <2>3
  <1>7. CopiesAgree'
    BY <1>1, <1>2 DEF CopiesAgree
  <1>8. SlotsFollow'
    <2>1. db'.number = lastQueued' + 1
      BY <1>1 DEF SlotsFollow
    <2>2. Recorded <= Len(pending.transitions)
      BY <1>1 DEF SlotsFollow
    <2>3. \A i \in 1..Len(pending.transitions) :
             db'.slots[i] = pending'.transitions[i]
      <3>1. StoredUpTo(Len(pending.transitions) - 1)'
        BY <1>2, <1>3, <1>5 DEF Inv, DurabilityInv, SlotShape
      <3>2. QED
        BY <1>3, <1>5, <3>1 DEF StoredUpTo
    <2>4. \A i \in 1..Recorded : db'.slots[i] = Base + i
      BY SMTT(30), <1>3, <1>5, <1>6, <2>2, <2>3
    <2>5. Recorded' <= Len(pending'.transitions)
      BY <1>3, <1>4, <1>5, <2>2
    <2>6. QED
      BY <1>2, <1>4, <1>6, <2>1, <2>4, <2>5 DEF SlotsFollow, Resetting
  <1>9. RootFollows'
    <2>1. Len(updates') \in Nat
      BY QueueFacts
    <2>2. r = Base' + Len(pending'.transitions)
      BY <1>3, <1>4, <1>5
    <2>3. QED
      BY <1>2, <2>2 DEF RootFollows
  <1>10. ReceiptsFollow'
    <2>1. Recorded' \in Nat /\ Recorded <= Recorded'
      BY <1>4, <1>5
    <2>2. QED
      BY <1>4, <2>1, ReceiptsKeep DEF ReceiptsFollow
  <1>11. QED
    BY <1>4, <1>7, <1>8, <1>9, <1>10

LEMMA AppliedSequence ==
    ASSUME Inv, Inv', OneSequence,
           TransactionApplied \/ SecondFaucetTransferApplied
    PROVE  OneSequence'
  <1> USE DEF OneSequence
  <1>1. /\ UNCHANGED <<up, shared, db, stored, lastQueued, chain, receipts>>
        /\ root' = root + 1 /\ up /\ at \in {"begin", "applied"}
    BY DEF TransactionApplied, SecondFaucetTransferApplied, Holds
  <1>2. /\ root = Base + Len(pending.transitions) + Len(updates)
        /\ Base \in Nat /\ Len(pending.transitions) \in Nat
    BY <1>1, QueueFacts, EndFacts DEF RootFollows
  <1>3. CASE TransactionApplied
    <2>1. updates' = updates /\ updates = <<>> /\ Push(root + 1)
      BY <1>3 DEF TransactionApplied, Holds, RootFollows
    <2>2. Len(updates) = 0 /\ Len(updates') = 0
      BY <2>1
    <2>3. /\ root + 1 = Base + Len(pending.transitions) + 1
          /\ root' = root + 1 + Len(updates') /\ root + 1 \in Nat
      BY <1>1, <1>2, <2>2
    <2>4. \A i \in 1..Len(updates') : updates'[i] = root + 1 + i
      BY <2>2
    <2>5. QED
      BY <1>1, <2>1, <2>3, <2>4, PushSequence
  <1>4. CASE SecondFaucetTransferApplied
    <2>1. /\ updates' = <<root + 1>> /\ Push(Head(updates)) /\ at = "applied"
      BY <1>4 DEF SecondFaucetTransferApplied
    <2>2. Len(updates) = 1 /\ updates[1] = Base + Len(pending.transitions) + 1
      BY <2>1 DEF RootFollows
    <2> DEFINE r == Base + Len(pending.transitions) + 1
    <2>3. Push(r) /\ r \in Nat
      <3>1. Head(updates) = updates[1]
        BY QueueFacts, <2>2
      <3>2. QED
        BY <1>2, <2>1, <2>2, <3>1
    <2>4. root = r /\ Len(updates') = 1 /\ updates'[1] = root + 1
      BY <1>2, <2>1, <2>2
    <2> HIDE DEF r
    <2>5. root' = r + Len(updates')
      BY <1>1, <2>3, <2>4
    <2>6. \A i \in 1..Len(updates') : updates'[i] = r + i
      BY <2>4
    <2>7. QED
      BY <1>1, <2>1, <2>3, <2>5, <2>6, PushSequence DEF r
  <1>5. QED
    BY <1>3, <1>4

LEMMA TransitionStoredSequence ==
    ASSUME Inv, Inv', OneSequence, TransitionStored
    PROVE  OneSequence'
  <1> USE DEF OneSequence
  <1>1. /\ UNCHANGED <<up, shared, root, stored, lastQueued, chain, receipts>>
        /\ up /\ at = "putTransition"
        /\ IF updates # <<>>
           THEN Push(Head(updates)) /\ updates' = Tail(updates)
           ELSE at' = "putLast" /\ UNCHANGED <<pending, held, updates>>
    BY DEF TransitionStored
  <1>2. db'.number = db.number /\ db'.last = db.last
    BY DEF TransitionStored, Inv, TypeOK, DatabaseType
  <1>3. /\ root = Base + Len(pending.transitions) + Len(updates)
        /\ Base \in Nat /\ Len(pending.transitions) \in Nat
        /\ updates \in Seq(Nat) /\ Len(updates) \in Nat /\ Recorded \in Nat
    BY <1>1, QueueFacts, EndFacts DEF RootFollows
  <1>4. CASE updates # <<>>
    <2>1. /\ Len(updates) >= 1 /\ Head(updates) = updates[1]
          /\ Len(Tail(updates)) = Len(updates) - 1
          /\ \A i \in 1..Len(Tail(updates)) :
                i + 1 \in 1..Len(updates) /\ Tail(updates)[i] = updates[i + 1]
      BY <1>3, <1>4
    <2> DEFINE r == Base + Len(pending.transitions) + 1
    <2>2. updates[1] = r
      BY <1>3, <2>1 DEF RootFollows
    <2>3. Push(r) /\ r \in Nat /\ updates' = Tail(updates)
      BY <1>1, <1>3, <1>4, <2>1, <2>2
    <2>0. /\ root = Base + Len(pending.transitions) + Len(updates)
          /\ Base \in Nat /\ Len(pending.transitions) \in Nat
          /\ Len(updates) \in Nat
      BY <1>3
    <2>4. root' = r + Len(updates')
      <3>1. Len(updates') = Len(updates) - 1 /\ root' = root
        BY <1>1, <2>1, <2>3
      <3>2. QED
        BY <2>0, <3>1
    <2>5. ASSUME NEW i \in 1..Len(updates') PROVE updates'[i] = r + i
      <3>1. updates'[i] = updates[i + 1] /\ i + 1 \in 1..Len(updates)
        BY <2>1, <2>3
      <3>2. updates[i + 1] = Base + Len(pending.transitions) + (i + 1)
        BY <3>1 DEF RootFollows
      <3>3. i \in Nat
        BY <2>1, <2>3
      <3>4. Base + Len(pending.transitions) + (i + 1) = r + i
        <4> DEFINE n == Len(pending.transitions)
        <4>1. Base \in Nat /\ n \in Nat
          BY <2>0
        <4> HIDE DEF n
        <4>2. Base + n + (i + 1) = Base + n + 1 + i
          BY <3>3, <4>1
        <4>3. QED
          BY <4>2 DEF n
      <3>5. QED
        BY <3>1, <3>2, <3>4
    <2> HIDE DEF r
    <2>6. QED
      BY <1>1, <1>2, <2>3, <2>4, <2>5, PushSequence DEF r
  <1>5. CASE updates = <<>>
    <2>1. /\ at' = "putLast" /\ UNCHANGED <<pending, held, updates>>
      BY <1>1, <1>5
    <2>2. Base' = Base /\ BlocksFollow' /\ Recorded' = Recorded
          /\ Pending /\ Pending'
      BY <1>1, <1>2, <2>1, EndKeeps DEF Recorded, Pending, Resetting
    <2>3. CopiesAgree'
      BY <1>1, <2>1 DEF CopiesAgree, Submitting
    <2>4. SlotsFollow'
      <3>1. Recorded <= Len(pending.transitions)
            /\ \A i \in 1..Len(pending.transitions) :
                  pending.transitions[i] = Base + i
        BY <1>1, <2>2 DEF SlotsFollow
      <3>2. \A i \in 1..Len(pending.transitions) :
               db'.slots[i] = pending.transitions[i]
        BY <2>1 DEF Inv, DurabilityInv, SlotShape, StoredUpTo
      <3>3. \A i \in 1..Recorded : db'.slots[i] = Base + i
        <4>1. TAKE i \in 1..Recorded
        <4>2. i \in 1..Len(pending.transitions)
          BY ONLY <3>1, <1>3, i \in 1..Recorded
        <4>3. db'.slots[i] = pending.transitions[i]
              /\ pending.transitions[i] = Base + i
          BY ONLY <3>1, <3>2, <4>2
        <4>4. QED
          BY ONLY <4>3
      <3>4. db'.number = lastQueued' + 1
        BY <1>1, <1>2, <2>2 DEF SlotsFollow
      <3>5. QED
        BY <1>1, <2>1, <2>2, <3>1, <3>3, <3>4 DEF SlotsFollow, Resetting
    <2>5. RootFollows'
      BY <1>1, <1>5, <2>1, <2>2 DEF RootFollows
    <2>6. ReceiptsFollow'
      <3>1. Recorded' \in Nat /\ Recorded <= Recorded'
        BY <1>3, <2>2
      <3>2. QED
        BY <1>1, <2>2, <3>1, ReceiptsKeep DEF ReceiptsFollow
    <2>7. QED
      BY <2>2, <2>3, <2>4, <2>5, <2>6
  <1>6. QED
    BY <1>4, <1>5

LEMMA LastStoredSequence ==
    ASSUME Inv, Inv', OneSequence, LastStored
    PROVE  OneSequence'
  <1> USE DEF OneSequence
  <1>1. /\ UNCHANGED <<up, pending, shared, updates, root, stored, lastQueued,
                       held, chain>>
        /\ up /\ at = "putLast" /\ at' = "begin"
        /\ db' = [db EXCEPT !.last = Len(pending.transitions)]
        /\ receipts' = receipts \cup {Receipt(Last(pending.transitions))}
    BY DEF LastStored, memory, submitter
  <1>2. /\ db'.number = db.number /\ db'.slots = db.slots
        /\ db'.last = Len(pending.transitions)
    BY <1>1 DEF Inv, TypeOK, DatabaseType
  <1>3. Len(pending.transitions) \in Nat /\ Base \in Nat /\ Recorded \in Nat
        /\ lastQueued \in Nat
    BY QueueFacts, EndFacts
  <1>4. Recorded' = Len(pending.transitions)
    BY <1>2, <1>3 DEF Recorded, Absent
  <1>5. Base' = Base /\ BlocksFollow' /\ Pending /\ Pending'
    BY <1>1, EndKeeps DEF Pending, Resetting
  <1>6. /\ db.number = lastQueued + 1 /\ pending.number = db.number
        /\ Recorded <= Len(pending.transitions)
        /\ \A i \in 1..Len(pending.transitions) :
              pending.transitions[i] = Base + i
    BY <1>1, <1>5 DEF SlotsFollow, Inv, DurabilityInv, SlotShape, Resetting
  <1>7. CopiesAgree'
    BY <1>1 DEF CopiesAgree, Submitting
  <1>8. SlotsFollow'
    <2>1. \A i \in 1..Len(pending.transitions) :
             db.slots[i] = pending.transitions[i]
      BY <1>1 DEF Inv, DurabilityInv, SlotShape, StoredUpTo
    <2>2. \A i \in 1..Recorded' : db'.slots[i] = Base' + i
      BY <1>2, <1>4, <1>5, <1>6, <2>1
    <2>3. QED
      BY <1>1, <1>2, <1>3, <1>4, <1>5, <1>6, <2>2 DEF SlotsFollow, Resetting
  <1>9. RootFollows'
    BY <1>1, <1>5 DEF RootFollows
  <1>10. ASSUME NEW r \in receipts', r \notin receipts
         PROVE  /\ r.block \in 1..(lastQueued' + 1)
                /\ r.root = EndOf(r.block - 1)' + r.index
                /\ IF r.block <= lastQueued'
                   THEN r.index <= Len(stored'[r.block])
                   ELSE Pending' /\ r.index <= Recorded'
    <2>1. pending.transitions # <<>>
      BY <1>1 DEF Inv, DurabilityInv, LockShape
    <2>2. Last(pending.transitions) = Base + Len(pending.transitions)
      <3>1. /\ Last(pending.transitions) =
                  pending.transitions[Len(pending.transitions)]
            /\ Len(pending.transitions) >= 1
        BY <2>1, QueueFacts, LastType
      <3>2. QED
        BY <1>3, <1>6, <3>1
    <2>3. r = [block |-> lastQueued + 1, index |-> Len(pending.transitions),
               root |-> Base + Len(pending.transitions)]
      BY <1>1, <1>6, <1>10, <2>2 DEF Receipt
    <2>4. r.block - 1 = lastQueued /\ r.block = lastQueued + 1
      BY <1>3, <2>3
    <2>5. EndOf(lastQueued)' = Base
      BY <1>1, <1>3, EndKeeps DEF Base
    <2>6. QED
      BY <1>1, <1>3, <1>4, <1>5, <2>3, <2>4, <2>5
  <1>11. ReceiptsFollow'
    <2>1. Recorded' \in Nat /\ Recorded <= Recorded'
      BY <1>3, <1>4, <1>6
    <2>2. QED
      BY <1>1, <1>5, <1>10, <2>1, ReceiptsKeep DEF ReceiptsFollow
  <1>12. QED
    BY <1>5, <1>7, <1>8, <1>9, <1>11

LEMMA SubmittedSequence ==
    ASSUME Inv, Inv', OneSequence, Submitted
    PROVE  OneSequence'
  <1> USE DEF OneSequence
  <1>1. /\ UNCHANGED <<up, updates, root, db, stored, lastQueued, chain,
                       receipts>>
        /\ up /\ at = "begin" /\ ~NotYet
    BY DEF Submitted, Holds
  <1>2. lastQueued \in Nat /\ Len(held) = lastQueued
        /\ held \in Seq(Seq(Nat)) /\ pending.transitions \in Seq(Nat)
    BY <1>1, QueueFacts DEF Inv, DurabilityInv, QueueShape
  <1>3. pending.number = lastQueued + 1
    BY <1>1 DEF SlotsFollow, Pending, Resetting, Inv, DurabilityInv, SlotShape
  <1>4. /\ held' = Append(held, pending.transitions) /\ shared' = TRUE
        /\ at' = "putBlock" /\ UNCHANGED pending
    BY <1>2, <1>3 DEF Submitted
  <1>5. pending.transitions # <<>>
    <2>1. Threshold >= 1 /\ Threshold \in Nat
      BY AggregatorAssumption
    <2>2. Len(pending.transitions) >= Threshold => pending.transitions # <<>>
      BY <1>2, <2>1
    <2>3. QED
      BY <1>1, <2>2 DEF NotYet, PendingFull
  <1>6. Base' = Base /\ BlocksFollow' /\ Recorded' = Recorded /\ Pending /\ Pending'
    BY <1>1, <1>4, EndKeeps DEF Recorded, Pending, Resetting
  <1>7. CopiesAgree'
    <2>1. /\ \A n \in 1..lastQueued : held'[n] = held[n]
          /\ held'[pending.number] = pending.transitions
      <3>1. /\ \A n \in 1..Len(held) : held'[n] = held[n]
            /\ held'[Len(held) + 1] = pending.transitions
        BY <1>2, <1>4, AppendFacts
      <3>2. QED
        BY <1>2, <1>3, <3>1
    <2>2. QED
      BY <1>1, <1>4, <1>5, <2>1 DEF CopiesAgree, Submitting
  <1>8. SlotsFollow' /\ RootFollows'
    BY <1>1, <1>4, <1>6 DEF SlotsFollow, RootFollows, Resetting
  <1>9. ReceiptsFollow'
    <2>1. Recorded' \in Nat /\ Recorded <= Recorded'
      BY <1>6, QueueFacts
    <2>2. QED
      BY <1>1, <1>6, <2>1, ReceiptsKeep DEF ReceiptsFollow
  <1>10. QED
    BY <1>6, <1>7, <1>8, <1>9

LEMMA BlockStoredSequence ==
    ASSUME Inv, Inv', OneSequence, BlockStored
    PROVE  OneSequence'
  <1> USE DEF OneSequence
  <1>1. /\ UNCHANGED <<up, pending, shared, updates, root, db, lastQueued,
                       held, chain, receipts>>
        /\ up /\ at = "putBlock" /\ at' = "putQueued"
        /\ stored' = Put(stored, pending.number, pending.transitions)
    BY DEF BlockStored, memory
  <1>2. lastQueued \in Nat /\ Len(stored) \in Nat /\ lastQueued <= Len(stored)
        /\ stored \in Seq(Seq(Nat)) /\ pending.transitions \in Seq(Nat)
        /\ Len(chain) \in Nat /\ Len(chain) <= lastQueued
    BY QueueFacts
  <1>3. pending.number = lastQueued + 1
    BY <1>1 DEF SlotsFollow, Pending, Resetting, Inv, DurabilityInv, SlotShape
  <1>4. /\ \A n \in 1..lastQueued : stored'[n] = stored[n]
        /\ stored'[pending.number] = pending.transitions
    <2> DEFINE k == lastQueued + 1
               v == pending.transitions
    <2>1. k \in 1..(Len(stored) + 1) /\ pending.number = k
      BY <1>2, <1>3
    <2> HIDE DEF v
    <2>2. CASE k <= Len(stored)
      <3>1. stored' = [stored EXCEPT ![k] = v] /\ k \in 1..Len(stored)
        BY <1>1, <2>1, <2>2 DEF Put, v
      <3>2. stored'[k] = v /\ \A n \in 1..lastQueued : stored'[n] = stored[n]
        BY <1>2, <3>1
      <3>3. QED
        BY <2>1, <3>2 DEF v
    <2>3. CASE ~(k <= Len(stored))
      <3>1. stored' = Append(stored, v) /\ k = Len(stored) + 1
        BY <1>1, <1>2, <2>1, <2>3 DEF Put, v
      <3>2. /\ \A n \in 1..Len(stored) : stored'[n] = stored[n]
            /\ stored'[Len(stored) + 1] = v
        <4>1. v \in Seq(Nat)
          BY <1>2 DEF v
        <4>2. QED
          BY <1>2, <3>1, <4>1, AppendFacts
      <3>3. QED
        BY <1>2, <2>1, <3>1, <3>2 DEF v
    <2>4. QED
      BY <2>2, <2>3
  <1>5. Base' = Base /\ BlocksFollow' /\ Recorded' = Recorded /\ Pending /\ Pending'
    BY <1>1, <1>4, EndKeeps DEF Recorded, Pending, Resetting
  <1>6. CopiesAgree'
    <2>1. \A n \in 1..Len(chain) : chain[n] = stored'[n]
      BY <1>2, <1>4 DEF CopiesAgree
    <2>2. QED
      BY <1>1, <1>4, <2>1 DEF CopiesAgree, Submitting
  <1>7. SlotsFollow' /\ RootFollows'
    BY <1>1, <1>5 DEF SlotsFollow, RootFollows, Resetting
  <1>8. ReceiptsFollow'
    <2>1. Recorded' \in Nat /\ Recorded <= Recorded'
      BY <1>5, QueueFacts
    <2>2. QED
      BY <1>1, <1>4, <1>5, <2>1, ReceiptsKeep DEF ReceiptsFollow
  <1>9. QED
    BY <1>5, <1>6, <1>7, <1>8

\* One more block counts as queued: the pending one.
LEMMA QueuedStoredSequence ==
    ASSUME Inv, Inv', OneSequence, QueuedStored
    PROVE  OneSequence'
  <1> USE DEF OneSequence
  <1>1. /\ UNCHANGED <<up, pending, shared, updates, root, db, stored, held,
                       chain, receipts>>
        /\ up /\ at = "putQueued" /\ at' = "trying"
        /\ lastQueued' = pending.number
    BY DEF QueuedStored, memory
  <1>2. lastQueued \in Nat /\ Len(pending.transitions) \in Nat /\ Base \in Nat
        /\ Recorded \in Nat
    BY QueueFacts, EndFacts
  <1>3. lastQueued' = lastQueued + 1
    BY <1>1 DEF SlotsFollow, Pending, Resetting, Inv, DurabilityInv, SlotShape
  <1>4. /\ stored[lastQueued + 1] = pending.transitions
        /\ held[lastQueued + 1] = pending.transitions
        /\ pending.transitions # <<>>
        /\ \A i \in 1..Len(pending.transitions) :
              pending.transitions[i] = Base + i
    BY <1>1, <1>3 DEF CopiesAgree, SlotsFollow
  <1>5. \A n \in 0..lastQueued : EndOf(n)' = EndOf(n)
    BY <1>1, <1>2 DEF EndOf
  <1>6. Base' = Base + Len(pending.transitions)
    <2>1. Base' = Last(pending.transitions)
      BY <1>1, <1>2, <1>3, <1>4 DEF Base, EndOf
    <2>2. /\ Len(pending.transitions) >= 1
          /\ Last(pending.transitions) =
                pending.transitions[Len(pending.transitions)]
      BY <1>4, QueueFacts, LastType
    <2>3. pending.transitions[Len(pending.transitions)] =
             Base + Len(pending.transitions)
      BY SMTT(30), <1>2, <1>4, <2>2
    <2>4. QED
      BY <2>1, <2>2, <2>3
  <1>7. BlocksFollow'
    <2>1. ASSUME NEW n \in 1..(lastQueued + 1)
          PROVE  /\ stored[n] # <<>>
                 /\ \A i \in 1..Len(stored[n]) :
                       stored[n][i] = EndOf(n - 1)' + i
      <3>1. n - 1 \in 0..lastQueued /\ EndOf(n - 1)' = EndOf(n - 1)
        BY <1>2, <1>5
      <3>2. CASE n \in 1..lastQueued
        BY <3>1, <3>2 DEF BlocksFollow
      <3>3. CASE n = lastQueued + 1
        <4>1. n - 1 = lastQueued
          BY <1>2, <3>3
        <4>2. QED
          BY <1>4, <3>1, <3>3, <4>1 DEF Base
      <3>4. QED
        BY <1>2, <3>2, <3>3
    <2>2. QED
      BY <1>1, <1>3, <2>1 DEF BlocksFollow
  <1>8. CopiesAgree'
    <2>0. \A n \in 1..lastQueued : held[n] = stored[n]
      BY <1>1 DEF CopiesAgree
    <2>1. \A n \in 1..(lastQueued + 1) : held[n] = stored[n]
      <3> SUFFICES ASSUME NEW n \in 1..(lastQueued + 1)
                   PROVE  held[n] = stored[n]
        OBVIOUS
      <3>1. n \in 1..lastQueued \/ n = lastQueued + 1
        BY <1>2
      <3>2. QED
        BY <1>4, <2>0, <3>1
    <2>2. QED
      BY <1>1, <1>3, <1>4, <2>1 DEF CopiesAgree, Submitting
  <1>9. SlotsFollow'
    BY <1>1 DEF SlotsFollow, Pending, Resetting
  <1>10. RootFollows'
    <2>1. Len(updates) = 0 /\ updates = <<>>
          /\ root = Base + Len(pending.transitions) + Len(updates)
      BY <1>1 DEF RootFollows
    <2>2. root = Base'
      BY <1>2, <1>6, <2>1
    <2>3. QED
      BY <1>1, <2>1, <2>2 DEF RootFollows
  <1>11. ASSUME NEW r \in receipts
         PROVE  /\ r.block \in 1..(lastQueued' + 1)
                /\ r.root = EndOf(r.block - 1)' + r.index
                /\ r.block <= lastQueued'
                /\ r.index <= Len(stored[r.block])
    <2>1. /\ r.block \in 1..(lastQueued + 1)
          /\ r.root = EndOf(r.block - 1) + r.index
          /\ IF r.block <= lastQueued THEN r.index <= Len(stored[r.block])
                                      ELSE r.index <= Recorded
      BY DEF ReceiptsFollow
    <2>2. EndOf(r.block - 1)' = EndOf(r.block - 1)
      BY <1>2, <1>5, <2>1
    <2>3. r.block \in 1..(lastQueued' + 1) /\ r.block <= lastQueued'
      BY <1>2, <1>3, <2>1
    <2>4. Recorded = Len(pending.transitions)
      BY <1>1 DEF Inv, DurabilityInv, SlotShape, Submitting, Recorded
    <2>5. r.block \in 1..lastQueued \/ r.block = lastQueued + 1
      BY <1>2, <2>1
    <2>6. r.index <= Len(stored[r.block])
      BY <1>2, <1>4, <2>1, <2>4, <2>5
    <2>7. QED
      BY <2>1, <2>2, <2>3, <2>6
  <1>12. ReceiptsFollow'
    BY <1>1, <1>11 DEF ReceiptsFollow
  <1>13. QED
    BY <1>7, <1>8, <1>9, <1>10, <1>12

LEMMA QueuedSequence ==
    ASSUME Inv, Inv', OneSequence, Queued
    PROVE  OneSequence'
  <1> USE DEF OneSequence
  <1>1. /\ UNCHANGED <<up, updates, root, db, stored, lastQueued, held, chain,
                       receipts>>
        /\ up /\ at = "trying" /\ at' = "resetLast" /\ shared' = FALSE
        /\ pending' = [number |-> pending.number + 1, transitions |-> <<>>]
    BY DEF Queued, NextBlock, submitter
  <1>2. lastQueued \in Nat /\ Base \in Nat
    BY QueueFacts, EndFacts
  <1>3. Base' = Base /\ BlocksFollow' /\ Recorded' = Recorded
        /\ ~Pending /\ ~Pending'
    BY <1>1, EndKeeps DEF Recorded, Pending, Resetting
  <1>4. pending.number = lastQueued
    BY <1>1 DEF Inv, DurabilityInv, QueueShape, Submitting
  <1>5. CopiesAgree'
    BY <1>1 DEF CopiesAgree, Submitting
  <1>6. SlotsFollow'
    BY <1>1, <1>3, <1>4 DEF SlotsFollow
  <1>7. RootFollows'
    <2>1. updates = <<>> /\ root = Base
      BY <1>1 DEF RootFollows
    <2>2. QED
      BY <1>1, <1>2, <1>3, <2>1 DEF RootFollows
  <1>8. ReceiptsFollow'
    <2>1. Recorded' \in Nat /\ Recorded <= Recorded'
      BY <1>3, QueueFacts
    <2>2. QED
      BY <1>1, <1>3, <2>1, ReceiptsKeep DEF ReceiptsFollow
  <1>9. QED
    BY <1>3, <1>5, <1>6, <1>7, <1>8

LEMMA ResetSequence ==
    ASSUME Inv, Inv', OneSequence, LastReset \/ PendingStored
    PROVE  OneSequence'
  <1> USE DEF OneSequence
  <1>1. /\ UNCHANGED <<up, pending, shared, root, stored, lastQueued, held,
                       chain, receipts>>
        /\ up /\ at \in {"resetLast", "putPending"} /\ updates' = updates
    BY DEF LastReset, PendingStored, Release, memory, submitter, RootFollows
  <1>2. Base' = Base /\ BlocksFollow' /\ ~Pending
    BY <1>1, EndKeeps DEF Pending, Resetting
  <1>3. at' = IF at = "resetLast" THEN "putPending" ELSE "begin"
    BY <1>1 DEF LastReset, PendingStored, Release
  <1>4. CopiesAgree'
    BY <1>1, <1>3 DEF CopiesAgree, Submitting
  <1>5. pending.number = lastQueued + 1 /\ pending.transitions = <<>>
    BY <1>1 DEF SlotsFollow, Resetting, Inv, DurabilityInv, LockShape
  <1>6. SlotsFollow'
    <2>1. CASE LastReset
      BY <1>1, <1>2, <1>3, <1>5, <2>1
         DEF LastReset, SlotsFollow, Pending, Resetting
    <2>2. CASE PendingStored
      <3>1. at = "putPending" /\ db.last = 0
        BY <2>2 DEF PendingStored, Inv, DurabilityInv, SlotShape
      <3>2. db'.number = lastQueued + 1 /\ db'.last = 0
        BY <1>5, <2>2, <3>1 DEF PendingStored, Inv, TypeOK, DatabaseType
      <3>3. Recorded' = 0
        BY <3>2 DEF Recorded, Absent
      <3>4. Len(pending.transitions) = 0
        BY <1>5
      <3>5. QED
        BY <1>1, <1>2, <1>3, <3>1, <3>2, <3>3, <3>4
           DEF SlotsFollow, Pending, Resetting
    <2>3. QED
      BY <2>1, <2>2
  <1>7. RootFollows'
    BY <1>1, <1>2, <1>3 DEF RootFollows
  <1>8. ReceiptsFollow'
    <2>1. Recorded' \in Nat
      BY DEF Recorded, Inv, TypeOK, DatabaseType
    <2>2. QED
      BY <1>1, <1>2, <2>1, ReceiptsKeep DEF ReceiptsFollow
  <1>9. QED
    BY <1>2, <1>4, <1>6, <1>7, <1>8

-----------------------------------------------------------------------------
(***************************************************************************)
(* The theorems.                                                           *)
(***************************************************************************)
LEMMA NextSequence == Inv /\ Inv' /\ SequenceInv /\ [Next]_vars => SequenceInv'
  <1> SUFFICES ASSUME Inv, Inv', SequenceInv, [Next]_vars, inStep'
               PROVE  OneSequence'
    BY DEF SequenceInv
  <1>1. inStep /\ (Crash => at \in InStep)
    BY DEF Next, Resume, vars, Start, Request, QueryAnswered,
           TransactionApplied, FirstFaucetTransferApplied,
           SecondFaucetTransferApplied, TransitionStored, LastStored, Deferred,
           Submitted, BlockStored, QueuedStored, Queued, LastReset,
           PendingStored, Refused, RefusedApplied,
           SecondFaucetTransferRefused, SubmitFailed, TimeoutFires, IntervalElapses, Post, Crash
  <1>2. OneSequence
    BY <1>1 DEF SequenceInv
  <1>3. CASE UNCHANGED vars \/ (\E job \in Jobs : Request(job))
             \/ TimeoutFires \/ IntervalElapses
    <2>1. UNCHANGED <<up, pending, shared, updates, at, root, db, stored,
                      lastQueued, held, chain, receipts>>
      BY <1>3 DEF vars, Request, TimeoutFires, IntervalElapses, memory,
                  submitter
    <2>2. QED
      BY <1>2, <2>1, SameSequence
  <1>4. CASE RefusedApplied \/ SecondFaucetTransferRefused \/ SubmitFailed
    BY <1>4 DEF RefusedApplied, SecondFaucetTransferRefused, SubmitFailed
  <1>5. QED
    BY <1>1, <1>2, <1>3, <1>4, StartSequence, PostSequence, CrashSequence,
       ReturnSequence, FirstTransferSequence, AppliedSequence,
       TransitionStoredSequence, LastStoredSequence, SubmittedSequence,
       BlockStoredSequence, QueuedStoredSequence, QueuedSequence,
       ResetSequence DEF Next, Resume

LEMMA SequenceHolds == Spec => [](Inv /\ SequenceInv)
  <1>1. Init => SequenceInv
    BY InitSequence DEF SequenceInv
  <1>2. QED
    BY <1>1, InvHolds, NextSequence, PTL DEF Spec

\* What the contract has, in terms of the blocks queued.
LEMMA ChainFacts ==
    ASSUME Inv, OneSequence, NEW b \in 1..Len(chain)
    PROVE  /\ b \in 1..lastQueued /\ chain[b] = stored[b]
           /\ RootAt(b, 0) = EndOf(b - 1)
           /\ \A i \in 1..Len(chain[b]) :
                 RootAt(b, i) = EndOf(b - 1) + i /\ chain[b][i] = RootAt(b, i)
  <1>1. /\ b \in 1..lastQueued /\ chain[b] = stored[b]
        /\ lastQueued \in Nat /\ BlocksFollow
    BY QueueFacts DEF OneSequence, CopiesAgree
  <1>2. RootAt(b, 0) = EndOf(b - 1)
    <2>1. CASE b = 1
      BY <2>1 DEF RootAt, EndOf
    <2>2. CASE b # 1
      <3>1. b > 1 /\ b - 1 \in 1..Len(chain) /\ b - 1 # 0
        BY <2>2, QueueFacts
      <3>2. chain[b - 1] = stored[b - 1]
        BY <3>1 DEF OneSequence, CopiesAgree
      <3>3. QED
        BY <3>1, <3>2 DEF RootAt, EndOf
    <2>3. QED
      BY <2>1, <2>2
  <1>3. \A i \in 1..Len(chain[b]) :
           RootAt(b, i) = EndOf(b - 1) + i /\ chain[b][i] = RootAt(b, i)
    BY <1>1 DEF RootAt, BlocksFollow
  <1>4. QED
    BY <1>1, <1>2, <1>3

\* "guaranteed by the aggregator's signature" (types/unipig-aggregator.ts:18):
\* until a crash or failure comes where the databases differ, the contract
\* gives every receipt its root, whatever else happens.
THEOREM ReceiptsAreHonoured == Spec => []ReceiptsHonouredInStep
  <1>1. Inv /\ SequenceInv => ReceiptsHonouredInStep
    <2> SUFFICES ASSUME Inv, OneSequence, NEW r \in receipts,
                        r.block <= Len(chain)
                 PROVE  /\ r.index <= Len(chain[r.block])
                        /\ RootAt(r.block, r.index) = r.root
      BY DEF SequenceInv, ReceiptsHonouredInStep, ReceiptsHonoured
    <2>1. /\ r.block \in 1..(lastQueued + 1) /\ r.index \in Nat
          /\ r.root = EndOf(r.block - 1) + r.index
          /\ r.block <= lastQueued => r.index <= Len(stored[r.block])
      <3>1. r.index \in Nat
        BY DEF Inv, TypeOK, StateType
      <3>2. QED
        BY <3>1 DEF OneSequence, ReceiptsFollow
    <2>2. lastQueued \in Nat /\ Len(chain) \in Nat
      BY QueueFacts
    <2>3. r.block \in 1..Len(chain) /\ r.block - 1 \in 0..lastQueued
      BY <2>1, <2>2
    <2>4. /\ r.block <= lastQueued /\ chain[r.block] = stored[r.block]
          /\ RootAt(r.block, 0) = EndOf(r.block - 1)
          /\ \A i \in 1..Len(chain[r.block]) :
                RootAt(r.block, i) = EndOf(r.block - 1) + i
      BY <2>3, ChainFacts
    <2>5. r.index <= Len(chain[r.block])
      BY <2>1, <2>4
    <2>6. Len(chain[r.block]) \in Nat /\ EndOf(r.block - 1) \in Nat
      BY <2>1, <2>3, <2>4, EndFacts DEF OneSequence
    <2>7. r.index = 0 \/ r.index \in 1..Len(chain[r.block])
      BY <2>1, <2>5, <2>6
    <2>8. RootAt(r.block, r.index) = EndOf(r.block - 1) + r.index
      BY <2>4, <2>6, <2>7
    <2>9. QED
      BY <2>1, <2>5, <2>8
  <1>2. QED
    BY <1>1, SequenceHolds, PTL

\* Until then, too, the contract's transitions are one sequence, as the
\* validator and the fraud proof need it, and no slot is promised two roots
\* (rollup-aggregator.ts: the lock, addToPendingBlock and submitBlock).
THEOREM ChainIsOneSequence == Spec => []ChainInv
  <1>1. Inv /\ SequenceInv => ChainIsValid
    <2> SUFFICES ASSUME Inv, OneSequence, NEW b \in DOMAIN chain,
                        NEW i \in DOMAIN chain[b]
                 PROVE  chain[b][i] = RootAt(b, i - 1) + 1
      BY DEF SequenceInv, ChainIsValid
    <2>0. chain \in Seq(Seq(Nat))
      BY QueueFacts
    <2>1. b \in 1..Len(chain) /\ chain[b] \in Seq(Nat)
      BY <2>0
    <2>2. i \in 1..Len(chain[b]) /\ Len(chain[b]) \in Nat
      BY <2>1
    <2>3. /\ b \in 1..lastQueued
          /\ RootAt(b, 0) = EndOf(b - 1)
          /\ \A k \in 1..Len(chain[b]) :
                RootAt(b, k) = EndOf(b - 1) + k /\ chain[b][k] = RootAt(b, k)
      BY <2>1, ChainFacts
    <2>4. EndOf(b - 1) \in Nat
      <3>1. lastQueued \in Nat
        BY QueueFacts
      <3>2. b - 1 \in 0..lastQueued
        BY <2>3, <3>1
      <3>3. QED
        BY <3>2, EndFacts DEF OneSequence
    <2>5. chain[b][i] = EndOf(b - 1) + i
      BY <2>2, <2>3
    <2>6. RootAt(b, i - 1) = EndOf(b - 1) + (i - 1)
      <3>1. i = 1 \/ i - 1 \in 1..Len(chain[b])
        BY <2>2
      <3>2. CASE i = 1
        BY <2>3, <2>4, <3>2
      <3>3. CASE i - 1 \in 1..Len(chain[b])
        BY <2>3, <3>3
      <3>4. QED
        BY <3>1, <3>2, <3>3
    <2>7. QED
      BY <2>2, <2>4, <2>5, <2>6
  <1>2. SequenceInv => NoEquivocation
    BY DEF SequenceInv, OneSequence, ReceiptsFollow, NoEquivocation
  <1>3. QED
    BY <1>1, <1>2, SequenceHolds, PTL DEF ChainInv

=============================================================================
