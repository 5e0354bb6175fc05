------------------------ MODULE BlockSubmitter_proofs ------------------------
(***************************************************************************)
(* Proofs about BlockSubmitter, for every set of handlers, every bound and *)
(* every environment: overlapping calls, crashes anywhere, lost replies    *)
(* and rejected transactions.                                              *)
(***************************************************************************)
EXTENDS BlockSubmitter, SequenceTheorems, TLAPS

USE SubmitterAssumption

-----------------------------------------------------------------------------
(***************************************************************************)
(* The queue init() reloads.                                               *)
(***************************************************************************)
LEMMA ReloadedQueueFacts ==
    ASSUME TypeOK
    PROVE  /\ ReloadedQueue \in Seq(Numbers)
           /\ db.queued >= db.confirmed =>
                Len(ReloadedQueue) = db.queued - db.confirmed
           /\ db.queued < db.confirmed => Len(ReloadedQueue) = 0
           /\ \A i \in 1..Len(ReloadedQueue) :
                ReloadedQueue[i] = db.confirmed + i
  <1> DEFINE k == db.queued - db.confirmed
  <1>0. db.queued \in Nat /\ db.confirmed \in Nat /\ db.queued <= MaxBlock
    BY DEF TypeOK, Numbers
  <1>1. CASE k \in Nat
    <2>1. \A i \in 1..k : db.confirmed + i \in Numbers
      BY <1>0, <1>1 DEF Numbers
    <2>2. ReloadedQueue \in [1..k -> Numbers]
      BY <2>1 DEF ReloadedQueue
    <2>3. ReloadedQueue \in Seq(Numbers) /\ Len(ReloadedQueue) = k
      BY <1>1, <2>2
    <2>4. QED
      BY <1>0, <1>1, <2>3 DEF ReloadedQueue
  <1>2. CASE k \notin Nat
    <2>1. k \in Int /\ k < 0 /\ db.queued < db.confirmed
      BY <1>0, <1>2
    <2>2. 1..k = {}
      BY <2>1
    <2>3. ReloadedQueue = <<>>
      BY <2>2 DEF ReloadedQueue
    <2>4. QED
      BY <2>1, <2>3, <1>0
  <1>3. QED
    BY <1>1, <1>2

-----------------------------------------------------------------------------
(***************************************************************************)
(* Type correctness.  The control helpers keep pc, arg and status typed;   *)
(* then one step per action.                                               *)
(***************************************************************************)
ControlOK ==
    /\ status \in {"down", "starting", "running"}
    /\ pc \in [Procs -> PCs]
    /\ arg \in [Procs -> Numbers]

LEMMA SuspendType ==
    ASSUME TypeOK, NEW p \in Procs, NEW at \in PCs, NEW n \in Numbers,
           Suspend(p, at, n)
    PROVE  pc' \in [Procs -> PCs] /\ arg' \in [Procs -> Numbers]
  BY DEF TypeOK, Suspend

LEMMA ReturnType ==
    ASSUME TypeOK, NEW p \in Procs, Return(p)
    PROVE  ControlOK'
  <1>1. "idle" \in PCs /\ 0 \in Numbers
    BY DEF PCs, Numbers
  <1>2. QED
    BY <1>1, SuspendType DEF Return, ControlOK

LEMMA ThrowType ==
    ASSUME TypeOK, NEW p \in Procs, Throw(p)
    PROVE  ControlOK'
  <1>1. "idle" \in PCs /\ 0 \in Numbers
    BY DEF PCs, Numbers
  <1>2. QED
    BY <1>1, SuspendType DEF Throw, ControlOK, TypeOK

LEMMA TrySubmitType ==
    ASSUME TypeOK, NEW p \in Procs, NEW s, NEW c, NEW q,
           NEW queue \in Seq(Numbers), TrySubmitNextBlock(p, s, c, q, queue)
    PROVE  ControlOK'
  <1>1. CASE NothingPending(s, c, q, queue)
    <2>1. Head(queue) \in Numbers /\ "calling" \in PCs
      BY <1>1 DEF NothingPending, PCs, Awaits
    <2>2. QED
      BY <1>1, <2>1, SuspendType
         DEF TrySubmitNextBlock, NextToSubmit, ControlOK, TypeOK
  <1>2. CASE ~NothingPending(s, c, q, queue)
    BY <1>2, ReturnType DEF TrySubmitNextBlock
  <1>3. QED
    BY <1>1, <1>2

LEMMA InitType == Init => TypeOK
  <1>1. 0 \in Numbers /\ "idle" \in PCs /\ 0 \in 0..MaxCrashes
    BY DEF Numbers, PCs
  <1>2. Init => overlap \in BOOLEAN
    BY DEF Init
  <1>3. QED
    BY <1>1, <1>2 DEF Init, TypeOK

LEMMA StartsType ==
    ASSUME TypeOK, Starts
    PROVE  overlap' \in BOOLEAN
  BY DEF Starts

LEMMA NextType == TypeOK /\ [Next]_vars => TypeOK'
  <1> SUFFICES ASSUME TypeOK, [Next]_vars PROVE TypeOK'
    OBVIOUS
  <1> USE DEF disk, ether, memory
  <1>0. Main \in Procs /\ Handlers \subseteq Procs /\ Awaits \subseteq PCs
    BY DEF Procs, PCs
  <1>1. CASE Start
    <2>1. ReloadedQueue \in Seq(Numbers)
      BY ReloadedQueueFacts
    <2>2. ControlOK'
      <3>1. CASE NothingPending(db.submitted, db.confirmed, db.queued,
                                ReloadedQueue)
        <4>1. Head(ReloadedQueue) \in Numbers /\ "calling" \in PCs
          BY <2>1, <3>1, <1>0 DEF NothingPending, Awaits
        <4>2. QED
          BY <1>0, <1>1, <3>1, <4>1, SuspendType
             DEF Start, NextToSubmit, ControlOK
      <3>2. CASE ~NothingPending(db.submitted, db.confirmed, db.queued,
                                 ReloadedQueue)
        BY <1>0, <1>1, <3>2, ReturnType DEF Start
      <3>3. QED
        BY <3>1, <3>2
    <2>3. QED
      BY <1>1, <2>1, <2>2 DEF Start, ControlOK, TypeOK
  <1>2. ASSUME NEW n \in 1..MaxBlock, SubmitBlock(n)
        PROVE  TypeOK'
    <2>1. n \in Numbers /\ "putBlock" \in PCs
      BY <1>0 DEF Numbers, Awaits
    <2>2. pc' \in [Procs -> PCs] /\ arg' \in [Procs -> Numbers]
      BY <1>0, <1>2, <2>1, SuspendType DEF SubmitBlock
    <2>3. blockQueue' \in Seq(Numbers)
      BY <1>2, <2>1 DEF SubmitBlock, TypeOK
    <2>4. overlap' \in BOOLEAN
      BY <1>2, StartsType DEF SubmitBlock
    <2>5. QED
      BY <1>2, <2>2, <2>3, <2>4 DEF SubmitBlock, TypeOK
  <1>3. ASSUME NEW p \in Procs, Resume(p)
        PROVE  TypeOK'
    <2>0. arg[p] \in Numbers /\ {"accepted", "putSubmitted", "putQueued",
                                 "putRaised"} \subseteq PCs
      BY <1>0 DEF TypeOK, Awaits
    <2>1. CASE RpcAccepted(p)
      <3>1. pc' \in [Procs -> PCs] /\ arg' \in [Procs -> Numbers]
        BY <2>0, <2>1, SuspendType DEF RpcAccepted
      <3>2. QED
        BY <2>0, <2>1, <3>1 DEF RpcAccepted, TypeOK
    <2>2. CASE RpcReplied(p)
      <3>1. pc' \in [Procs -> PCs] /\ arg' \in [Procs -> Numbers]
        BY <2>0, <2>2, SuspendType DEF RpcReplied
      <3>2. QED
        BY <2>0, <2>2, <3>1 DEF RpcReplied, TypeOK
    <2>3. CASE SubmittedStored(p)
      <3>1. ControlOK'
        BY <2>3, ReturnType DEF SubmittedStored
      <3>2. QED
        BY <2>0, <2>3, <3>1 DEF SubmittedStored, TypeOK, ControlOK
    <2>4. CASE p = Main /\ BlockStored
      <3>1. pc' \in [Procs -> PCs] /\ arg' \in [Procs -> Numbers]
        BY <2>0, <2>4, SuspendType DEF BlockStored
      <3>2. QED
        BY <2>0, <2>4, <3>1 DEF BlockStored, TypeOK
    <2>5. CASE p = Main /\ QueuedStored
      <3>1. ControlOK'
        BY <2>5, TrySubmitType DEF QueuedStored, TypeOK
      <3>2. QED
        BY <2>0, <2>5, <3>1 DEF QueuedStored, TypeOK, ControlOK
    <2>6. CASE p \in Handlers /\ ConfirmedStored(p)
      <3>1. ControlOK' /\ lastSubmitted' \in Numbers
        <4>1. CASE lastSubmitted < lastConfirmed
          <5>1. Suspend(p, "putRaised", arg[p]) /\ status' = status
                /\ lastSubmitted' = arg[p]
            BY <2>6, <4>1 DEF ConfirmedStored, TypeOK, Numbers
          <5>2. QED
            BY <2>0, <5>1, SuspendType DEF ControlOK, TypeOK
        <4>2. CASE ~(lastSubmitted < lastConfirmed)
          <5>1. TrySubmitNextBlock(p, lastSubmitted, lastConfirmed,
                                   lastQueued, blockQueue)
                /\ lastSubmitted' = lastSubmitted
            BY <2>6, <4>2 DEF ConfirmedStored
          <5>2. QED
            BY <5>1, TrySubmitType DEF TypeOK
        <4>3. QED
          BY <4>1, <4>2
      <3>2. QED
        BY <2>0, <2>6, <3>1 DEF ConfirmedStored, TypeOK, ControlOK
    <2>7. CASE p \in Handlers /\ RaisedStored(p)
      <3>1. ControlOK'
        BY <2>7, TrySubmitType DEF RaisedStored, TypeOK
      <3>2. QED
        BY <2>0, <2>7, <3>1 DEF RaisedStored, TypeOK, ControlOK
    <2>8. QED
      BY <1>3, <2>1, <2>2, <2>3, <2>4, <2>5, <2>6, <2>7 DEF Resume
  <1>4. ASSUME NEW p \in Procs, RpcRejected(p) \/ RpcReplyLost(p)
        PROVE  TypeOK'
    <2>1. ControlOK'
      BY <1>4, ThrowType DEF RpcRejected, RpcReplyLost
    <2>2. QED
      BY <1>4, <2>1 DEF RpcRejected, RpcReplyLost, TypeOK, ControlOK
  <1>5. ASSUME NEW h \in Handlers, NEW n \in 1..Len(chain),
               HandleNewRollupBlock(h, n)
        PROVE  TypeOK'
    <2>1. n \in Numbers /\ Tail(blockQueue) \in Seq(Numbers)
          /\ "putConfirmed" \in PCs
      BY <1>0, <1>5 DEF HandleNewRollupBlock, Confirms, TypeOK, Awaits
    <2>2. pc' \in [Procs -> PCs] /\ arg' \in [Procs -> Numbers]
      BY <1>0, <1>5, <2>1, SuspendType DEF HandleNewRollupBlock
    <2>3. overlap' \in BOOLEAN
      BY <1>5, StartsType DEF HandleNewRollupBlock
    <2>4. QED
      BY <1>5, <2>1, <2>2, <2>3 DEF HandleNewRollupBlock, TypeOK
  <1>6. CASE Mine
    <2>1. Head(mempool) \in Numbers /\ Tail(mempool) \in Seq(Numbers)
      BY <1>6 DEF Mine, TypeOK
    <2>2. QED
      BY <1>6, <2>1 DEF Mine, TypeOK
  <1>7. CASE Crash
    <2>1. 0 \in Numbers /\ "idle" \in PCs /\ crashes + 1 \in 0..MaxCrashes
      BY <1>7 DEF Crash, TypeOK, Numbers, PCs
    <2>2. QED
      BY <1>7, <2>1 DEF Crash, TypeOK
  <1>8. CASE UNCHANGED vars
    BY <1>8 DEF vars, TypeOK
  <1>9. QED
    BY <1>1, <1>2, <1>3, <1>4, <1>5, <1>6, <1>7, <1>8 DEF Next

\* The submitter is type-correct, and its counters stay within 0..MaxBlock,
\* in every environment.
THEOREM TypeCorrect == Spec => []TypeOK
  BY InitType, NextType, PTL DEF Spec

-----------------------------------------------------------------------------
(***************************************************************************)
(* The submitter never runs ahead.  Two facts carry the proof: the queue   *)
(* is a run of consecutive numbers that starts no later than one above the *)
(* last confirmed block (QueueShape), and a number is confirmed only when  *)
(* the contract has as many blocks (ConfirmedIsMined).  So the head of the *)
(* queue, which is what trySubmitNextBlock sends, is at most one above the *)
(* length of the chain, at the call and, as the chain only grows, later.   *)
(***************************************************************************)

\* A call suspended anywhere but at submitBlock's first write leaves
\* LastTaken to lastQueued.
LEMMA SuspendKeepsLastTaken ==
    ASSUME TypeOK, NEW p \in Procs, NEW at \in PCs, NEW n \in Numbers,
           Suspend(p, at, n), at # "putBlock", lastQueued' = lastQueued,
           p = Main => pc[Main] # "putBlock"
    PROVE  LastTaken' = LastTaken
  BY DEF LastTaken, Suspend, TypeOK, Procs

\* A call that resumes somewhere harmless keeps what is known of the others.
CallsInv == ConfirmedIsMined /\ CallsAreNotEarly

LEMMA SuspendKeepsCalls ==
    ASSUME TypeOK, CallsInv, NEW p \in Procs, NEW at \in PCs,
           NEW n \in Numbers, Suspend(p, at, n),
           lastConfirmed' <= Len(chain), db'.confirmed <= Len(chain),
           Len(chain') = Len(chain),
           at = "putConfirmed" => n <= Len(chain),
           at = "calling" => n <= Len(chain) + 1
    PROVE  CallsInv'
  BY DEF CallsInv, ConfirmedIsMined, CallsAreNotEarly, Suspend, TypeOK

\* The head of the queue is at most one above the length of the chain.
LEMMA HeadIsNotEarly ==
    ASSUME TypeOK, QueueShape, ConfirmedIsMined, blockQueue # <<>>
    PROVE  Head(blockQueue) \in Numbers /\ Head(blockQueue) <= Len(chain) + 1
  <1>1. Len(blockQueue) \in Nat /\ Len(blockQueue) >= 1
        /\ Head(blockQueue) = blockQueue[1] /\ Head(blockQueue) \in Numbers
    BY DEF TypeOK
  <1>2. LastTaken \in Int /\ lastConfirmed \in Int /\ Len(chain) \in Nat
    BY DEF LastTaken, TypeOK, Numbers, Procs
  <1>3. blockQueue[1] = LastTaken - Len(blockQueue) + 1
    BY <1>1 DEF QueueShape
  <1>4. QED
    BY <1>1, <1>2, <1>3 DEF QueueShape, ConfirmedIsMined

\* trySubmitNextBlock, called with the memory as it is.
LEMMA TrySubmitKeepsOrder ==
    ASSUME TypeOK, OrderInv, NEW p \in Procs, NEW s, NEW c, NEW q,
           TrySubmitNextBlock(p, s, c, q, blockQueue),
           pc[p] # "putBlock",
           UNCHANGED <<lastConfirmed, lastQueued, blockQueue, mempool, chain>>,
           db'.confirmed <= Len(chain)
    PROVE  OrderInv'
  <1>0. "idle" \in PCs /\ "calling" \in PCs /\ 0 \in Numbers
    BY DEF PCs, Awaits, Numbers
  <1>1. PICK at \in {"idle", "calling"}, n \in Numbers :
          Suspend(p, at, n) /\ (at = "calling" => n <= Len(chain) + 1)
    <2>1. CASE NothingPending(s, c, q, blockQueue)
      <3>1. Suspend(p, "calling", Head(blockQueue)) /\ blockQueue # <<>>
        BY <2>1 DEF TrySubmitNextBlock, NothingPending, NextToSubmit
      <3>2. QED
        BY <3>1, HeadIsNotEarly DEF OrderInv
    <2>2. CASE ~NothingPending(s, c, q, blockQueue)
      BY <1>0, <2>2 DEF TrySubmitNextBlock, Return
    <2>3. QED
      BY <2>1, <2>2
  <1>2. LastTaken' = LastTaken
    BY <1>0, <1>1, SuspendKeepsLastTaken
  <1>3. QueueShape'
    BY <1>2 DEF OrderInv, QueueShape
  <1>4. CallsInv'
    BY <1>0, <1>1, SuspendKeepsCalls
       DEF OrderInv, CallsInv, ConfirmedIsMined
  <1>5. NeverEarly'
    BY DEF OrderInv, NeverEarly
  <1>6. QED
    BY <1>3, <1>4, <1>5 DEF OrderInv, CallsInv

LEMMA InitOrder == Init => OrderInv
  BY DEF Init, OrderInv, QueueShape, ConfirmedIsMined, CallsAreNotEarly,
         NeverEarly, LastTaken, Procs

LEMMA StartOrder == TypeOK /\ OrderInv /\ Start => OrderInv'
  <1> SUFFICES ASSUME TypeOK, OrderInv, Start PROVE OrderInv'
    OBVIOUS
  <1> DEFINE q == ReloadedQueue
  <1>1. /\ q \in Seq(Numbers)
        /\ db.queued >= db.confirmed => Len(q) = db.queued - db.confirmed
        /\ db.queued < db.confirmed => Len(q) = 0
        /\ \A i \in 1..Len(q) : q[i] = db.confirmed + i
    BY ReloadedQueueFacts
  <1>2. db.confirmed \in Nat /\ db.queued \in Nat
        /\ db.confirmed <= Len(chain) /\ Len(chain) \in Nat
    BY DEF TypeOK, Numbers, OrderInv, ConfirmedIsMined
  <1>3. /\ lastConfirmed' = db.confirmed /\ lastQueued' = db.queued
        /\ blockQueue' = q /\ UNCHANGED <<db, mempool, chain>>
    BY DEF Start, disk, ether
  <1>4. PICK at \in {"idle", "calling"}, n \in Numbers :
          Suspend(Main, at, n) /\ (at = "calling" => n <= Len(chain) + 1)
    <2>1. CASE NothingPending(db.submitted, db.confirmed, db.queued, q)
      <3>1. Len(q) \in Nat /\ Len(q) >= 1 /\ Head(q) = q[1]
            /\ Head(q) \in Numbers
        BY <1>1, <2>1 DEF NothingPending
      <3>2. Head(q) <= Len(chain) + 1
        BY <1>1, <1>2, <3>1
      <3>3. Suspend(Main, "calling", Head(q))
        BY <2>1 DEF Start, NextToSubmit
      <3>4. QED
        BY <3>1, <3>2, <3>3
    <2>2. CASE ~NothingPending(db.submitted, db.confirmed, db.queued, q)
      BY <2>2 DEF Start, Return, Numbers
    <2>3. QED
      BY <2>1, <2>2
  <1>5. LastTaken' = db.queued
    BY <1>3, <1>4 DEF LastTaken, Suspend, TypeOK, Procs
  <1>6. QueueShape'
    <2>1. Len(q) \in Nat
      BY <1>1
    <2>2. ASSUME NEW i \in 1..Len(q)
          PROVE  q[i] = db.queued - Len(q) + i
      BY <1>1, <1>2, <2>1
    <2>3. db.queued - Len(q) <= db.confirmed
      BY <1>1, <1>2
    <2>4. QED
      BY <1>3, <1>5, <2>2, <2>3 DEF QueueShape
  <1>7. CallsInv'
    <2>1. Main \in Procs /\ {"idle", "calling"} \subseteq PCs
      BY DEF Procs, PCs, Awaits
    <2>2. QED
      BY <1>2, <1>3, <1>4, <2>1, SuspendKeepsCalls DEF OrderInv, CallsInv
  <1>8. NeverEarly'
    BY <1>3 DEF OrderInv, NeverEarly
  <1>9. QED
    BY <1>6, <1>7, <1>8 DEF OrderInv, CallsInv

LEMMA SubmitBlockOrder ==
    ASSUME TypeOK, OrderInv, NEW n \in 1..MaxBlock, n <= lastQueued + 1,
           SubmitBlock(n)
    PROVE  OrderInv'
  <1>1. /\ n \in Numbers /\ Main \in Procs /\ "putBlock" \in PCs
        /\ lastQueued \in Nat
    BY DEF Numbers, Procs, PCs, Awaits, TypeOK
  <1>2. /\ pc[Main] = "idle" /\ n = lastQueued + 1
        /\ blockQueue' = Append(blockQueue, n)
        /\ Suspend(Main, "putBlock", n)
        /\ UNCHANGED <<lastConfirmed, lastQueued, db, mempool, chain>>
    BY <1>1 DEF SubmitBlock, disk, ether
  <1>3. LastTaken = lastQueued /\ LastTaken' = n
    BY <1>1, <1>2 DEF LastTaken, Suspend, TypeOK
  <1>4. QueueShape'
    <2>1. /\ Len(blockQueue) \in Nat
          /\ Len(blockQueue') = Len(blockQueue) + 1
          /\ \A i \in 1..Len(blockQueue) : blockQueue'[i] = blockQueue[i]
          /\ blockQueue'[Len(blockQueue) + 1] = n
      BY <1>1, <1>2 DEF TypeOK
    <2>2. ASSUME NEW i \in 1..Len(blockQueue')
          PROVE  blockQueue'[i] = n - Len(blockQueue') + i
      <3>1. CASE i = Len(blockQueue) + 1
        BY <1>1, <2>1, <3>1
      <3>2. CASE i # Len(blockQueue) + 1
        <4>1. i \in 1..Len(blockQueue)
          BY <2>1, <3>2
        <4>2. QED
          BY <1>1, <1>2, <1>3, <2>1, <4>1 DEF OrderInv, QueueShape
      <3>3. QED
        BY <3>1, <3>2
    <2>3. n - Len(blockQueue') <= lastConfirmed
      BY <1>1, <1>2, <1>3, <2>1 DEF OrderInv, QueueShape
    <2>4. QED
      BY <1>2, <1>3, <2>2, <2>3 DEF QueueShape
  <1>5. CallsInv'
    BY <1>1, <1>2, SuspendKeepsCalls DEF OrderInv, CallsInv, ConfirmedIsMined
  <1>6. NeverEarly'
    BY <1>2 DEF OrderInv, NeverEarly
  <1>7. QED
    BY <1>4, <1>5, <1>6 DEF OrderInv, CallsInv

LEMMA HandlerOrder ==
    ASSUME TypeOK, OrderInv, NEW h \in Handlers, NEW n \in 1..Len(chain),
           HandleNewRollupBlock(h, n)
    PROVE  OrderInv'
  <1>1. /\ h \in Procs /\ h # Main /\ "putConfirmed" \in PCs
        /\ blockQueue # <<>> /\ n = Head(blockQueue)
        /\ blockQueue' = Tail(blockQueue) /\ lastConfirmed' = n
        /\ Suspend(h, "putConfirmed", n)
        /\ UNCHANGED <<lastQueued, db, mempool, chain>>
    BY DEF HandleNewRollupBlock, Confirms, Procs, PCs, Awaits, disk, ether
  <1>2. /\ Len(blockQueue) \in Nat /\ Len(blockQueue) >= 1
        /\ n = blockQueue[1] /\ n \in Numbers
        /\ Len(blockQueue') = Len(blockQueue) - 1
        /\ \A i \in 1..Len(blockQueue') : blockQueue'[i] = blockQueue[i + 1]
    BY <1>1 DEF TypeOK
  <1>3. LastTaken' = LastTaken /\ LastTaken \in Int
    <2>1. LastTaken' = LastTaken
      BY <1>1, <1>2, SuspendKeepsLastTaken
    <2>2. QED
      BY <2>1 DEF LastTaken, TypeOK, Numbers, Procs
  <1>4. QueueShape'
    <2>1. ASSUME NEW i \in 1..Len(blockQueue')
          PROVE  blockQueue'[i] = LastTaken - Len(blockQueue') + i
      <3>1. i + 1 \in 1..Len(blockQueue)
        BY <1>2
      <3>2. QED
        BY <1>2, <1>3, <3>1 DEF OrderInv, QueueShape
    <2>2. LastTaken - Len(blockQueue') <= n
      BY <1>2, <1>3 DEF OrderInv, QueueShape
    <2>3. QED
      BY <1>1, <1>3, <2>1, <2>2 DEF QueueShape
  <1>5. CallsInv'
    BY <1>1, <1>2, SuspendKeepsCalls DEF OrderInv, CallsInv, ConfirmedIsMined
  <1>6. NeverEarly'
    BY <1>1 DEF OrderInv, NeverEarly
  <1>7. QED
    BY <1>4, <1>5, <1>6 DEF OrderInv, CallsInv

LEMMA ResumeOrder ==
    ASSUME TypeOK, OrderInv, NEW p \in Procs, Resume(p)
    PROVE  OrderInv'
  <1> USE DEF disk, ether, memory
  <1>0. /\ Main \in Procs /\ arg[p] \in Numbers /\ Len(chain) \in Nat
        /\ {"idle", "accepted", "putSubmitted", "putQueued", "putRaised"}
              \subseteq PCs
        /\ 0 \in Numbers
    BY DEF Procs, PCs, Awaits, TypeOK, Numbers
  <1>1. CASE RpcAccepted(p)
    <2>1. LastTaken' = LastTaken
      BY <1>0, <1>1, SuspendKeepsLastTaken DEF RpcAccepted
    <2>2. QueueShape'
      BY <1>1, <2>1 DEF RpcAccepted, OrderInv, QueueShape
    <2>3. CallsInv'
      BY <1>0, <1>1, SuspendKeepsCalls
         DEF RpcAccepted, OrderInv, CallsInv, ConfirmedIsMined
    <2>4. arg[p] <= Len(chain) + 1 /\ mempool' = Append(mempool, arg[p])
          /\ chain' = chain
      BY <1>1 DEF RpcAccepted, OrderInv, CallsAreNotEarly
    <2>5. NeverEarly'
      BY <1>0, <2>4 DEF OrderInv, NeverEarly, TypeOK
    <2>6. QED
      BY <2>2, <2>3, <2>5 DEF OrderInv, CallsInv
  <1>2. CASE RpcReplied(p)
    <2>1. LastTaken' = LastTaken
      BY <1>0, <1>2, SuspendKeepsLastTaken DEF RpcReplied
    <2>2. QueueShape'
      BY <1>2, <2>1 DEF RpcReplied, OrderInv, QueueShape
    <2>3. CallsInv'
      BY <1>0, <1>2, SuspendKeepsCalls
         DEF RpcReplied, OrderInv, CallsInv, ConfirmedIsMined
    <2>4. NeverEarly'
      BY <1>2 DEF RpcReplied, OrderInv, NeverEarly
    <2>5. QED
      BY <2>2, <2>3, <2>4 DEF OrderInv, CallsInv
  <1>3. CASE SubmittedStored(p)
    <2>0. Suspend(p, "idle", 0) /\ db'.confirmed = db.confirmed
      BY <1>3 DEF SubmittedStored, Return, TypeOK
    <2>1. LastTaken' = LastTaken
      BY <1>0, <1>3, <2>0, SuspendKeepsLastTaken DEF SubmittedStored
    <2>2. QueueShape'
      BY <1>3, <2>1 DEF SubmittedStored, OrderInv, QueueShape
    <2>3. CallsInv'
      BY <1>0, <1>3, <2>0, SuspendKeepsCalls
         DEF SubmittedStored, OrderInv, CallsInv, ConfirmedIsMined
    <2>4. NeverEarly'
      BY <1>3 DEF SubmittedStored, OrderInv, NeverEarly
    <2>5. QED
      BY <2>2, <2>3, <2>4 DEF OrderInv, CallsInv
  <1>4. CASE p = Main /\ BlockStored
    <2>1. LastTaken' = LastTaken
      BY <1>4 DEF BlockStored, LastTaken, Suspend, TypeOK, Procs
    <2>2. QueueShape'
      BY <1>4, <2>1 DEF BlockStored, OrderInv, QueueShape
    <2>3. CallsInv'
      BY <1>0, <1>4, SuspendKeepsCalls
         DEF BlockStored, OrderInv, CallsInv, ConfirmedIsMined
    <2>4. NeverEarly'
      BY <1>4 DEF BlockStored, OrderInv, NeverEarly
    <2>5. QED
      BY <2>2, <2>3, <2>4 DEF OrderInv, CallsInv
  <1>5. CASE p = Main /\ QueuedStored
    <2>1. db'.confirmed = db.confirmed /\ pc[p] # "putBlock"
      BY <1>5 DEF QueuedStored, TypeOK
    <2>2. QED
      BY <1>5, <2>1, TrySubmitKeepsOrder
         DEF QueuedStored, OrderInv, ConfirmedIsMined
  <1>6. CASE p \in Handlers /\ ConfirmedStored(p)
    <2>1. /\ db'.confirmed = arg[p] /\ arg[p] <= Len(chain)
          /\ pc[p] = "putConfirmed" /\ p # Main
      BY <1>6 DEF ConfirmedStored, TypeOK, OrderInv, ConfirmedIsMined
    <2>2. CASE Suspend(p, "putRaised", arg[p])
      <3>1. LastTaken' = LastTaken
        BY <1>0, <1>6, <2>1, <2>2, SuspendKeepsLastTaken DEF ConfirmedStored
      <3>2. QueueShape'
        BY <1>6, <3>1 DEF ConfirmedStored, OrderInv, QueueShape
      <3>3. CallsInv'
        BY <1>0, <1>6, <2>1, <2>2, SuspendKeepsCalls
           DEF ConfirmedStored, OrderInv, CallsInv, ConfirmedIsMined
      <3>4. NeverEarly'
        BY <1>6 DEF ConfirmedStored, OrderInv, NeverEarly
      <3>5. QED
        BY <3>2, <3>3, <3>4 DEF OrderInv, CallsInv
    <2>3. CASE TrySubmitNextBlock(p, lastSubmitted, lastConfirmed,
                                  lastQueued, blockQueue)
      BY <1>6, <2>1, <2>3, TrySubmitKeepsOrder DEF ConfirmedStored
    <2>4. QED
      BY <1>6, <2>2, <2>3 DEF ConfirmedStored
  <1>7. CASE p \in Handlers /\ RaisedStored(p)
    <2>1. db'.confirmed = db.confirmed /\ pc[p] # "putBlock"
      BY <1>7 DEF RaisedStored, TypeOK
    <2>2. QED
      BY <1>7, <2>1, TrySubmitKeepsOrder
         DEF RaisedStored, OrderInv, ConfirmedIsMined
  <1>8. QED
    BY <1>1, <1>2, <1>3, <1>4, <1>5, <1>6, <1>7 DEF Resume

LEMMA ThrowOrder ==
    ASSUME TypeOK, OrderInv, NEW p \in Procs,
           RpcRejected(p) \/ RpcReplyLost(p)
    PROVE  OrderInv'
  <1>1. /\ Suspend(p, "idle", 0) /\ pc[p] # "putBlock"
        /\ UNCHANGED <<lastConfirmed, lastQueued, blockQueue, db, mempool,
                       chain>>
    BY DEF RpcRejected, RpcReplyLost, Throw, disk, ether, memory
  <1>2. "idle" \in PCs /\ 0 \in Numbers
    BY DEF PCs, Numbers
  <1>3. LastTaken' = LastTaken
    BY <1>1, <1>2, SuspendKeepsLastTaken
  <1>4. QueueShape'
    BY <1>1, <1>3 DEF OrderInv, QueueShape
  <1>5. CallsInv'
    BY <1>1, <1>2, SuspendKeepsCalls DEF OrderInv, CallsInv, ConfirmedIsMined
  <1>6. NeverEarly'
    BY <1>1 DEF OrderInv, NeverEarly
  <1>7. QED
    BY <1>4, <1>5, <1>6 DEF OrderInv, CallsInv

LEMMA MineOrder == TypeOK /\ OrderInv /\ Mine => OrderInv'
  <1> SUFFICES ASSUME TypeOK, OrderInv, Mine PROVE OrderInv'
    OBVIOUS
  <1>1. /\ mempool # <<>> /\ chain' = Append(chain, Head(mempool))
        /\ mempool' = Tail(mempool)
        /\ UNCHANGED <<pc, arg, db, lastConfirmed, lastQueued, blockQueue>>
    BY DEF Mine, disk, memory
  <1>2. /\ Len(chain) \in Nat /\ Len(chain') = Len(chain) + 1
        /\ \A i \in 1..Len(chain) : chain'[i] = chain[i]
        /\ chain'[Len(chain) + 1] = mempool[1]
        /\ mempool[1] \in Nat /\ Len(mempool) \in Nat /\ Len(mempool) >= 1
        /\ Len(mempool') = Len(mempool) - 1
        /\ \A i \in 1..Len(mempool') : mempool'[i] = mempool[i + 1]
        /\ \A i \in 1..Len(mempool) : mempool[i] \in Nat
    BY SMTT(30), <1>1 DEF TypeOK, Numbers
  <1>3. QueueShape'
    <2>1. LastTaken' = LastTaken
      BY <1>1 DEF LastTaken
    <2>2. QED
      BY <1>1, <2>1 DEF OrderInv, QueueShape
  <1>4. CallsInv'
    BY <1>1, <1>2
       DEF OrderInv, CallsInv, ConfirmedIsMined, CallsAreNotEarly, TypeOK,
           Numbers
  <1>5. NeverEarly'
    <2>1. ASSUME NEW i \in 1..Len(chain') PROVE chain'[i] <= i
      <3>1. CASE i = Len(chain) + 1
        BY <1>2, <3>1 DEF OrderInv, NeverEarly
      <3>2. CASE i # Len(chain) + 1
        <4>1. i \in 1..Len(chain)
          BY <1>2, <3>2
        <4>2. QED
          BY <1>2, <4>1 DEF OrderInv, NeverEarly
      <3>3. QED
        BY <3>1, <3>2
    <2>2. ASSUME NEW i \in 1..Len(mempool')
          PROVE  mempool'[i] <= Len(chain') + 1
      <3>1. i + 1 \in 1..Len(mempool) /\ mempool[i + 1] \in Nat
        BY <1>2
      <3>2. mempool[i + 1] <= Len(chain) + 1
        BY <3>1 DEF OrderInv, NeverEarly
      <3>3. QED
        BY <1>2, <3>1, <3>2
    <2>3. QED
      BY <2>1, <2>2 DEF NeverEarly
  <1>6. QED
    BY <1>3, <1>4, <1>5 DEF OrderInv, CallsInv

LEMMA CrashOrder == TypeOK /\ OrderInv /\ Crash => OrderInv'
  BY DEF Crash, TypeOK, OrderInv, QueueShape, ConfirmedIsMined,
         CallsAreNotEarly, NeverEarly, LastTaken, Procs, disk, ether

LEMMA NextOrder == TypeOK /\ OrderInv /\ [Next]_vars => OrderInv'
  <1> SUFFICES ASSUME TypeOK, OrderInv, [Next]_vars PROVE OrderInv'
    OBVIOUS
  <1>1. CASE UNCHANGED vars
    BY <1>1 DEF vars, memory, disk, ether, OrderInv, QueueShape, LastTaken,
                ConfirmedIsMined, CallsAreNotEarly, NeverEarly
  <1>2. CASE Next
    BY <1>2, StartOrder, SubmitBlockOrder, ResumeOrder, ThrowOrder,
       HandlerOrder, MineOrder, CrashOrder DEF Next
  <1>3. QED
    BY <1>1, <1>2

\* Whatever overlaps, crashes or fails, the i-th block of the contract never
\* has a number above i.
THEOREM OrderIsKept == Spec => []NeverEarly
  <1>1. OrderInv => NeverEarly
    BY DEF OrderInv
  <1>2. QED
    BY TypeCorrect, InitOrder, NextOrder, <1>1, PTL DEF Spec

-----------------------------------------------------------------------------
(***************************************************************************)
(* Recovery finds its blocks.  submitBlock stores BLOCK_n before it counts *)
(* n, in memory and on disk, and no other call counts.                     *)
(***************************************************************************)
LEMMA InitStorage == Init => StorageInv
  BY DEF Init, StorageInv, Procs

\* A call other than submitBlock's leaves what StorageInv is about alone.
LEMMA StorageUntouched ==
    ASSUME TypeOK, StorageInv, NEW p \in Procs, NEW at, NEW n,
           Suspend(p, at, n), at \notin {"putBlock", "putQueued"},
           lastQueued' = lastQueued, dbBlocks' = dbBlocks,
           db'.queued = db.queued
    PROVE  StorageInv'
  BY DEF StorageInv, Suspend, TypeOK, Procs

LEMMA TrySubmitStorage ==
    ASSUME NEW p \in Procs, NEW s, NEW c, NEW q, NEW queue,
           TrySubmitNextBlock(p, s, c, q, queue)
    PROVE  \E at \in {"idle", "calling"} : \E n : Suspend(p, at, n)
  BY DEF TrySubmitNextBlock, Return

LEMMA ResumeStorage ==
    ASSUME TypeOK, StorageInv, NEW p \in Procs, Resume(p)
    PROVE  StorageInv'
  <1> USE DEF disk, ether, memory
  <1>0. /\ Main \in Procs /\ lastQueued \in Nat /\ db.queued \in Nat
    BY DEF Procs, TypeOK, Numbers
  <1>1. CASE RpcAccepted(p)
    BY <1>1, StorageUntouched DEF RpcAccepted
  <1>2. CASE RpcReplied(p)
    BY <1>2, StorageUntouched DEF RpcReplied
  <1>3. CASE SubmittedStored(p)
    <2>1. db'.queued = db.queued
      BY <1>3 DEF SubmittedStored, TypeOK
    <2>2. QED
      BY <1>3, <2>1, StorageUntouched DEF SubmittedStored, Return
  <1>4. CASE p = Main /\ BlockStored
    <2>1. /\ lastQueued' = lastQueued + 1 /\ db' = db
          /\ dbBlocks' = dbBlocks \cup {lastQueued'}
      BY <1>4 DEF BlockStored, StorageInv
    <2>2. pc'[Main] = "putQueued" /\ arg'[Main] = lastQueued'
      BY <1>0, <1>4 DEF BlockStored, Suspend, TypeOK
    <2>3. 1..lastQueued' \subseteq dbBlocks'
      <3>1. ASSUME NEW i \in 1..lastQueued' PROVE i \in dbBlocks'
        <4>1. i = lastQueued' \/ i \in 1..lastQueued
          BY <1>0, <2>1
        <4>2. QED
          BY <2>1, <4>1 DEF StorageInv
      <3>2. QED
        BY <3>1
    <2>4. 1..db'.queued \subseteq dbBlocks'
      BY <2>1 DEF StorageInv
    <2>5. QED
      BY <2>2, <2>3, <2>4 DEF StorageInv
  <1>5. CASE p = Main /\ QueuedStored
    <2>1. /\ db'.queued = lastQueued
          /\ UNCHANGED <<lastQueued, dbBlocks>>
      BY <1>5 DEF QueuedStored, StorageInv, TypeOK
    <2>2. pc'[Main] \in {"idle", "calling"}
      BY <1>0, <1>5, TrySubmitStorage DEF QueuedStored, Suspend, TypeOK
    <2>3. QED
      BY <2>1, <2>2 DEF StorageInv
  <1>6. CASE p \in Handlers /\ ConfirmedStored(p)
    <2>1. db'.queued = db.queued
      BY <1>6 DEF ConfirmedStored, TypeOK
    <2>2. \E at \in {"idle", "calling", "putRaised"} :
             \E n : Suspend(p, at, n)
      BY <1>6, TrySubmitStorage DEF ConfirmedStored
    <2>3. QED
      BY <1>6, <2>1, <2>2, StorageUntouched DEF ConfirmedStored
  <1>7. CASE p \in Handlers /\ RaisedStored(p)
    <2>1. db'.queued = db.queued
      BY <1>7 DEF RaisedStored, TypeOK
    <2>2. \E at \in {"idle", "calling"} : \E n : Suspend(p, at, n)
      BY <1>7, TrySubmitStorage DEF RaisedStored
    <2>3. QED
      BY <1>7, <2>1, <2>2, StorageUntouched DEF RaisedStored
  <1>8. QED
    BY <1>1, <1>2, <1>3, <1>4, <1>5, <1>6, <1>7 DEF Resume

LEMMA NextStorage == TypeOK /\ StorageInv /\ [Next]_vars => StorageInv'
  <1> SUFFICES ASSUME TypeOK, StorageInv, [Next]_vars PROVE StorageInv'
    OBVIOUS
  <1> USE DEF disk, ether, memory
  <1>0. Main \in Procs /\ Handlers \subseteq Procs
    BY DEF Procs
  <1>1. CASE Start
    <2>1. lastQueued' = db.queued /\ UNCHANGED <<db, dbBlocks>>
      BY <1>1 DEF Start
    <2>2. pc'[Main] \in {"idle", "calling"}
      BY <1>0, <1>1 DEF Start, Return, Suspend, TypeOK
    <2>3. QED
      BY <2>1, <2>2 DEF StorageInv
  <1>2. ASSUME NEW n \in 1..MaxBlock, n <= lastQueued + 1, SubmitBlock(n)
        PROVE  StorageInv'
    <2>1. n = lastQueued + 1 /\ UNCHANGED <<lastQueued, db, dbBlocks>>
      BY <1>2 DEF SubmitBlock, TypeOK, Numbers
    <2>2. pc'[Main] = "putBlock" /\ arg'[Main] = n
      BY <1>0, <1>2 DEF SubmitBlock, Suspend, TypeOK
    <2>3. QED
      BY <2>1, <2>2 DEF StorageInv
  <1>3. ASSUME NEW p \in Procs, Resume(p) PROVE StorageInv'
    BY <1>3, ResumeStorage
  <1>4. ASSUME NEW p \in Procs, RpcRejected(p) \/ RpcReplyLost(p)
        PROVE  StorageInv'
    BY <1>4, StorageUntouched DEF RpcRejected, RpcReplyLost, Throw
  <1>5. ASSUME NEW h \in Handlers, NEW n \in 1..Len(chain),
               HandleNewRollupBlock(h, n)
        PROVE  StorageInv'
    BY <1>0, <1>5, StorageUntouched DEF HandleNewRollupBlock
  <1>6. CASE Mine
    BY <1>6 DEF Mine, StorageInv
  <1>7. CASE Crash
    BY <1>0, <1>7 DEF Crash, StorageInv
  <1>8. CASE UNCHANGED vars
    BY <1>8 DEF vars, StorageInv
  <1>9. QED
    BY <1>1, <1>2, <1>3, <1>4, <1>5, <1>6, <1>7, <1>8 DEF Next

\* Whenever the node restarts, in every environment, all the blocks init()
\* reloads are stored.
THEOREM RecoveryIsSafe == Spec => []RecoveryReadsStoredBlocks
  <1>1. TypeOK /\ StorageInv => RecoveryReadsStoredBlocks
    <2> SUFFICES ASSUME TypeOK, StorageInv,
                        NEW i \in (db.confirmed + 1)..db.queued
                 PROVE  i \in dbBlocks
      BY DEF RecoveryReadsStoredBlocks, BlocksToReload
    <2>1. i \in 1..db.queued
      BY DEF TypeOK, Numbers
    <2>2. QED
      BY <2>1 DEF StorageInv
  <1>2. QED
    BY TypeCorrect, InitStorage, NextStorage, <1>1, PTL DEF Spec
-----------------------------------------------------------------------------
(***************************************************************************)
(* What a step of the only call under way does to the calls.               *)
(***************************************************************************)
Alone(p) == \A q \in Procs : q # p => pc[q] = "idle"

LEMMA ActiveIsAlone ==
    ASSUME OneAtATime, NEW p \in Procs, pc[p] # "idle"
    PROVE  Alone(p)
  BY DEF OneAtATime, Alone

LEMMA SuspendAlone ==
    ASSUME TypeOK, NEW p \in Procs, Alone(p), NEW at, NEW n,
           Suspend(p, at, n)
    PROVE  pc'[p] = at /\ arg'[p] = n /\ Alone(p)'
  BY DEF TypeOK, Suspend, Alone

\* What TypeOK says of the numbers, in the form arithmetic needs.
LEMMA Naturals ==
    ASSUME TypeOK
    PROVE  /\ lastSubmitted \in Nat /\ lastConfirmed \in Nat
           /\ lastQueued \in Nat
           /\ db.confirmed \in Nat /\ db.submitted \in Nat
           /\ db.queued \in Nat
           /\ \A p \in Procs : arg[p] \in Nat
           /\ Len(chain) \in Nat /\ Len(mempool) \in Nat
           /\ Len(blockQueue) \in Nat /\ NumSent \in Nat
           /\ Main \in Procs
  BY DEF TypeOK, Numbers, NumSent, Procs

-----------------------------------------------------------------------------
(***************************************************************************)
(* Until calls overlap (SerialInv): what is sent is the head of a queue    *)
(* whose blocks are all counted in last_queued, and memory differs from    *)
(* the database only by the write under way.  Crashes, rejected            *)
(* transactions and lost answers do not matter.                            *)
(***************************************************************************)
LEMMA OneAtATimeNext ==
    ASSUME NEW p \in Procs, Alone(p)',
           status' = "down" => pc'[p] = "idle",
           status' = "starting" => p = Main,
           pc'[p] \in {"putBlock", "putQueued"} => p = Main
    PROVE  OneAtATime'
  BY DEF OneAtATime, Alone

LEMMA InitSerial == Init => SerialInv
  BY DEF Init, SerialInv, OneAtATime, SentIsQueued, Sent, Procs

\* Nothing is under way: memory is what the database holds.
SettledSerial ==
    /\ SentIsQueued /\ QueueExact
    /\ db.confirmed <= db.queued
    /\ lastSubmitted = db.submitted
    /\ lastConfirmed = db.confirmed
    /\ lastQueued = db.queued
    /\ LastTaken = lastQueued

LEMMA TrySubmitSerial ==
    ASSUME TypeOK, TypeOK', NEW p \in Procs, Alone(p)', SettledSerial',
           \/ /\ NothingPending(lastSubmitted', lastConfirmed', lastQueued',
                                blockQueue')
              /\ pc'[p] = "calling" /\ arg'[p] = Head(blockQueue')
              /\ status' = "starting" => p = Main
              /\ status' # "down"
           \/ pc'[p] = "idle" /\ status' = "running"
    PROVE  SerialInv'
  <1>1. /\ lastSubmitted' \in Nat /\ lastConfirmed' \in Nat
        /\ lastQueued' \in Nat /\ Len(blockQueue') \in Nat
        /\ db'.queued \in Nat /\ Main \in Procs
    <2>1. Len(blockQueue)' \in Nat
      BY DEF TypeOK
    <2>2. QED
      BY <2>1 DEF TypeOK, Numbers, Procs
  <1>2. OneAtATime'
    BY OneAtATimeNext
  <1>3. CASE pc'[p] = "calling"
    <2>1. /\ blockQueue' # <<>> /\ arg'[p] = Head(blockQueue')
          /\ lastSubmitted' <= lastConfirmed'
      BY <1>3 DEF NothingPending
    <2>2. Len(blockQueue') >= 1 /\ Head(blockQueue') = blockQueue'[1]
      BY <2>1, <1>1 DEF TypeOK
    <2>3. arg'[p] = lastConfirmed' + 1 /\ lastConfirmed' + 1 <= lastQueued'
      BY <1>1, <2>1, <2>2 DEF SettledSerial, QueueExact
    <2>4. MemoryFollows'
      BY <1>1, <1>3, <2>1, <2>3 DEF MemoryFollows, SettledSerial, Alone
    <2>5. QED
      BY <1>2, <2>4 DEF SerialInv, SettledSerial
  <1>4. CASE pc'[p] = "idle"
    <2>1. MemoryFollows'
      BY <1>1, <1>4 DEF MemoryFollows, SettledSerial, Alone
    <2>2. QED
      BY <1>2, <2>1 DEF SerialInv, SettledSerial
  <1>5. QED
    BY <1>3, <1>4

LEMMA StartSerial ==
    ASSUME TypeOK, TypeOK', SerialInv, ~overlap', Start
    PROVE  SerialInv'
  <1>0. OneAtATime /\ SentIsQueued /\ db.confirmed <= db.queued
        /\ status = "down"
    BY DEF SerialInv, Start
  <1>1. Main \in Procs /\ Alone(Main)
    BY <1>0 DEF Procs, Alone, OneAtATime
  <1>2. /\ lastSubmitted' = db.submitted /\ lastConfirmed' = db.confirmed
        /\ lastQueued' = db.queued /\ blockQueue' = ReloadedQueue
        /\ UNCHANGED <<db, mempool, chain>>
    BY DEF Start, disk, ether
  <1>3. \/ /\ NothingPending(db.submitted, db.confirmed, db.queued,
                             ReloadedQueue)
           /\ pc'[Main] = "calling" /\ arg'[Main] = Head(ReloadedQueue)
           /\ status' = "starting"
        \/ pc'[Main] = "idle" /\ status' = "running"
    BY <1>1, SuspendAlone DEF Start, NextToSubmit, Return
  <1>4. Alone(Main)'
    BY <1>1, SuspendAlone DEF Start, Return
  <1>5. QueueExact' /\ LastTaken' = lastQueued'
    <2>1. LastTaken' = lastQueued'
      BY <1>3 DEF LastTaken
    <2>2. Len(ReloadedQueue) = db.queued - db.confirmed
          /\ \A j \in 1..Len(ReloadedQueue) :
                ReloadedQueue[j] = db.confirmed + j
      BY <1>0, ReloadedQueueFacts, Naturals
    <2>3. QED
      BY <1>2, <2>1, <2>2 DEF QueueExact
  <1>6. SettledSerial'
    BY <1>0, <1>2, <1>5 DEF SettledSerial, SentIsQueued, Sent
  <1>7. QED
    BY <1>1, <1>2, <1>3, <1>4, <1>6, TrySubmitSerial

LEMMA SubmitBlockSerial ==
    ASSUME TypeOK, TypeOK', SerialInv, ~overlap', NEW n \in 1..MaxBlock,
           n <= lastQueued + 1, SubmitBlock(n)
    PROVE  SerialInv'
  <1>1. /\ ~overlap /\ Main \in Procs /\ pc[Main] = "idle"
        /\ \A p \in Procs : pc[p] = "idle"
        /\ status = "running" /\ status' = "running"
    BY DEF SubmitBlock, Starts, Quiet, Procs
  <1>2. /\ n = lastQueued + 1 /\ blockQueue' = Append(blockQueue, n)
        /\ UNCHANGED <<lastSubmitted, lastConfirmed, lastQueued, db, mempool,
                       chain>>
    BY Naturals DEF SubmitBlock, disk, ether
  <1>3. pc'[Main] = "putBlock" /\ arg'[Main] = n /\ Alone(Main)'
    BY <1>1, SuspendAlone DEF SubmitBlock, Alone
  <1>4. SentIsQueued /\ db.confirmed <= db.queued /\ MemoryFollows
        /\ QueueExact
    BY <1>1 DEF SerialInv
  <1>5. OneAtATime'
    BY <1>1, <1>3, OneAtATimeNext
  <1>6. SentIsQueued'
    BY <1>2, <1>4 DEF SentIsQueued, Sent
  <1>7. MemoryFollows'
    BY <1>1, <1>2, <1>3, <1>4 DEF MemoryFollows, Alone
  <1>8. QueueExact'
    <2>1. /\ Len(blockQueue) = lastQueued - lastConfirmed
          /\ \A i \in 1..Len(blockQueue) : blockQueue[i] = lastConfirmed + i
      BY <1>1, <1>4 DEF QueueExact, LastTaken
    <2>2. LastTaken' = n
      BY <1>3 DEF LastTaken
    <2>3. /\ Len(blockQueue') = Len(blockQueue) + 1
          /\ \A i \in 1..Len(blockQueue) : blockQueue'[i] = blockQueue[i]
          /\ blockQueue'[Len(blockQueue) + 1] = n
      BY <1>2 DEF TypeOK, Numbers
    <2>4. Len(blockQueue') = n - lastConfirmed
      BY <1>2, <2>1, <2>3, Naturals
    <2>5. ASSUME NEW i \in 1..Len(blockQueue')
          PROVE  blockQueue'[i] = lastConfirmed + i
      <3>1. CASE i = Len(blockQueue) + 1
        BY SMTT(30), <1>2, <2>1, <2>3, <3>1, Naturals
      <3>2. CASE i # Len(blockQueue) + 1
        <4>1. i \in 1..Len(blockQueue)
          BY <2>3, <3>2, Naturals
        <4>2. QED
          BY <2>1, <2>3, <4>1
      <3>3. QED
        BY <3>1, <3>2
    <2>6. QED
      BY <1>2, <2>2, <2>4, <2>5 DEF QueueExact
  <1>9. QED
    BY <1>2, <1>4, <1>5, <1>6, <1>7, <1>8 DEF SerialInv

LEMMA BlockStoredSerial ==
    ASSUME TypeOK, TypeOK', SerialInv, ~overlap', BlockStored
    PROVE  SerialInv'
  <1>0. ~overlap /\ pc[Main] = "putBlock" /\ Main \in Procs /\ OneAtATime
    BY DEF BlockStored, SerialInv, Procs
  <1>1. /\ Alone(Main)
        /\ status # "down" /\ status' = status
        /\ lastQueued' = arg[Main]
        /\ UNCHANGED <<lastSubmitted, lastConfirmed, blockQueue, db, mempool,
                       chain>>
    BY <1>0, ActiveIsAlone DEF BlockStored, OneAtATime, ether
  <1>2. pc'[Main] = "putQueued" /\ arg'[Main] = arg[Main] /\ Alone(Main)'
    BY <1>0, <1>1, SuspendAlone DEF BlockStored
  <1>3. SentIsQueued /\ db.confirmed <= db.queued /\ MemoryFollows
        /\ QueueExact
    BY <1>0, <1>1 DEF SerialInv
  <1>4. OneAtATime'
    BY <1>0, <1>1, <1>2, OneAtATimeNext
  <1>5. SentIsQueued'
    BY <1>1, <1>3 DEF SentIsQueued, Sent
  <1>6. MemoryFollows'
    BY <1>0, <1>1, <1>2, <1>3 DEF MemoryFollows, Alone
  <1>7. QueueExact'
    BY <1>0, <1>1, <1>2, <1>3 DEF QueueExact, LastTaken
  <1>8. QED
    BY <1>1, <1>3, <1>4, <1>5, <1>6, <1>7 DEF SerialInv

LEMMA QueuedStoredSerial ==
    ASSUME TypeOK, TypeOK', SerialInv, ~overlap', QueuedStored
    PROVE  SerialInv' /\ db'.queued >= db.queued
  <1>0. ~overlap /\ pc[Main] = "putQueued" /\ Main \in Procs /\ OneAtATime
    BY DEF QueuedStored, SerialInv, Procs
  <1>1. /\ Alone(Main)
        /\ status # "down"
        /\ db'.queued = arg[Main] /\ db'.confirmed = db.confirmed
        /\ db'.submitted = db.submitted
        /\ UNCHANGED <<lastSubmitted, lastConfirmed, lastQueued, blockQueue,
                       mempool, chain>>
    BY <1>0, ActiveIsAlone DEF QueuedStored, OneAtATime, ether, memory, TypeOK
  <1>2. SentIsQueued /\ db.confirmed <= db.queued /\ MemoryFollows
        /\ QueueExact
    BY <1>0, <1>1 DEF SerialInv
  <1>3. /\ lastQueued = db.queued + 1 /\ arg[Main] = lastQueued
        /\ lastConfirmed = db.confirmed /\ lastSubmitted = db.submitted
        /\ LastTaken = lastQueued
    BY <1>0, <1>1, <1>2 DEF MemoryFollows, Alone, LastTaken
  <1>4. /\ Alone(Main)'
        /\ \/ /\ NothingPending(lastSubmitted, lastConfirmed, lastQueued,
                                blockQueue)
              /\ pc'[Main] = "calling" /\ arg'[Main] = Head(blockQueue)
              /\ status' = status
           \/ pc'[Main] = "idle" /\ status' = "running"
    BY <1>0, <1>1, SuspendAlone
       DEF QueuedStored, TrySubmitNextBlock, NextToSubmit, Return
  <1>5. SettledSerial'
    <2>1. LastTaken' = lastQueued'
      BY <1>4 DEF LastTaken
    <2>2. QueueExact'
      BY <1>1, <1>2, <1>3, <2>1 DEF QueueExact
    <2>3. SentIsQueued'
      <3>1. Sent' = Sent
        BY <1>1 DEF Sent
      <3>2. \A i \in DOMAIN Sent : Sent[i] \in 1..db.queued
        BY <1>2 DEF SentIsQueued
      <3>3. db.queued \in Nat /\ db'.queued = db.queued + 1
        BY <1>1, <1>3 DEF TypeOK, Numbers
      <3> HIDE DEF Sent
      <3>4. 1..db.queued \subseteq 1..db'.queued
        BY <3>3
      <3>5. QED
        BY <3>1, <3>2, <3>4 DEF SentIsQueued
    <2>4. QED
      BY <1>1, <1>2, <1>3, <2>1, <2>2, <2>3, Naturals DEF SettledSerial
  <1>6. SerialInv'
    BY <1>0, <1>1, <1>4, <1>5, TrySubmitSerial
  <1>7. QED
    BY <1>1, <1>3, <1>6, Naturals

LEMMA RpcAcceptedSerial ==
    ASSUME TypeOK, TypeOK', SerialInv, ~overlap', NEW p \in Procs,
           RpcAccepted(p)
    PROVE  SerialInv'
  <1>0. ~overlap /\ pc[p] = "calling" /\ OneAtATime
    BY DEF RpcAccepted, SerialInv
  <1>1. /\ Alone(p) /\ status # "down"
        /\ status' = status /\ mempool' = Append(mempool, arg[p])
        /\ UNCHANGED <<lastSubmitted, lastConfirmed, lastQueued, blockQueue,
                       db, chain>>
    BY <1>0, ActiveIsAlone DEF RpcAccepted, OneAtATime, disk, memory
  <1>2. pc'[p] = "accepted" /\ arg'[p] = arg[p] /\ Alone(p)'
    BY <1>1, SuspendAlone DEF RpcAccepted
  <1>3. SentIsQueued /\ db.confirmed <= db.queued /\ MemoryFollows
        /\ QueueExact
    BY <1>0, <1>1 DEF SerialInv
  <1>4. OneAtATime'
    BY <1>0, <1>1, <1>2, OneAtATimeNext DEF OneAtATime
  <1>5. SentIsQueued'
    <2>1. arg[p] \in 1..db.queued /\ arg[p] \in Numbers
      BY <1>0, <1>3 DEF MemoryFollows, TypeOK
    <2>2. Sent' = Append(Sent, arg[p]) /\ Sent \in Seq(Numbers)
      BY <1>1, <2>1 DEF Sent, TypeOK
    <2>3. QED
      BY <1>1, <1>3, <2>1, <2>2 DEF SentIsQueued
  <1>6. MemoryFollows'
    BY <1>0, <1>1, <1>2, <1>3, Naturals DEF MemoryFollows, Alone
  <1>7. QueueExact'
    BY <1>0, <1>1, <1>2, <1>3, Naturals DEF QueueExact, LastTaken, Alone
  <1>8. QED
    BY <1>1, <1>3, <1>4, <1>5, <1>6, <1>7 DEF SerialInv

LEMMA RpcRepliedSerial ==
    ASSUME TypeOK, TypeOK', SerialInv, ~overlap', NEW p \in Procs,
           RpcReplied(p)
    PROVE  SerialInv'
  <1>0. ~overlap /\ pc[p] = "accepted" /\ OneAtATime
    BY DEF RpcReplied, SerialInv
  <1>1. /\ Alone(p) /\ status # "down"
        /\ status' = status /\ lastSubmitted' = arg[p]
        /\ UNCHANGED <<lastConfirmed, lastQueued, blockQueue, db, mempool,
                       chain>>
    BY <1>0, ActiveIsAlone DEF RpcReplied, OneAtATime, disk, ether
  <1>2. pc'[p] = "putSubmitted" /\ arg'[p] = arg[p] /\ Alone(p)'
    BY <1>1, SuspendAlone DEF RpcReplied
  <1>3. SentIsQueued /\ db.confirmed <= db.queued /\ MemoryFollows
        /\ QueueExact
    BY <1>0, <1>1 DEF SerialInv
  <1>4. OneAtATime'
    BY <1>0, <1>1, <1>2, OneAtATimeNext DEF OneAtATime
  <1>5. SentIsQueued'
    BY <1>1, <1>3 DEF SentIsQueued, Sent
  <1>6. MemoryFollows'
    BY <1>0, <1>1, <1>2, <1>3, Naturals DEF MemoryFollows, Alone
  <1>7. QueueExact'
    BY <1>0, <1>1, <1>2, <1>3, Naturals DEF QueueExact, LastTaken, Alone
  <1>8. QED
    BY <1>1, <1>3, <1>4, <1>5, <1>6, <1>7 DEF SerialInv

LEMMA SubmittedStoredSerial ==
    ASSUME TypeOK, TypeOK', SerialInv, ~overlap', NEW p \in Procs,
           SubmittedStored(p)
    PROVE  SerialInv' /\ db'.submitted >= db.submitted
  <1>0. ~overlap /\ pc[p] = "putSubmitted" /\ OneAtATime
    BY DEF SubmittedStored, SerialInv
  <1>1. /\ Alone(p) /\ status # "down" /\ status' = "running"
        /\ db'.submitted = arg[p] /\ db'.confirmed = db.confirmed
        /\ db'.queued = db.queued
        /\ UNCHANGED <<lastSubmitted, lastConfirmed, lastQueued, blockQueue,
                       mempool, chain>>
    BY <1>0, ActiveIsAlone
       DEF SubmittedStored, Return, OneAtATime, ether, memory, TypeOK
  <1>2. pc'[p] = "idle" /\ Alone(p)'
    BY <1>1, SuspendAlone DEF SubmittedStored, Return
  <1>3. SentIsQueued /\ db.confirmed <= db.queued /\ MemoryFollows
        /\ QueueExact
    BY <1>0, <1>1 DEF SerialInv
  <1>4. SettledSerial'
    <2>1. LastTaken' = LastTaken /\ LastTaken = lastQueued
      BY <1>0, <1>1, <1>2, Naturals DEF LastTaken, Alone
    <2>2. lastSubmitted = arg[p] /\ lastConfirmed = db.confirmed
          /\ lastQueued = db.queued
      BY <1>0, <1>1, <1>3, Naturals DEF MemoryFollows, Alone
    <2>3. QED
      BY <1>1, <1>3, <2>1, <2>2
         DEF SettledSerial, SentIsQueued, Sent, QueueExact
  <1>5. SerialInv'
    BY <1>1, <1>2, <1>4, TrySubmitSerial
  <1>6. arg[p] > db.submitted
    BY <1>0, <1>3 DEF MemoryFollows
  <1>7. QED
    BY <1>1, <1>5, <1>6, Naturals

LEMMA ThrowSerial ==
    ASSUME TypeOK, TypeOK', SerialInv, ~overlap', NEW p \in Procs,
           RpcRejected(p) \/ RpcReplyLost(p)
    PROVE  SerialInv'
  <1>0. ~overlap /\ pc[p] \in {"calling", "accepted"} /\ OneAtATime
    BY DEF RpcRejected, RpcReplyLost, SerialInv
  <1>1. /\ Alone(p) /\ status # "down"
        /\ status' = IF status = "starting" THEN "down" ELSE status
        /\ UNCHANGED <<lastSubmitted, lastConfirmed, lastQueued, blockQueue,
                       db, mempool, chain>>
    BY <1>0, ActiveIsAlone
       DEF RpcRejected, RpcReplyLost, Throw, OneAtATime, memory, disk, ether
  <1>2. pc'[p] = "idle" /\ Alone(p)'
    BY <1>1, SuspendAlone DEF RpcRejected, RpcReplyLost, Throw
  <1>3. SentIsQueued /\ db.confirmed <= db.queued /\ MemoryFollows
        /\ QueueExact
    BY <1>0, <1>1 DEF SerialInv
  <1>4. OneAtATime'
    BY <1>0, <1>1, <1>2, OneAtATimeNext DEF OneAtATime
  <1>5. SentIsQueued'
    BY <1>1, <1>3 DEF SentIsQueued, Sent
  <1>6. MemoryFollows'
    BY <1>0, <1>1, <1>2, <1>3, Naturals DEF MemoryFollows, Alone
  <1>7. QueueExact'
    BY <1>0, <1>1, <1>2, <1>3, Naturals DEF QueueExact, LastTaken, Alone
  <1>8. QED
    BY <1>1, <1>3, <1>4, <1>5, <1>6, <1>7 DEF SerialInv

LEMMA HandlerSerial ==
    ASSUME TypeOK, TypeOK', SerialInv, ~overlap', NEW h \in Handlers,
           NEW n \in 1..Len(chain), HandleNewRollupBlock(h, n)
    PROVE  SerialInv'
  <1>0. /\ ~overlap /\ h \in Procs /\ h # Main /\ Main \in Procs
        /\ \A p \in Procs : pc[p] = "idle"
        /\ status = "running" /\ status' = "running"
        /\ blockQueue # <<>> /\ n = Head(blockQueue)
    BY DEF HandleNewRollupBlock, Starts, Quiet, Confirms, Procs
  <1>1. /\ blockQueue' = Tail(blockQueue) /\ lastConfirmed' = n
        /\ UNCHANGED <<lastSubmitted, lastQueued, db, mempool, chain>>
    BY DEF HandleNewRollupBlock, disk, ether
  <1>2. pc'[h] = "putConfirmed" /\ arg'[h] = n /\ Alone(h)'
    BY <1>0, SuspendAlone DEF HandleNewRollupBlock, Alone
  <1>3. SentIsQueued /\ db.confirmed <= db.queued /\ MemoryFollows
        /\ QueueExact
    BY <1>0 DEF SerialInv
  <1>4. OneAtATime'
    BY <1>0, <1>2, OneAtATimeNext
  <1>5. SentIsQueued'
    BY <1>1, <1>3 DEF SentIsQueued, Sent
  <1>6. /\ Len(blockQueue) >= 1 /\ n = blockQueue[1]
        /\ Len(blockQueue') = Len(blockQueue) - 1
        /\ \A i \in 1..Len(blockQueue') : blockQueue'[i] = blockQueue[i + 1]
    BY <1>0, <1>1 DEF TypeOK
  <1>7. n = lastConfirmed + 1 /\ lastConfirmed = db.confirmed
    BY <1>0, <1>3, <1>6, Naturals DEF QueueExact, MemoryFollows
  <1>8. MemoryFollows'
    BY <1>0, <1>1, <1>2, <1>3, <1>7, Naturals DEF MemoryFollows, Alone
  <1>9. QueueExact'
    <2>1. LastTaken' = LastTaken /\ LastTaken \in Nat
      BY <1>0, <1>1, <1>2, Naturals DEF LastTaken, Alone
    <2>2. Len(blockQueue') = LastTaken - lastConfirmed'
      BY <1>1, <1>3, <1>6, <1>7, <2>1, Naturals DEF QueueExact
    <2>3. ASSUME NEW i \in 1..Len(blockQueue')
          PROVE  blockQueue'[i] = lastConfirmed' + i
      <3>1. i + 1 \in 1..Len(blockQueue)
        BY <1>6, Naturals
      <3>2. QED
        BY SMTT(30), <1>1, <1>3, <1>6, <1>7, <3>1, Naturals DEF QueueExact
    <2>4. QED
      BY <2>1, <2>2, <2>3 DEF QueueExact
  <1>10. QED
    BY <1>0, <1>1, <1>3, <1>4, <1>5, <1>8, <1>9 DEF SerialInv

LEMMA ConfirmedStoredSerial ==
    ASSUME TypeOK, TypeOK', SerialInv, ~overlap', NEW h \in Handlers,
           ConfirmedStored(h)
    PROVE  SerialInv' /\ db'.confirmed >= db.confirmed
  <1>0. /\ ~overlap /\ pc[h] = "putConfirmed" /\ h \in Procs /\ h # Main
        /\ Main \in Procs /\ OneAtATime
    BY DEF ConfirmedStored, SerialInv, Procs
  <1>1. /\ Alone(h) /\ status = "running"
        /\ db'.confirmed = arg[h] /\ db'.submitted = db.submitted
        /\ db'.queued = db.queued
        /\ UNCHANGED <<lastConfirmed, lastQueued, blockQueue, mempool, chain>>
    BY <1>0, ActiveIsAlone DEF ConfirmedStored, OneAtATime, ether, TypeOK
  <1>2. SentIsQueued /\ db.confirmed <= db.queued /\ MemoryFollows
        /\ QueueExact
    BY <1>0, <1>1 DEF SerialInv
  <1>3. /\ arg[h] = lastConfirmed /\ lastConfirmed = db.confirmed + 1
        /\ lastSubmitted = db.submitted /\ lastQueued = db.queued
        /\ LastTaken = lastQueued
    BY <1>0, <1>1, <1>2 DEF MemoryFollows, Alone, LastTaken
  <1>4. lastConfirmed <= db.queued
    BY <1>2, <1>3, Naturals DEF QueueExact
  <1>5. CASE lastSubmitted < lastConfirmed
    <2>1. /\ lastSubmitted' = arg[h] /\ status' = status
          /\ Suspend(h, "putRaised", arg[h])
      BY <1>5, Naturals DEF ConfirmedStored
    <2>2. pc'[h] = "putRaised" /\ arg'[h] = arg[h] /\ Alone(h)'
      BY <1>0, <1>1, <2>1, SuspendAlone
    <2>3. OneAtATime'
      BY <1>0, <1>1, <2>1, <2>2, OneAtATimeNext
    <2>4. MemoryFollows'
      BY <1>0, <1>1, <1>3, <1>5, <2>1, <2>2, Naturals DEF MemoryFollows, Alone
    <2>5. QueueExact' /\ SentIsQueued'
      BY <1>0, <1>1, <1>2, <1>3, <2>2
         DEF QueueExact, LastTaken, Alone, SentIsQueued, Sent
    <2>6. QED
      BY <1>1, <1>3, <1>4, <2>3, <2>4, <2>5, Naturals DEF SerialInv
  <1>6. CASE ~(lastSubmitted < lastConfirmed)
    <2>1. lastSubmitted' = lastSubmitted
          /\ TrySubmitNextBlock(h, lastSubmitted, lastConfirmed, lastQueued,
                                blockQueue)
      BY <1>6 DEF ConfirmedStored
    <2>2. /\ Alone(h)'
          /\ \/ /\ NothingPending(lastSubmitted, lastConfirmed, lastQueued,
                                  blockQueue)
                /\ pc'[h] = "calling" /\ arg'[h] = Head(blockQueue)
                /\ status' = status
             \/ pc'[h] = "idle" /\ status' = "running"
      BY <1>0, <1>1, <2>1, SuspendAlone
         DEF TrySubmitNextBlock, NextToSubmit, Return
    <2>3. SettledSerial'
      <3>1. LastTaken' = LastTaken
        BY <1>0, <1>1, <1>3, <2>2 DEF LastTaken, Alone
      <3>2. QED
        BY <1>1, <1>2, <1>3, <1>4, <2>1, <3>1
           DEF SettledSerial, SentIsQueued, Sent, QueueExact
    <2>4. QED
      BY <1>0, <1>1, <1>3, <2>1, <2>2, <2>3, TrySubmitSerial, Naturals
  <1>7. QED
    BY <1>5, <1>6

LEMMA RaisedStoredSerial ==
    ASSUME TypeOK, TypeOK', SerialInv, ~overlap', NEW h \in Handlers,
           RaisedStored(h)
    PROVE  SerialInv' /\ db'.submitted >= db.submitted
  <1>0. /\ ~overlap /\ pc[h] = "putRaised" /\ h \in Procs /\ h # Main
        /\ Main \in Procs /\ OneAtATime
    BY DEF RaisedStored, SerialInv, Procs
  <1>1. /\ Alone(h) /\ status = "running"
        /\ db'.submitted = arg[h] /\ db'.confirmed = db.confirmed
        /\ db'.queued = db.queued
        /\ UNCHANGED <<lastSubmitted, lastConfirmed, lastQueued, blockQueue,
                       mempool, chain>>
    BY <1>0, ActiveIsAlone DEF RaisedStored, OneAtATime, ether, memory, TypeOK
  <1>2. SentIsQueued /\ db.confirmed <= db.queued /\ MemoryFollows
        /\ QueueExact
    BY <1>0, <1>1 DEF SerialInv
  <1>3. /\ arg[h] = lastSubmitted /\ lastConfirmed = db.confirmed
        /\ arg[h] > db.submitted /\ lastQueued = db.queued
        /\ LastTaken = lastQueued
    BY <1>0, <1>1, <1>2 DEF MemoryFollows, Alone, LastTaken
  <1>4. /\ Alone(h)'
        /\ \/ /\ NothingPending(lastSubmitted, lastConfirmed, lastQueued,
                                blockQueue)
              /\ pc'[h] = "calling" /\ arg'[h] = Head(blockQueue)
              /\ status' = status
           \/ pc'[h] = "idle" /\ status' = "running"
    BY <1>0, <1>1, SuspendAlone
       DEF RaisedStored, TrySubmitNextBlock, NextToSubmit, Return
  <1>5. SettledSerial'
    <2>1. LastTaken' = LastTaken
      BY <1>0, <1>1, <1>3, <1>4 DEF LastTaken, Alone
    <2>2. QED
      BY <1>1, <1>2, <1>3, <2>1
         DEF SettledSerial, SentIsQueued, Sent, QueueExact
  <1>6. QED
    BY <1>0, <1>1, <1>3, <1>4, <1>5, TrySubmitSerial, Naturals

LEMMA MineSerial ==
    ASSUME TypeOK, SerialInv, ~overlap', Mine
    PROVE  SerialInv'
  <1>1. /\ UNCHANGED <<status, lastSubmitted, lastConfirmed, lastQueued,
                       blockQueue, pc, arg, db, overlap>>
        /\ mempool # <<>> /\ chain' = Append(chain, Head(mempool))
        /\ mempool' = Tail(mempool)
    BY DEF Mine, memory, disk
  <1>2. Sent' = Sent
    <2>1. chain \in Seq(Numbers) /\ mempool \in Seq(Numbers)
      BY DEF TypeOK
    <2>2. mempool = <<Head(mempool)>> \o Tail(mempool)
      BY <1>1, <2>1
    <2>3. QED
      BY <1>1, <2>1, <2>2 DEF Sent
  <1>3. QED
    BY <1>1, <1>2 DEF SerialInv, OneAtATime, SentIsQueued, MemoryFollows,
                      QueueExact, LastTaken

LEMMA CrashSerial ==
    ASSUME TypeOK, SerialInv, ~overlap', Crash
    PROVE  SerialInv'
  BY DEF Crash, SerialInv, OneAtATime, SentIsQueued, Sent, Procs, disk, ether

LEMMA NextSerial ==
    ASSUME TypeOK, TypeOK', SerialInv, [Next]_vars
    PROVE  SerialInv'
  <1>1. CASE UNCHANGED vars
    BY <1>1 DEF vars, memory, disk, ether, SerialInv, OneAtATime,
                SentIsQueued, Sent, MemoryFollows, QueueExact, LastTaken
  <1>2. CASE Next /\ ~overlap'
    BY <1>2, StartSerial, SubmitBlockSerial, BlockStoredSerial,
       QueuedStoredSerial, RpcAcceptedSerial, RpcRepliedSerial,
       SubmittedStoredSerial, ThrowSerial, HandlerSerial,
       ConfirmedStoredSerial, RaisedStoredSerial, MineSerial, CrashSerial
       DEF Next, Resume
  <1>3. CASE overlap'
    BY <1>3 DEF SerialInv
  <1>4. QED
    BY <1>1, <1>2, <1>3

LEMMA SerialIsInvariant == Spec => []SerialInv
  BY TypeCorrect, InitSerial, NextSerial, PTL DEF Spec

\* Until calls overlap, whenever the node crashes and whatever transaction is
\* rejected or left unanswered, a block is stored and counted before it is
\* sent.
THEOREM SentBlocksAreDurable == Spec => []SentIsDurable
  <1>1. TypeOK /\ StorageInv /\ SerialInv => SentIsDurable
    <2> SUFFICES ASSUME TypeOK, StorageInv, SerialInv, ~overlap,
                        NEW i \in DOMAIN Sent
                 PROVE  Sent[i] \in dbBlocks /\ Sent[i] <= db.queued
      BY DEF SentIsDurable
    <2>1. Sent[i] \in 1..db.queued
      BY DEF SerialInv, SentIsQueued
    <2>2. QED
      BY <2>1, Naturals DEF StorageInv
  <1>2. QED
    BY <1>1, TypeCorrect, InitStorage, NextStorage, SerialIsInvariant, PTL
       DEF Spec

\* Until calls overlap, no stored counter ever goes back, across any number
\* of crashes, and a confirmation is stored only when the contract has as many
\* blocks.
THEOREM ProgressIsDurable == Spec => DurableProgress
  <1> DEFINE Progress ==
        ~overlap' => /\ db'.confirmed >= db.confirmed
                     /\ db'.submitted >= db.submitted
                     /\ db'.queued >= db.queued
                     /\ db'.confirmed <= Len(chain')
  <1>1. ASSUME TypeOK, TypeOK', SerialInv, OrderInv', [Next]_vars,
               ~overlap', db' # db
        PROVE  Progress
    <2>1. /\ db.confirmed \in Nat /\ db.submitted \in Nat
          /\ db.queued \in Nat /\ db'.confirmed <= Len(chain')
      BY <1>1, Naturals DEF OrderInv, ConfirmedIsMined
    <2>2. \/ QueuedStored
          \/ \E p \in Procs : SubmittedStored(p)
          \/ \E h \in Handlers : ConfirmedStored(h) \/ RaisedStored(h)
      BY <1>1 DEF vars, disk, Next, Resume, Start, SubmitBlock, BlockStored,
                  RpcAccepted, RpcReplied, RpcRejected, RpcReplyLost,
                  HandleNewRollupBlock, Mine, Crash
    <2>3. CASE QueuedStored
      BY <1>1, <2>1, <2>3, QueuedStoredSerial DEF QueuedStored, TypeOK
    <2>4. ASSUME NEW p \in Procs, SubmittedStored(p) PROVE Progress
      BY <1>1, <2>1, <2>4, SubmittedStoredSerial DEF SubmittedStored, TypeOK
    <2>5. ASSUME NEW h \in Handlers, ConfirmedStored(h) PROVE Progress
      BY <1>1, <2>1, <2>5, ConfirmedStoredSerial DEF ConfirmedStored, TypeOK
    <2>6. ASSUME NEW h \in Handlers, RaisedStored(h) PROVE Progress
      BY <1>1, <2>1, <2>6, RaisedStoredSerial DEF RaisedStored, TypeOK
    <2>7. QED
      BY <2>2, <2>3, <2>4, <2>5, <2>6
  <1>2. TypeOK /\ TypeOK' /\ SerialInv /\ OrderInv' /\ [Next]_vars
          => [Progress]_db
    BY <1>1
  <1>3. QED
    BY <1>2, TypeCorrect, InitOrder, NextOrder, SerialIsInvariant, PTL
       DEF Spec, DurableProgress

-----------------------------------------------------------------------------
(***************************************************************************)
(* The environment in which the submitter keeps its promise, for every     *)
(* bound: calls do not overlap, the Ethereum node's answers are not lost,  *)
(* and the node does not crash between sending a block and storing         *)
(* last_submitted.  Rejected transactions, late and repeated events and    *)
(* crashes anywhere else are allowed.  There each block reaches the        *)
(* contract exactly once, in order, after its predecessor's confirmation:  *)
(* the durable state and the contract implement RollupLedger.              *)
(***************************************************************************)
LEMMA OneCallNext ==
    ASSUME NEW p \in Procs, Alone(p)', pc'[p] # "putRaised",
           status' = "down" => pc'[p] = "idle",
           status' = "starting" => p = Main,
           pc'[p] \in {"putBlock", "putQueued"} => p = Main
    PROVE  OneCall'
  BY DEF OneCall, OneAtATime, Alone

-----------------------------------------------------------------------------
LEMMA InitExact == Init => ExactInv
  BY DEF Init, ExactInv, OneCall, OneAtATime, ChainExact, SubmittedExact, NumSent, Procs

(***************************************************************************)
(* trySubmitNextBlock, called when memory agrees with the database and     *)
(* nothing is under way: it sends the next block or leaves all as it is.   *)
(***************************************************************************)
Settled ==
    /\ ChainExact
    /\ QueueExact
    /\ db.submitted = NumSent
    /\ lastSubmitted = db.submitted
    /\ lastConfirmed = db.confirmed
    /\ lastQueued = db.queued
    /\ LastTaken = lastQueued

LEMMA TrySubmitExact ==
    ASSUME TypeOK, TypeOK', NEW p \in Procs, Alone(p)', Settled',
           \/ /\ NothingPending(lastSubmitted', lastConfirmed', lastQueued',
                                blockQueue')
              /\ pc'[p] = "calling" /\ arg'[p] = Head(blockQueue')
              /\ status' = "starting" => p = Main
              /\ status' # "down"
           \/ pc'[p] = "idle" /\ status' = "running"
    PROVE  ExactInv'
  <1>1. /\ lastSubmitted' \in Nat /\ lastConfirmed' \in Nat
        /\ lastQueued' \in Nat /\ Len(blockQueue') \in Nat
        /\ NumSent' \in Nat /\ Main \in Procs
        /\ Len(chain)' \in Nat /\ Len(mempool)' \in Nat
        /\ db'.confirmed \in Nat
    <2>1. Len(chain)' \in Nat /\ Len(mempool)' \in Nat
          /\ Len(blockQueue)' \in Nat
      BY DEF TypeOK
    <2>2. QED
      BY <2>1 DEF TypeOK, Numbers, NumSent, Procs
  <1>2. OneCall'
    BY OneCallNext
  <1>3. SubmittedExact'
    BY DEF SubmittedExact, Settled, Alone
  <1>4. CASE pc'[p] = "calling"
    <2>1. /\ blockQueue' # <<>> /\ arg'[p] = Head(blockQueue')
          /\ lastSubmitted' <= lastConfirmed' /\ lastSubmitted' < lastQueued'
      BY <1>4 DEF NothingPending
    <2>2. Len(blockQueue') >= 1 /\ Head(blockQueue') = blockQueue'[1]
      BY <2>1, <1>1 DEF TypeOK
    <2>3. arg'[p] = lastConfirmed' + 1
      BY <1>1, <2>1, <2>2 DEF Settled, QueueExact
    <2>4. db'.confirmed <= NumSent'
      BY <1>1 DEF Settled, ChainExact, NumSent
    <2>5. MemoryExact'
      BY <1>1, <1>4, <2>1, <2>3, <2>4 DEF MemoryExact, Settled, Alone
    <2>6. QED
      BY <1>2, <1>3, <2>5 DEF ExactInv, Settled
  <1>5. CASE pc'[p] = "idle"
    <2>1. MemoryExact'
      BY <1>1, <1>5 DEF MemoryExact, Settled, Alone
    <2>2. QED
      BY <1>2, <1>3, <2>1 DEF ExactInv, Settled
  <1>6. QED
    BY <1>4, <1>5

-----------------------------------------------------------------------------
(***************************************************************************)
(* One lemma per action.                                                   *)
(***************************************************************************)
LEMMA StartExact ==
    ASSUME TypeOK, TypeOK', ExactInv, Start
    PROVE  ExactInv'
  <1>1. Main \in Procs /\ Alone(Main)
    BY DEF Procs, Alone, ExactInv, OneCall, OneAtATime, Start
  <1>2. db.submitted = NumSent /\ ChainExact
    BY DEF ExactInv, SubmittedExact, OneCall, OneAtATime, Start
  <1>3. /\ lastSubmitted' = db.submitted /\ lastConfirmed' = db.confirmed
        /\ lastQueued' = db.queued /\ blockQueue' = ReloadedQueue
        /\ UNCHANGED <<db, mempool, chain>>
    BY DEF Start, disk, ether
  <1>4. \/ /\ NothingPending(db.submitted, db.confirmed, db.queued,
                             ReloadedQueue)
           /\ pc'[Main] = "calling" /\ arg'[Main] = Head(ReloadedQueue)
           /\ status' = "starting"
        \/ pc'[Main] = "idle" /\ status' = "running"
    BY <1>1, SuspendAlone DEF Start, NextToSubmit, Return
  <1>5. Alone(Main)'
    BY <1>1, SuspendAlone DEF Start, Return
  <1>6. db.queued - db.confirmed \in Nat
    BY <1>2, Naturals DEF ChainExact, NumSent
  <1>7. QueueExact' /\ LastTaken' = lastQueued'
    <2>1. LastTaken' = lastQueued'
      BY <1>4 DEF LastTaken
    <2>2. Len(ReloadedQueue) = db.queued - db.confirmed
          /\ \A j \in 1..Len(ReloadedQueue) :
                ReloadedQueue[j] = db.confirmed + j
      BY <1>6, ReloadedQueueFacts, Naturals
    <2>3. QED
      BY <1>3, <2>1, <2>2 DEF QueueExact
  <1>8. Settled'
    BY <1>2, <1>3, <1>7 DEF Settled, ChainExact, NumSent
  <1>9. QED
    BY <1>1, <1>3, <1>4, <1>5, <1>8, TrySubmitExact

LEMMA SubmitBlockExact ==
    ASSUME TypeOK, TypeOK', ExactInv, Serialized, NEW n \in 1..MaxBlock,
           n <= lastQueued + 1, SubmitBlock(n)
    PROVE  ExactInv'
  <1>1. /\ Main \in Procs /\ Alone(Main) /\ pc[Main] = "idle"
        /\ \A p \in Procs : pc[p] = "idle"
        /\ status = "running" /\ status' = "running"
    BY DEF SubmitBlock, MayStart, Quiet, Alone, Procs
  <1>2. /\ n = lastQueued + 1 /\ blockQueue' = Append(blockQueue, n)
        /\ UNCHANGED <<lastSubmitted, lastConfirmed, lastQueued, db, mempool,
                       chain>>
    BY Naturals DEF SubmitBlock, disk, ether
  <1>3. pc'[Main] = "putBlock" /\ arg'[Main] = n /\ Alone(Main)'
    BY <1>1, SuspendAlone DEF SubmitBlock
  <1>4. ChainExact /\ SubmittedExact /\ MemoryExact /\ QueueExact
    BY <1>1 DEF ExactInv
  <1>5. OneCall'
    BY <1>1, <1>3, OneCallNext
  <1>6. ChainExact' /\ SubmittedExact'
    BY <1>1, <1>2, <1>3, <1>4
       DEF ChainExact, SubmittedExact, NumSent, Alone
  <1>7. MemoryExact'
    BY <1>1, <1>2, <1>3, <1>4 DEF MemoryExact, NumSent, Alone
  <1>8. QueueExact'
    <2>1. /\ Len(blockQueue) = lastQueued - lastConfirmed
          /\ \A i \in 1..Len(blockQueue) : blockQueue[i] = lastConfirmed + i
      BY <1>1, <1>4 DEF QueueExact, LastTaken
    <2>2. LastTaken' = n
      BY <1>3 DEF LastTaken
    <2>3. /\ Len(blockQueue') = Len(blockQueue) + 1
          /\ \A i \in 1..Len(blockQueue) : blockQueue'[i] = blockQueue[i]
          /\ blockQueue'[Len(blockQueue) + 1] = n
      BY <1>2 DEF TypeOK, Numbers
    <2>4. Len(blockQueue') = n - lastConfirmed
      BY <1>2, <2>1, <2>3, Naturals
    <2>5. ASSUME NEW i \in 1..Len(blockQueue')
          PROVE  blockQueue'[i] = lastConfirmed + i
      <3>1. CASE i = Len(blockQueue) + 1
        BY SMTT(30), <1>2, <2>1, <2>3, <3>1, Naturals
      <3>2. CASE i # Len(blockQueue) + 1
        <4>1. i \in 1..Len(blockQueue)
          BY <2>3, <3>2, Naturals
        <4>2. QED
          BY <2>1, <2>3, <4>1
      <3>3. QED
        BY <3>1, <3>2
    <2>6. QED
      BY <1>2, <2>2, <2>4, <2>5 DEF QueueExact
  <1>9. QED
    BY <1>5, <1>6, <1>7, <1>8 DEF ExactInv

LEMMA BlockStoredExact ==
    ASSUME TypeOK, TypeOK', ExactInv, BlockStored
    PROVE  ExactInv'
  <1>1. /\ Main \in Procs /\ pc[Main] = "putBlock" /\ Alone(Main)
        /\ status # "down" /\ status' = status
        /\ lastQueued' = arg[Main]
        /\ UNCHANGED <<lastSubmitted, lastConfirmed, blockQueue, db, mempool,
                       chain>>
    BY ActiveIsAlone DEF BlockStored, Procs, ExactInv, OneCall, OneAtATime, ether
  <1>2. pc'[Main] = "putQueued" /\ arg'[Main] = arg[Main] /\ Alone(Main)'
    BY <1>1, SuspendAlone DEF BlockStored
  <1>3. ChainExact /\ SubmittedExact /\ MemoryExact /\ QueueExact
    BY <1>1 DEF ExactInv
  <1>4. OneCall'
    BY <1>1, <1>2, OneCallNext DEF ExactInv, OneCall, OneAtATime
  <1>5. ChainExact' /\ SubmittedExact'
    BY <1>1, <1>2, <1>3 DEF ChainExact, SubmittedExact, NumSent, Alone
  <1>6. MemoryExact'
    BY <1>1, <1>2, <1>3 DEF MemoryExact, NumSent, Alone
  <1>7. QueueExact'
    BY <1>1, <1>2, <1>3 DEF QueueExact, LastTaken
  <1>8. QED
    BY <1>4, <1>5, <1>6, <1>7 DEF ExactInv

LEMMA QueuedStoredExact ==
    ASSUME TypeOK, TypeOK', ExactInv, QueuedStored
    PROVE  ExactInv'
  <1>1. /\ Main \in Procs /\ pc[Main] = "putQueued" /\ Alone(Main)
        /\ status # "down"
        /\ db'.queued = arg[Main] /\ db'.confirmed = db.confirmed
        /\ db'.submitted = db.submitted
        /\ UNCHANGED <<lastSubmitted, lastConfirmed, lastQueued, blockQueue,
                       mempool, chain>>
    BY ActiveIsAlone
       DEF QueuedStored, Procs, ExactInv, OneCall, OneAtATime, ether, memory, TypeOK
  <1>2. ChainExact /\ SubmittedExact /\ MemoryExact /\ QueueExact
    BY <1>1 DEF ExactInv
  <1>3. /\ lastQueued = db.queued + 1 /\ arg[Main] = lastQueued
        /\ lastConfirmed = db.confirmed /\ lastSubmitted = db.submitted
        /\ db.submitted = NumSent /\ LastTaken = lastQueued
    BY <1>1, <1>2 DEF MemoryExact, SubmittedExact, Alone, LastTaken
  <1>4. /\ Alone(Main)'
        /\ \/ /\ NothingPending(lastSubmitted, lastConfirmed, lastQueued,
                                blockQueue)
              /\ pc'[Main] = "calling" /\ arg'[Main] = Head(blockQueue)
              /\ status' = status
           \/ pc'[Main] = "idle" /\ status' = "running"
    BY <1>1, SuspendAlone
       DEF QueuedStored, TrySubmitNextBlock, NextToSubmit, Return
  <1>5. Settled'
    <2>1. LastTaken' = lastQueued'
      BY <1>4 DEF LastTaken
    <2>2. QueueExact'
      BY <1>1, <1>2, <1>3, <2>1 DEF QueueExact
    <2>3. ChainExact'
      BY SMTT(30), <1>1, <1>2, <1>3, Naturals DEF ChainExact, NumSent
    <2>4. QED
      BY <1>1, <1>3, <2>1, <2>2, <2>3 DEF Settled, NumSent
  <1>6. QED
    BY <1>1, <1>4, <1>5, TrySubmitExact

LEMMA RpcAcceptedExact ==
    ASSUME TypeOK, TypeOK', ExactInv, NEW p \in Procs, RpcAccepted(p)
    PROVE  ExactInv'
  <1>1. /\ pc[p] = "calling" /\ Alone(p) /\ status # "down"
        /\ status' = status /\ mempool' = Append(mempool, arg[p])
        /\ UNCHANGED <<lastSubmitted, lastConfirmed, lastQueued, blockQueue,
                       db, chain>>
    BY ActiveIsAlone DEF RpcAccepted, ExactInv, OneCall, OneAtATime, disk, memory
  <1>2. pc'[p] = "accepted" /\ arg'[p] = arg[p] /\ Alone(p)'
    BY <1>1, SuspendAlone DEF RpcAccepted
  <1>3. ChainExact /\ SubmittedExact /\ MemoryExact /\ QueueExact
    BY <1>1 DEF ExactInv
  <1>4. /\ arg[p] = NumSent + 1 /\ db.confirmed = NumSent
        /\ NumSent < db.queued /\ db.submitted = NumSent
    BY <1>1, <1>3 DEF MemoryExact, SubmittedExact, Alone
  <1>5. Len(mempool') = Len(mempool) + 1 /\ NumSent' = NumSent + 1
        /\ Len(mempool) = 0 /\ Len(chain) = NumSent
    BY <1>1, <1>3, <1>4, Naturals DEF NumSent, TypeOK, ChainExact
  <1>6. OneCall'
    BY <1>1, <1>2, OneCallNext DEF ExactInv, OneCall, OneAtATime
  <1>7. ChainExact'
    <2>1. ASSUME NEW i \in 1..Len(mempool')
          PROVE  mempool'[i] = Len(chain) + i
      <3>1. i = 1 /\ mempool' = <<arg[p]>>
        BY <1>1, <1>5 DEF TypeOK
      <3>2. QED
        BY <1>4, <1>5, <3>1
    <2>2. QED
      BY <1>1, <1>3, <1>4, <1>5, <2>1, Naturals DEF ChainExact
  <1>8. SubmittedExact'
    BY <1>1, <1>2, <1>4, <1>5, Naturals DEF SubmittedExact, Alone
  <1>9. MemoryExact'
    BY <1>1, <1>2, <1>3, Naturals DEF MemoryExact, Alone
  <1>10. QueueExact'
    BY <1>1, <1>2, <1>3, Naturals DEF QueueExact, LastTaken, Alone
  <1>11. QED
    BY <1>6, <1>7, <1>8, <1>9, <1>10 DEF ExactInv

LEMMA RpcRepliedExact ==
    ASSUME TypeOK, TypeOK', ExactInv, NEW p \in Procs, RpcReplied(p)
    PROVE  ExactInv'
  <1>1. /\ pc[p] = "accepted" /\ Alone(p) /\ status # "down"
        /\ status' = status /\ lastSubmitted' = arg[p]
        /\ UNCHANGED <<lastConfirmed, lastQueued, blockQueue, db, mempool,
                       chain>>
    BY ActiveIsAlone DEF RpcReplied, ExactInv, OneCall, OneAtATime, disk, ether
  <1>2. pc'[p] = "putSubmitted" /\ arg'[p] = arg[p] /\ Alone(p)'
    BY <1>1, SuspendAlone DEF RpcReplied
  <1>3. ChainExact /\ SubmittedExact /\ MemoryExact /\ QueueExact
    BY <1>1 DEF ExactInv
  <1>4. OneCall'
    BY <1>1, <1>2, OneCallNext DEF ExactInv, OneCall, OneAtATime
  <1>5. ChainExact' /\ SubmittedExact'
    BY <1>1, <1>2, <1>3 DEF ChainExact, SubmittedExact, NumSent, Alone
  <1>6. MemoryExact'
    BY <1>1, <1>2, <1>3, Naturals DEF MemoryExact, NumSent, Alone
  <1>7. QueueExact'
    BY <1>1, <1>2, <1>3, Naturals DEF QueueExact, LastTaken, Alone
  <1>8. QED
    BY <1>4, <1>5, <1>6, <1>7 DEF ExactInv

LEMMA SubmittedStoredExact ==
    ASSUME TypeOK, TypeOK', ExactInv, NEW p \in Procs, SubmittedStored(p)
    PROVE  ExactInv'
  <1>1. /\ pc[p] = "putSubmitted" /\ Alone(p) /\ status # "down"
        /\ status' = "running" /\ db'.submitted = arg[p]
        /\ db'.confirmed = db.confirmed /\ db'.queued = db.queued
        /\ UNCHANGED <<lastSubmitted, lastConfirmed, lastQueued, blockQueue,
                       mempool, chain>>
    BY ActiveIsAlone
       DEF SubmittedStored, Return, ExactInv, OneCall, OneAtATime, ether, memory, TypeOK
  <1>2. pc'[p] = "idle" /\ Alone(p)'
    BY <1>1, SuspendAlone DEF SubmittedStored, Return
  <1>3. ChainExact /\ SubmittedExact /\ MemoryExact /\ QueueExact
    BY <1>1 DEF ExactInv
  <1>4. /\ arg[p] = NumSent /\ lastSubmitted = arg[p]
        /\ lastConfirmed = db.confirmed
        /\ lastQueued = db.queued /\ LastTaken = lastQueued
    BY <1>1, <1>3, Naturals
       DEF MemoryExact, SubmittedExact, Alone, LastTaken
  <1>5. Settled'
    <2>1. LastTaken' = lastQueued'
      BY <1>2, <1>1, Naturals DEF LastTaken, Alone
    <2>2. QED
      BY <1>1, <1>3, <1>4, <2>1
         DEF Settled, ChainExact, QueueExact, NumSent
  <1>6. QED
    BY <1>1, <1>2, <1>5, TrySubmitExact

LEMMA HandlerExact ==
    ASSUME TypeOK, TypeOK', ExactInv, Serialized, NEW h \in Handlers,
           NEW n \in 1..Len(chain), HandleNewRollupBlock(h, n)
    PROVE  ExactInv'
  <1>1. /\ h \in Procs /\ h # Main /\ Alone(h)
        /\ \A p \in Procs : pc[p] = "idle"
        /\ status = "running" /\ status' = "running"
        /\ blockQueue # <<>> /\ n = Head(blockQueue)
        /\ blockQueue' = Tail(blockQueue) /\ lastConfirmed' = n
        /\ UNCHANGED <<lastSubmitted, lastQueued, db, mempool, chain>>
    BY DEF HandleNewRollupBlock, Confirms, MayStart, Quiet, Alone, Procs, disk,
           ether
  <1>2. pc'[h] = "putConfirmed" /\ arg'[h] = n /\ Alone(h)'
        /\ pc'[Main] = "idle"
    BY <1>1, Naturals, SuspendAlone DEF HandleNewRollupBlock, Alone
  <1>3. ChainExact /\ SubmittedExact /\ MemoryExact /\ QueueExact
    BY <1>1 DEF ExactInv
  <1>4. /\ Len(blockQueue) >= 1 /\ n = blockQueue[1]
        /\ Len(blockQueue') = Len(blockQueue) - 1
        /\ \A i \in 1..Len(blockQueue') : blockQueue'[i] = blockQueue[i + 1]
    BY <1>1 DEF TypeOK
  <1>5. n = lastConfirmed + 1 /\ lastConfirmed = db.confirmed
    BY <1>1, <1>3, <1>4, Naturals DEF MemoryExact, QueueExact
  <1>6. OneCall'
    BY <1>1, <1>2, OneCallNext
  <1>7. ChainExact' /\ SubmittedExact'
    BY <1>1, <1>2, <1>3 DEF ChainExact, SubmittedExact, NumSent, Alone
  <1>8. MemoryExact'
    BY SMTT(30), <1>1, <1>2, <1>3, <1>5, Naturals DEF MemoryExact, NumSent, Alone
  <1>9. QueueExact'
    <2>1. LastTaken = lastQueued /\ LastTaken' = lastQueued
      BY <1>1, <1>2, Naturals DEF LastTaken
    <2>2. Len(blockQueue') = lastQueued - n
      BY <1>3, <1>4, <1>5, <2>1, Naturals DEF QueueExact
    <2>3. ASSUME NEW i \in 1..Len(blockQueue')
          PROVE  blockQueue'[i] = n + i
      <3>1. /\ i + 1 \in 1..Len(blockQueue) /\ i \in Nat
            /\ lastConfirmed \in Nat
        BY <1>4, Naturals
      <3>2. blockQueue[i + 1] = lastConfirmed + (i + 1)
        BY <1>3, <3>1 DEF QueueExact
      <3>3. blockQueue'[i] = blockQueue[i + 1]
        BY <1>4
      <3>4. n + i = lastConfirmed + (i + 1)
        BY <1>5, <3>1
      <3>5. QED
        BY <3>2, <3>3, <3>4
    <2>4. QED
      BY <1>1, <2>1, <2>2, <2>3 DEF QueueExact
  <1>10. QED
    BY <1>6, <1>7, <1>8, <1>9 DEF ExactInv

LEMMA ConfirmedStoredExact ==
    ASSUME TypeOK, TypeOK', ExactInv, NEW h \in Handlers, ConfirmedStored(h)
    PROVE  ExactInv'
  <1>1. /\ h \in Procs /\ h # Main /\ pc[h] = "putConfirmed" /\ Alone(h)
        /\ status = "running"
        /\ db'.confirmed = arg[h] /\ db'.submitted = db.submitted
        /\ db'.queued = db.queued
        /\ UNCHANGED <<lastConfirmed, lastQueued, blockQueue, mempool, chain>>
    BY ActiveIsAlone
       DEF ConfirmedStored, Procs, ExactInv, OneCall, OneAtATime, ether, TypeOK
  <1>2. ChainExact /\ SubmittedExact /\ MemoryExact /\ QueueExact
    BY <1>1 DEF ExactInv
  <1>3. /\ arg[h] = lastConfirmed /\ lastConfirmed = db.confirmed + 1
        /\ lastConfirmed <= Len(chain) /\ lastSubmitted = db.submitted
        /\ db.submitted = NumSent /\ lastQueued = db.queued
        /\ LastTaken = lastQueued
    BY <1>1, <1>2, Naturals
       DEF MemoryExact, SubmittedExact, Alone, LastTaken
  <1>4. ~(lastSubmitted < lastConfirmed)
    BY <1>3, Naturals DEF NumSent
  <1>5. /\ UNCHANGED lastSubmitted
        /\ TrySubmitNextBlock(h, lastSubmitted, lastConfirmed, lastQueued,
                              blockQueue)
    BY <1>4 DEF ConfirmedStored
  <1>6. /\ Alone(h)'
        /\ \/ /\ NothingPending(lastSubmitted, lastConfirmed, lastQueued,
                                blockQueue)
              /\ pc'[h] = "calling" /\ arg'[h] = Head(blockQueue)
              /\ status' = status
           \/ pc'[h] = "idle" /\ status' = "running"
    BY <1>1, <1>5, SuspendAlone DEF TrySubmitNextBlock, NextToSubmit, Return
  <1>7. Settled'
    <2>1. LastTaken' = lastQueued'
      BY <1>1, <1>6, Naturals DEF LastTaken, Alone
    <2>2. ChainExact'
      BY <1>1, <1>2, <1>3, Naturals DEF ChainExact, NumSent
    <2>3. QED
      BY <1>1, <1>2, <1>3, <1>5, <2>1, <2>2 DEF Settled, QueueExact, NumSent
  <1>8. QED
    BY <1>1, <1>5, <1>6, <1>7, TrySubmitExact

LEMMA RpcRejectedExact ==
    ASSUME TypeOK, TypeOK', ExactInv, NEW p \in Procs, RpcRejected(p)
    PROVE  ExactInv'
  <1>1. /\ pc[p] = "calling" /\ Alone(p)
        /\ status # "down" /\ status' \in {"down", "running"}
        /\ UNCHANGED <<lastSubmitted, lastConfirmed, lastQueued, blockQueue,
                       db, mempool, chain>>
    BY ActiveIsAlone
       DEF RpcRejected, Throw, ExactInv, OneCall, OneAtATime, disk, ether, memory, TypeOK
  <1>2. pc'[p] = "idle" /\ Alone(p)'
    BY <1>1, SuspendAlone DEF RpcRejected, Throw
  <1>3. ChainExact /\ SubmittedExact /\ MemoryExact /\ QueueExact
    BY <1>1 DEF ExactInv
  <1>4. OneCall'
    BY <1>1, <1>2, OneCallNext
  <1>5. ChainExact' /\ SubmittedExact'
    BY <1>1, <1>2, <1>3 DEF ChainExact, SubmittedExact, NumSent, Alone
  <1>6. MemoryExact'
    BY <1>1, <1>2, <1>3, Naturals DEF MemoryExact, NumSent, Alone
  <1>7. QueueExact'
    BY <1>1, <1>2, <1>3, Naturals DEF QueueExact, LastTaken, Alone
  <1>8. QED
    BY <1>4, <1>5, <1>6, <1>7 DEF ExactInv

LEMMA MineExact ==
    ASSUME TypeOK, TypeOK', ExactInv, Mine
    PROVE  ExactInv'
  <1>1. /\ mempool # <<>> /\ chain' = Append(chain, Head(mempool))
        /\ mempool' = Tail(mempool)
        /\ UNCHANGED <<status, pc, arg, db, lastSubmitted, lastConfirmed,
                       lastQueued, blockQueue>>
    BY DEF Mine, disk, memory
  <1>2. /\ Len(mempool) >= 1 /\ Len(chain') = Len(chain) + 1
        /\ \A i \in 1..Len(chain) : chain'[i] = chain[i]
        /\ chain'[Len(chain) + 1] = mempool[1]
        /\ Len(mempool') = Len(mempool) - 1
        /\ \A i \in 1..Len(mempool') : mempool'[i] = mempool[i + 1]
    BY <1>1 DEF TypeOK
  <1>3. NumSent' = NumSent
    BY <1>2, Naturals DEF NumSent
  <1>4. ChainExact'
    <2>1. ASSUME NEW i \in 1..Len(chain') PROVE chain'[i] = i
      <3>1. CASE i = Len(chain) + 1
        BY <1>2, <3>1, Naturals DEF ExactInv, ChainExact
      <3>2. CASE i # Len(chain) + 1
        <4>1. i \in 1..Len(chain)
          BY <1>2, <3>2, Naturals
        <4>2. QED
          BY <1>2, <4>1 DEF ExactInv, ChainExact
      <3>3. QED
        BY <3>1, <3>2
    <2>2. ASSUME NEW i \in 1..Len(mempool')
          PROVE  mempool'[i] = Len(chain') + i
      <3>1. i + 1 \in 1..Len(mempool)
        BY <1>2, Naturals
      <3>2. QED
        BY <1>2, <3>1, Naturals DEF ExactInv, ChainExact
    <2>3. QED
      BY <1>1, <1>2, <1>3, <2>1, <2>2, Naturals DEF ExactInv, ChainExact
  <1>5. OneCall' /\ SubmittedExact'
    BY <1>1, <1>3 DEF ExactInv, OneCall, OneAtATime, SubmittedExact
  <1>6. MemoryExact => MemoryExact'
    BY <1>1, <1>2, <1>3, Naturals DEF MemoryExact
  <1>7. QueueExact => QueueExact'
    BY <1>1 DEF QueueExact, LastTaken
  <1>8. QED
    BY <1>1, <1>4, <1>5, <1>6, <1>7 DEF ExactInv

LEMMA CrashExact ==
    ASSUME TypeOK, TypeOK', ExactInv, ExactEnvironment, Crash
    PROVE  ExactInv'
  <1>1. /\ status' = "down" /\ \A p \in Procs : pc'[p] = "idle"
        /\ UNCHANGED <<db, mempool, chain>>
        /\ \A p \in Procs : pc[p] \notin {"accepted", "putSubmitted"}
    BY DEF Crash, ExactEnvironment, disk, ether
  <1>2. QED
    BY <1>1 DEF ExactInv, OneCall, OneAtATime, ChainExact, SubmittedExact, NumSent

LEMMA NextExact ==
    ASSUME TypeOK, TypeOK', ExactInv, ExactEnvironment, [Next]_vars
    PROVE  ExactInv'
  <1>1. CASE UNCHANGED vars
    BY <1>1 DEF vars, memory, disk, ether, ExactInv, OneCall, OneAtATime, ChainExact,
                SubmittedExact, MemoryExact, QueueExact, NumSent, LastTaken
  <1>2. CASE Start
    BY <1>2, StartExact
  <1>3. ASSUME NEW n \in 1..MaxBlock, n <= lastQueued + 1, SubmitBlock(n)
        PROVE  ExactInv'
    BY <1>3, SubmitBlockExact DEF ExactEnvironment
  <1>4. ASSUME NEW p \in Procs, Resume(p)
        PROVE  ExactInv'
    <2>1. ~(p \in Handlers /\ RaisedStored(p))
      BY DEF RaisedStored, ExactInv, OneCall, OneAtATime
    <2>2. QED
      BY <1>4, <2>1, RpcAcceptedExact, RpcRepliedExact, SubmittedStoredExact,
         BlockStoredExact, QueuedStoredExact, ConfirmedStoredExact DEF Resume
  <1>5. ASSUME NEW p \in Procs, RpcRejected(p) \/ RpcReplyLost(p)
        PROVE  ExactInv'
    BY <1>5, RpcRejectedExact DEF RpcReplyLost, ExactEnvironment
  <1>6. ASSUME NEW h \in Handlers, NEW n \in 1..Len(chain),
               HandleNewRollupBlock(h, n)
        PROVE  ExactInv'
    BY <1>6, HandlerExact DEF ExactEnvironment
  <1>7. CASE Mine
    BY <1>7, MineExact
  <1>8. CASE Crash
    BY <1>8, CrashExact
  <1>9. QED
    BY <1>1, <1>2, <1>3, <1>4, <1>5, <1>6, <1>7, <1>8 DEF Next

\* In the exact environment ExactInv always holds.
LEMMA ExactInvariant ==
    ASSUME ExactEnvironment
    PROVE  Spec => []ExactInv
  <1>1. TypeOK /\ TypeOK' /\ ExactInv /\ [Next]_vars => ExactInv'
    BY NextExact
  <1>2. QED
    BY TypeCorrect, InitExact, <1>1, PTL DEF Spec

-----------------------------------------------------------------------------
(***************************************************************************)
(* What ExactInv gives.                                                    *)
(***************************************************************************)
LEMMA SentFacts ==
    ASSUME TypeOK, ExactInv
    PROVE  /\ Len(Sent) = NumSent
           /\ \A i \in 1..Len(Sent) : Sent[i] = i
  <1>1. /\ Len(Sent) = Len(chain) + Len(mempool)
        /\ \A i \in 1..Len(chain) : Sent[i] = chain[i]
        /\ \A i \in (Len(chain) + 1)..(Len(chain) + Len(mempool)) :
              Sent[i] = mempool[i - Len(chain)]
    BY DEF Sent, TypeOK
  <1>2. ASSUME NEW i \in 1..Len(Sent)
        PROVE  Sent[i] = i
    <2>1. CASE i \in 1..Len(chain)
      BY <1>1, <2>1 DEF ExactInv, ChainExact
    <2>2. CASE i \notin 1..Len(chain)
      <3>1. /\ i \in (Len(chain) + 1)..(Len(chain) + Len(mempool))
            /\ i - Len(chain) \in 1..Len(mempool)
        BY <1>1, <2>2, Naturals
      <3>2. mempool[i - Len(chain)] = Len(chain) + (i - Len(chain))
        BY <3>1 DEF ExactInv, ChainExact
      <3>3. QED
        BY <1>1, <3>1, <3>2, Naturals
    <2>3. QED
      BY <2>1, <2>2
  <1>3. QED
    BY <1>1, <1>2 DEF NumSent

\* In the exact environment the contract gets block i as its i-th.
THEOREM ExactlyOnceInOrder ==
    ASSUME ExactEnvironment
    PROVE  Spec => []ChainFollowsQueue
  <1>1. TypeOK /\ ExactInv => ChainFollowsQueue
    <2> SUFFICES ASSUME TypeOK, ExactInv PROVE ChainFollowsQueue
      OBVIOUS
    <2>1. DOMAIN Sent = 1..Len(Sent)
      BY DEF Sent, TypeOK
    <2>2. QED
      BY <2>1, SentFacts DEF ChainFollowsQueue
  <1>2. QED
    BY TypeCorrect, ExactInvariant, <1>1, PTL

\* In the exact environment a block is sent only when all before it are
\* confirmed.
THEOREM AtMostOneUnconfirmed ==
    ASSUME ExactEnvironment
    PROVE  Spec => []OneUnconfirmed
  <1>1. TypeOK /\ ExactInv => OneUnconfirmed
    BY SentFacts DEF OneUnconfirmed, ExactInv, ChainExact
  <1>2. QED
    BY TypeCorrect, ExactInvariant, <1>1, PTL

-----------------------------------------------------------------------------
(***************************************************************************)
(* Refinement.  Storing last_queued queues, mining posts, and storing      *)
(* last_confirmed confirms; every other step stutters.                     *)
(***************************************************************************)
LEMMA InitRefines == Init => Ledger!Init
  BY DEF Init, Ledger!Init

LEMMA NextRefines ==
    ASSUME TypeOK, TypeOK', ExactInv, ExactEnvironment, [Next]_vars
    PROVE  [Ledger!Next]_(Ledger!vars)
  <1> USE DEF Ledger!vars
  <1>1. CASE QueuedStored
    <2>1. /\ pc[Main] = "putQueued" /\ status # "down"
          /\ db'.queued = arg[Main] /\ db'.confirmed = db.confirmed
          /\ chain' = chain
      BY <1>1, Naturals DEF QueuedStored, ExactInv, OneCall, OneAtATime, ether, TypeOK
    <2>2. db'.queued = db.queued + 1
      BY <2>1 DEF ExactInv, MemoryExact
    <2>3. db.queued < MaxBlock
      BY SMTT(30), <2>2, Naturals DEF TypeOK, Numbers
    <2>4. QED
      BY <2>1, <2>2, <2>3 DEF Ledger!Next, Ledger!Queue
  <1>2. CASE Mine
    <2>1. /\ mempool # <<>> /\ chain' = Append(chain, Head(mempool))
          /\ db' = db
      BY <1>2 DEF Mine, disk
    <2>2. Len(mempool) >= 1 /\ Head(mempool) = mempool[1]
      BY <2>1 DEF TypeOK
    <2>3. /\ mempool[1] = Len(chain) + 1 /\ Len(chain) = db.confirmed
          /\ db.confirmed < db.queued
      BY <2>2, Naturals DEF ExactInv, ChainExact, NumSent
    <2>4. QED
      BY <2>1, <2>2, <2>3 DEF Ledger!Next, Ledger!Post
  <1>3. ASSUME NEW h \in Handlers, ConfirmedStored(h)
        PROVE  Ledger!Next
    <2>1. /\ h \in Procs /\ pc[h] = "putConfirmed" /\ status # "down"
          /\ db'.confirmed = arg[h] /\ db'.queued = db.queued
          /\ chain' = chain
      BY <1>3 DEF ConfirmedStored, Procs, ExactInv, OneCall, OneAtATime, ether, TypeOK
    <2>2. db'.confirmed = db.confirmed + 1 /\ db.confirmed < Len(chain)
      BY <2>1, Naturals DEF ExactInv, MemoryExact
    <2>3. QED
      BY <2>1, <2>2 DEF Ledger!Next, Ledger!Confirm
  <1>4. CASE UNCHANGED <<db.queued, chain, db.confirmed>>
    BY <1>4
  <1>5. ASSUME Next, ~QueuedStored, ~Mine,
               \A h \in Handlers : ~ConfirmedStored(h)
        PROVE  UNCHANGED <<db.queued, chain, db.confirmed>>
    <2> USE DEF disk, ether, memory
    <2>1. CASE Start \/ Crash
      BY <2>1 DEF Start, Crash
    <2>2. ASSUME NEW n \in 1..MaxBlock, SubmitBlock(n)
          PROVE  UNCHANGED <<db.queued, chain, db.confirmed>>
      BY <2>2 DEF SubmitBlock
    <2>3. ASSUME NEW p \in Procs, Resume(p)
          PROVE  UNCHANGED <<db.queued, chain, db.confirmed>>
      BY <1>5, <2>3
         DEF Resume, RpcAccepted, RpcReplied, SubmittedStored, BlockStored,
             RaisedStored, TypeOK
    <2>4. ASSUME NEW p \in Procs, RpcRejected(p) \/ RpcReplyLost(p)
          PROVE  UNCHANGED <<db.queued, chain, db.confirmed>>
      BY <2>4 DEF RpcRejected, RpcReplyLost
    <2>5. ASSUME NEW h \in Handlers, NEW n \in 1..Len(chain),
                 HandleNewRollupBlock(h, n)
          PROVE  UNCHANGED <<db.queued, chain, db.confirmed>>
      BY <2>5 DEF HandleNewRollupBlock
    <2>6. QED
      BY <1>5, <2>1, <2>2, <2>3, <2>4, <2>5 DEF Next
  <1>6. CASE UNCHANGED vars
    BY <1>6 DEF vars, disk, ether
  <1>7. QED
    BY <1>1, <1>2, <1>3, <1>4, <1>5, <1>6

\* In the exact environment the submitter implements the abstract ledger.
THEOREM SubmitterImplementsLedger ==
    ASSUME ExactEnvironment
    PROVE  Spec => LedgerSafety
  <1>1. TypeOK /\ TypeOK' /\ ExactInv /\ [Next]_vars
          => [Ledger!Next]_(Ledger!vars)
    BY NextRefines
  <1>2. QED
    BY TypeCorrect, ExactInvariant, InitRefines, <1>1, PTL
       DEF Spec, LedgerSafety, Ledger!Spec

=============================================================================
