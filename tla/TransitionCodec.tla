--------------------------- MODULE TransitionCodec ---------------------------
(***************************************************************************)
(* How a transition is written and read on its way from a client's signed  *)
(* transaction to the contract and to the validator: the encoders and      *)
(* parsers of unipig/src/common/serialization, those who call them, and    *)
(* the decoding of UnipigTransitionEvaluator.sol.                          *)
(*                                                                         *)
(* Data are sequences of words of 32 bytes.  A word is a number, or an     *)
(* address, a hash or a part of a signature, which is larger than any      *)
(* number that matters.  The objects of the code have no tag: what they    *)
(* are is told from the fields they have, and what data are from which     *)
(* parser does not fail.                                                   *)
(***************************************************************************)
EXTENDS Integers, SequencesExt

CONSTANTS
    Uniswap,       \* UNISWAP_ADDRESS
    Clients,       \* the other addresses: a sender may name any as recipient
    Root, Sibling, \* hashes: a state root, a node of an inclusion proof
    SignatureWords,\* what a signature of 65 bytes is made of
    Straddling,    \* a word read across two others
    SlotIndices,   \* slots of the tree, but for Uniswap's 0
    Amounts,       \* numbers of tokens
    Timeouts,      \* timeouts of swaps
    Balances,      \* balances of the recipient
    Width          \* a uint32 is below it

\* No part of a signature is as small as an offset.  Addresses may be: nobody
\* need have the key of the account that a sender names.
ASSUME CodecAssumption ==
    /\ SignatureWords = <<SignatureWords[1], SignatureWords[2],
                          SignatureWords[3]>>
    /\ \A i \in 1..3 : SignatureWords[i] \notin 0..(32 * 12)
    /\ Width \in Nat /\ Amounts \subseteq Nat /\ Timeouts \subseteq Nat
    /\ SlotIndices \subseteq 1..(Width - 1)

VARIABLES
    request,   \* the client's signed transaction, and the bytes it signed
    built,     \* the transition the aggregator made of it
    receipt,   \* one of its two receipts, as the client holds it
    signed,    \* the encodings the aggregator signed and put into its tree
    inBlock,   \* the transition in the aggregator's pending block
    queued,    \* the transition in the submitter's queue
    disk,      \* the encodings in their databases
    posted,    \* the encoding in the contract
    guard      \* the transition as the fraud guard has read it

codecVars == <<request, built, receipt, signed, inBlock, queued, disk, posted,
               guard>>

Nothing == <<>>

Tokens == {0, 1}

-----------------------------------------------------------------------------
(***************************************************************************)
(* Text.  A hex string may lack its 0x and an address its checksum: the    *)
(* encoder takes either address, and no bytes without 0x.                  *)
(***************************************************************************)
Hex(words, bytes, prefixed) ==
    [words |-> words, bytes |-> bytes, prefixed |-> prefixed]

Hash(word) == Hex(<<word>>, 32, FALSE)

Add0x(hex) == [hex EXCEPT !.prefixed = TRUE]

Remove0x(hex) == [hex EXCEPT !.prefixed = FALSE]

Address(word, checksum) == [address |-> word, checksum |-> checksum]

-----------------------------------------------------------------------------
(***************************************************************************)
(* The ABI coder: a head of one word per value, then the contents of the   *)
(* values that have no fixed size, at the offsets their heads give.        *)
(***************************************************************************)
Dynamic(type) == type \in {"bytes", "bytes32[]"}

Accepted(type, value) ==
    CASE type = "uint32"    -> value \in 0..(Width - 1)
      [] type = "uint"      -> value \in Nat
      [] type = "address"   -> TRUE
      [] type = "bytes32[]" -> \A i \in DOMAIN value : value[i].prefixed
      [] OTHER              -> value.prefixed

Appended(type, value) ==
    CASE type = "bytes"     -> <<value.bytes>> \o value.words
      [] type = "bytes32[]" -> <<Len(value)>> \o
                               [i \in DOMAIN value |-> value[i].words[1]]
      [] OTHER              -> <<>>

Encode(types, values) ==
    LET tails  == [i \in DOMAIN types |-> IF Dynamic(types[i])
                                          THEN Appended(types[i], values[i])
                                          ELSE <<>>]
        head(i) == CASE Dynamic(types[i]) ->
                            32 * (Len(types)
                                  + Len(FlattenSeq(SubSeq(tails, 1, i - 1))))
                     [] types[i] = "address" -> values[i].address
                     [] types[i] = "bytes32" -> values[i].words[1]
                     [] OTHER                -> values[i]
        words  == [i \in DOMAIN types |-> head(i)] \o FlattenSeq(tails)
    IN  Hex(words, 32 * Len(words), TRUE)

Encodable(types, values) ==
    \A i \in DOMAIN types : Accepted(types[i], values[i])

\* The place of the length that an offset leads to.
LengthAt(offset) == offset \div 32 + 1

Units(type, count) == IF type = "bytes" THEN (count + 31) \div 32 ELSE count

\* At an offset between words, the length is the end of a number and the zeros
\* the next word starts with: 256 times the number for every byte of them.
Readable(type, words, offset) ==
    LET all    == 0..(32 * Len(words))
        length == words[LengthAt(offset)]
    IN  /\ offset \in all /\ LengthAt(offset) \in DOMAIN words
        /\ length \in all
        /\ IF offset % 32 = 0
           THEN LengthAt(offset) + Units(type, length) <= Len(words)
           ELSE /\ length = 0 \/ offset % 32 = 1
                /\ offset + 32 + 256 * length <= 32 * Len(words)

Between(length) ==
    Hex([i \in 1..(8 * length) |-> Straddling], 256 * length, TRUE)

Contents(type, words, offset) ==
    LET at   == LengthAt(offset)
        read == SubSeq(words, at + 1, at + Units(type, words[at]))
    IN  CASE offset % 32 # 0 -> Between(words[at])
          [] type = "bytes"  -> Hex(read, words[at], TRUE)
          [] OTHER           -> [i \in DOMAIN read |-> Add0x(Hash(read[i]))]

Decodable(types, data) ==
    /\ Len(types) <= Len(data.words)
    /\ \A i \in DOMAIN types :
           Dynamic(types[i]) => Readable(types[i], data.words, data.words[i])

Decode(types, data) ==
    [i \in DOMAIN types |->
        CASE Dynamic(types[i]) -> Contents(types[i], data.words, data.words[i])
          [] types[i] = "address" -> Address(data.words[i], TRUE)
          [] types[i] = "bytes32" -> Add0x(Hash(data.words[i]))
          [] OTHER                -> data.words[i]]

-----------------------------------------------------------------------------
(***************************************************************************)
(* The formats.                                                            *)
(***************************************************************************)
TransferTypes == <<"address", "address", "uint", "uint32">>

SwapTypes == <<"address", "uint", "uint32", "uint32", "uint">>

SignedTransactionTypes == <<"bytes", "bytes">>

SwapTransitionTypes ==
    <<"bytes32", "uint32", "uint32", "uint", "uint32", "uint32", "uint",
      "bytes">>

TransferTransitionTypes ==
    <<"bytes32", "uint32", "uint32", "uint", "uint32", "bytes">>

CreateAndTransferTransitionTypes ==
    <<"bytes32", "uint32", "uint32", "address", "uint", "uint32", "bytes">>

StateTypes == <<"address", "uint32", "uint32">>

StateReceiptTypes ==
    <<"bytes32", "uint", "uint", "uint32", "bytes32[]", "bytes">>

-----------------------------------------------------------------------------
(***************************************************************************)
(* Encoders.                                                               *)
(***************************************************************************)
IsSwap(transaction) == "minOutputAmount" \in DOMAIN transaction

IsSwapTransition(t) == "uniswapSlotIndex" \in DOMAIN t

IsCreateAndTransferTransition(t) == "createdAccountPubkey" \in DOMAIN t

\* Mutant: the two amounts of a swap change places.
TransactionForm_AmountsSwapped(tx) ==
    IF IsSwap(tx)
    THEN [types |-> SwapTypes,
          values |-> <<tx.sender, tx.tokenType, tx.minOutputAmount,
                       tx.inputAmount, tx.timeout>>]
    ELSE [types |-> TransferTypes,
          values |-> <<tx.sender, tx.recipient, tx.tokenType, tx.amount>>]

\* What is written of a transaction and in which format.
TransactionForm(tx) ==
    IF IsSwap(tx)
    THEN [types |-> SwapTypes,
          values |-> <<tx.sender, tx.tokenType, tx.inputAmount,
                       tx.minOutputAmount, tx.timeout>>]
    ELSE [types |-> TransferTypes,
          values |-> <<tx.sender, tx.recipient, tx.tokenType, tx.amount>>]

SwapTransitionForm(t) ==
    [types |-> SwapTransitionTypes,
     values |-> <<Add0x(t.stateRoot), t.senderSlotIndex, t.uniswapSlotIndex,
                  t.tokenType, t.inputAmount, t.minOutputAmount, t.timeout,
                  Add0x(t.signature)>>]

TransferTransitionForm(t) ==
    [types |-> TransferTransitionTypes,
     values |-> <<Add0x(t.stateRoot), t.senderSlotIndex,
                  t.recipientSlotIndex, t.tokenType, t.amount,
                  Add0x(t.signature)>>]

CreateAndTransferTransitionForm(t) ==
    [types |-> CreateAndTransferTransitionTypes,
     values |-> <<Add0x(t.stateRoot), t.senderSlotIndex,
                  t.recipientSlotIndex, t.createdAccountPubkey, t.tokenType,
                  t.amount, Add0x(t.signature)>>]

TransitionForm(t) ==
    IF IsSwapTransition(t) THEN SwapTransitionForm(t)
    ELSE IF IsCreateAndTransferTransition(t)
    THEN CreateAndTransferTransitionForm(t)
    ELSE TransferTransitionForm(t)

StateForm(state) ==
    [types |-> StateTypes,
     values |-> <<state.pubkey, state.balances[0], state.balances[1]>>]

Encoded(form) == Encode(form.types, form.values)

Writable(form) == Encodable(form.types, form.values)

StateReceiptForm(r) ==
    [types |-> StateReceiptTypes,
     values |-> <<Add0x(r.stateRoot), r.blockNumber, r.transitionIndex,
                  r.slotIndex,
                  [i \in DOMAIN r.inclusionProof |->
                      Add0x(r.inclusionProof[i])],
                  Encoded(StateForm(r.state))>>]

SignedTransactionForm(s) ==
    [types |-> SignedTransactionTypes,
     values |-> <<s.signature, Encoded(TransactionForm(s.transaction))>>]

-----------------------------------------------------------------------------
(***************************************************************************)
(* Parsers.  One that throws is Invalid.                                   *)
(***************************************************************************)
Invalid == [invalid |-> TRUE]

IsToken(word) == word \in Tokens

ParseTransfer(data) ==
    LET v == Decode(TransferTypes, data)
    IN  IF Decodable(TransferTypes, data) /\ IsToken(v[3])
        THEN [sender |-> v[1], recipient |-> v[2], tokenType |-> v[3],
              amount |-> v[4]]
        ELSE Invalid

ParseSwap(data) ==
    LET v == Decode(SwapTypes, data)
    IN  IF Decodable(SwapTypes, data) /\ IsToken(v[2])
        THEN [sender |-> v[1], tokenType |-> v[2], inputAmount |-> v[3],
              minOutputAmount |-> v[4], timeout |-> v[5]]
        ELSE Invalid

ParseTransaction(data) ==
    IF ParseSwap(data) # Invalid THEN ParseSwap(data) ELSE ParseTransfer(data)

ParseSignedTransaction(data) ==
    LET v == Decode(SignedTransactionTypes, data)
    IN  IF Decodable(SignedTransactionTypes, data)
        THEN [signature |-> v[1], transaction |-> ParseTransaction(v[2])]
        ELSE Invalid

ParseSwapTransition(data) ==
    LET v == Decode(SwapTransitionTypes, data)
    IN  IF Decodable(SwapTransitionTypes, data) /\ IsToken(v[4])
        THEN [stateRoot |-> Remove0x(v[1]), senderSlotIndex |-> v[2],
              uniswapSlotIndex |-> v[3], tokenType |-> v[4],
              inputAmount |-> v[5], minOutputAmount |-> v[6],
              timeout |-> v[7], signature |-> v[8]]
        ELSE Invalid

ParseTransferTransition(data) ==
    LET v == Decode(TransferTransitionTypes, data)
    IN  IF Decodable(TransferTransitionTypes, data) /\ IsToken(v[4])
        THEN [stateRoot |-> Remove0x(v[1]), senderSlotIndex |-> v[2],
              recipientSlotIndex |-> v[3], tokenType |-> v[4],
              amount |-> v[5], signature |-> v[6]]
        ELSE Invalid

ParseCreateAndTransferTransition(data) ==
    LET v == Decode(CreateAndTransferTransitionTypes, data)
    IN  IF /\ Decodable(CreateAndTransferTransitionTypes, data)
           /\ IsToken(v[5])
        THEN [stateRoot |-> Remove0x(v[1]), senderSlotIndex |-> v[2],
              recipientSlotIndex |-> v[3], createdAccountPubkey |-> v[4],
              tokenType |-> v[5], amount |-> v[6], signature |-> v[7]]
        ELSE Invalid

\* Mutant: a transfer is tried before a swap.
ParseTransition_TransferFirst(data) ==
    LET swap     == ParseSwapTransition(data)
        transfer == ParseTransferTransition(data)
    IN  IF transfer # Invalid THEN transfer
        ELSE IF swap # Invalid THEN swap
        ELSE ParseCreateAndTransferTransition(data)

\* The first that does not throw.
ParseTransition(data) ==
    LET swap     == ParseSwapTransition(data)
        transfer == ParseTransferTransition(data)
    IN  IF swap # Invalid THEN swap
        ELSE IF transfer # Invalid THEN transfer
        ELSE ParseCreateAndTransferTransition(data)

ParseState(data) ==
    LET v == Decode(StateTypes, data)
    IN  [pubkey |-> v[1], balances |-> [t \in Tokens |-> v[t + 2]]]

\* Mutant: the nodes of the proof keep their 0x.
ParseStateReceipt_ProofKept(data) ==
    LET v == Decode(StateReceiptTypes, data)
    IN  [stateRoot |-> Remove0x(v[1]), blockNumber |-> v[2],
         transitionIndex |-> v[3], slotIndex |-> v[4],
         inclusionProof |-> v[5], state |-> ParseState(v[6])]

ParseStateReceipt(data) ==
    LET v == Decode(StateReceiptTypes, data)
    IN  [stateRoot |-> Remove0x(v[1]), blockNumber |-> v[2],
         transitionIndex |-> v[3], slotIndex |-> v[4],
         inclusionProof |-> [i \in DOMAIN v[5] |-> Remove0x(v[5][i])],
         state |-> ParseState(v[6])]

-----------------------------------------------------------------------------
(***************************************************************************)
(* The contract.  It tells what a transition is from its length.           *)
(***************************************************************************)
InferTransitionType(data) ==
    CASE data.bytes = 352 -> "createAndTransfer"
      [] data.bytes = 320 -> "transfer"
      [] data.bytes = 384 -> "swap"
      [] OTHER            -> "unrecognized"

\* What it decodes, by the fields of its structs.
DecodedByContract(data) ==
    CASE InferTransitionType(data) = "createAndTransfer" ->
             ParseCreateAndTransferTransition(data)
      [] InferTransitionType(data) = "transfer" ->
             ParseTransferTransition(data)
      [] InferTransitionType(data) = "swap" -> ParseSwapTransition(data)
      [] OTHER -> Invalid

\* getTransferTxHash, getSwapTxHash: what the signature must be one of, given
\* the addresses in the two slots.
PreimageOfContract(t, sender, recipient) ==
    IF IsSwapTransition(t)
    THEN Encode(SwapTypes, <<sender, t.tokenType, t.inputAmount,
                             t.minOutputAmount, t.timeout>>)
    ELSE Encode(TransferTypes, <<sender, recipient, t.tokenType, t.amount>>)

-----------------------------------------------------------------------------
(***************************************************************************)
(* The way of one transaction.                                             *)
(***************************************************************************)
\* A signature is given with 0x.
Signature == Hex(SignatureWords, 65, TRUE)

TransferTransactions ==
    [sender : {Address(c, TRUE) : c \in Clients},
     recipient : [address : Clients, checksum : BOOLEAN]
                     \cup {Address(Uniswap, TRUE)},
     tokenType : Tokens, amount : Amounts]

SwapTransactions ==
    [sender : {Address(c, TRUE) : c \in Clients}, tokenType : Tokens,
     inputAmount : Amounts, minOutputAmount : Amounts, timeout : Timeouts]

CodecInit ==
    /\ request = Nothing /\ built = Nothing
    /\ receipt = Nothing /\ signed = Nothing
    /\ inBlock = Nothing /\ queued = Nothing
    /\ posted = Nothing /\ guard = Nothing
    /\ disk = [aggregator |-> Nothing, submitter |-> Nothing]

\* A client signs the encoding of its transaction: no encoding, no signature.
SendTransaction(tx) ==
    /\ request = Nothing
    /\ Writable(TransactionForm(tx))
    /\ request' = [signature |-> Signature, transaction |-> tx,
                   preimage |-> Encoded(TransactionForm(tx))]
    /\ UNCHANGED <<built, receipt, signed, inBlock, queued, disk, posted,
                   guard>>

RecipientOf(tx) == IF IsSwap(tx) THEN Address(Uniswap, TRUE) ELSE tx.recipient

TransferTransitionOf(tx, from, to, created) ==
    IF created
    THEN [stateRoot |-> Hash(Root), senderSlotIndex |-> from,
          recipientSlotIndex |-> to, createdAccountPubkey |-> tx.recipient,
          tokenType |-> tx.tokenType, amount |-> tx.amount,
          signature |-> request.signature]
    ELSE [stateRoot |-> Hash(Root), senderSlotIndex |-> from,
          recipientSlotIndex |-> to, tokenType |-> tx.tokenType,
          amount |-> tx.amount, signature |-> request.signature]

SwapTransitionOf(tx, from) ==
    [stateRoot |-> Hash(Root), senderSlotIndex |-> from,
     uniswapSlotIndex |-> 0, tokenType |-> tx.tokenType,
     inputAmount |-> tx.inputAmount, minOutputAmount |-> tx.minOutputAmount,
     timeout |-> tx.timeout, signature |-> request.signature]

\* The state machine has applied the transaction: the transition goes into the
\* pending block and, encoded, to disk, and the receipts are signed, but for
\* Uniswap.  The leaf of the tree is the encoding of the state.  Accounts are
\* told apart by how their addresses are written.
AddToPendingBlock(from, to, created, slot, balances) ==
    LET tx    == request.transaction
        t     == IF IsSwap(tx) THEN SwapTransitionOf(tx, from)
                               ELSE TransferTransitionOf(tx, from, to, created)
        state == [pubkey   |-> IF slot = from THEN tx.sender
                                              ELSE tx.recipient,
                  balances |-> balances]
        r     == [stateRoot |-> Hash(Root), blockNumber |-> 1,
                  transitionIndex |-> 0, slotIndex |-> slot,
                  inclusionProof |-> <<Hash(Sibling), Hash(Sibling)>>,
                  state |-> state]
    IN  /\ request # Nothing /\ built = Nothing
        /\ slot \in {from, to} \ {0}
        /\ to = 0 <=> RecipientOf(tx).address = Uniswap
        /\ to = from <=> RecipientOf(tx) = tx.sender
        /\ created => to \notin {0, from}
        /\ Writable(StateForm(state))
        /\ built' = t /\ inBlock' = t
        /\ disk' = [disk EXCEPT !.aggregator = Encoded(TransitionForm(t))]
        /\ receipt' = r
        /\ signed' = [receipt |-> Encoded(StateReceiptForm(r)),
                      leaf    |-> Encoded(StateForm(state))]
        /\ UNCHANGED <<request, queued, posted, guard>>

\* init() of the aggregator: the buffer is turned into text with 0x again.
RecoverPending ==
    /\ disk.aggregator # Nothing
    /\ inBlock' = ParseTransition(disk.aggregator)
    /\ UNCHANGED <<request, built, receipt, signed, queued, disk, posted,
                   guard>>

QueueBlock ==
    /\ inBlock # Nothing /\ queued = Nothing
    /\ queued' = inBlock
    /\ disk' = [disk EXCEPT !.submitter = Encoded(TransitionForm(inBlock))]
    /\ UNCHANGED <<request, built, receipt, signed, inBlock, posted, guard>>

\* init() of the submitter.
RecoverQueue ==
    /\ disk.submitter # Nothing
    /\ queued' = ParseTransition(disk.submitter)
    /\ UNCHANGED <<request, built, receipt, signed, inBlock, disk, posted,
                   guard>>

PostBlock ==
    /\ queued # Nothing /\ posted = Nothing
    /\ posted' = Encoded(TransitionForm(queued))
    /\ UNCHANGED <<request, built, receipt, signed, inBlock, queued, disk,
                   guard>>

\* The fraud guard reads the block in the event.
GuardReads ==
    /\ posted # Nothing /\ guard = Nothing
    /\ guard' = ParseTransition(posted)
    /\ UNCHANGED <<request, built, receipt, signed, inBlock, queued, disk,
                   posted>>

\* A receipt is read from the text that was signed.  The clients get receipts
\* as JSON: only tests, and whoever uses the package, read one so.
ReadReceipt ==
    /\ signed # Nothing
    /\ receipt' = ParseStateReceipt(signed.receipt)
    /\ UNCHANGED <<request, built, signed, inBlock, queued, disk, posted,
                   guard>>

CodecNext ==
    \/ \E tx \in TransferTransactions : SendTransaction(tx)
    \/ \E tx \in SwapTransactions : SendTransaction(tx)
    \/ \E from \in SlotIndices, to \in SlotIndices \cup {0},
          slot \in SlotIndices, created \in BOOLEAN, balances \in Balances :
           AddToPendingBlock(from, to, created, slot, balances)
    \/ RecoverPending
    \/ QueueBlock
    \/ RecoverQueue
    \/ PostBlock
    \/ GuardReads
    \/ ReadReceipt

CodecSpec == CodecInit /\ [][CodecNext]_codecVars

-----------------------------------------------------------------------------
(***************************************************************************)
(* Properties.                                                             *)
(***************************************************************************)
Transitions == {inBlock, queued, guard} \ {Nothing}

\* The creation of an account whose address is the number of a token type is
\* read as a transfer of that token when its amount is a readable offset.
CreatesTokenAddress(t) ==
    /\ IsCreateAndTransferTransition(t)
    /\ t.createdAccountPubkey.address \in Tokens

\* What there is has the fields of a transition (types.ts): no reader of the
\* way has refused what was written.
CodecTypeOK ==
    /\ DOMAIN disk = {"aggregator", "submitter"}
    /\ \A t \in Transitions :
           {"stateRoot", "senderSlotIndex", "tokenType", "signature"}
               \subseteq DOMAIN t

\* What a parser makes of an address.
Checksummed(t) ==
    IF IsCreateAndTransferTransition(t)
    THEN [t EXCEPT !.createdAccountPubkey.checksum = TRUE]
    ELSE t

\* Whoever reads the transition, after any number of restarts, has the one the
\* aggregator made, but for the checksum of an address (parseTransitionFromABI
\* of abiEncodeTransition).
TransitionIsKept ==
    \A t \in Transitions : Checksummed(t) = Checksummed(built)

\* The bytes on disk, in the contract and in the tree of the fraud guard, from
\* which it proves that a transition is in a block, are the same
\* (DefaultRollupBlock, serializeRollupBlockForSubmission and -Storage).
OneEncoding ==
    /\ \A data \in {disk.aggregator, disk.submitter, posted} :
           data # Nothing => data = disk.aggregator
    /\ guard # Nothing => Encoded(TransitionForm(guard)) = posted

\* The contract tells from its length what the transition is, and reads what
\* the fraud guard reads (inferTransitionType, decode...Transition).
ContractReadsTheSame ==
    guard # Nothing => DecodedByContract(posted) = guard

\* From the decoded transition and the addresses in its slots the contract
\* computes the very bytes that the client signed (getTransferTxHash,
\* getSwapTxHash).
SignatureHoldsInContract ==
    posted # Nothing =>
        PreimageOfContract(DecodedByContract(posted),
                           request.transaction.sender,
                           RecipientOf(request.transaction))
            = request.preimage

\* The contract reads what was sent and checks what was signed, but for such a
\* creation.
ContractInv ==
    ~CreatesTokenAddress(built) =>
        ContractReadsTheSame /\ SignatureHoldsInContract

\* The receipt, made or read back, encodes to the bytes the aggregator signed
\* and to the leaf of its tree, and its proof can be turned to bytes, which
\* needs nodes without 0x (decideIfStateReceiptIsValid).
ReceiptIsProvable ==
    receipt # Nothing =>
        /\ Encoded(StateReceiptForm(receipt)) = signed.receipt
        /\ Encoded(StateForm(receipt.state)) = signed.leaf
        /\ \A i \in DOMAIN receipt.inclusionProof :
               ~receipt.inclusionProof[i].prefixed

\* A signed transaction is read as it was signed: a swap and a transfer are
\* never taken for each other (parseSignedTransactionFromABI).
SignedTransactionIsKept ==
    request # Nothing =>
        LET data == Encoded(SignedTransactionForm(request))
            read == ParseSignedTransaction(data)
        IN  /\ read.signature = request.signature
            /\ IsSwap(read.transaction) <=> IsSwap(request.transaction)
            /\ Encoded(TransactionForm(read.transaction)) = request.preimage

\* All readers have one transition and one text of it, but for a creation of
\* the account of a token type's number, and one transaction.
TransitionInv ==
    /\ SignedTransactionIsKept
    /\ ~CreatesTokenAddress(built) =>
           CodecTypeOK /\ TransitionIsKept /\ OneEncoding
=============================================================================
