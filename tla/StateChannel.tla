----------------------------- MODULE StateChannel -----------------------------
(***************************************************************************)
(* The state channel clients (ovm/src/app/examples/state-channel-client.ts)*)
(* over a network that loses, repeats and reorders messages.               *)
(*                                                                         *)
(* Calls of a client overlap at their awaits: a call is a task of its      *)
(* client and goes on in steps.  The message database is an interface in   *)
(* the code (types/db); it is modelled by what the interface says and the  *)
(* in-memory one of the tests does, each operation in one step.  A message *)
(* it returns is the stored object, changed in place: reading it, merging  *)
(* signatures and storing it is one step too.                              *)
(***************************************************************************)
EXTENDS Deciders, FiniteSets, FiniteSetsExt, Bags

CONSTANTS
    Clients,    \* addresses
    Balances,   \* bound: of each message created, what its balances can be
    Bad,        \* balances that a recipient does not accept
    Preimages,  \* of each client, the hashes it knows preimages of
    MaxCalls,   \* bound: overlapping calls of one client
    MaxExits    \* bound: calls of exitChannel

ASSUME ChannelAssumption ==
    /\ Balances \in Seq(SUBSET Nat) /\ Bad \subseteq Nat
    /\ DOMAIN Preimages = Clients
    /\ MaxCalls \in Nat /\ MaxExits \in Nat

VARIABLES
    store,     \* of each client, its messages with their signatures
    conflicts, \* the channels and nonces it has conflicting messages of
    signed,    \* the signatures it knows
    exited,    \* the channels it has marked as exited
    tasks,     \* its calls that await something, a bag
    sent,      \* the signed messages on the network
    claims,    \* the exit claims made, and whether their maker upheld them
    created,   \* messages created so far: the source of fresh channel IDs
    made,      \* these messages and who made them, for the properties
    exits,     \* calls of exitChannel so far
    mishaps    \* what the order of calls and messages was, for the properties

db == <<store, conflicts, signed, exited>>

vars == <<db, tasks, sent, claims, created, made, exits, mishaps>>

Message(channel, nonce, data) ==
    [channel |-> channel, nonce |-> nonce, data |-> data]

Parsed(sender, recipient, msg, signers) ==
    [sender |-> sender, recipient |-> recipient, msg |-> msg,
     signers |-> signers]

WithSignature(m, c) == [m EXCEPT !.signers = @ \cup {c}]

\* On its way is the text of msg.  What is signed is what the text says in
\* hexadecimal, which is nothing: the signature verifies as by's whatever the
\* text is read as.
Envelope(by, to, msg) == [by |-> by, to |-> to, msg |-> msg]

Received(n) == Envelope(n.by, n.to, ReadBack(n.msg))

Task(at, parsed) == [at |-> at, parsed |-> parsed]

\* exitChannel and handleChannelExit before the channel is marked.
NoClaim == [by |-> 0]
Marking(channel, claim) ==
    [at |-> "mark", channel |-> channel, claim |-> claim]

Init ==
    /\ store = [c \in Clients |-> {}]
    /\ conflicts = [c \in Clients |-> {}]
    /\ signed = [c \in Clients |-> {}]
    /\ exited = [c \in Clients |-> {}]
    /\ tasks = [c \in Clients |-> EmptyBag]
    /\ sent = {} /\ claims = {} /\ created = 0 /\ made = {} /\ exits = 0
    /\ mishaps = {}

-----------------------------------------------------------------------------
(***************************************************************************)
(* The database.                                                           *)
(***************************************************************************)
Counterparty(c, m) == IF m.sender = c THEN m.recipient ELSE m.sender

Channels(c, address) ==
    {m.msg.channel : m \in {n \in store[c] : address \in {n.sender, n.recipient}}}

SameNonce(c, msg) ==
    {m \in store[c] : m.msg.channel = msg.channel /\ m.msg.nonce = msg.nonce}

MostRecent(messages) ==
    {m \in messages : \A n \in messages : n.msg.nonce <= m.msg.nonce}

SignedIn(c, channel) ==
    {m \in store[c] : m.msg.channel = channel /\ c \in m.signers}

ValidIn(c, channel) ==
    {m \in store[c] : m.msg.channel = channel /\ Cardinality(m.signers) = 2}

\* Conflicting messages have the same channel and nonce but different data.
Conflicts(c, msg) == \E m \in SameNonce(c, msg) : m.msg.data # msg.data

\* The signatures are kept in any case, a conflicting message only as such, a
\* message of another channel with the same counterparty not at all.
Rejected(c, m) ==
    /\ ~Conflicts(c, m.msg)
    /\ Channels(c, Counterparty(c, m)) \notin {{}, {m.msg.channel}}

\* Mutant: replaces the message of that nonce, conflicting or not.
StoreMessage_Replaces(c, m) ==
    /\ signed' = [signed EXCEPT
                    ![c] = @ \cup {SignedMessage(s, m.msg) : s \in m.signers}]
    /\ UNCHANGED conflicts
    /\ store' = IF Rejected(c, m) THEN store
                ELSE [store EXCEPT ![c] = (@ \ SameNonce(c, m.msg)) \cup {m}]

StoreMessage(c, m) ==
    /\ signed' = [signed EXCEPT
                    ![c] = @ \cup {SignedMessage(s, m.msg) : s \in m.signers}]
    /\ IF Conflicts(c, m.msg)
       THEN /\ conflicts' = [conflicts EXCEPT
                                ![c] = @ \cup {<<m.msg.channel, m.msg.nonce>>}]
            /\ UNCHANGED store
       ELSE /\ store' = IF Rejected(c, m) THEN store
                        ELSE [store EXCEPT
                                ![c] = (@ \ SameNonce(c, m.msg)) \cup {m}]
            /\ UNCHANGED conflicts

\* Mutant: takes the message itself for one it conflicts with.
ConflictsWithAnother_Any(c, msg) == SameNonce(c, msg) # {}

\* A conflict of a stored message's nonce counts for every channel.
ConflictsWithAnother(c, msg) ==
    \/ <<msg.channel, msg.nonce>> \in conflicts[c]
    \/ \E m \in store[c] : /\ m.msg.nonce = msg.nonce
                           /\ <<m.msg.channel, msg.nonce>> \in conflicts[c]

-----------------------------------------------------------------------------
(***************************************************************************)
(* The client.                                                             *)
(***************************************************************************)
\* The message after the last one, which is countersigned, of the channel.
NextMessage(c, channel, data) ==
    {Message(channel, last.msg.nonce + 1, data) :
        last \in {m \in MostRecent(ValidIn(c, channel)) :
                    \E n \in MostRecent(SignedIn(c, channel)) :
                       n.msg.nonce = m.msg.nonce}}

\* The first message of a new channel, or the next one of the channel there
\* is, which is not exited.
NextMessages(c, d, data) ==
    IF Channels(c, d) = {} THEN {Message(created + 1, 1, data)}
    ELSE UNION {NextMessage(c, channel, data) :
                   channel \in Channels(c, d) \ exited[c]}

Calls(c) == BagToSet(tasks[c])

Begin(c, t) ==
    /\ BagCardinality(tasks[c]) < MaxCalls
    /\ tasks' = [tasks EXCEPT ![c] = @ (+) SetToBag({t})]

End(c, t) == tasks' = [tasks EXCEPT ![c] = @ (-) SetToBag({t})]

GoOn(c, t, u) ==
    tasks' = [tasks EXCEPT ![c] = (@ (-) SetToBag({t})) (+) SetToBag({u})]

\* Nothing that either of the two has signed waits for the other.
Settled(c, d) ==
    /\ Calls(c) \cup Calls(d) = {}
    /\ \A m \in store[c] \cup store[d] :
          \A p \in {c, d} : SignedMessage(p, m.msg) \in signed[p]

\* createNewMessage up to the await of the signature.
CreateNewMessage(c, d, data) ==
    /\ created < Len(Balances)
    /\ data \in Balances[created + 1]
    /\ created' = created + 1
    /\ \E msg \in NextMessages(c, d, data) :
          /\ Begin(c, Task("sign", Parsed(c, d, msg, {})))
          /\ made' = made \cup {Parsed(c, d, msg, {})}
          /\ mishaps' = mishaps
                \cup (IF Settled(c, d) THEN {} ELSE {"crossed"})
                \cup (IF data \in Bad THEN {"bad"} ELSE {})
                \cup (IF ReadBack(msg) = msg THEN {} ELSE {"misread"})
    /\ UNCHANGED <<db, sent, claims, exits>>

\* signAndSaveMessage: the message is returned unless storing it throws.
SignAndSaveMessage(c, t) ==
    /\ t.at = "sign"
    /\ LET m == WithSignature(t.parsed, c)
       IN  /\ StoreMessage(c, m)
           /\ sent' = IF Rejected(c, m) THEN sent
                      ELSE sent \cup {Envelope(c, Counterparty(c, m), m.msg)}
    /\ End(c, t)
    /\ UNCHANGED <<exited, claims, created, made, exits, mishaps>>

IsKnown(c, n) == n.to = c /\ SameNonce(c, n.msg) # {}

\* To handle it again would change nothing.
IsHandled(c, n) ==
    \E m \in SameNonce(c, n.msg) :
        /\ SignedMessage(n.by, n.msg) \in signed[c]
        /\ IF m.msg = n.msg THEN n.by \in m.signers
           ELSE <<n.msg.channel, n.msg.nonce>> \in conflicts[c]

\* handleMessage of a message whose channel and nonce are known: its
\* signature is added to the stored one, unless they conflict.
HandleKnownMessage(c, n) ==
    /\ IsKnown(c, n) /\ ~IsHandled(c, n)
    /\ \E m \in SameNonce(c, n.msg) :
          StoreMessage(c, IF m.msg = n.msg
                          THEN WithSignature(m, n.by)
                          ELSE Parsed(n.by, c, n.msg, {n.by}))
    /\ UNCHANGED <<exited, tasks, sent, claims, created, made, exits, mishaps>>

HandleMessage(c, n) ==
    /\ n.to = c /\ ~IsKnown(c, n)
    /\ Begin(c, Task("store", Parsed(n.by, c, n.msg, {n.by})))
    /\ UNCHANGED <<db, sent, claims, created, made, exits, mishaps>>

Valid(m) == m.msg.data \notin Bad

\* The message is stored no matter what; the first one of a channel is signed
\* if it is valid, another one is checked.
StoreReceived(c, t) ==
    /\ t.at = "store"
    /\ StoreMessage(c, t.parsed)
    /\ IF Rejected(c, t.parsed) \/ ~Valid(t.parsed) THEN End(c, t)
       ELSE GoOn(c, t, Task(IF t.parsed.msg.nonce = 1 THEN "sign" ELSE "check",
                            t.parsed))
    /\ UNCHANGED <<exited, sent, claims, created, made, exits, mishaps>>

\* There is a valid message and it is older.
Follows(c, msg) ==
    /\ ValidIn(c, msg.channel) # {}
    /\ \A m \in ValidIn(c, msg.channel) : m.msg.nonce < msg.nonce

\* Mutant: countersigns in a channel that is exited.
Acceptable_Exited(c, msg) == ~ConflictsWithAnother(c, msg) /\ Follows(c, msg)

Acceptable(c, msg) ==
    /\ msg.channel \notin exited[c]
    /\ ~ConflictsWithAnother(c, msg)
    /\ Follows(c, msg)

CheckNewMessage(c, t) ==
    /\ t.at = "check"
    /\ IF Acceptable(c, t.parsed.msg) THEN GoOn(c, t, Task("sign", t.parsed))
                                      ELSE End(c, t)
    /\ mishaps' = mishaps \cup
           (IF Follows(c, t.parsed.msg) THEN {} ELSE {"overtaken"})
    /\ UNCHANGED <<db, sent, claims, created, made, exits>>

\* exitChannel: the claim is about the most recent valid message.
Claim(c, msg, d) == [by |-> c, against |-> d, msg |-> msg, upheld |-> FALSE]

Claims(c, channel, d) ==
    IF ValidIn(c, channel) = {} THEN {NoClaim}
    ELSE {Claim(c, m.msg, d) : m \in MostRecent(ValidIn(c, channel))}

ExitChannel(c, d) ==
    /\ exits < MaxExits
    /\ exits' = exits + 1
    /\ \E channel \in Channels(c, d) :
          \E claim \in Claims(c, channel, d) : Begin(c, Marking(channel, claim))
    /\ UNCHANGED <<db, sent, claims, created, made, mishaps>>

Knowledge(c) ==
    [me |-> c, signed |-> signed[c], preimages |-> Preimages[c]]

\* The counterparty has signed the message, and all that the claimant has
\* signed, in whatever channel, has at most its nonce.
ExitClaim(claim) ==
    And(<<SignedBy(claim.against, claim.msg),
          ForAllSuchThat(MessagesSignedBy(claim.by, AnyChannel),
                         [kind |-> "nonceLessThan",
                          bound |-> claim.msg.nonce + 1])>>)

\* The claimant itself upholds it, and no call but this is under way.
Upheld(c, claim, t) ==
    /\ tasks[c] = SetToBag({t})
    /\ Decide(Knowledge(c), ExitClaim(claim)).outcome = "yes"

\* Without a valid message the call throws, after it has marked the channel.
MarkChannelExited(c, t) ==
    /\ t.at = "mark"
    /\ exited' = [exited EXCEPT ![c] = @ \cup {t.channel}]
    /\ claims' = IF t.claim = NoClaim THEN claims
                 ELSE claims \cup {[t.claim EXCEPT
                                      !.upheld = Upheld(c, t.claim, t)]}
    /\ End(c, t)
    /\ UNCHANGED <<store, conflicts, signed, sent, created, made, exits, mishaps>>

\* A claim carries the deciders of its maker; the tests also hand over claims
\* with those of the client that handles them.
Deciding(c, claim) == {c, claim.by}

\* handleChannelExit: a claim that is not refuted is accepted.  A refuted one
\* changes nothing: its justification is returned.
HandleChannelExit(c, claim) ==
    /\ claim.against = c
    /\ claim.msg.channel \notin exited[c]
    /\ \E d \in Deciding(c, claim) :
          Decide(Knowledge(d), ExitClaim(claim)).outcome # "no"
    /\ Begin(c, Marking(claim.msg.channel, NoClaim))
    /\ UNCHANGED <<db, sent, claims, created, made, exits, mishaps>>

GoesOn(c) ==
    \E t \in Calls(c) :
        \/ SignAndSaveMessage(c, t) \/ StoreReceived(c, t)
        \/ CheckNewMessage(c, t) \/ MarkChannelExited(c, t)

Receives(c) ==
    \E n \in sent : \/ HandleKnownMessage(c, Received(n))
                    \/ HandleMessage(c, Received(n))

Next ==
    \E c \in Clients :
        \/ Receives(c)
        \/ GoesOn(c)
        \/ \E d \in Clients \ {c} :
              \/ \E data \in UNION Range(Balances) : CreateNewMessage(c, d, data)
              \/ ExitChannel(c, d)
        \/ \E claim \in claims : HandleChannelExit(c, claim)

\* Whether Receives(c) can change anything.
Awaits(c) ==
    \E n \in sent : /\ n.to = c
                    /\ IF IsKnown(c, Received(n)) THEN ~IsHandled(c, Received(n))
                       ELSE BagCardinality(tasks[c]) < MaxCalls

\* Weak fairness, its conditions written out: calls go on, and a message on
\* the network is delivered in the end.
Fairness ==
    \A c \in Clients :
        /\ []<>(tasks[c] = EmptyBag) \/ []<><<GoesOn(c)>>_vars
        /\ []<>~Awaits(c) \/ []<><<Receives(c)>>_vars

Spec == Init /\ [][Next]_vars /\ Fairness

-----------------------------------------------------------------------------
(***************************************************************************)
(* Properties.                                                             *)
(***************************************************************************)
\* What a client has signed, and what it has created.
OwnSigned(c) == {s.msg : s \in {r \in signed[c] : r.by = c}}

CreatedBy(c) == {m.msg : m \in {n \in made : n.sender = c}}

Kept(c) == {m.msg : m \in store[c]}

\* Of one channel, with a single counterparty.
KeepsOnly(c, msg) == \A m \in Kept(c) : m.channel = msg.channel

\* No message was created that is read back as another one: with a number of
\* 16 or more the parties of a channel do not have the same messages, and one
\* knows a signature of the other on what the other has never signed.
Readable == "misread" \notin mishaps

\* The variables keep to their types: a stored message is one of the client's,
\* with signatures it knows, and none but the signers' own.
TypeOK ==
    /\ \A c \in Clients :
          /\ \A m \in store[c] :
                /\ c \in {m.sender, m.recipient}
                /\ m.signers \subseteq {m.sender, m.recipient}
                /\ \A p \in m.signers : SignedMessage(p, m.msg) \in signed[c]
          /\ \A s \in signed[c] : s.msg \in OwnSigned(s.by)
          /\ \A t \in Calls(c) : t.at \in {"sign", "store", "check", "mark"}
    /\ created \in 0..Len(Balances) /\ exits \in 0..MaxExits
    /\ mishaps \subseteq {"crossed", "overtaken", "bad", "misread"}

\* Two messages of a channel that both parties have signed are not about the
\* same nonce: there is one state to exit with, whatever calls and messages
\* cross, repeat or overtake each other.  Except when both parties create the
\* very same message: each of them then signs the other's unawares.
ValidStatesAgree ==
    \A c, d \in Clients : c # d =>
        \A m, n \in (OwnSigned(c) \cap OwnSigned(d))
                      \ (CreatedBy(c) \cap CreatedBy(d)) :
            m.channel = n.channel /\ m.nonce = n.nonce => m = n

Orderly == mishaps \cap {"crossed", "overtaken"} = {}

\* Unless a new message crosses or overtakes another, a client signs one
\* message per channel and nonce.
OneMessagePerNonce ==
    Orderly =>
        \A c \in Clients : \A m, n \in OwnSigned(c) :
            m.channel = n.channel /\ m.nonce = n.nonce => m = n

\* A nonce stands for one state of its channel, while messages are read back as
\* they were made.
AgreementInv == Readable => TypeOK /\ ValidStatesAgree /\ OneMessagePerNonce

\* A claim that its maker upheld when no other call of it was under way is
\* never refuted, by whosever deciders: it signs nothing newer afterwards.
\* The claim is about all that its maker has signed, so a message of another
\* channel of its maker may refute it.
UpheldExitsStand ==
    \A claim \in claims : claim.upheld /\ KeepsOnly(claim.by, claim.msg) =>
        \A c \in Clients :
            Decide(Knowledge(c), ExitClaim(claim)).outcome # "no"

\* A claim is refuted only with a message that the claimant has signed after
\* the one it exits with: the justification names that message.
RefutationsAreNewer ==
    \A claim \in claims, c \in Clients :
        LET decision == Decide(Knowledge(c), ExitClaim(claim))
        IN  decision.outcome = "no" =>
                /\ Cardinality(decision.justification) = 3
                /\ \E p \in decision.justification :
                      /\ p.kind = "nonceLessThan"
                      /\ p.msg \in OwnSigned(claim.by)
                      /\ p.msg.nonce > claim.msg.nonce

\* An exit is refuted only with what its claimant signed and did not count,
\* while messages are read back as they were made.
ExitsInv == Readable => UpheldExitsStand /\ RefutationsAreNewer

\* Signatures reach their makers' databases first: what is ever signed.
AllSigned == UNION {{SignedMessage(c, m) : m \in OwnSigned(c)} : c \in Clients}

\* Properties about what a client may know a part of only.
SomeProperties ==
    LET older == [kind |-> "nonceLessThan", bound |-> 2]
        signedBy(p) == [kind |-> "signedBy", by |-> p]
        other(p) == CHOOSE q \in Clients : q # p
    IN  UNION {
          {ForAllSuchThat(MessagesSignedBy(p, AnyChannel), older),
           Not(ThereExistsSuchThat(MessagesSignedBy(p, 1),
                                   signedBy(other(p)))),
           Or(<<ThereExistsSuchThat(NonnegativeIntegerLessThan(3),
                                    [kind |-> "preimage"]),
                ForAllSuchThat(MessagesSignedBy(p, 1), older)>>),
           And(<<ForAllSuchThat(MessagesSignedBy(p, 1), signedBy(other(p))),
                 Not(Equality(<<p, other(p)>>))>>)} :
          p \in Clients}

\* What a client decides from what it knows is so, given all that was ever
\* signed: what others may have signed without its knowledge it leaves open.
\* Unless a message was misread: its alleged signer never signed it.
DecisionsAreSound ==
    Readable =>
        LET all == AllSigned
        IN  \A c \in Clients, p \in SomeProperties :
                LET outcome == Decide(Knowledge(c), p).outcome
                IN  outcome # "unknown" => (outcome = "yes") = Truth(all, p)

\* Unless a message crosses or overtakes another, is misread or not accepted,
\* or a channel is exited, every message is countersigned in the end, and both
\* know it.
EventuallyCountersigned ==
    []<>(\/ mishaps # {} \/ UNION Range(exited) # {}
         \/ \A c \in Clients : \A m \in store[c] : Cardinality(m.signers) = 2)

-----------------------------------------------------------------------------
(***************************************************************************)
(* What makes the properties inductive.                                    *)
(***************************************************************************)
Messages == [channel : Nat, nonce : Nat, data : Nat]
ParsedMessages == [sender : Clients, recipient : Clients, msg : Messages,
                   signers : SUBSET Clients]

Origin(m) == Parsed(m.sender, m.recipient, m.msg, {})

SameSlot(m, n) == m.channel = n.channel /\ m.nonce = n.nonce

DbType ==
    /\ store \in [Clients -> SUBSET ParsedMessages]
    /\ conflicts \in [Clients -> SUBSET (Nat \X Nat)]
    /\ signed \in [Clients -> SUBSET [by : Clients, msg : Messages]]
    /\ exited \in [Clients -> SUBSET Nat]

TasksType ==
    /\ tasks = [c \in Clients |-> tasks[c]]
    /\ \A c \in Clients : IsABag(tasks[c])
    /\ sent \subseteq [by : Clients, to : Clients, msg : Messages]

\* A channel has two parties and one first message; all are read as made.
MadeShape ==
    /\ created \in 0..Len(Balances) /\ made \subseteq ParsedMessages
    /\ \A m \in made : /\ m.sender # m.recipient /\ m.signers = {}
                       /\ m.msg.channel \in 1..created /\ m.msg.nonce >= 1
                       /\ ReadBack(m.msg) = m.msg
    /\ \A m, n \in made : m.msg.channel = n.msg.channel =>
          /\ {m.sender, m.recipient} = {n.sender, n.recipient}
          /\ m.msg.nonce = 1 /\ n.msg.nonce = 1 => m = n

\* What a client keeps and has not created was sent to it.
StoredShape(c, m) ==
    /\ Origin(m) \in made /\ c \in {m.sender, m.recipient}
    /\ m.signers \subseteq {m.sender, m.recipient}
    /\ \A p \in m.signers : SignedMessage(p, m.msg) \in signed[c]
    /\ \/ m.msg \in CreatedBy(c)
       \/ Envelope(Counterparty(c, m), c, m.msg) \in sent

\* A client keeps one message per channel and nonce, and has one channel with
\* a counterparty.
StoreShape(c) ==
    \A m, n \in store[c] :
        /\ SameSlot(m.msg, n.msg) => m = n
        /\ Counterparty(c, m) = Counterparty(c, n) =>
              m.msg.channel = n.msg.channel

\* A message is sent first by who creates it, and only if it is kept or
\* conflicts with one that is.
SentShape(n) ==
    /\ n.by # n.to /\ SignedMessage(n.by, n.msg) \in signed[n.by]
    /\ \E k \in Kept(n.by) : SameSlot(k, n.msg)
    /\ \/ Parsed(n.by, n.to, n.msg, {}) \in made
       \/ /\ Parsed(n.to, n.by, n.msg, {}) \in made
          /\ Envelope(n.to, n.by, n.msg) \in sent

\* A client signs what it creates, and of what it receives what is valid and
\* what it keeps.
SignedShape(c, s) ==
    /\ s \in signed[s.by]
    /\ s.by = c =>
          /\ \/ s.msg \in CreatedBy(c)
             \/ /\ s.msg \in Kept(c) /\ s.msg.data \notin Bad
                /\ \E d \in Clients : Parsed(d, c, s.msg, {}) \in made
          /\ s.msg.nonce = 1 \/ \E k \in Kept(c) : SameSlot(k, s.msg)

IsCreation(c, t) ==
    /\ t.at = "sign" /\ t.parsed.sender = c /\ t.parsed.signers = {}
    /\ \/ t.parsed.msg.nonce = 1
       \/ \E k \in Kept(c) : k.channel = t.parsed.msg.channel

IsReception(c, t) ==
    /\ t.at \in {"sign", "store", "check"}
    /\ t.parsed.recipient = c /\ t.parsed.signers = {t.parsed.sender}
    /\ Envelope(t.parsed.sender, c, t.parsed.msg) \in sent
    /\ t.at # "store" => Valid(t.parsed)
    /\ t.at = "sign" => t.parsed.msg \in Kept(c)
    /\ t.at = "check" =>
          \/ t.parsed.msg \in Kept(c)
          \/ <<t.parsed.msg.channel, t.parsed.msg.nonce>> \in conflicts[c]

\* A claim is about a message that both parties have signed.
ClaimShape(claim) ==
    /\ claim.by \in Clients /\ claim.against \in Clients
    /\ claim.by # claim.against
    /\ claim = [by |-> claim.by, against |-> claim.against,
                msg |-> claim.msg, upheld |-> claim.upheld]
    /\ claim.msg \in Kept(claim.by)
    /\ claim.msg \in OwnSigned(claim.by) \cap OwnSigned(claim.against)

IsExit(c, t) ==
    /\ t.at = "mark" /\ t.channel \in Nat
    /\ t.claim = NoClaim \/ /\ ClaimShape(t.claim) /\ ~t.claim.upheld
                            /\ t.claim.by = c /\ t.claim.msg.channel = t.channel

CallShape(c, t) ==
    \/ IsExit(c, t)
    \/ /\ t.parsed \in ParsedMessages /\ Origin(t.parsed) \in made
       /\ IsCreation(c, t) \/ IsReception(c, t)

\* Of messages that clients have received, they keep the same.
KeptAgree ==
    \A c, d \in Clients :
        \A m \in Kept(c) \ CreatedBy(c), n \in Kept(d) \ CreatedBy(d) :
            SameSlot(m, n) => m = n

\* Unless messages cross or overtake, one is made at a time, none conflicts,
\* and who has signed a message that it keeps has its signature with it.
MadeOnce == \A m, n \in made : SameSlot(m.msg, n.msg) => m = n

NoConflicts == \A c \in Clients : conflicts[c] = {}

MadeIsSigned(m) ==
    \/ SignedMessage(m.sender, m.msg) \in signed[m.sender]
    \/ \E t \in Calls(m.sender) : t.at = "sign" /\ t.parsed = m

SignedIsKept(c, m) ==
    \/ SignedMessage(c, m.msg) \notin signed[c]
    \/ c \in m.signers \/ m.msg.channel \in exited[c]
    \/ \E t \in Calls(c) : /\ t.at \in {"sign", "check"}
                           /\ t.parsed.msg = m.msg

OrderlyShape ==
    Orderly => /\ MadeOnce /\ NoConflicts
               /\ \A m \in made : MadeIsSigned(m)
               /\ \A c \in Clients : \A m \in store[c] : SignedIsKept(c, m)

Shapes ==
    /\ \A c \in Clients : /\ StoreShape(c)
                          /\ \A m \in store[c] : StoredShape(c, m)
                          /\ \A s \in signed[c] : SignedShape(c, s)
                          /\ \A t \in Calls(c) : CallShape(c, t)
    /\ \A n \in sent : SentShape(n)
    /\ \A claim \in claims : ClaimShape(claim)

Inv ==
    /\ DbType /\ TasksType /\ MadeShape /\ Shapes /\ KeptAgree /\ OrderlyShape
    /\ exits \in 0..MaxExits /\ mishaps \subseteq {"crossed", "overtaken", "bad"}

\* Who has upheld an exit claim, and has no other channel, has signed nothing
\* newer, and is not about to.
UpheldShape ==
    \A claim \in claims : claim.upheld /\ KeepsOnly(claim.by, claim.msg) =>
        /\ claim.msg.channel \in exited[claim.by]
        /\ \A m \in OwnSigned(claim.by) : m.nonce <= claim.msg.nonce
        /\ \A t \in Calls(claim.by) :
              t.at = "sign" => t.parsed.msg.nonce <= claim.msg.nonce
=============================================================================
