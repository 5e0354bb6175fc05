------------------------------- MODULE Deciders -------------------------------
(***************************************************************************)
(* The deciders and quantifiers of the OVM (ovm/src/app/deciders,          *)
(* ovm/src/app/quantifiers) over what one client knows: the signatures and *)
(* the preimages in its databases (ovm/src/app/db).                        *)
(*                                                                         *)
(* A property is a record that names its decider and its input.  A         *)
(* property factory is such a record without the input that a quantifier   *)
(* gives it.  A decision has an outcome, "yes", "no" or "unknown" (the     *)
(* CannotDecideError), and a justification: the properties it rests on,    *)
(* without their order.  The values of a quantifier are a set; the code    *)
(* takes them in the order of database keys, which are hashes of messages. *)
(***************************************************************************)
EXTENDS Integers, SequencesExt

AnyChannel == 0

\* A database keeps, by signer, the messages whose signature it has seen.
SignedMessage(by, msg) == [by |-> by, msg |-> msg]

SignedBy(by, msg) == [kind |-> "signedBy", by |-> by, msg |-> msg]
NonceLessThan(msg, bound) ==
    [kind |-> "nonceLessThan", msg |-> msg, bound |-> bound]
PreimageExists(hash) == [kind |-> "preimage", hash |-> hash]
Equality(items) == [kind |-> "equality", items |-> items]
Not(property) == [kind |-> "not", property |-> property]
And(properties) == [kind |-> "and", properties |-> properties]
Or(properties) == [kind |-> "or", properties |-> properties]
ForAllSuchThat(quantifier, factory) ==
    [kind |-> "forAll", quantifier |-> quantifier, factory |-> factory]
ThereExistsSuchThat(quantifier, factory) ==
    [kind |-> "thereExists", quantifier |-> quantifier, factory |-> factory]

MessagesSignedBy(address, channel) ==
    [kind |-> "signed", address |-> address, channel |-> channel]
IntegerRange(start, end) ==
    [kind |-> "integers", start |-> start, end |-> end]

NonnegativeIntegerLessThan(bound) == IntegerRange(0, bound)

\* A number is written with hexadecimal digits, and these are read as decimal
\* ones: 16 as 10, and so any number from 16 on as a smaller one.
ReadNumber[n \in Nat] ==
    IF n < 16 THEN n ELSE 10 * ReadNumber[n \div 16] + (n % 16)

\* The message that a message's text is read back as.
ReadBack(msg) ==
    [msg EXCEPT !.nonce = ReadNumber[@], !.data = ReadNumber[@]]

\* What the quantifier's value, a text, is put into; of a nonce, what it says.
Instance(factory, value) ==
    CASE factory.kind = "nonceLessThan" ->
            NonceLessThan(ReadBack(value), factory.bound)
      [] factory.kind = "signedBy" -> SignedBy(factory.by, value)
      [] factory.kind = "preimage" -> PreimageExists(value)

-----------------------------------------------------------------------------
Quantified(signed, q) ==
    IF q.kind = "integers" THEN q.start..(q.end - 1)
    ELSE {s.msg : s \in {r \in signed :
            /\ r.by = q.address
            /\ q.channel \in {AnyChannel, r.msg.channel}}}

\* Mutant: takes the signatures it has seen for all there are.
AllResultsQuantified_Seen(me, q) == TRUE

\* Only its own messages does a client know to be all there are.
AllResultsQuantified(me, q) == q.kind = "integers" \/ q.address = me

Decision(outcome, justification) ==
    [outcome |-> outcome, justification |-> justification]

CannotDecide == Decision("unknown", {})

\* One decision of the deciding outcome is enough, whatever is unknown; the
\* other outcome takes all of them.
Combined(property, decisions, complete, deciding, other) ==
    LET found == {d \in Range(decisions) : d.outcome = deciding}
    IN  IF found # {}
        THEN Decision(deciding,
                      {property} \cup (CHOOSE d \in found : TRUE).justification)
        ELSE IF ~complete \/ \E d \in Range(decisions) : d.outcome = "unknown"
        THEN CannotDecide
        ELSE Decision(other, {property} \cup
                             UNION {d.justification : d \in Range(decisions)})

DecideAnd(p, decisions) == Combined(p, decisions, TRUE, "no", "yes")

DecideOr(p, decisions) == Combined(p, decisions, TRUE, "yes", "no")

DecideForAll(p, decisions, complete) ==
    Combined(p, decisions, complete, "no", "yes")

DecideThereExists(p, decisions, complete) ==
    Combined(p, decisions, complete, "yes", "no")

\* Only of its own signature does a client know that there is none.
DecideSignedBy(k, p) ==
    IF SignedMessage(p.by, p.msg) \in k.signed THEN Decision("yes", {p})
    ELSE IF p.by = k.me THEN Decision("no", {p})
    ELSE CannotDecide

DecideNonceLessThan(p) ==
    Decision(IF p.msg.nonce < p.bound THEN "yes" ELSE "no", {p})

DecidePreimage(k, p) ==
    IF p.hash \in k.preimages THEN Decision("yes", {p}) ELSE CannotDecide

DecideEquality(p) ==
    Decision(IF \E i \in DOMAIN p.items : p.items[i] # p.items[1]
             THEN "no" ELSE "yes", {p})

Negated(p, decision) ==
    CASE decision.outcome = "unknown" -> CannotDecide
      [] decision.outcome = "yes" -> Decision("no", {p} \cup decision.justification)
      [] decision.outcome = "no" -> Decision("yes", {p} \cup decision.justification)

Simple == {"signedBy", "nonceLessThan", "preimage", "equality"}

DecideSimple(k, p) ==
    CASE p.kind = "signedBy" -> DecideSignedBy(k, p)
      [] p.kind = "nonceLessThan" -> DecideNonceLessThan(p)
      [] p.kind = "preimage" -> DecidePreimage(k, p)
      [] p.kind = "equality" -> DecideEquality(p)

\* A property made of others, about which Part decides.
DecideCompound(k, p, Part(_, _)) ==
    LET each(properties) ==
            [i \in DOMAIN properties |-> Part(k, properties[i])]
        instances == [v \in Quantified(k.signed, p.quantifier) |->
                         Instance(p.factory, v)]
        complete == AllResultsQuantified(k.me, p.quantifier)
    IN  CASE p.kind = "not" -> Negated(p, Part(k, p.property))
          [] p.kind = "and" -> DecideAnd(p, each(p.properties))
          [] p.kind = "or" -> DecideOr(p, each(p.properties))
          [] p.kind = "forAll" -> DecideForAll(p, each(instances), complete)
          [] p.kind = "thereExists" ->
                DecideThereExists(p, each(instances), complete)

DecideFlat(k, p) ==
    IF p.kind \in Simple THEN DecideSimple(k, p)
    ELSE DecideCompound(k, p, DecideSimple)

\* What a client that knows k = [me, signed, preimages] decides.  The bound:
\* properties are nested two deep, as those that clients exit with are.
Decide(k, p) ==
    IF p.kind \in Simple THEN DecideSimple(k, p)
    ELSE DecideCompound(k, p, DecideFlat)

-----------------------------------------------------------------------------
(***************************************************************************)
(* What a property says, given all signatures ever made: the reference that*)
(* decisions are checked against.                                          *)
(***************************************************************************)
SimpleTruth(signed, p) ==
    CASE p.kind = "signedBy" -> SignedMessage(p.by, p.msg) \in signed
      [] p.kind = "nonceLessThan" -> p.msg.nonce < p.bound
      [] p.kind = "preimage" -> TRUE
      [] p.kind = "equality" ->
            \A i, j \in DOMAIN p.items : p.items[i] = p.items[j]

CompoundTruth(signed, p, Part(_, _)) ==
    LET values == Quantified(signed, p.quantifier)
    IN  CASE p.kind = "not" -> ~Part(signed, p.property)
          [] p.kind = "and" -> \A i \in DOMAIN p.properties :
                                   Part(signed, p.properties[i])
          [] p.kind = "or" -> \E i \in DOMAIN p.properties :
                                  Part(signed, p.properties[i])
          [] p.kind = "forAll" ->
                \A v \in values : Part(signed, Instance(p.factory, v))
          [] p.kind = "thereExists" ->
                \E v \in values : Part(signed, Instance(p.factory, v))

FlatTruth(signed, p) ==
    IF p.kind \in Simple THEN SimpleTruth(signed, p)
    ELSE CompoundTruth(signed, p, SimpleTruth)

Truth(signed, p) ==
    IF p.kind \in Simple THEN SimpleTruth(signed, p)
    ELSE CompoundTruth(signed, p, FlatTruth)
=============================================================================
