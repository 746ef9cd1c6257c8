------------------------------ MODULE Admission ------------------------------
(***************************************************************************)
(* A transaction's way from its sender's bytes to the ledger: both         *)
(* anti-spam lanes (antispam-quota, antispam-pow), the codec and the       *)
(* stateless checks (tx), and the ledger's rules that decide between them  *)
(* (state).  Bytes that were sent may arrive late, in any order, several   *)
(* times, damaged in one place, or never.                                  *)
(*                                                                         *)
(* A transaction is applied by a checkpoint of its own, and its sender is  *)
(* told the epoch of that checkpoint (module Ledger has the batches and    *)
(* the epoch boundary).  In production a zero-knowledge proof attests a    *)
(* rate proof; it is not in the repository, where a rate proof may arrive  *)
(* altered and pass.  The variable altered tells whether one has.          *)
(***************************************************************************)
EXTENDS RateLimit, Puzzle, Wire, FiniteSets

CONSTANTS
    Stakers,            \* quota keys, from 1
    StakeOf,            \* the stake of each
    Messages,           \* the bodies that can be sent: Digest's fields
    MessageX(_),        \* message_x: the field element a digest hashes to
    AnchorsValid,       \* the anchors inside the window
    DifficultyBits,     \* Ledger::difficulty_bits
    MaxEpoch,           \* bound: epochs
    MaxSends            \* bound: transactions sent

Epochs == 0..MaxEpoch

(* Quota keys are numbers and 0 is nobody's: it stands for a sender of the *)
(* proof-of-work lane.                                                     *)
ASSUME StakersAssumption ==
    Stakers \subseteq Nat \ {0} /\ StakeOf \in [Stakers -> Nat] /\ MaxEpoch \in Nat

(* Rate nullifiers of different slots hash apart, and to no zero.          *)
ASSUME RateHashAssumption ==
    \A q, r \in Stakers, d, e \in Epochs : \A j \in 0..StakeOf[q], k \in 0..StakeOf[r] :
        /\ RateHash(q, d, j) \in Nat \ {0}
        /\ RateHash(q, d, j) = RateHash(r, e, k) => q = r /\ d = e /\ j = k

(* What differs between messages hashes apart, and to no zero.             *)
ASSUME MessageAssumption ==
    /\ Messages \subseteq [anchor : [height : Nat, root : Nat], nullifiers : Nat \X Nat,
                           commitments : Nat \X Nat, enc_outputs : Nat \X Nat]
    /\ \A m \in Messages : MessageX(Digest(m)) \in Field \ {0}
    /\ \A m, n \in Messages : MessageX(Digest(m)) = MessageX(Digest(n)) => m = n
    /\ \A m \in Messages : Solutions(Digest(m), DifficultyBits) # {}

VARIABLES
    notes,      \* the quota note of each staker
    sent,       \* what was sent: by whom, in which slot, the message, the bytes
    epoch,      \* the epoch of the checkpoint being built
    registry,   \* QuotaRegistry.seen
    spent,      \* Ledger.nullifiers
    accepted,   \* history: the transactions applied, as they were decoded
    slashed,    \* history: the secrets admit gave away
    altered     \* history: a rate proof has arrived that its staker did not make

vars == <<notes, sent, epoch, registry, spent, accepted, slashed, altered>>

-----------------------------------------------------------------------------
(* A body with its lane's artifact and its proof.                          *)
Signed(message, antispam) ==
    [anchor |-> message.anchor, nullifiers |-> message.nullifiers,
     commitments |-> message.commitments, enc_outputs |-> message.enc_outputs,
     antispam |-> antispam, proof |-> DevProof(ToPublicInputs(message))]

(* Mutant of ValidateStateless: the proof is not verified.                 *)
ValidateUnproved(tx) ==
    IF tx.nullifiers[1] >= tx.nullifiers[2] THEN "NullifierOrder"
    ELSE IF tx.antispam.lane = "pow"
    THEN IF PowVerify(Digest(tx), tx.antispam.nonce, DifficultyBits) THEN "Ok"
         ELSE "PowInvalid"
    ELSE IF tx.antispam.x = MessageX(Digest(tx)) THEN "Ok" ELSE "QuotaInvalid"

(* A decoded proof has the bucket's size, so ProofSize does not occur.     *)
ValidateStateless(tx) ==
    IF tx.nullifiers[1] >= tx.nullifiers[2] THEN "NullifierOrder"
    ELSE IF tx.antispam.lane = "pow"
            /\ ~PowVerify(Digest(tx), tx.antispam.nonce, DifficultyBits) THEN "PowInvalid"
    ELSE IF tx.antispam.lane = "quota"
            /\ tx.antispam.x # MessageX(Digest(tx)) THEN "QuotaInvalid"
    ELSE IF ~DevVerify(ToPublicInputs(tx), tx.proof) THEN "ProofInvalid"
    ELSE "Ok"

(* Mutant of QuotaVerdict: the epoch is left to the registry's key.        *)
QuotaVerdictAnyEpoch(reg, proof) == AdmitProof(reg, proof)

(* The ledger's quota rule: the registry is asked for the current epoch    *)
(* only.                                                                   *)
QuotaVerdict(reg, proof) ==
    IF proof.epoch # epoch THEN [verdict |-> "WrongEpoch"] ELSE AdmitProof(reg, proof)

(* What becomes of bytes that arrive, given the registry.                  *)
Outcome(bytes, reg) ==
    LET decoded == Decode(bytes)
    IN  IF "error" \in DOMAIN decoded THEN [verdict |-> decoded.error]
        ELSE LET tx == decoded.tx
                 stateless == ValidateStateless(tx)
             IN  IF tx.anchor \notin AnchorsValid THEN [verdict |-> "StaleOrUnknownAnchor"]
                 ELSE IF stateless # "Ok" THEN [verdict |-> stateless]
                 ELSE IF Range(tx.nullifiers) \cap spent # {} THEN [verdict |-> "DoubleSpend"]
                 ELSE IF tx.antispam.lane = "quota" THEN QuotaVerdict(reg, tx.antispam)
                 ELSE [verdict |-> "Ok"]

-----------------------------------------------------------------------------
(* A quota note with what its key derives: the secret, and a slope for     *)
(* each epoch.  Hashes to the field are unknown, so seed is left open.     *)
QuotaNote(q, seed) ==
    [key |-> q, stake |-> StakeOf[q], a0 |-> Reduce(seed + q),
     a1 |-> [e \in Epochs |-> Reduce(seed * seed + q + 2 * e)]]

Init ==
    /\ \E seed \in Field : notes = [q \in Stakers |-> QuotaNote(q, seed)]
    /\ sent = {}
    /\ epoch = 0
    /\ registry = << >>
    /\ spent = {}
    /\ accepted = {}
    /\ slashed = {}
    /\ altered = FALSE

(* The bound on what is sent, one lower when rate proofs arrive altered.   *)
SendsAllowed == IF altered THEN MaxSends - 1 ELSE MaxSends

(* A staker signs a message for a slot of its own.  A slot may be used for *)
(* several messages: that is what slashing is for.                         *)
SendQuota(q, k, m) ==
    /\ Cardinality(sent) < SendsAllowed
    /\ CanSignal(notes[q], k)
    /\ LET proof == Signal(notes[q], epoch, k, MessageX(Digest(m)))
           antispam == [lane |-> "quota", epoch |-> proof.epoch,
                        rate_nullifier |-> proof.rate_nullifier,
                        x |-> proof.x, y |-> proof.y]
       IN  sent' = sent \cup {[by |-> q, epoch |-> epoch, slot |-> k, message |-> m,
                               bytes |-> Encode(Signed(m, antispam))]}
    /\ UNCHANGED <<notes, epoch, registry, spent, accepted, slashed, altered>>

(* Anybody sends a message with a solved puzzle.                           *)
SendPow(m) ==
    /\ Cardinality(sent) < SendsAllowed
    /\ LET antispam == [lane |-> "pow", nonce |-> Solve(Digest(m), DifficultyBits)]
       IN  sent' = sent \cup {[by |-> 0, epoch |-> epoch, slot |-> 0, message |-> m,
                               bytes |-> Encode(Signed(m, antispam))]}
    /\ UNCHANGED <<notes, epoch, registry, spent, accepted, slashed, altered>>

(* What the network may make of sent bytes: nothing, a part, an excess, or *)
(* one cell changed that does not belong to a rate proof.                  *)
Damaged(bytes) ==
    LET changeable == (1..16) \ IF bytes[10] = QUOTA_TAG THEN 11..14 ELSE {}
        values(i) == CASE i = 10 -> {0, POW_TAG, QUOTA_TAG}
                       [] i = 15 -> {<< >>}
                       [] OTHER  -> {0, bytes[i] + P}
    IN  {SubSeq(bytes, 1, n) : n \in {0, 9, 15}} \cup {Append(bytes, 0)}
          \cup UNION {{[bytes EXCEPT ![i] = v] : v \in values(i)} : i \in changeable}

(* Sent bytes with one field of the rate proof changed: epoch, nullifier,  *)
(* x or y.  validate_stateless compares x with the digest and the ledger   *)
(* the epoch with its own; nothing ties the others to the staker.          *)
Altered(bytes) ==
    IF bytes[10] # QUOTA_TAG THEN {}
    ELSE {[bytes EXCEPT ![i] = @ + 1] : i \in 11..14}

Arriving == UNION {{s.bytes} \cup Damaged(s.bytes) : s \in sent}

(* Bytes arrive and a checkpoint applies them.                             *)
Deliver(bytes) ==
    LET outcome == Outcome(bytes, registry)
    IN  /\ \/ /\ outcome.verdict = "Ok"
              /\ LET tx == Decode(bytes).tx
                 IN  /\ registry' = IF tx.antispam.lane = "quota"
                                    THEN Recorded(registry, tx.antispam) ELSE registry
                     /\ spent' = spent \cup Range(tx.nullifiers)
                     /\ accepted' = accepted \cup {tx}
              /\ UNCHANGED slashed
           \/ /\ outcome.verdict = "Slash"
              /\ slashed' = slashed \cup {[slot |-> SlotOf(Decode(bytes).tx.antispam),
                                           secret |-> outcome.secret]}
              /\ UNCHANGED <<registry, spent, accepted>>
           \/ /\ outcome.verdict \notin {"Ok", "Slash"}
              /\ UNCHANGED <<registry, spent, accepted, slashed>>
        /\ UNCHANGED <<notes, sent, epoch>>

(* The same of an altered rate proof.                                      *)
DeliverAltered(bytes) ==
    /\ Cardinality(sent) < MaxSends
    /\ Deliver(bytes)
    /\ altered' = TRUE

(* Checkpoints pass until the epoch has changed.                           *)
NextEpoch ==
    /\ epoch < MaxEpoch
    /\ epoch' = epoch + 1
    /\ UNCHANGED <<notes, sent, registry, spent, accepted, slashed, altered>>

Next ==
    \/ \E q \in Stakers, m \in Messages : \E k \in 0..StakeOf[q] : SendQuota(q, k, m)
    \/ \E m \in Messages : SendPow(m)
    \/ \E bytes \in Arriving : Deliver(bytes) /\ UNCHANGED altered
    \/ \E s \in sent : \E bytes \in Altered(s.bytes) : DeliverAltered(bytes)
    \/ NextEpoch

Spec == Init /\ [][Next]_vars

-----------------------------------------------------------------------------
(* The slots of one staker in one epoch, by the rate nullifier on the wire.*)
SlotsOf(q, e) == {<<e, RateNullifier(notes[q], e, k)>> : k \in 0..(QuotaOf(notes[q]) - 1)}

(* QuotaRegistry::admit recovers a secret only from a staker who signed    *)
(* two messages for one slot, and recovers that staker's: whatever the     *)
(* secret and the slope are, in whichever order the two shares arrive, and *)
(* with other stakers, repeated deliveries and damage in between.  It does *)
(* presume shares that signal made: y is not checked.                      *)
SlashNamesTheReuser ==
    ~altered =>
        \A s \in slashed : \E a, b \in sent :
            /\ a.message # b.message
            /\ a.by \in Stakers /\ <<a.by, a.epoch, a.slot>> = <<b.by, b.epoch, b.slot>>
            /\ s.slot = <<a.epoch, RateNullifier(notes[a.by], a.epoch, a.slot)>>
            /\ s.secret = notes[a.by].a0

(* A staker's stake bounds what it gets through in an epoch, however often *)
(* it signs and however its transactions are delayed and repeated: admit   *)
(* answers Ok once per slot, and signal gives out quota() slots.  What     *)
(* comes into its slots because a rate proof was altered counts as well.   *)
AdmissionsWithinQuota ==
    \A q \in Stakers, e \in Epochs :
        Cardinality({tx \in accepted : /\ tx.antispam.lane = "quota"
                                       /\ SlotOf(tx.antispam) \in SlotsOf(q, e)})
            <= QuotaOf(notes[q])

(* A staker who used a slot for one message has it accepted on arrival in  *)
(* that epoch, unless a note it spends is gone: no other staker, no damaged*)
(* delivery and no earlier epoch can take the slot.  An altered rate proof *)
(* can.                                                                    *)
FairUseAdmitted ==
    \A s \in sent :
        (/\ ~altered
         /\ s.by \in Stakers /\ s.epoch = epoch
         /\ \A t \in sent \ {s} :
               <<t.by, t.epoch, t.slot>> = <<s.by, s.epoch, s.slot>> => t.message = s.message
         /\ Range(s.message.nullifiers) \cap spent = {})
        => Outcome(s.bytes, registry).verdict = "Ok"

(* What is applied was sent, and is applied once: damage to any bound      *)
(* field, to the version, the lane or the proof is caught by decode, by the*)
(* lane's binding to the digest or by the proof, also when the damaged     *)
(* body's hash collides with the sent one's or happens to solve the puzzle.*)
(* A nonce may become another solution.  A rate proof that is altered on   *)
(* the way keeps its x, and moves a transaction to another slot or changes *)
(* its share, nothing more: the double-spend check comes before the        *)
(* registry, so the body is not applied again that way.                    *)
AcceptedIsAuthentic ==
    /\ \A tx \in accepted : \E s \in sent :
          LET original == Decode(s.bytes).tx
          IN  /\ tx = [original EXCEPT !.antispam = tx.antispam]
              /\ tx.antispam.lane = original.antispam.lane
              /\ tx.antispam.lane = "quota" =>
                    /\ tx.antispam.x = original.antispam.x
                    /\ ~altered => tx.antispam = original.antispam
    /\ \A t, u \in accepted : Digest(t) = Digest(u) => t = u

(* One transaction, one encoding: whatever arrives and decodes encodes to  *)
(* the same bytes, of the one length, so that padding can carry nothing    *)
(* (TxV1::encode, decode and AntiSpam::from_wire).                         *)
CanonicalWire ==
    \A bytes \in Arriving :
        LET decoded == Decode(bytes)
        IN  "tx" \in DOMAIN decoded =>
                Encode(decoded.tx) = bytes /\ Len(bytes) = ENCODED_LEN

(* The registry's slots of past epochs decide nothing any more: without    *)
(* them every delivery, late ones of those epochs included, has the same   *)
(* outcome.  The code never removes them.                                  *)
PruningIsSafe ==
    LET live == [s \in {t \in DOMAIN registry : t[1] = epoch} |-> registry[s]]
    IN  \A s \in sent : Outcome(s.bytes, registry) = Outcome(s.bytes, live)

(* The value of a hash read as one number.                                 *)
HashValue(h) ==
    LET upto[k \in 0..Len(h)] == IF k = 0 THEN 0 ELSE upto[k - 1] * 2^BYTE_BITS + h[k]
    IN  upto[Len(h)]

(* The puzzle is a threshold: a hash has d leading zero bits exactly when  *)
(* it is below 2^(bits - d), for every hash and difficulty.  And what solve*)
(* finds is the least nonce that verifies.                                 *)
PuzzleThreshold ==
    /\ \A h \in Hashes, d \in 0..(BYTE_BITS * HASH_BYTES + 1) :
          LeadingZeroBits(h) >= d <=>
              d <= BYTE_BITS * HASH_BYTES /\ HashValue(h) < 2^(BYTE_BITS * HASH_BYTES - d)
    /\ \A s \in sent : s.by = 0 =>
          LET nonce == Decode(s.bytes).tx.antispam.nonce
          IN  \A n \in 0..nonce :
                PowVerify(Digest(s.message), n, DifficultyBits) <=> n = nonce
=============================================================================
