------------------------------- MODULE Devnet -------------------------------
(***************************************************************************)
(* The single-sequencer devnet (crates/node): wallets build transfers      *)
(* against the ledger's current anchor, the sequencer applies them in      *)
(* checkpoints and delivers nullifiers and outputs to every wallet.        *)
(***************************************************************************)
EXTENDS Checkpoint, Wallet

CONSTANTS
    GenesisNotes,   \* the notes that genesis hands to wallets
    Amounts         \* what a user asks a wallet to transfer

ASSUME GenesisNotesAssumption ==
    /\ Genesis = [k \in DOMAIN GenesisNotes |-> Commitment(GenesisNotes[k])]
    /\ GenesisSupply = SumFunction([k \in DOMAIN GenesisNotes |-> GenesisNotes[k].value])
    /\ GenesisNotes \in Seq([value : Nat, addr_tag : Wallets, rho : Nat])
    /\ Len(GenesisNotes) <= 10
    /\ \A k \in DOMAIN GenesisNotes : GenesisNotes[k].rho = RhoGenesis(k - 1)
ASSUME AmountsAssumption == Amounts \subseteq Nat

VARIABLES
    net,            \* the sequencer's ledger
    wallets,        \* wallet number -> wallet
    mempool,        \* transfers built and not yet applied, in order
    careless,       \* a wallet built a transfer while one of its own was waiting
    contended       \* wallets that had a transfer rejected as a double spend

dvars == <<net, wallets, mempool, careless, contended>>

current_anchor == [height |-> net.height, root |-> net.leaves]

-----------------------------------------------------------------------------
(* Genesis, and its notes delivered as any output: encrypted.              *)
GenesisOutput(note) == EncryptNote(note, AddressOf(note.addr_tag), 0)

Init ==
    /\ net = GenesisLedger
    /\ LET encs == [k \in DOMAIN GenesisNotes |-> GenesisOutput(GenesisNotes[k])]
       IN  wallets = [me \in Wallets |-> ReceiveAll(EmptyWallet, me, encs, 0)]
    /\ mempool = << >> /\ careless = FALSE /\ contended = {}

(* A wallet builds a transfer; building changes nothing in the wallet.     *)
Build(me, recipient, amount) ==
    /\ net.height < MaxHeight /\ Len(mempool) < MaxTxs
    /\ CanBuild(wallets[me], me, recipient, amount, current_anchor, net.leaves)
    /\ LET built == Built(wallets[me], me, recipient, amount, current_anchor, net.leaves)
       IN  mempool' = Append(mempool, [tx |-> built.tx, enc_outputs |-> built.enc_outputs,
                                       from |-> me, to |-> recipient])
    /\ careless' = (careless \/ \E k \in DOMAIN mempool : mempool[k].from = me)
    /\ UNCHANGED <<net, wallets, contended>>

(* Mutant of Deliver: the outputs of rejected transfers are delivered too. *)
DeliverAll(w, me, sent, verdicts, base) ==
    ReceiveAll(w, me, FlattenSeq([k \in DOMAIN sent |-> sent[k].enc_outputs]), base)

(* The outputs of the transfers not rejected, paired in order with the     *)
(* summary's output_positions, offered to wallet me.                       *)
Deliver(w, me, sent, verdicts, base) ==
    ReceiveAll(w, me,
               FlattenSeq([k \in DOMAIN sent |->
                   IF verdicts[k] = "Accepted" THEN sent[k].enc_outputs ELSE << >>]),
               base)

(* Demo::checkpoint on the first n waiting transfers: the nullifiers of    *)
(* all of them reach every wallet, then the outputs of the accepted ones.  *)
CheckpointFirst(n) ==
    LET sent == SubSeq(mempool, 1, n)
        txs == [k \in 1..n |-> sent[k].tx]
        verdicts == Scan(net, txs).verdicts
        all_nf == UNION {Nfs(txs[k]) : k \in 1..n}
    IN  /\ net.height < MaxHeight
        /\ net' = ApplyCheckpoint(net, txs)
        /\ wallets' = [me \in Wallets |->
              Deliver(ObserveNullifiers(wallets[me], me, all_nf), me, sent,
                      verdicts, Len(net.leaves))]
        /\ mempool' = SubSeq(mempool, n + 1, Len(mempool))
        /\ contended' = contended \cup
              {sent[k].from : k \in {j \in 1..n : verdicts[j] = "DoubleSpend"}}
        /\ UNCHANGED careless

(* The bound is reached: no more checkpoints.                              *)
Quiesce == net.height = MaxHeight /\ UNCHANGED dvars

Next ==
    \/ \E me, recipient \in Wallets, amount \in Amounts : Build(me, recipient, amount)
    \/ \E n \in 0..Len(mempool) : CheckpointFirst(n)
    \/ Quiesce

Spec == Init /\ [][Next]_dvars

-----------------------------------------------------------------------------
OwnerOf(leaf) == leaf.idx

NoteOf(leaf) == [value |-> leaf.value, addr_tag |-> leaf.idx, rho |-> leaf.id]

(* Positions of notes that were not minted and are unspent on the ledger.  *)
UnspentAt ==
    {p \in DOMAIN net.leaves :
        LET l == net.leaves[p]
        IN  /\ l.source = "output"
            /\ Nullifier(NoteOf(l), OwnerOf(l)) \notin net.nullifiers}

(* A wallet never counts money it does not have: each record it holds is   *)
(* its own note, at its position in the tree, unspent on the ledger, and   *)
(* held once.                                                              *)
NoPhantomFunds ==
    \A me \in Wallets :
        LET held == wallets[me].unspent
        IN  /\ \A k \in DOMAIN held :
                  /\ held[k].position + 1 \in UnspentAt
                  /\ NoteOf(net.leaves[held[k].position + 1]) = held[k].note
                  /\ held[k].note.addr_tag = me
            /\ \A j, k \in DOMAIN held : held[j].position = held[k].position => j = k

(* Transfers move value and never make or burn it: the notes unspent on    *)
(* the ledger, rewards aside, are worth the genesis allocation, whatever   *)
(* was built, delayed, rejected or spent twice.                            *)
ShieldedValueConserved ==
    SumFunction([p \in UnspentAt |-> net.leaves[p].value]) = GenesisSupply

(* Selection fails only if no two notes cover the amount, and what it      *)
(* picks are distinct notes that do.                                       *)
SelectionComplete ==
    \A me \in Wallets, amount \in 0..GenesisSupply :
        LET held == wallets[me].unspent
            value(k) == held[k].note.value
            coverable == \/ amount = 0
                         \/ \E j, k \in DOMAIN held :
                               (IF j = k THEN value(j) ELSE value(j) + value(k)) >= amount
        IN  /\ Selects(held, amount) <=> coverable
            /\ Selects(held, amount) =>
                  LET picked == SelectInputs(held, amount).picked
                  IN  /\ Len(picked) <= 2
                      /\ SumFunction(Values(picked)) >= amount
                      /\ \A j, k \in DOMAIN picked : picked[j] = picked[k] => j = k

(* A built transfer pays whom it should and nobody else: its first output  *)
(* opens for the recipient and its second for the sender, each as exactly  *)
(* the note committed to, and for no other wallet.                         *)
PaysTheAddressee ==
    \A n \in DOMAIN mempool, me \in Wallets :
        LET item == mempool[n]
            owner == <<item.to, item.from>>
        IN  Scanned(item.enc_outputs, IncomingViewingKey(SpendingKey(me)))
              = [k \in {j \in 1..2 : owner[j] = me} |-> NoteOf(item.tx.commitments[k])]

(* A wallet whose notes cover an amount can always transfer it on the      *)
(* current anchor: the ledger's witnesses satisfy the statement, and the   *)
(* public inputs that the node recomputes from the wire are those proved,  *)
(* whatever the order in which inputs were picked.                         *)
FundedTransfersVerify ==
    \A me, recipient \in Wallets, amount \in Amounts :
        LET built == Built(wallets[me], me, recipient, amount, current_anchor, net.leaves)
        IN  Selects(wallets[me].unspent, amount) =>
                built.proved /\ ValidateStateless(built.tx)

(* The hybrid rule, "confidentiality holds if either the X25519 or the     *)
(* ML-KEM leg is unbroken": an output that waits opens for a reader with   *)
(* both secrets of its owner and the owner's tag, and not for one who has  *)
(* any of the three from another wallet.                                   *)
BothLegsNeeded ==
    \A n \in DOMAIN mempool, k \in 1..2, classical, quantum, tag \in Wallets :
        LET owner == <<mempool[n].to, mempool[n].from>>[k]
            reader == [x25519_sk |-> X25519Secret(classical), kem_dk |-> KemSecret(quantum),
                       addr_tag |-> AddrTag(tag)]
        IN  Opens(mempool[n].enc_outputs[k], reader)
                <=> classical = owner /\ quantum = owner /\ tag = owner

(* Texts that differ from an address: a prefix mistaken, a cell lost, one  *)
(* too many, another version, or one cell taken from another address.      *)
Mistyped(text) ==
    {[text EXCEPT !.prefix = "xyz1"],
     [text EXCEPT !.data = SubSeq(@, 1, 4)],
     [text EXCEPT !.data = Append(@, text.data[5])],
     [text EXCEPT !.data[1] = 1]}
    \cup {[text EXCEPT !.data[k] = EncodeAddress(AddressOf(w)).data[k]] :
             k \in 2..5, w \in Wallets}

(* No note is lost to a typo: a note that a wallet has, sent on to the     *)
(* address that a text of a recipient's address decodes to, arrives as     *)
(* that note at that recipient and at nobody else; and the text without a  *)
(* typo decodes.                                                           *)
NoNoteLostToATypo ==
    \A me, recipient \in Wallets : \A k \in DOMAIN wallets[me].unspent :
        LET text == EncodeAddress(AddressOf(recipient))
            sent(to) == [wallets[me].unspent[k].note EXCEPT !.addr_tag = to.addr_tag]
        IN  /\ "address" \in DOMAIN DecodeAddress(text)
            /\ \A typed \in {text} \cup Mistyped(text) :
                  LET decoded == DecodeAddress(typed)
                  IN  "address" \in DOMAIN decoded =>
                        \A reader \in Wallets :
                           LET enc == EncryptNote(sent(decoded.address), decoded.address, 10)
                               found == Scanned(<<enc>>, IncomingViewingKey(reader))
                           IN  found = IF reader = recipient
                                       THEN <<sent(AddressOf(recipient))>> ELSE << >>

(* "drop any of our notes that have been spent": a wallet gives up a note  *)
(* only if it is spent on the ledger.                                      *)
DropsOnlySpentNotes ==
    \A p \in UnspentAt :
        net.leaves[p].value > 0 =>
            \E k \in DOMAIN wallets[OwnerOf(net.leaves[p])].unspent :
                wallets[OwnerOf(net.leaves[p])].unspent[k].position + 1 = p

(* "honest users never contend": if every wallet waits for its transfer to *)
(* be applied before it builds another, no transfer is a double spend.     *)
HonestNeverContends == ~careless => contended = {}
=============================================================================
