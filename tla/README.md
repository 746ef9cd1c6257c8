# A TLA+ model of the shielded ledger

The repository is a feeless, mandatory-privacy ledger in Rust: a checkpoint
state machine over note commitments and nullifiers, a deterministic consensus
model that feeds it, wallets that build transfers, and a single-sequencer devnet
that drives all of it. This directory models the parts that keep state and
decide things, checks them with TLC on small instances, and proves with TLAPS,
for every instance, every property that the passing runs check: of the ledger, its
contract, the consensus model, recovery, admission, the spend statement, and the
devnet with its wallets.

`PROJECT.json` is the index: components, runs, mutants, the map from
definitions to source lines, findings, hazards and theorems.

## 1. The system

| Part (crate) | State | Operations | Talks to |
|---|---|---|---|
| `state` (`Ledger`) | tree, nullifier set, quota registry, height, supply | `genesis`, `apply_checkpoint`, `audit_supply`, `persist`, `restore` | calls tree, tx, quota, emission, storage |
| `tree` | leaves, deque of sealed anchors | `append`, `root`, `witness`, `seal`, `anchor_valid`, `verify_path` | owned by the ledger |
| `tx` | none | `binding_digest`, `validate_stateless`, wire codec | calls the verifier, PoW, quota |
| `antispam-quota` | used slot -> first share | the field, `signal`, `admit` | owned by the ledger |
| `antispam-pow` | none | `solve`, `verify` | called by tx and wallet |
| `emission` | none | `decay_factor`, `emission_at`, `distribute`, `reward_descriptor` | called by the ledger |
| `consensus` (`Cluster`) | replicas, each a ledger | `commit_order`, `commit_round` | drives ledgers |
| `storage` (`Store`) | three redb tables | `open`, `commit_checkpoint`, `meta`, `load_*` | called by `persist`, `restore` |
| `notes`, `prover-dev` | none | commitment, nullifier, rho; `check_spend_statement`, `prove` | called by wallet and verifier |
| `wallet` | unspent records, seen nullifiers | `try_receive`, `observe_nullifiers`, `select_inputs`, `build_transfer` | driven by the node |
| `node` | a ledger, wallets | the demo: transfers and `Demo::checkpoint` | drives ledger and wallets |
| `keys`, `encryption` | none | derivation, address text, `encrypt_note`, `try_decrypt`, `scan` | used by wallet and node |
| `knockout` | none | a battery of mutated spends that must be rejected | calls prover-dev and tree |
| `primitives`, `testkit`, `sim`, `circuit-bench` | none | hashing, vectors, tables, benchmark | none |

What is hard here:

* **Order inside a call.** `apply_checkpoint` checks against two sets, stages,
  commits, mints and seals. A step in the wrong place accepts a double spend,
  burns a sender's slot, or shifts every position a wallet is told.
* **The anchor window.** A transaction may cite any root of the last
  `ANCHOR_WINDOW` heights. Eviction is by height difference with a saturating
  subtraction, and is wrong, if at all, at one height only.
* **Agreement.** Nodes hear a round in different orders. Everything a ledger
  does must be a function of the committed set.
* **Restart.** Not all of the ledger is persisted, and a crash may come between
  applying and persisting.
* **Wallets act on stale state.** Nothing is reserved when a transfer is built,
  and what comes back about it may say that it was rejected.
* **Admission over a network that damages.** Bytes arrive cut, changed, late and
  repeated; two lanes share one digest; a slot used twice must give away
  exactly the secret of whoever did it, whatever the order of the shares.
* **Agreement on bytes between parts.** Wallet, prover, verifier and wire each
  order inputs, pad trees and derive keys on their own; one out of step, and
  some transfers of some wallets fail, or an output opens for nobody.

Properties that make each part correct: *ledger*: no double spend, a spent set
that is exact, rejected transactions without effect, one transaction per slot,
positions that locate outputs, an audited supply; *tree*: append-only, window exact, a path proves its leaf under its root and nothing
else; *tx and both lanes*: one encoding per transaction, nothing accepted that
was not sent, no body applied twice, quota respected, fair use never refused,
slashing names the reuser; *prover*: every constraint needed, alone and in pairs; *consensus*: submission order irrelevant, nothing
uncontested lost; *storage*: one snapshot, a restart that nobody notices and
whose losses heal;
*wallet and node*: value conserved, no phantom funds, nothing given up that is
unspent, what is covered can be sent, and only the addressee reads it.

## 2. Modules

```
LedgerOps ---- Ledger -- LedgerAudit (with Emission)
    |             |
    |             +----- LedgerRefinement -> LedgerContract
    |
    +--- Checkpoint ---- Consensus -> LedgerContract
    |        |
    |        +---------- Recovery
    |        |
    +-- Wallet ---- Devnet -- DevnetMismatch
          |
Tree -- SpendStatement -- Knockout
Keys -- Encryption -- Wallet
RateLimit, Puzzle, Wire -- Admission

FoldTheorems -- CheckpointProofs -- LedgerProofs, ConsensusProofs,
     |                              RecoveryProofs, DevnetProofs
     +-- AdmissionProofs, KnockoutProofs
```

`--` is EXTENDS, `->` an INSTANCE with a refinement mapping. Each proof module
also extends the module that it is about (LedgerProofs those of the audit and of
the refinement too, FoldTheorems the tree).

* **LedgerOps**: transactions, `ValidateStateless`, the deque (`Sealed`,
  `EvictStale`, `AnchorValid`), the registry (`Admit`, `RegistryAfter`) and
  `Verdict`, the ordered checks of the scan loop on one transaction.
* **Ledger**: `struct Ledger` and `apply_checkpoint`, one step per loop
  iteration. `pc`, `i` and the locals make each step mandatory and in the code's
  order. `RejectTx` covers all four `continue`s: each only records a reason.
  `AcceptTx` takes the quota slot at once (as `admit` does) and stages the rest;
  `CommitStaged`, `MintReward`, `SealCheckpoint` are the rest of the call.
  `log` and `roots` are history variables that no guard reads, except that the
  environment picks anchors among `roots`.
* **Emission**, **LedgerAudit**: the schedule and the split of rewards, and the
  supply audit over the ledger that mints from them.
* **LedgerContract**: what a checkpoint promises, in one step and without
  staging, deque or registry. The winners of a batch are the one set in which
  every member is admissible and beaten by no earlier member.
  **LedgerRefinement** maps `Ledger` onto it.
* **Checkpoint**: the same call as a function from ledger to ledger, for the
  modules with several ledgers. It is tied to the contract that `Ledger` keeps by
  a refinement of its own (`ReplicaKeepsContract`).
* **Consensus**: `commit_order` and `commit_round` on two clusters that receive
  each round in different orders.
* **Recovery**: a node that persists, crashes and restores at any moment, beside
  one that never stops, both following one committed chain.
* **Tree**: `empty_roots`, `root`, `witness` and `verify_path`, level by level. A
  node is the pair of its children, so two roots are equal exactly if the padded
  trees are.
* **SpendStatement**: notes, `canonicalize`, `public_inputs`,
  `check_spend_statement` as a list of checks in the code's order, each with the
  constraint it names, and `prove`.
* **Keys**, **Encryption**: derivation and address text; the hybrid key exchange,
  the AEAD key over secrets and transcript, trial decryption.
* **Wallet**, **Devnet**: the wallet's four operations on top of those, and the
  sequencer that joins wallets and ledger. `CheckpointFirst(n)` is the whole of
  `Demo::checkpoint`, deliveries included: every accepted output is offered to
  every wallet, which finds its own by decryption.
* **DevnetMismatch**: the devnet with one more action, `BuildMismatched`: a sender
  whose ciphertext encloses another note than the one committed to. It serves one
  finding (section 5) and shows why `NoPhantomFunds` is about this repository's
  wallets only.
* **Knockout**: the harness of that crate as a state machine. The tree grows
  (`AppendNote`), a witness is taken and kept (`TakeWitness`), and a spend of it
  is put to the statement with a set of mutations applied together (`Knock`). The
  code's battery is the case of two leaves, a fresh witness and one mutation.
* **RateLimit**, **Puzzle**, **Wire**: the quota lane with its field arithmetic, the
  proof-of-work lane on hashes of a few bits, and the codec over cells (one
  cell per fixed-size field).
* **Admission**: senders, a network and the ledger's checks on one transaction in
  the code's order (decode, anchor, stateless, double spend, epoch, registry).
  `Deliver` is one arrival; `sent` is never emptied, so bytes may come again, late
  or not at all, and `Damaged` is what else can come of them. `DeliverAltered` is
  the arrival of bytes whose rate proof was changed in one of its four fields.
  `accepted`, `slashed` and `altered` are history variables; the ledger itself drops the secret that
  `admit` recovers.
* **TxFixtures**, **MC\***: the instances.

### What is abstracted

* Hashes are injective. A binding digest is the fields it covers, nullifiers and
  rho are numbers that encode what is hashed. Byte order of nullifiers is the
  order of those numbers; of digests, `Rank`. Two hashes do collide, in
  **Admission**, where their range is small: `message_x` of a damaged body and
  the puzzle's hash; sent messages have distinct, non-zero `message_x`.
* Where only equality of roots matters (Ledger, Checkpoint and what uses them), a
  root is the sequence of leaves. In **Knockout** and **Devnet** the spend statement
  hashes those leaves to the Merkle root.
* X25519, ML-KEM and the AEAD are symbolic: a shared secret is known to the two
  parties only, a ciphertext opens under its key only, decapsulation of a
  foreign ciphertext yields a secret nobody shares. No claim about their
  strength is made.
* In **LedgerOps** what a hash or a proof decides about a transaction is a Boolean
  of it: `antispam.bound` (puzzle solved, or the rate proof's x equal to
  `message_x(binding)`), `proof_sized`, `proof_ok`. In **Devnet** `proof_ok` is
  not free: it says that the public inputs that were proved are those the node
  recomputes. In **Admission** the checks themselves are evaluated.
* In **LedgerOps** `message_x` is injective, so the registry stores the digest; the
  shares and the secret are in **RateLimit**.
* **Admission** applies each transaction in a checkpoint of its own and tells
  senders the epoch of that checkpoint; batches and the epoch boundary are in
  **Ledger**. The four fields of a rate proof, cells 11 to 14, are changed by
  `DeliverAltered` and not by `Damaged`: for them the code relies on a future
  zero-knowledge proof (`antispam-quota/src/lib.rs:137-143`), and until then it
  accepts a changed `rate_nullifier` or `y`. Once such a proof arrived (`altered`),
  `SlashNamesTheReuser` and `FairUseAdmitted` claim nothing: a share that nobody
  made recovers no secret, and a slot may be taken by somebody else's transaction.
  What remains, and is claimed, is that the body is applied once and as it was sent,
  with its lane, proof and x (`AcceptedIsAuthentic`), and that no staker's slots
  hold more than its quota (`AdmissionsWithinQuota`).
  A repeated transaction is a double spend before the registry sees it, so the
  answer `Duplicate` does not occur there.
* The binding digest of **LedgerOps** leaves `enc_outputs` out: its transactions
  have none. `Digest` of **Wire** has them.
* A transfer that **Wallet** builds carries a solved puzzle. The code solves for
  difficulty 0 (`wallet/src/lib.rs:212`), so `FundedTransfersVerify` is about a
  node of difficulty 0, as the demo's is.
* All senders of **Devnet** are this repository's wallets, which encrypt the notes
  they commit to. `NoPhantomFunds` rests on that; **DevnetMismatch** drops it.
* `rseed`, memos and reward addresses are left out: nothing reads them back.
* `SCALE` (2^32) and `MAX_MONEY` (2^62) are constants with small values in the
  runs, since TLC's integers have 32 bits. No run comes near u64 overflow.
* A node that never persisted restarts from genesis. `restore` on such a store
  returns an empty ledger, and no code in the repository chooses between the two.

## 3. Runs

| Run | Question | Distinct states |
|---|---|---|
| `ledger` | what a ledger accepts, spends, appends, seals and mints, with both lanes, and does it implement the one-step contract | 95,238 |
| `consensus` | does submission order matter | 8,168 |
| `recovery` | what a restart preserves | 56,180 |
| `statement` | what a Merkle path and a spend proof establish | 56,223 |
| `admission` | what gets from bytes into the ledger, and who is slashed | 30,860 |
| `devnet` | do wallets and ledger agree about money | 16,680 |

and six runs that end in a counterexample on purpose (section 5).

**Bounds.** Three checkpoints, windows and epochs of two, batches of at most two
transactions. With a window of 2, height 3 is the first at which an anchor has
been evicted and named again; with epochs of 2, heights 1 and 2 are on both sides
of a boundary and 2 and 3 in one epoch; the transfers of `LedgerBodies` that share
a slot are of that epoch, so they meet in one batch and at different heights, and a
third has the same rate nullifier in the epoch before. Two transactions suffice for one to
affect the next within a checkpoint; three heights for one checkpoint to affect
a later one and for eviction to have happened between. The bodies of
`TxFixtures` contain each reason for rejection, a pair in conflict on a
nullifier, a pair on a slot, and a digest that appears on both lanes. Clients
may name every anchor sealed so far, and one that never was. `recovery` allows
two crashes, so that a node can crash again after re-applying. In `devnet`
wallet 1 starts with notes of 2, 1 and 1 and amounts are 1 and 3, so single
notes, pairs, change, zero change and failure to cover all occur. Its tree has 32 positions, more than the leaves of three
full checkpoints. In `statement` the tree has four positions and five leaves
are appended, so that every level has a padded and an unpadded sibling and one
leaf is past the capacity; one owner's nullifier sorts before the dummy's and
one after; all pairs of the twelve mutations are applied (`MaxMutations`). In `admission` one staker has
two slots and one has one, two bodies go out in up to three transactions over
two epochs, so that a slot can be reused while another is used fairly; the field
has five elements and every secret occurs; hashes have four bits in two bytes
and the puzzle asks for two zero bits, so that first nonces fail; damage
includes changes by the field's prime, which keep `message_x`.
Once a rate proof arrived altered, two transactions are the most (`SendsAllowed`),
which is what it takes for one body to arrive with different rate proofs, and for
a proof to be moved to a slot that another transaction uses. The bounds
appear as `MaxHeight`, `MaxTxs`, `MaxCrashes`, `MaxLeaves`, `MaxMutations`, `MaxSends`,
`MaxEpoch` and `MaxNonce`; at `MaxHeight` the `Quiesce` actions stutter
so that deadlock is still checked before it.

**Fairness.** None is assumed and no liveness is claimed. `apply_checkpoint` is
`for` loops over slices on one thread, without locks or waiting, so that it ends
is plain from its shape; and nothing in the repository obliges a client to
submit, a sequencer to seal or a node to restart. What a restarted node regains
is stated without time, as a function of the heights sealed since
(`RestartHeals`).

**Mutants.** Each property of a passing run has a variant of a mapped definition
(defined just before it, marked *Mutant of*) that breaks it: a conflict check
that forgets the current checkpoint, late eviction, a quota check before the
double-spend check, positions taken after the append, a lost remainder, an
unsealed anchor after a restore, a prover that does not sort, dummies that are
believed, a field subtraction that does not wrap, padding that is not looked
at, and so on.

## 4. Proofs

The theorems hold for every value of the constants that satisfies the named
assumptions of the modules, which TLC evaluates on the runs' instances. For the
ledger these are: window and epoch length positive, bodies and genesis of their
types, a sequence of amounts for each height (`Shares`). Nothing is assumed about
`Bodies` beyond their type, so a batch may contain anything; `MaxHeight` and
`MaxTxs` are arbitrary naturals. A theorem with a further hypothesis says so
below.

1. **FoldTheorems.** The sums, folds and flattenings of the community modules are
   defined by recursion, and induction over a predicate is not available. It is
   replaced by induction over *sets*: a set of naturals with 0 and all its
   successors is `Nat`, a family of subsets closed under adding an element has
   every finite set. From these: recursion over the subsets of a finite set
   exists, and so `SumFunctionOnSet`, `FoldLeft` and `FlattenSeq` satisfy their step
   equations (`SumNext`, `PrefixRecursion`, `FlattenNext`), and powers of two their
   laws. The same over the levels of a **Tree** gives its nodes, padded ones
   included, a witness that leads to the root, and two facts about any path that
   verifies: it is kept by the leaf it was taken for, and binds it.
2. **CheckpointProofs.** What all ledgers share. `SealedIsWindow`, `SealedKeeps`:
   pushing and evicting turns one window into the next. `VerdictWins`: the
   verdict of the scan on a transaction, judged against what the earlier winners
   staged and entered, is `Accepted` exactly if it wins in the sense of the
   contract. `ScanWinners`, `ApplyFacts`: hence what a whole scan and a whole
   `ApplyCheckpoint` leave behind.
3. **LedgerProofs.** All safety and action properties of `Ledger`.
   * `TypeInv` adds to `TypeOK` that the deque is contiguous: after eviction it is
     a suffix from the first fresh anchor, and one must know that there is one.
   * `SpentInv`: `SpentExactly` says nothing during a call; at every step committed
     and seen nullifiers together are what the log spent. From it
     `NoDoubleSpendHolds`, `SpentExactlyHolds` and `RebroadcastHolds` (a digest in
     the log has its nullifiers in that union, so the double-spend check answers
     before the registry is asked). `OneTxPerSlotHolds` is inductive as it stands.
   * `RootInv`: the deque's anchors carry the roots of their heights, which are
     prefixes of the tree: `RootsArePrefixesHolds`, `AnchorWindowExactHolds`.
     `AcceptInv` adds that the log is not ahead of the height:
     `AcceptedOnSealedAnchorHolds`. `AppendOnlyHolds` and `AnchorsMoveOnlyAtSealHolds`
     are action properties.
   * `CallInv`: where in the call we are, how much of the log and of the staged
     outputs belongs to this checkpoint, and where it will be appended:
     `PositionsLocateOutputsHolds`.
4. **LedgerProofs, the audit.** `BackedInv`: the supply is the genesis allocation plus the
   reward notes in the tree, no two of which are equal; for that the notes of
   this height must have smaller indices than the next. `SupplyBackedByLeavesHolds`
   has the hypothesis `Len(Weights) <= 256`: `rho_mint` takes the index as a `u8`,
   and with more validators two notes of a height share a rho (section 5).
   `IssuedInv`, in the middle of minting, counts the shares already minted.
   `SupplyAuditsHolds` has the hypothesis that the weights do not sum to zero
   (with none `distribute` gives nothing while the schedule counts the height: a
   hazard in `PROJECT.json`); the rest is that the split loses no remainder.
5. **LedgerProofs, the refinement.** `KeepsContractHolds`: `Ledger` implements
   `LedgerContract`, the whole of it. `SettleInv` relates a call in progress to the
   settled ledger: during the scan, seen nullifiers, registry and staged
   outputs are those of the winners among the transactions judged so far, and
   these have been decided by the contract's rule; while minting, they are in,
   and so are the rewards so far.
6. **ConsensusProofs.** `RoundInv`: replicas are one ledger, with the window of the
   sealed roots, and the round holds submittable transactions. `Linearizes` says
   what `commit_order` returns; that a sorted list of a finite set of digests
   exists is proved, not assumed. `SubmissionOrderIrrelevantHolds`,
   `UncontestedCommitsHolds` and `ReplicaKeepsContractHolds` have the hypothesis
   `RankOrders` (digests are byte strings: their order is total; it is a
   hypothesis and not an assumption because TLC cannot enumerate all digests).
   The first also has `OneBodyPerDigest`: no two bodies on offer have the same
   binding digest. It is needed, as run `consensus_twins` shows, and it is *not*
   used for the other two. Copies of a transaction do not contest it:
   `UncontestedCommits` covers one that is submitted several times.
7. **RecoveryProofs.** `SafeInv`: the spends of the node's present past are apart
   from one another and are its spent set, the store holds one height's snapshot
   of that past, supplies follow the chain. From it
   `NoDoubleSpendAcrossRestartHolds` and `SupplySurvivesRestartHolds`, for any traffic.
   `TransparencyInv` claims a history of ledgers that the steady replica had, and
   that node and store match it as long as no transaction has relied on what
   a restore loses: `RestartTransparentHolds`, `StoreIsOneSnapshotHolds`.
   `HealInv` adds that the node's anchors are none older than the restored one
   and the steady replica's all in the window, from which `RestartHealsHolds`: the
   anchors, and the slots of epochs that began later, are those of the steady
   replica again.
8. **AdmissionProofs.** `AdmissionInv` has two parts. `BodyInv` holds whatever
   arrives: everything sent encodes a message of a staker or a solver; everything
   accepted is a sent body with an anti-spam field of its lane and with its x, its
   nullifiers are spent, no two accepted transactions share a digest (an accepted
   one had unspent nullifiers) or a slot. `LedgerInv` holds until a rate proof
   arrives altered: the registry has the share of one sent transaction for each
   used slot, what was accepted was sent up to a nonce, and what was slashed is a
   staker's secret for a slot it used twice. All seven invariants of the run follow. Assumed of the constants: stakers and stakes are numbers,
   rate nullifiers of different slots differ (`RateHashAssumption`), messages are
   typed, have distinct `message_x` and a solution within the nonces tried
   (`MessageAssumption`), bytes and hashes have a positive width
   (`PuzzleAssumption`), and Fermat's little theorem for `P`
   (`InverseAssumption`, the power by which the code inverts; TLC evaluates it for
   the run's prime). `FairUseAdmittedHolds` has the hypothesis that messages are
   admissible on their own (a known anchor, ascending nullifiers).
9. **KnockoutProofs.** The state is a list of notes and one held witness, and `KInv`
   only says that the witness was taken from this tree; the work is in what holds
   of every tree. `WitnessBelongsToItsRootHolds`: a path keeps proving its leaf
   exactly as long as the tree, up to its capacity, is the one it was taken from.
   `PathsBindLeavesHolds`: it proves one note at its position and no other. Its
   hypothesis is `MaxLeaves < 2 * Capacity`: `append` has no bound, and a tree that
   is filled twice over with the same notes has leaves past the capacity whose
   path is that of an equal note in the tree. Then, for any set of mutations
   applied together (the run has pairs), `KnockRecords` computes each check of the
   statement on the mutated spend, from which `AllCaughtHolds` and
   `ExpectedConstraintFiresHolds` follow, under the same hypothesis. Assumed: notes
   and payments are numbers, and a note with one added stays below `MAX_MONEY`.
10. **DevnetProofs.** No property of the devnet is inductive, since wallets, waiting
   transfers and ledger each believe something about the others. `DInv` says:
   the ledger is well formed; its leaves have distinct rho, every spent nullifier
   belongs to a leaf or a dummy, and the unspent leaves are together worth the
   genesis supply (`Sound`); a wallet's records are unspent leaves of its own, at
   their positions, each once (`WalletsHold`); a waiting transfer balances against
   the leaves it spends, whatever happens before it is applied, and its
   ciphertexts enclose its outputs (`PoolWaits`). That a checkpoint keeps it goes
   through the scan one transaction at a time: a winner's inputs are unspent, so
   their worth moves to its outputs, and the positions told to the wallets are
   those at which the outputs stand. `NoPhantomFundsHolds`,
   `ShieldedValueConservedHolds`, `SelectionCompleteHolds`, `PaysTheAddresseeHolds`,
   `BothLegsNeededHolds` and `NoNoteLostToATypoHolds` have no hypothesis.
   `FundedTransfersVerifyHolds` has two: `GenesisSupply < MAX_MONEY`, since
   constraint C6 refuses larger values, and that the leaves fit in the tree, since
   a position past the capacity proves nothing and the code does not refuse to
   append there. Assumed: the genesis is that of the notes dealt to the wallets,
   at most ten of them with the rho of their positions, and amounts are numbers.
   `BothLegsNeeded` gives a reader the three things that enter a trial decryption,
   each from any wallet: the classical secret, the post-quantum one and the address
   tag. The key must depend on all three; a derivation without either shared
   secret, or without both, would open an output for a reader who lacks one.

**Only model-checked**: nothing. Every property of a passing run is stated by a
theorem; no property is about liveness, which this prover does not do.
`SetToSortSeq` is avoided in what is proved about: it rests on TLC's `SortSeq`, of
which the prover knows nothing. For a like reason the wallet's choice of notes is
written with positions and sets, not `SelectSeq`.

## 5. Where the code and its documents disagree

Each of the first six is a run that states what a document or comment says and finds
it violated.

* `epoch_boundary`: "Wallets sign quota rate proofs for this epoch"
  (`state/src/lib.rs:266`). `current_epoch` is that of the last sealed height,
  the check uses the height being sealed. Once per epoch they differ and an
  honestly signed proof is rejected.
* `consensus_twins`: "order-independence of submission"
  (`consensus/src/lib.rs:15`). The dedup key covers neither the anti-spam body nor
  the proof, and the first submitted stays. If digests identify transactions,
  order is irrelevant (`consensus`); if two share one, it decides.
* `recovery_replay`: "Replaying the same ordered input on any node yields an
  identical state root" (`state/src/lib.rs:7`). A restored node has an empty
  registry and accepts a used slot. It also has a window of one anchor and
  rejects the others (the same run with `ANCHOR_WINDOW = 2` and
  `Bodies <- SpendBodies` shows it). The code's comments call the first safe
  and the second temporary; for agreement neither is. What does hold is
  `RestartTransparent`: with traffic that depends on neither, no difference can
  be seen, and `NoDoubleSpendAcrossRestart` and `SupplySurvivesRestart` hold
  with any traffic.
* `devnet_drops`: "drop any of our notes that have been spent"
  (`wallet/src/lib.rs:77`). The sequencer passes the nullifiers of rejected
  transfers too, so a wallet gives up notes that are unspent. The demo notes that
  all its transfers are valid.
* `devnet_contend`: "honest users never contend" (`specs/anchors.md:41`). The
  entropy of dummy inputs is a constant, so the dummy nullifier is the same in
  each single-note transfer of a wallet and the second one is a double spend.
* `devnet_mismatch`: the recipient "reconstructs `Note{value, addr_tag=self, rho,
  rseed}` and checks the on-chain commitment" (`specs/notes.md:80-82`; likewise the
  comment at `encryption/src/lib.rs:101-102`). Neither `try_decrypt` nor
  `try_receive` (`wallet/src/lib.rs:67`) computes a commitment, and neither is given
  the leaf. A ciphertext that encloses another note than the committed one leaves a
  record without a leaf. Between the repository's own wallets this does not
  happen (`NoPhantomFunds`).

Two more need no run of their own:

* "Old anchors stay valid because the tree only grows and a witness
  is recomputed against the current frontier on demand" (`tree/src/lib.rs:5-6`), and
  the "authentication path against `anchor`" of `wallet/src/lib.rs:116-117`. A
  witness recomputed after an append proves the current root only. An older
  anchor is usable with a witness taken when it was current, that is, by a
  proof that was already made: `specs/anchors.md:65-68` says so correctly.
  `WitnessBelongsToItsRoot` (run `statement`, and proved) states which witness
  serves which root.
* For mints "no two honest notes ever share `rho`"
  (`specs/notes.md:60-62`). The validator's index is cut to one byte
  (`state/src/lib.rs:181`), so with 257 validators the first and the last
  reward of every checkpoint share one. Hence the hypothesis of at most 256
  validators of `SupplyBackedByLeavesHolds`; the run has two.

## 6. Not modelled

* `primitives` (hashing, taken as injective), `testkit` (vectors), `sim` (tables)
  and `circuit-bench`: no protocol state and no decisions.
* `full_viewing_key`, `QuotaNote::commitment`, `CompactCheckpoint`, `set_meta`,
  `contains_nullifier`: nothing in the program calls them.
* Arithmetic overflow ends a build with overflow checks (a debug build) in a panic
  where a release build wraps; the model is the release build. Besides amounts (below)
  this can come up at `128 + index as u8` (`state/src/lib.rs:182`) with more than 128
  validators, and the panic is a crash during the call, before anything is
  persisted.
* u64 overflow of the supply; errors that redb returns (a failed write leaves the
  store as it was, which is a `Persist` that does not happen).
* Three hazards have no property, and `PROJECT.json` says why: a validator set of
  zero weight and a tail above the initial emission are genesis configurations
  that the code does not refuse, and which of `genesis` and `restore` a node
  calls is decided by no code in the repository.

## 7. Plan

All the parts that keep state or decide something are modelled, and all properties
of the passing runs and both refinements are proved. What could be added:

1. **Width of amounts**: supply and sums at u64, once genesis configurations are
   refused or bounded by the code (the two emission hazards of section 6).
2. **Start-up**: the choice between `genesis` and `restore`, once some code makes it.
