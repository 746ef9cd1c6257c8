------------------------------ MODULE Consensus ------------------------------
(***************************************************************************)
(* The consensus model (crates/consensus): commit_order linearizes the     *)
(* transactions of a round, Cluster::commit_round applies that order to    *)
(* every replica.  A second cluster, mirror, is fed the same transactions  *)
(* as they reached it, in any order: what the crate's tests do to show     *)
(* that submission order does not matter.                                  *)
(***************************************************************************)
EXTENDS Checkpoint

CONSTANTS
    Replicas,       \* the replicas of a cluster, 1..n
    Rank(_)         \* the order of binding digests as byte strings

ASSUME ReplicasAssumption == 1 \in Replicas

VARIABLES
    cluster, mirror,      \* replica -> ledger
    submitted, heard,     \* this round's transactions, as each cluster got them
    roots                 \* roots[h + 1]: the root sealed at height h

cvars == <<cluster, mirror, submitted, heard, roots>>

-----------------------------------------------------------------------------
(* Mutants of CommitOrder: submission order is kept; the dedup key is the  *)
(* anchor alone.                                                           *)
CommitAsSubmitted(txs) == txs

CommitOnePerAnchor(txs) ==
    LET First(a) == Min({k \in DOMAIN txs : txs[k].anchor = a})
        kept == SetToSortSeq({First(txs[k].anchor) : k \in DOMAIN txs}, <)
    IN  [n \in DOMAIN kept |-> txs[kept[n]]]

(* The keys of a BTreeMap, in the order in which it iterates over them.    *)
InOrder(digests) ==
    CHOOSE order \in [1..Cardinality(digests) -> digests] :
        \A j, k \in DOMAIN order : j < k => Rank(order[j]) < Rank(order[k])

(* Dedup by binding digest, the first one submitted staying; then ordered  *)
(* by digest.                                                              *)
CommitOrder(txs) ==
    LET order == InOrder({BindingDigest(txs[k]) : k \in DOMAIN txs})
        First(d) == Min({k \in DOMAIN txs : BindingDigest(txs[k]) = d})
    IN  [n \in DOMAIN order |-> txs[First(order[n])]]

ApplyToAll(replicas, txs) ==
    [r \in DOMAIN replicas |-> ApplyCheckpoint(replicas[r], CommitOrder(txs))]

(* RoundOutcome.agreed: every replica against the first.                   *)
Agreed(replicas) ==
    \A r \in DOMAIN replicas :
        /\ replicas[r].leaves = replicas[1].leaves
        /\ replicas[r].accepted = replicas[1].accepted
        /\ replicas[r].supply = replicas[1].supply
        /\ replicas[r].height = replicas[1].height

-----------------------------------------------------------------------------
Init ==
    /\ cluster = [r \in Replicas |-> GenesisLedger]
    /\ mirror = cluster
    /\ submitted = << >> /\ heard = << >>
    /\ roots = <<Genesis>>

(* A transaction reaches both clusters, at any place in the mirror's order.*)
Submit(tx, place) ==
    /\ Len(submitted) < MaxTxs /\ cluster[1].height < MaxHeight
    /\ submitted' = Append(submitted, tx)
    /\ heard' = InsertAt(heard, place, tx)
    /\ UNCHANGED <<cluster, mirror, roots>>

CommitRound ==
    /\ cluster[1].height < MaxHeight
    /\ cluster' = ApplyToAll(cluster, submitted)
    /\ mirror' = ApplyToAll(mirror, heard)
    /\ submitted' = << >> /\ heard' = << >>
    /\ roots' = Append(roots, cluster'[1].leaves)

(* The bound is reached: no more rounds.                                   *)
Quiesce == cluster[1].height = MaxHeight /\ UNCHANGED cvars

Next ==
    \/ \E tx \in Submittable(roots), place \in 1..(Len(heard) + 1) :
          Submit(tx, place)
    \/ CommitRound
    \/ Quiesce

Spec == Init /\ [][Next]_cvars

-----------------------------------------------------------------------------
(* Submission order does not matter: clusters that got the same rounds of  *)
(* transactions, each round in any order, hold equal ledgers, and so every *)
(* replica agrees with every other.                                        *)
SubmissionOrderIrrelevant ==
    /\ Agreed(cluster) /\ Agreed(mirror)
    /\ mirror[1].leaves = cluster[1].leaves
    /\ mirror[1].accepted = cluster[1].accepted

(* A transaction that is submitted well formed, on the current anchor and  *)
(* competing with no other, is settled by the round's commit, however      *)
(* often it was submitted: the dedup drops its copies and never all of     *)
(* them.                                                                   *)
Uncontested(k) ==
    LET tx == submitted[k]
        live == cluster[1].anchors
    IN  /\ tx.anchor = live[Len(live)]
        /\ ValidateStateless(tx) /\ tx.antispam.lane = "pow"
        /\ Nfs(tx) \cap cluster[1].nullifiers = {}
        /\ \A j \in DOMAIN submitted :
              submitted[j] # tx => Nfs(submitted[j]) \cap Nfs(tx) = {}

UncontestedCommits ==
    [][cluster' # cluster =>
          \A k \in DOMAIN submitted :
             Uncontested(k) => Nfs(submitted[k]) \subseteq cluster'[1].nullifiers]_cvars

Contract == INSTANCE LedgerContract WITH
    batch  <- CommitOrder(submitted),
    tree   <- cluster[1].leaves,
    spent  <- cluster[1].nullifiers,
    slots  <- DOMAIN cluster[1].quota,
    roots  <- roots,
    supply <- cluster[1].supply

(* A replica driven by committed rounds keeps the ledger's contract, the   *)
(* batch being the linearized round.                                       *)
ReplicaKeepsContract == Contract!CSpec
=============================================================================
