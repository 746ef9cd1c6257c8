--------------------------- MODULE DevnetMismatch ---------------------------
(***************************************************************************)
(* The devnet with a sender that is not this repository's wallet: in what  *)
(* it builds, the note in the first ciphertext need not be the note        *)
(* committed to.  The proof is about the commitment and the digest only    *)
(* carries the ciphertext, so nothing on the way compares the two.         *)
(***************************************************************************)
EXTENDS Devnet

(* A transfer as build_transfer makes it, but for one unit more in the     *)
(* note that the recipient finds.                                          *)
BuildMismatched(me, recipient, amount) ==
    LET built == Built(wallets[me], me, recipient, amount, current_anchor, net.leaves)
        claimed == [NoteOf(built.tx.commitments[1]) EXCEPT !.value = @ + 1]
    IN  /\ net.height < MaxHeight /\ Len(mempool) < MaxTxs
        /\ CanBuild(wallets[me], me, recipient, amount, current_anchor, net.leaves)
        /\ mempool' = Append(mempool,
              [tx |-> built.tx, from |-> me, to |-> recipient,
               enc_outputs |-> <<EncryptNote(claimed, AddressOf(recipient), 10),
                                 built.enc_outputs[2]>>])
        /\ careless' = (careless \/ \E k \in DOMAIN mempool : mempool[k].from = me)
        /\ UNCHANGED <<net, wallets, contended>>

MismatchNext ==
    \/ Next
    \/ \E me, recipient \in Wallets, amount \in Amounts :
          BuildMismatched(me, recipient, amount)

MismatchSpec == Init /\ [][MismatchNext]_dvars

-----------------------------------------------------------------------------
(* "success = valid AEAD tag, from which it reconstructs the note and      *)
(* checks the on-chain commitment": every record of a wallet is the note   *)
(* that the leaf at its position commits to.                               *)
ReceivesWhatIsCommitted ==
    \A me \in Wallets : \A k \in DOMAIN wallets[me].unspent :
        LET record == wallets[me].unspent[k]
        IN  net.leaves[record.position + 1] = Commitment(record.note)
=============================================================================
