--------------------------- MODULE AdmissionProofs ---------------------------
(***************************************************************************)
(* What Admission promises, for every set of stakers, stakes, messages and *)
(* hashes, every prime and every number of epochs and sends.               *)
(***************************************************************************)
EXTENDS Admission, FoldTheorems, FunctionTheorems

-----------------------------------------------------------------------------
(* What a cell of the wire holds: a number, the tag of a message's proof,  *)
(* or what is left of a damaged tag.                                       *)
Cell == Nat \cup {EncodePublicInputs(ToPublicInputs(m)) : m \in Messages} \cup {<< >>}

Cells(s, n) == s \in Seq(Cell) /\ Len(s) = n

Joined(r, s, t, m, n) ==
    /\ Cells(r, m + n)
    /\ \A i \in 1..m : r[i] = s[i]
    /\ \A i \in 1..n : r[m + i] = t[i]

(* The cells of a concatenation.                                           *)
LEMMA Join ==
    ASSUME NEW m \in Nat, NEW n \in Nat, NEW s, NEW t, Cells(s, m), Cells(t, n)
    PROVE  Joined(s \o t, s, t, m, n)
<1>1. s \in Seq(Cell) /\ t \in Seq(Cell) /\ Len(s) = m /\ Len(t) = n
  BY DEF Cells
<1>2. /\ s \o t \in Seq(Cell)
      /\ Len(s \o t) = Len(s) + Len(t)
      /\ \A i \in 1..(Len(s) + Len(t)) :
            (s \o t)[i] = IF i <= Len(s) THEN s[i] ELSE t[i - Len(s)]
  BY <1>1, ConcatProperties, Zenon
<1>3. \A i \in 1..m : (s \o t)[i] = s[i]
  BY <1>1, <1>2
<1>4. \A i \in 1..n : (s \o t)[m + i] = t[i]
  <2> TAKE i \in 1..n
  <2>1. m + i \in 1..(m + n) /\ ~(m + i <= m) /\ (m + i) - m = i
    OBVIOUS
  <2> DEFINE j == m + i
  <2>2. (s \o t)[j] = IF j <= m THEN s[j] ELSE t[j - m]
    BY <1>1, <1>2, <2>1
  <2> QED BY <2>1, <2>2
<1> QED BY <1>1, <1>2, <1>3, <1>4 DEF Joined, Cells

(* The cells of a part of a sequence.                                      *)
LEMMA Part ==
    ASSUME NEW S, NEW s \in Seq(S), NEW m \in Nat \ {0}, NEW n \in Nat, m <= n, n <= Len(s)
    PROVE  /\ SubSeq(s, m, n) \in Seq(S)
           /\ Len(SubSeq(s, m, n)) = n - m + 1
           /\ \A i \in 1..(n - m + 1) : SubSeq(s, m, n)[i] = s[m + i - 1]
<1>1. \A i \in m..n : s[i] \in S
  OBVIOUS
<1> QED BY <1>1, SubSeqProperties

(* The same of a window of cells.                                          *)
LEMMA CellPart ==
    ASSUME NEW s, s \in Seq(Cell), NEW m, m \in Nat \ {0}, NEW n, n \in Nat,
           m <= n, n <= Len(s)
    PROVE  /\ SubSeq(s, m, n) \in Seq(Cell)
           /\ Len(SubSeq(s, m, n)) = n - m + 1
           /\ \A i \in 1..(n - m + 1) : SubSeq(s, m, n)[i] = s[m + i - 1]
<1> DEFINE C == Cell
<1>1. s \in Seq(C)
  OBVIOUS
<1> HIDE DEF C
<1>2. /\ SubSeq(s, m, n) \in Seq(C)
      /\ Len(SubSeq(s, m, n)) = n - m + 1
      /\ \A i \in 1..(n - m + 1) : SubSeq(s, m, n)[i] = s[m + i - 1]
  BY <1>1, Part
<1> QED BY <1>2 DEF C

(* A transaction whose fields are cells.                                   *)
Bodied(tx) ==
    /\ tx.anchor.height \in Cell /\ tx.anchor.root \in Cell
    /\ Cells(tx.nullifiers, 2) /\ Cells(tx.commitments, 2) /\ Cells(tx.enc_outputs, 2)

(* binding_digest, field by field.                                         *)
LEMMA DigestCells ==
    ASSUME NEW tx, Bodied(tx)
    PROVE  /\ Cells(Digest(tx), 8)
           /\ Digest(tx)[1] = tx.anchor.height /\ Digest(tx)[2] = tx.anchor.root
           /\ Digest(tx)[3] = tx.nullifiers[1] /\ Digest(tx)[4] = tx.nullifiers[2]
           /\ Digest(tx)[5] = tx.commitments[1] /\ Digest(tx)[6] = tx.commitments[2]
           /\ Digest(tx)[7] = tx.enc_outputs[1] /\ Digest(tx)[8] = tx.enc_outputs[2]
<1> DEFINE head == <<tx.anchor.height, tx.anchor.root>>
           ns == tx.nullifiers
           cs == tx.commitments
           es == tx.enc_outputs
           four == head \o ns
           six == four \o cs
<1>1. Cells(head, 2) /\ head[1] = tx.anchor.height /\ head[2] = tx.anchor.root
  BY DEF Bodied, Cells
<1>2. Cells(ns, 2) /\ Cells(cs, 2) /\ Cells(es, 2)
  BY DEF Bodied
<1>3. Digest(tx) = six \o es
  BY DEF Digest
<1> HIDE DEF head, ns, cs, es
<1>4. Joined(four, head, ns, 2, 2)
  BY <1>1, <1>2, Join
<1> HIDE DEF four
<1>5. Joined(six, four, cs, 4, 2)
  <2>1. Cells(four, 4)
    BY <1>4 DEF Joined
  <2> QED BY <2>1, <1>2, Join
<1> HIDE DEF six
<1>6. Joined(Digest(tx), six, es, 6, 2)
  <2>1. Cells(six, 6)
    BY <1>5 DEF Joined
  <2> QED BY <2>1, <1>2, <1>3, Join
<1>7. four[1] = head[1] /\ four[2] = head[2] /\ four[3] = ns[1] /\ four[4] = ns[2]
  BY <1>4 DEF Joined
<1>8. /\ six[1] = four[1] /\ six[2] = four[2] /\ six[3] = four[3] /\ six[4] = four[4]
      /\ six[5] = cs[1] /\ six[6] = cs[2]
  BY <1>5 DEF Joined
<1>9. /\ Digest(tx)[1] = six[1] /\ Digest(tx)[2] = six[2] /\ Digest(tx)[3] = six[3]
      /\ Digest(tx)[4] = six[4] /\ Digest(tx)[5] = six[5] /\ Digest(tx)[6] = six[6]
      /\ Digest(tx)[7] = es[1] /\ Digest(tx)[8] = es[2]
      /\ Cells(Digest(tx), 8)
  BY <1>6 DEF Joined
<1> QED BY <1>1, <1>7, <1>8, <1>9 DEF ns, cs, es

-----------------------------------------------------------------------------
(* A transaction whose fields are cells, and the bytes that carry it.      *)
Pair == {s \in Seq(Cell) : Len(s) = 2}

PowArtifact == [lane : {"pow"}, nonce : Cell]

QuotaArtifact == [lane : {"quota"}, epoch : Cell, rate_nullifier : Cell, x : Cell, y : Cell]

Tx == [anchor : [height : Cell, root : Cell], nullifiers : Pair, commitments : Pair,
       enc_outputs : Pair, antispam : PowArtifact \cup QuotaArtifact, proof : Pair]

Carries(b, tx) ==
    /\ Cells(b, 16)
    /\ b[1] = TX_VERSION
    /\ b[2] = tx.anchor.height /\ b[3] = tx.anchor.root
    /\ b[4] = tx.nullifiers[1] /\ b[5] = tx.nullifiers[2]
    /\ b[6] = tx.commitments[1] /\ b[7] = tx.commitments[2]
    /\ b[8] = tx.enc_outputs[1] /\ b[9] = tx.enc_outputs[2]
    /\ tx.antispam.lane = "pow" =>
          /\ b[10] = POW_TAG
          /\ b[11] = tx.antispam.nonce /\ b[12] = 0 /\ b[13] = 0 /\ b[14] = 0
    /\ tx.antispam.lane = "quota" =>
          /\ b[10] = QUOTA_TAG
          /\ b[11] = tx.antispam.epoch /\ b[12] = tx.antispam.rate_nullifier
          /\ b[13] = tx.antispam.x /\ b[14] = tx.antispam.y
    /\ b[15] = tx.proof[1] /\ b[16] = tx.proof[2]

(* encode lays a transaction out cell by cell.                             *)
LEMMA EncodeLaysOut ==
    ASSUME NEW tx \in Tx
    PROVE  Carries(Encode(tx), tx)
<1> DEFINE dg == Digest(tx)
           tag == <<AntispamTag(tx.antispam)>>
           body == AntispamBody(tx.antispam)
           proof == tx.proof
           nine == <<TX_VERSION>> \o dg
           ten == nine \o tag
           fourteen == ten \o body
<1>1. Bodied(tx)
  BY DEF Bodied, Tx, Pair, Cells
<1>2. Cells(dg, 8)
  BY <1>1, DigestCells
<1>3. Cells(<<TX_VERSION>>, 1) /\ <<TX_VERSION>>[1] = TX_VERSION
  BY DEF Cells, Cell, TX_VERSION
<1>4. Cells(tag, 1) /\ tag[1] = AntispamTag(tx.antispam)
  BY DEF Cells, Cell, AntispamTag, POW_TAG, QUOTA_TAG
<1>5. /\ Cells(body, 4)
      /\ tx.antispam.lane = "pow" =>
            /\ AntispamTag(tx.antispam) = POW_TAG
            /\ body[1] = tx.antispam.nonce /\ body[2] = 0 /\ body[3] = 0 /\ body[4] = 0
      /\ tx.antispam.lane = "quota" =>
            /\ AntispamTag(tx.antispam) = QUOTA_TAG
            /\ body[1] = tx.antispam.epoch /\ body[2] = tx.antispam.rate_nullifier
            /\ body[3] = tx.antispam.x /\ body[4] = tx.antispam.y
  <2>1. CASE tx.antispam \in PowArtifact
    <3>1. tx.antispam.lane = "pow" /\ tx.antispam.nonce \in Cell /\ 0 \in Cell
      BY <2>1 DEF PowArtifact, Cell
    <3>2. body = <<tx.antispam.nonce, 0, 0, 0>> /\ AntispamTag(tx.antispam) = POW_TAG
      BY <3>1 DEF AntispamBody, AntispamTag
    <3> QED BY <3>1, <3>2 DEF Cells
  <2>2. CASE tx.antispam \in QuotaArtifact
    BY <2>2 DEF QuotaArtifact, AntispamBody, AntispamTag, Cells
  <2> QED BY <2>1, <2>2 DEF Tx
<1>6. Cells(proof, 2)
  BY DEF Tx, Pair, Cells
<1>7. Encode(tx) = fourteen \o proof
  BY DEF Encode
<1> HIDE DEF dg, tag, body, proof
<1>8. Joined(nine, <<TX_VERSION>>, dg, 1, 8)
  BY <1>2, <1>3, Join
<1> HIDE DEF nine
<1>9. Joined(ten, nine, tag, 9, 1)
  <2>1. Cells(nine, 9)
    BY <1>8 DEF Joined
  <2> QED BY <2>1, <1>4, Join
<1> HIDE DEF ten
<1>10. Joined(fourteen, ten, body, 10, 4)
  <2>1. Cells(ten, 10)
    BY <1>9 DEF Joined
  <2> QED BY <2>1, <1>5, Join
<1> HIDE DEF fourteen
<1>11. Joined(Encode(tx), fourteen, proof, 14, 2)
  <2>1. Cells(fourteen, 14)
    BY <1>10 DEF Joined
  <2> QED BY <2>1, <1>6, <1>7, Join
<1>12. /\ Cells(Encode(tx), 16)
       /\ \A i \in 1..14 : Encode(tx)[i] = fourteen[i]
       /\ Encode(tx)[15] = proof[1] /\ Encode(tx)[16] = proof[2]
  BY <1>11 DEF Joined
<1>13. /\ \A i \in 1..10 : fourteen[i] = ten[i]
       /\ fourteen[11] = body[1] /\ fourteen[12] = body[2]
       /\ fourteen[13] = body[3] /\ fourteen[14] = body[4]
  BY <1>10 DEF Joined
<1>14. (\A i \in 1..9 : ten[i] = nine[i]) /\ ten[10] = tag[1]
  BY <1>9 DEF Joined
<1>15. /\ nine[1] = TX_VERSION
       /\ nine[2] = dg[1] /\ nine[3] = dg[2] /\ nine[4] = dg[3] /\ nine[5] = dg[4]
       /\ nine[6] = dg[5] /\ nine[7] = dg[6] /\ nine[8] = dg[7] /\ nine[9] = dg[8]
  BY <1>3, <1>8 DEF Joined
<1>16. \A i \in 1..9 : Encode(tx)[i] = nine[i]
  BY <1>12, <1>13, <1>14
<1>17. /\ Encode(tx)[10] = AntispamTag(tx.antispam)
       /\ Encode(tx)[11] = body[1] /\ Encode(tx)[12] = body[2]
       /\ Encode(tx)[13] = body[3] /\ Encode(tx)[14] = body[4]
  BY <1>4, <1>12, <1>13, <1>14
<1>18. /\ dg[1] = tx.anchor.height /\ dg[2] = tx.anchor.root
       /\ dg[3] = tx.nullifiers[1] /\ dg[4] = tx.nullifiers[2]
       /\ dg[5] = tx.commitments[1] /\ dg[6] = tx.commitments[2]
       /\ dg[7] = tx.enc_outputs[1] /\ dg[8] = tx.enc_outputs[2]
  BY <1>1, DigestCells DEF dg
<1> QED BY <1>5, <1>12, <1>15, <1>16, <1>17, <1>18 DEF Carries, proof

(* A transaction is read back from the cells of bytes that decode.         *)
LEMMA DecodeReads ==
    ASSUME NEW b, Cells(b, 16), "error" \notin DOMAIN Decode(b)
    PROVE  /\ DOMAIN Decode(b) = {"tx"}
           /\ Decode(b).tx \in Tx
           /\ Carries(b, Decode(b).tx)
<1> DEFINE lane == FromWire(b[10], SubSeq(b, 11, 14))
           tx == Decode(b).tx
           body == SubSeq(b, 11, 14)
<1>1. b \in Seq(Cell) /\ Len(b) = 16 /\ \A i \in 1..16 : b[i] \in Cell
  <2>1. b \in Seq(Cell) /\ Len(b) = 16
    BY DEF Cells
  <2> QED BY <2>1, ElementOfSeq
<1>2. \A m \in 1..15 : /\ SubSeq(b, m, m + 1) \in Pair
                       /\ SubSeq(b, m, m + 1)[1] = b[m]
                       /\ SubSeq(b, m, m + 1)[2] = b[m + 1]
  <2> TAKE m \in 1..15
  <2>1. m \in Nat \ {0} /\ m + 1 \in Nat /\ m <= m + 1 /\ m + 1 <= 16 /\ (m + 1) - m + 1 = 2
    OBVIOUS
  <2> DEFINE n == m + 1
  <2> HIDE DEF n
  <2>2. /\ SubSeq(b, m, n) \in Seq(Cell)
        /\ Len(SubSeq(b, m, n)) = n - m + 1
        /\ \A i \in 1..(n - m + 1) : SubSeq(b, m, n)[i] = b[m + i - 1]
    <3>1. m \in Nat \ {0} /\ n \in Nat /\ m <= n /\ n <= Len(b)
      BY <2>1, <1>1 DEF n
    <3>2. b \in Seq(Cell)
      BY <1>1
    <3> QED BY ONLY <3>1, <3>2, CellPart
  <2> QED BY <2>1, <2>2 DEF n, Pair
<1>3. body \in Seq(Cell) /\ Len(body) = 4 /\ body[1] = b[11] /\ body[2] = b[12]
      /\ body[3] = b[13] /\ body[4] = b[14]
  <2>1. \A m \in Nat \ {0}, n \in Nat : m <= n /\ n <= 16 =>
            /\ SubSeq(b, m, n) \in Seq(Cell)
            /\ Len(SubSeq(b, m, n)) = n - m + 1
            /\ \A i \in 1..(n - m + 1) : SubSeq(b, m, n)[i] = b[m + i - 1]
    <3> TAKE m \in Nat \ {0}, n \in Nat
    <3> HAVE m <= n /\ n <= 16
    <3>1. /\ b \in Seq(Cell)
          /\ m \in Nat \ {0} /\ n \in Nat /\ m <= n /\ n <= Len(b)
      BY <1>1
    <3> QED BY ONLY <3>1, CellPart
  <2>2. /\ SubSeq(b, 11, 14) \in Seq(Cell) /\ Len(SubSeq(b, 11, 14)) = 4
        /\ \A i \in 1..4 : SubSeq(b, 11, 14)[i] = b[11 + i - 1]
    <3> DEFINE m == 11
               n == 14
    <3>1. m \in Nat \ {0} /\ n \in Nat /\ m <= n /\ n <= 16 /\ n - m + 1 = 4
      OBVIOUS
    <3> HIDE DEF m, n
    <3>2. /\ SubSeq(b, m, n) \in Seq(Cell)
          /\ Len(SubSeq(b, m, n)) = n - m + 1
          /\ \A i \in 1..(n - m + 1) : SubSeq(b, m, n)[i] = b[m + i - 1]
      BY <2>1, <3>1
    <3> QED BY <3>1, <3>2 DEF m, n
  <2> QED BY <2>2
<1>4. /\ b[1] = TX_VERSION
      /\ "error" \notin DOMAIN lane
      /\ Decode(b) = [tx |-> [anchor |-> [height |-> b[2], root |-> b[3]],
                              nullifiers |-> SubSeq(b, 4, 5),
                              commitments |-> SubSeq(b, 6, 7),
                              enc_outputs |-> SubSeq(b, 8, 9),
                              antispam |-> lane.antispam,
                              proof |-> SubSeq(b, 15, 16)]]
  BY <1>1 DEF Decode, ENCODED_LEN
<1>5. /\ SubSeq(b, 4, 5) \in Pair /\ SubSeq(b, 4, 5)[1] = b[4] /\ SubSeq(b, 4, 5)[2] = b[5]
      /\ SubSeq(b, 6, 7) \in Pair /\ SubSeq(b, 6, 7)[1] = b[6] /\ SubSeq(b, 6, 7)[2] = b[7]
      /\ SubSeq(b, 8, 9) \in Pair /\ SubSeq(b, 8, 9)[1] = b[8] /\ SubSeq(b, 8, 9)[2] = b[9]
      /\ SubSeq(b, 15, 16) \in Pair /\ SubSeq(b, 15, 16)[1] = b[15] /\ SubSeq(b, 15, 16)[2] = b[16]
  BY <1>2
<1>6. \/ /\ b[10] = POW_TAG /\ b[12] = 0 /\ b[13] = 0 /\ b[14] = 0
         /\ lane.antispam = [lane |-> "pow", nonce |-> b[11]]
      \/ /\ b[10] = QUOTA_TAG
         /\ lane.antispam = [lane |-> "quota", epoch |-> b[11], rate_nullifier |-> b[12],
                             x |-> b[13], y |-> b[14]]
  BY <1>3, <1>4 DEF FromWire
<1>7. lane.antispam \in PowArtifact \cup QuotaArtifact
  BY <1>1, <1>6 DEF PowArtifact, QuotaArtifact
<1> HIDE DEF lane
<1>8. DOMAIN Decode(b) = {"tx"}
  BY <1>4
<1>9. /\ tx.anchor = [height |-> b[2], root |-> b[3]]
      /\ tx.nullifiers = SubSeq(b, 4, 5) /\ tx.commitments = SubSeq(b, 6, 7)
      /\ tx.enc_outputs = SubSeq(b, 8, 9) /\ tx.antispam = lane.antispam
      /\ tx.proof = SubSeq(b, 15, 16)
      /\ tx \in Tx
  BY <1>1, <1>4, <1>5, <1>7 DEF Tx
<1>10. Carries(b, tx)
  <2>1. /\ b[2] = tx.anchor.height /\ b[3] = tx.anchor.root
        /\ b[4] = tx.nullifiers[1] /\ b[5] = tx.nullifiers[2]
        /\ b[6] = tx.commitments[1] /\ b[7] = tx.commitments[2]
        /\ b[8] = tx.enc_outputs[1] /\ b[9] = tx.enc_outputs[2]
        /\ b[15] = tx.proof[1] /\ b[16] = tx.proof[2]
    BY ONLY <1>5, <1>9
  <2>2. /\ tx.antispam.lane = "pow" =>
              /\ b[10] = POW_TAG
              /\ b[11] = tx.antispam.nonce /\ b[12] = 0 /\ b[13] = 0 /\ b[14] = 0
        /\ tx.antispam.lane = "quota" =>
              /\ b[10] = QUOTA_TAG
              /\ b[11] = tx.antispam.epoch /\ b[12] = tx.antispam.rate_nullifier
              /\ b[13] = tx.antispam.x /\ b[14] = tx.antispam.y
    BY ONLY <1>6, <1>9
  <2> HIDE DEF tx
  <2> QED BY ONLY <2>1, <2>2, <1>1, <1>4 DEF Carries, Cells
<1> QED BY <1>8, <1>9, <1>10

(* The cells of a transaction decode.                                      *)
LEMMA CarriedDecodes ==
    ASSUME NEW b, NEW tx \in Tx, Carries(b, tx)
    PROVE  "error" \notin DOMAIN Decode(b)
<1> DEFINE body == SubSeq(b, 11, 14)
<1>1. b \in Seq(Cell) /\ Len(b) = 16 /\ b[1] = TX_VERSION
  BY DEF Carries, Cells
<1>2. body[2] = b[12] /\ body[3] = b[13] /\ body[4] = b[14]
  <2> DEFINE m == 11
             n == 14
  <2>1. m \in Nat \ {0} /\ n \in Nat /\ m <= n /\ n <= Len(b) /\ n - m + 1 = 4
    BY <1>1
  <2> HIDE DEF m, n
  <2>2. /\ SubSeq(b, m, n) \in Seq(Cell)
        /\ Len(SubSeq(b, m, n)) = n - m + 1
        /\ \A i \in 1..(n - m + 1) : SubSeq(b, m, n)[i] = b[m + i - 1]
    <3>1. m \in Nat \ {0} /\ n \in Nat /\ m <= n /\ n <= Len(b)
      BY <2>1
    <3>2. b \in Seq(Cell)
      BY <1>1
    <3> QED BY ONLY <3>1, <3>2, CellPart
  <2> QED BY <2>1, <2>2 DEF m, n
<1>3. tx.antispam.lane \in {"pow", "quota"}
  BY DEF Tx, PowArtifact, QuotaArtifact
<1>4. "error" \notin DOMAIN FromWire(b[10], body)
  BY <1>2, <1>3 DEF FromWire, Carries, POW_TAG, QUOTA_TAG
<1> QED BY <1>1, <1>4 DEF Decode, ENCODED_LEN

(* Bytes carry one transaction.                                            *)
LEMMA OneTransaction ==
    ASSUME NEW b, NEW t \in Tx, NEW u \in Tx, Carries(b, t), Carries(b, u)
    PROVE  t = u
<1>0. \A r, s \in Pair : r[1] = s[1] /\ r[2] = s[2] => r = s
  BY SeqEqual DEF Pair
<1>1. t.anchor = u.anchor
  <2>1. t.anchor \in [height : Cell, root : Cell] /\ u.anchor \in [height : Cell, root : Cell]
    BY DEF Tx
  <2>2. t.anchor.height = u.anchor.height /\ t.anchor.root = u.anchor.root
    BY DEF Carries
  <2> QED BY <2>1, <2>2
<1>2. t.nullifiers = u.nullifiers
  <2>1. t.nullifiers \in Pair /\ u.nullifiers \in Pair
    BY DEF Tx
  <2> QED BY <2>1, <1>0 DEF Carries
<1>3. t.commitments = u.commitments
  <2>1. t.commitments \in Pair /\ u.commitments \in Pair
    BY DEF Tx
  <2> QED BY <2>1, <1>0 DEF Carries
<1>4. t.enc_outputs = u.enc_outputs
  <2>1. t.enc_outputs \in Pair /\ u.enc_outputs \in Pair
    BY DEF Tx
  <2> QED BY <2>1, <1>0 DEF Carries
<1>5. t.proof = u.proof
  <2>1. t.proof \in Pair /\ u.proof \in Pair
    BY DEF Tx
  <2> QED BY <2>1, <1>0 DEF Carries
<1>6. t.antispam = u.antispam
  <2>1. t.antispam \in PowArtifact \cup QuotaArtifact /\ u.antispam \in PowArtifact \cup QuotaArtifact
    BY DEF Tx
  <2> QED BY <2>1 DEF Carries, PowArtifact, QuotaArtifact, POW_TAG, QUOTA_TAG
<1> QED BY <1>1, <1>2, <1>3, <1>4, <1>5, <1>6 DEF Tx

(* A transaction is carried by one sequence of bytes.                      *)
LEMMA OneEncoding ==
    ASSUME NEW b, NEW c, NEW tx \in Tx, Carries(b, tx), Carries(c, tx)
    PROVE  b = c
<1>1. b \in Seq(Cell) /\ c \in Seq(Cell) /\ Len(b) = 16 /\ Len(c) = 16
  BY DEF Carries, Cells
<1>2. tx.antispam.lane \in {"pow", "quota"}
  BY DEF Tx, PowArtifact, QuotaArtifact
<1>3. /\ b[1] = c[1] /\ b[2] = c[2] /\ b[3] = c[3] /\ b[4] = c[4] /\ b[5] = c[5]
      /\ b[6] = c[6] /\ b[7] = c[7] /\ b[8] = c[8] /\ b[9] = c[9] /\ b[10] = c[10]
      /\ b[11] = c[11] /\ b[12] = c[12] /\ b[13] = c[13] /\ b[14] = c[14]
      /\ b[15] = c[15] /\ b[16] = c[16]
  BY <1>2 DEF Carries
<1>4. \A i \in 1..16 : b[i] = c[i]
  BY <1>3
<1> QED BY <1>1, <1>4, SeqEqual

(* The public inputs hold the digest, so that inputs that encode alike have*)
(* the digest in common.                                                   *)
LEMMA PublicInputsCells ==
    ASSUME NEW tx, Bodied(tx)
    PROVE  /\ Cells(EncodePublicInputs(ToPublicInputs(tx)), 17)
           /\ \A i \in 1..8 : EncodePublicInputs(ToPublicInputs(tx))[8 + i] = Digest(tx)[i]
<1> DEFINE pi == ToPublicInputs(tx)
           head == <<tx.anchor.height, tx.anchor.root, Len(tx.nullifiers)>>
           ns == tx.nullifiers
           count == <<Len(tx.commitments)>>
           cs == tx.commitments
           dg == Digest(tx)
           five == head \o ns
           six == five \o count
           eight == six \o cs
           sixteen == eight \o dg
<1>1. /\ Cells(ns, 2) /\ Cells(cs, 2) /\ Len(ns) = 2 /\ Len(cs) = 2
      /\ tx.anchor.height \in Cell /\ tx.anchor.root \in Cell
  BY DEF Bodied, Cells
<1>2. 2 \in Cell /\ 0 \in Cell
  BY DEF Cell
<1>3. Cells(head, 3) /\ Cells(count, 1) /\ Cells(<<0>>, 1)
  BY <1>1, <1>2 DEF Cells
<1>4. Cells(dg, 8)
  BY DigestCells
<1>5. EncodePublicInputs(pi) = sixteen \o <<0>>
  BY DEF EncodePublicInputs, ToPublicInputs
<1> HIDE DEF pi, head, ns, count, cs, dg
<1>6. Joined(five, head, ns, 3, 2)
  BY <1>1, <1>3, Join
<1> HIDE DEF five
<1>7. Joined(six, five, count, 5, 1)
  <2>1. Cells(five, 5)
    BY <1>6 DEF Joined
  <2> QED BY <2>1, <1>3, Join
<1> HIDE DEF six
<1>8. Joined(eight, six, cs, 6, 2)
  <2>1. Cells(six, 6)
    BY <1>7 DEF Joined
  <2> QED BY <2>1, <1>1, Join
<1> HIDE DEF eight
<1>9. Joined(sixteen, eight, dg, 8, 8)
  <2>1. Cells(eight, 8)
    BY <1>8 DEF Joined
  <2> QED BY <2>1, <1>4, Join
<1> HIDE DEF sixteen
<1>10. Joined(EncodePublicInputs(pi), sixteen, <<0>>, 16, 1)
  <2>1. Cells(sixteen, 16)
    BY <1>9 DEF Joined
  <2> QED BY <2>1, <1>3, <1>5, Join
<1>11. \A i \in 1..8 : sixteen[8 + i] = dg[i]
  BY <1>9 DEF Joined
<1>12. /\ Cells(EncodePublicInputs(pi), 17)
       /\ \A i \in 1..16 : EncodePublicInputs(pi)[i] = sixteen[i]
  BY <1>10 DEF Joined
<1>13. ASSUME NEW i \in 1..8 PROVE EncodePublicInputs(pi)[8 + i] = dg[i]
  <2>1. 8 + i \in 1..16
    OBVIOUS
  <2> QED BY <2>1, <1>11, <1>12
<1> QED BY <1>12, <1>13 DEF pi, dg

-----------------------------------------------------------------------------
(* A message's fields are numbers.                                         *)
LEMMA MessageFields ==
    ASSUME NEW m \in Messages
    PROVE  /\ m.anchor \in [height : Nat, root : Nat]
           /\ m.nullifiers \in Nat \X Nat /\ m.commitments \in Nat \X Nat
           /\ m.enc_outputs \in Nat \X Nat
BY MessageAssumption

(* A body with an artifact is a transaction with the body's digest and     *)
(* public inputs.                                                          *)
LEMMA SignedIsTx ==
    ASSUME NEW m \in Messages, NEW a \in PowArtifact \cup QuotaArtifact
    PROVE  /\ Bodied(m)
           /\ Signed(m, a) \in Tx
           /\ Digest(Signed(m, a)) = Digest(m)
           /\ ToPublicInputs(Signed(m, a)) = ToPublicInputs(m)
<1> DEFINE tag == EncodePublicInputs(ToPublicInputs(m))
<1>1. /\ m.anchor \in [height : Cell, root : Cell]
      /\ m.nullifiers \in Pair /\ m.commitments \in Pair /\ m.enc_outputs \in Pair
  <2>1. Nat \subseteq Cell
    BY DEF Cell
  <2>2. \A s \in Nat \X Nat : s \in Pair
    <3> TAKE s \in Nat \X Nat
    <3>1. s = <<s[1], s[2]>> /\ s[1] \in Cell /\ s[2] \in Cell
      BY <2>1
    <3>2. <<s[1], s[2]>> \in Seq(Cell) /\ Len(<<s[1], s[2]>>) = 2
      BY <3>1
    <3> QED BY <3>1, <3>2, Zenon DEF Pair
  <2> QED BY <2>1, <2>2, MessageFields
<1>2. Bodied(m)
  BY <1>1 DEF Bodied, Pair, Cells
<1>3. <<tag, 0>> \in Pair
  <2>1. tag \in Cell /\ 0 \in Cell
    BY DEF Cell
  <2> HIDE DEF tag
  <2> QED BY <2>1 DEF Pair
<1>4. DevProof(ToPublicInputs(m)) \in Pair
  BY <1>3 DEF DevProof
<1>5. Signed(m, a) \in Tx
  BY <1>1, <1>4 DEF Signed, Tx
<1>6. Digest(Signed(m, a)) = Digest(m)
  BY DEF Digest, Signed
<1>7. ToPublicInputs(Signed(m, a)) = ToPublicInputs(m)
  BY <1>6 DEF ToPublicInputs, Signed
<1> QED BY <1>2, <1>5, <1>6, <1>7

(* solve finds the least nonce that verifies.                              *)
LEMMA SolveIsLeast ==
    ASSUME NEW m \in Messages
    PROVE  LET n == Solve(Digest(m), DifficultyBits)
           IN  /\ n \in Solutions(Digest(m), DifficultyBits)
               /\ n \in Nat
               /\ \A j \in 0..n : PowVerify(Digest(m), j, DifficultyBits) <=> j = n
<1> DEFINE S == Solutions(Digest(m), DifficultyBits)
           n == Solve(Digest(m), DifficultyBits)
<1>1. S # {} /\ S \in SUBSET Nat /\ \A j \in S : j <= MaxNonce
  BY MessageAssumption DEF Solutions
<1>2. S = {j \in 0..MaxNonce : PowVerify(Digest(m), j, DifficultyBits)}
  BY DEF Solutions
<1>3. \E x \in S : \A y \in S : x <= y
  <2> HIDE DEF S
  <2> QED BY <1>1, LeastNat
<1>4. n \in S /\ \A y \in S : n <= y
  BY <1>3 DEF Solve
<1> QED
  <2> HIDE DEF n, S
  <2> SUFFICES /\ n \in S
               /\ n \in Nat
               /\ \A j \in 0..n : PowVerify(Digest(m), j, DifficultyBits) <=> j = n
    BY DEF n, S
  <2>1. n \in Nat /\ n \in 0..MaxNonce
    BY <1>1, <1>2, <1>4
  <2>2. ASSUME NEW j \in 0..n PROVE PowVerify(Digest(m), j, DifficultyBits) <=> j = n
    <3>1. j \in 0..MaxNonce
      BY <2>1, PuzzleAssumption
    <3>2. PowVerify(Digest(m), j, DifficultyBits) <=> j \in S
      BY <1>2, <3>1 DEF PowVerify
    <3>3. j \in S => j = n
      BY <1>4, <2>1
    <3> QED BY <3>2, <3>3, <1>4
  <2> QED BY <1>4, <2>1, <2>2

-----------------------------------------------------------------------------
(* The artifact a sender puts on its message, by lane.                     *)
QuotaArt(note, e, k, m) ==
    [lane |-> "quota", epoch |-> e, rate_nullifier |-> RateNullifier(note, e, k),
     x |-> MessageX(Digest(m)),
     y |-> FieldAdd(note.a0, FieldMul(note.a1[e], MessageX(Digest(m))))]

PowArt(m) == [lane |-> "pow", nonce |-> Solve(Digest(m), DifficultyBits)]

Art(s, ns) ==
    IF s.by \in Stakers THEN QuotaArt(ns[s.by], s.epoch, s.slot, s.message)
    ELSE PowArt(s.message)

NotesOk(ns) ==
    \A q \in Stakers : /\ ns[q].key = q /\ ns[q].stake = StakeOf[q]
                       /\ ns[q].a0 \in Field /\ ns[q].a1 \in [Epochs -> Field]

(* What was sent is what signal and solve made of a message.               *)
SentOk(s, ns, now) ==
    /\ s.message \in Messages
    /\ s.by \in Stakers => s.epoch \in 0..now /\ s.slot \in 0..(QuotaOf(ns[s.by]) - 1)
    /\ s.by \notin Stakers => s.by = 0
    /\ s.bytes = Encode(Signed(s.message, Art(s, ns)))

(* Products and sums of the field stay in it.                              *)
LEMMA FieldClosed ==
    ASSUME NEW a \in Nat
    PROVE  Reduce(a) \in Field
<1>1. P \in Nat \ {0, 1}
  BY PrimeAssumption
<1> QED BY <1>1 DEF Reduce, Field

(* A quota is at least one slot and at most the stake.                     *)
LEMMA QuotaBounds ==
    ASSUME NEW ns, NotesOk(ns), NEW q \in Stakers
    PROVE  /\ QuotaOf(ns[q]) \in Nat \ {0}
           /\ 0..(QuotaOf(ns[q]) - 1) \subseteq 0..StakeOf[q]
<1>1. StakeOf[q] \in Nat /\ STAKE_PER_SLOT \in Nat \ {0} /\ ns[q].stake = StakeOf[q]
  BY StakersAssumption, StakeAssumption DEF NotesOk
<1>2. \A a \in Nat, b \in Nat \ {0} : a \div b \in Nat /\ a \div b <= a
  OBVIOUS
<1> DEFINE d == StakeOf[q] \div STAKE_PER_SLOT
<1>3. d \in Nat /\ d <= StakeOf[q]
  BY <1>1, <1>2
<1>4. QuotaOf(ns[q]) = IF d > 1 THEN d ELSE 1
  BY <1>1 DEF QuotaOf
<1> QED
  <2> HIDE DEF d
  <2> QED BY <1>1, <1>3, <1>4

(* The fields of an artifact are numbers; a rate nullifier and a message's *)
(* hash are not zero.                                                      *)
LEMMA ArtFacts ==
    ASSUME NEW ns, NotesOk(ns), NEW now \in Epochs, NEW s, SentOk(s, ns, now)
    PROVE  /\ Art(s, ns) \in PowArtifact \cup QuotaArtifact
           /\ Art(s, ns).lane = "pow" => Art(s, ns).nonce \in Nat
           /\ Art(s, ns).lane = "quota" =>
                /\ s.by \in Stakers
                /\ Art(s, ns).epoch \in Nat /\ Art(s, ns).rate_nullifier \in Nat \ {0}
                /\ Art(s, ns).x \in Nat /\ Art(s, ns).y \in Nat
           /\ Art(s, ns).lane = "pow" <=> s.by \notin Stakers
<1>0. Nat \subseteq Cell
  BY DEF Cell
<1>1. CASE s.by \in Stakers
  <2> DEFINE note == ns[s.by]
             x == MessageX(Digest(s.message))
             y == FieldAdd(note.a0, FieldMul(note.a1[s.epoch], x))
             rn == RateNullifier(note, s.epoch, s.slot)
  <2>1. s.epoch \in Epochs /\ s.epoch \in Nat
    BY <1>1, StakersAssumption DEF SentOk, Epochs
  <2>2. s.slot \in 0..StakeOf[s.by]
    BY <1>1, QuotaBounds DEF SentOk
  <2>3. rn = RateHash(s.by, s.epoch, s.slot)
    BY <1>1 DEF RateNullifier, NotesOk
  <2>4. rn \in Nat \ {0}
    BY <1>1, <2>1, <2>2, <2>3, RateHashAssumption
  <2>5. x \in Nat
    BY MessageAssumption DEF SentOk, Field
  <2>6. note.a0 \in Nat /\ note.a1[s.epoch] \in Nat
    BY <1>1, <2>1 DEF NotesOk, Field
  <2>7. y \in Nat
    <3>1. note.a1[s.epoch] * x \in Nat
      BY <2>5, <2>6
    <3>2. FieldMul(note.a1[s.epoch], x) \in Nat
      BY <3>1, FieldClosed DEF FieldMul, Field
    <3>3. note.a0 + FieldMul(note.a1[s.epoch], x) \in Nat
      BY <2>6, <3>2
    <3> QED BY <3>3, FieldClosed DEF FieldAdd, Field
  <2>8. Art(s, ns) = [lane |-> "quota", epoch |-> s.epoch, rate_nullifier |-> rn,
                      x |-> x, y |-> y]
    BY <1>1 DEF Art, QuotaArt
  <2> HIDE DEF rn, x, y
  <2> QED BY <1>0, <1>1, <2>1, <2>4, <2>5, <2>7, <2>8 DEF QuotaArtifact
<1>2. CASE s.by \notin Stakers
  <2> DEFINE n == Solve(Digest(s.message), DifficultyBits)
  <2>1. n \in Nat
    BY SolveIsLeast DEF SentOk
  <2>2. Art(s, ns) = [lane |-> "pow", nonce |-> n]
    BY <1>2 DEF Art, PowArt
  <2> HIDE DEF n
  <2> QED BY <1>0, <1>2, <2>1, <2>2 DEF PowArtifact
<1> QED BY <1>1, <1>2

(* What was sent carries the message and its artifact, and decodes to them.*)
LEMMA SentCarries ==
    ASSUME NEW ns, NotesOk(ns), NEW now \in Epochs, NEW s, SentOk(s, ns, now)
    PROVE  /\ Signed(s.message, Art(s, ns)) \in Tx
           /\ Carries(s.bytes, Signed(s.message, Art(s, ns)))
           /\ "error" \notin DOMAIN Decode(s.bytes)
           /\ Decode(s.bytes).tx = Signed(s.message, Art(s, ns))
<1> DEFINE t == Signed(s.message, Art(s, ns))
<1>1. t \in Tx
  BY ArtFacts, SignedIsTx DEF SentOk
<1>2. Carries(s.bytes, t)
  BY <1>1, EncodeLaysOut DEF SentOk
<1> HIDE DEF t
<1>3. "error" \notin DOMAIN Decode(s.bytes)
  BY <1>1, <1>2, CarriedDecodes
<1>4. Decode(s.bytes).tx \in Tx /\ Carries(s.bytes, Decode(s.bytes).tx)
  BY <1>2, <1>3, DecodeReads DEF Carries
<1>5. Decode(s.bytes).tx = t
  BY <1>1, <1>2, <1>4, OneTransaction
<1> QED BY <1>1, <1>2, <1>3, <1>5 DEF t

(* Bytes c are b but for cell i, which the network may have changed.       *)
ChangedAt(c, b, i) ==
    /\ b[10] = QUOTA_TAG => i \notin 11..14
    /\ \A j \in 1..16 : j # i => c[j] = b[j]
    /\ i = 10 => c[i] \in {0, POW_TAG, QUOTA_TAG}
    /\ i = 15 => c[i] = << >>
    /\ i \notin {10, 15} => c[i] \in {0, b[i] + P}

(* Bytes of the right length that come of b are b or b changed at one cell.*)
LEMMA DamageIsOneCell ==
    ASSUME NEW b, Cells(b, 16), \A i \in (1..16) \ {15} : b[i] \in Nat,
           NEW c \in {b} \cup Damaged(b), Len(c) = 16
    PROVE  Cells(c, 16) /\ \/ c = b
                           \/ \E i \in 1..16 : ChangedAt(c, b, i)
<1>0. b \in Seq(Cell) /\ Len(b) = 16 /\ P \in Nat /\ Nat \subseteq Cell /\ << >> \in Cell
  BY PrimeAssumption DEF Cells, Cell
<1>1. CASE c = b
  BY <1>1, <1>0 DEF Cells
<1>2. CASE \E n \in {0, 9, 15} : c = SubSeq(b, 1, n)
  <2>1. PICK n \in {0, 9, 15} : c = SubSeq(b, 1, n)
    BY <1>2
  <2>2. Len(SubSeq(b, 1, n)) = n
    <3>1. CASE n = 0
      BY <3>1, SubSeqEmpty
    <3>2. CASE n # 0
      <4>1. n \in Nat /\ 1 <= n /\ n <= 16 /\ n - 1 + 1 = n
        BY <3>2
      <4> QED BY <1>0, <4>1, Part
    <3> QED BY <3>1, <3>2
  <2> QED BY <2>1, <2>2
<1>3. CASE c = Append(b, 0)
  <2>1. 0 \in Cell
    BY <1>0
  <2>2. Len(Append(b, 0)) = Len(b) + 1
    <3>1. \A r \in Seq(Cell), v \in Cell : Len(Append(r, v)) = Len(r) + 1
      OBVIOUS
    <3> QED BY <1>0, <2>1, <3>1
  <2> QED BY <1>0, <1>3, <2>2
<1> DEFINE changeable == (1..16) \ IF b[10] = QUOTA_TAG THEN 11..14 ELSE {}
           values(i) == CASE i = 10 -> {0, POW_TAG, QUOTA_TAG}
                          [] i = 15 -> {<< >>}
                          [] OTHER  -> {0, b[i] + P}
<1>4. CASE \E i \in changeable : \E v \in values(i) : c = [b EXCEPT ![i] = v]
  <2>0. PICK i \in changeable : \E v \in values(i) : c = [b EXCEPT ![i] = v]
    BY <1>4
  <2>1. PICK v \in values(i) : c = [b EXCEPT ![i] = v]
    BY <2>0
  <2>2. i \in 1..16 /\ (b[10] = QUOTA_TAG => i \notin 11..14)
    OBVIOUS
  <2>3. /\ i = 10 => v \in {0, POW_TAG, QUOTA_TAG}
        /\ i = 15 => v = << >>
        /\ i \notin {10, 15} => v \in {0, b[i] + P}
    OBVIOUS
  <2> HIDE DEF values, changeable
  <2>4. v \in Cell
    <3>1. i \notin {10, 15} => b[i] + P \in Nat
      BY <1>0, <2>2
    <3> QED BY <3>1, <1>0, <2>3 DEF POW_TAG, QUOTA_TAG
  <2>5. c \in Seq(Cell) /\ Len(c) = 16
    BY <1>0, <2>1, <2>2, <2>4, ExceptSeq
  <2>6. \A j \in 1..16 : c[j] = IF j = i THEN v ELSE b[j]
    BY <1>0, <2>1, <2>2
  <2>7. ChangedAt(c, b, i)
    BY <2>2, <2>3, <2>6 DEF ChangedAt
  <2> QED BY <2>2, <2>5, <2>7 DEF Cells
<1>5. Damaged(b) = ({SubSeq(b, 1, n) : n \in {0, 9, 15}} \cup {Append(b, 0)})
                     \cup UNION {{[b EXCEPT ![i] = v] : v \in values(i)} : i \in changeable}
  BY DEF Damaged
<1> HIDE DEF values, changeable
<1>6. \/ c = b \/ \E n \in {0, 9, 15} : c = SubSeq(b, 1, n)
      \/ c = Append(b, 0)
      \/ \E i \in changeable : \E v \in values(i) : c = [b EXCEPT ![i] = v]
  <2> DEFINE A == {SubSeq(b, 1, n) : n \in {0, 9, 15}}
             U == {{[b EXCEPT ![i] = v] : v \in values(i)} : i \in changeable}
  <2>1. c \in A => \E n \in {0, 9, 15} : c = SubSeq(b, 1, n)
    OBVIOUS
  <2>2. c \in UNION U => \E i \in changeable : c \in {[b EXCEPT ![i] = v] : v \in values(i)}
    BY Zenon
  <2>3. \A i \in changeable : c \in {[b EXCEPT ![i] = v] : v \in values(i)} =>
            \E v \in values(i) : c = [b EXCEPT ![i] = v]
    OBVIOUS
  <2>4. c = b \/ c \in A \/ c = Append(b, 0) \/ c \in UNION U
    <3> HIDE DEF A, U
    <3>1. Damaged(b) = (A \cup {Append(b, 0)}) \cup UNION U
      BY <1>5 DEF A, U
    <3> QED BY <3>1
  <2> HIDE DEF A, U
  <2> QED BY <2>1, <2>2, <2>3, <2>4
<1> QED
  BY <1>1, <1>2, <1>3, <1>4, <1>6

(* What passes the stateless checks.                                       *)
LEMMA StatelessOk ==
    ASSUME NEW tx, ValidateStateless(tx) = "Ok"
    PROVE  /\ ~(tx.nullifiers[1] >= tx.nullifiers[2])
           /\ tx.antispam.lane = "pow" => PowVerify(Digest(tx), tx.antispam.nonce, DifficultyBits)
           /\ tx.antispam.lane = "quota" => tx.antispam.x = MessageX(Digest(tx))
           /\ tx.proof[2] = 0 /\ tx.proof[1] = EncodePublicInputs(ToPublicInputs(tx))
BY DEF ValidateStateless, DevVerify

(* The cells that were sent are numbers, but for the proof's tag.          *)
LEMMA SentCells ==
    ASSUME NEW ns, NotesOk(ns), NEW now \in Epochs, NEW s, SentOk(s, ns, now)
    PROVE  Cells(s.bytes, 16) /\ \A i \in (1..16) \ {15} : s.bytes[i] \in Nat
<1> DEFINE b == s.bytes
           m == s.message
           a == Art(s, ns)
           t == Signed(m, a)
<1>1. /\ a.lane = "pow" => a.nonce \in Nat
      /\ a.lane = "quota" => /\ a.epoch \in Nat /\ a.rate_nullifier \in Nat \ {0}
                             /\ a.x \in Nat /\ a.y \in Nat
      /\ a.lane \in {"pow", "quota"}
  BY ArtFacts DEF PowArtifact, QuotaArtifact
<1>2. Carries(b, t)
  BY SentCarries
<1>3. m \in Messages
  BY DEF SentOk
<1>4. t.antispam = a /\ t.anchor = m.anchor /\ t.nullifiers = m.nullifiers
      /\ t.commitments = m.commitments /\ t.enc_outputs = m.enc_outputs /\ t.proof[2] = 0
  BY DEF Signed, DevProof
<1>5. Cells(b, 16)
  BY <1>2 DEF Carries
<1>6. /\ m.anchor.height \in Nat /\ m.anchor.root \in Nat
      /\ m.nullifiers[1] \in Nat /\ m.nullifiers[2] \in Nat
      /\ m.commitments[1] \in Nat /\ m.commitments[2] \in Nat
      /\ m.enc_outputs[1] \in Nat /\ m.enc_outputs[2] \in Nat
  BY <1>3, MessageFields
<1>7. /\ b[1] = 1 /\ b[2] = m.anchor.height /\ b[3] = m.anchor.root
      /\ b[4] = m.nullifiers[1] /\ b[5] = m.nullifiers[2]
      /\ b[6] = m.commitments[1] /\ b[7] = m.commitments[2]
      /\ b[8] = m.enc_outputs[1] /\ b[9] = m.enc_outputs[2] /\ b[16] = 0
  BY <1>2, <1>4 DEF Carries, TX_VERSION
<1>8. b[10] \in Nat /\ b[11] \in Nat /\ b[12] \in Nat /\ b[13] \in Nat /\ b[14] \in Nat
  BY <1>1, <1>2, <1>4 DEF Carries, POW_TAG, QUOTA_TAG
<1> HIDE DEF b, m
<1>9. Cells(b, 16) /\ \A i \in (1..16) \ {15} : b[i] \in Nat
  BY <1>5, <1>6, <1>7, <1>8
<1> QED BY <1>9 DEF b

(* Damage that passes decode and the stateless checks has changed nothing, *)
(* or the nonce of the proof-of-work lane.                                 *)
LEMMA DamageCaught ==
    ASSUME NEW ns, NotesOk(ns), NEW now \in Epochs, NEW s, SentOk(s, ns, now),
           NEW c \in {s.bytes} \cup Damaged(s.bytes),
           "error" \notin DOMAIN Decode(c), ValidateStateless(Decode(c).tx) = "Ok"
    PROVE  \/ Decode(c).tx = Signed(s.message, Art(s, ns))
           \/ /\ Art(s, ns).lane = "pow"
              /\ \E a \in PowArtifact : Decode(c).tx = Signed(s.message, a)
<1> DEFINE b == s.bytes
           m == s.message
           a == Art(s, ns)
           t == Signed(m, a)
           u == Decode(c).tx
<1>1. /\ a \in PowArtifact \cup QuotaArtifact
      /\ a.lane = "pow" => a.nonce \in Nat
      /\ a.lane = "quota" => /\ a.epoch \in Nat /\ a.rate_nullifier \in Nat \ {0}
                             /\ a.x \in Nat /\ a.y \in Nat
      /\ a.lane \in {"pow", "quota"}
  BY ArtFacts DEF PowArtifact, QuotaArtifact
<1>2. t \in Tx /\ Carries(b, t)
  BY SentCarries
<1>3. /\ m \in Messages /\ Bodied(m) /\ Digest(t) = Digest(m)
      /\ ToPublicInputs(t) = ToPublicInputs(m)
  BY <1>1, SignedIsTx DEF SentOk
<1>4. t.antispam = a /\ t.anchor = m.anchor /\ t.nullifiers = m.nullifiers
      /\ t.commitments = m.commitments /\ t.enc_outputs = m.enc_outputs
      /\ t.proof[1] = EncodePublicInputs(ToPublicInputs(m)) /\ t.proof[2] = 0
  BY DEF Signed, DevProof
<1>5. Cells(b, 16) /\ \A i \in (1..16) \ {15} : b[i] \in Nat
  BY SentCells
<1>6. Len(c) = 16
  BY DEF Decode, ENCODED_LEN
<1>7. Cells(c, 16) /\ (c = b \/ \E i \in 1..16 : ChangedAt(c, b, i))
  <2> HIDE DEF b
  <2>1. c \in {b} \cup Damaged(b)
    BY DEF b
  <2> QED BY <1>5, <1>6, <2>1, DamageIsOneCell
<1>8. u \in Tx /\ Carries(c, u)
  BY <1>7, DecodeReads
<1>9. /\ u.antispam.lane = "quota" => u.antispam.x = MessageX(Digest(u))
      /\ u.proof[2] = 0 /\ u.proof[1] = EncodePublicInputs(ToPublicInputs(u))
  BY StatelessOk
<1>10. u.antispam.lane \in {"pow", "quota"}
  BY <1>8 DEF Tx, PowArtifact, QuotaArtifact
<1>11. Bodied(u) /\ Bodied(t)
  BY <1>2, <1>8 DEF Bodied, Tx, Pair, Cells
<1>12. c = b => u = t
  BY <1>2, <1>8, OneTransaction
<1>13. ASSUME c[15] = b[15] PROVE Digest(u) = Digest(t)
  <2> DEFINE pu == EncodePublicInputs(ToPublicInputs(u))
             pt == EncodePublicInputs(ToPublicInputs(t))
  <2>1. pu = pt
    BY <1>2, <1>3, <1>4, <1>8, <1>9, <1>13 DEF Carries
  <2>2. /\ \A i \in 1..8 : pu[8 + i] = Digest(u)[i]
        /\ \A i \in 1..8 : pt[8 + i] = Digest(t)[i]
    BY <1>11, PublicInputsCells
  <2>3. \A i \in 1..8 : Digest(u)[i] = Digest(t)[i]
    BY <2>1, <2>2
  <2>4. Cells(Digest(u), 8) /\ Cells(Digest(t), 8)
    BY <1>11, DigestCells
  <2> QED BY <2>3, <2>4, SeqEqual DEF Cells
<1>14. ASSUME c[15] = b[15] PROVE \A i \in 2..9 : c[i] = b[i]
  <2>1. Digest(u) = Digest(t)
    BY <1>13, <1>14
  <2>2. /\ c[2] = Digest(u)[1] /\ c[3] = Digest(u)[2] /\ c[4] = Digest(u)[3]
        /\ c[5] = Digest(u)[4] /\ c[6] = Digest(u)[5] /\ c[7] = Digest(u)[6]
        /\ c[8] = Digest(u)[7] /\ c[9] = Digest(u)[8]
    BY <1>8, <1>11, DigestCells DEF Carries
  <2>3. /\ b[2] = Digest(t)[1] /\ b[3] = Digest(t)[2] /\ b[4] = Digest(t)[3]
        /\ b[5] = Digest(t)[4] /\ b[6] = Digest(t)[5] /\ b[7] = Digest(t)[6]
        /\ b[8] = Digest(t)[7] /\ b[9] = Digest(t)[8]
    BY <1>2, <1>11, DigestCells DEF Carries
  <2> HIDE DEF b, t, u
  <2> QED BY <2>1, <2>2, <2>3
<1>15. ASSUME NEW i \in 1..16, ChangedAt(c, b, i), c[i] = b[i] PROVE c = b
  <2>1. \A j \in 1..16 : c[j] = b[j]
    BY <1>15 DEF ChangedAt
  <2> HIDE DEF b
  <2> QED BY <2>1, <1>5, <1>7, SeqEqual DEF Cells
<1>16. SUFFICES ASSUME NEW i \in 1..16, ChangedAt(c, b, i)
                PROVE  c[i] = b[i] \/ (a.lane = "pow" /\ \E a2 \in PowArtifact : u = Signed(m, a2))
  BY <1>7, <1>12, <1>15
<1>17. P \in Nat \ {0}
  BY PrimeAssumption
<1>18. CASE i = 1
  BY <1>2, <1>8, <1>18 DEF Carries
<1>19. CASE i \in 2..9
  BY <1>14, <1>19, <1>16 DEF ChangedAt
<1>20. CASE i = 10
  <2>1. /\ c[15] = b[15] /\ c[12] = b[12] /\ c[13] = b[13]
        /\ c[10] \in {0, POW_TAG, QUOTA_TAG}
    BY <1>16, <1>20 DEF ChangedAt
  <2>2. CASE a.lane = "quota" /\ u.antispam.lane = "pow"
    BY <2>1, <2>2, <1>1, <1>2, <1>4, <1>8 DEF Carries
  <2>3. CASE a.lane = "pow" /\ u.antispam.lane = "quota"
    <3>1. u.antispam.x = 0
      BY <2>1, <2>3, <1>2, <1>4, <1>8 DEF Carries
    <3>2. Digest(u) = Digest(m)
      BY <2>1, <1>3, <1>13
    <3>3. MessageX(Digest(m)) # 0
      BY <1>3, MessageAssumption
    <3> QED BY <2>3, <3>1, <3>2, <3>3, <1>9
  <2>4. CASE a.lane = u.antispam.lane
    BY <2>4, <1>2, <1>4, <1>8, <1>10, <1>20 DEF Carries
  <2> QED BY <2>2, <2>3, <2>4, <1>1, <1>10
<1>21. CASE i \in 12..14
  <2>1. b[10] # QUOTA_TAG /\ c[10] = b[10]
    BY <1>16, <1>21 DEF ChangedAt
  <2>2. a.lane = "pow" /\ u.antispam.lane = "pow"
    BY <2>1, <1>1, <1>2, <1>4, <1>8, <1>10 DEF Carries
  <2> QED BY <2>2, <1>2, <1>4, <1>8, <1>21 DEF Carries
<1>22. CASE i = 11
  <2>1. b[10] # QUOTA_TAG /\ c[10] = b[10] /\ \A j \in 1..16 : j # 11 => c[j] = b[j]
    BY <1>16, <1>22 DEF ChangedAt
  <2>2. a.lane = "pow" /\ u.antispam.lane = "pow"
    BY <2>1, <1>1, <1>2, <1>4, <1>8, <1>10 DEF Carries
  <2>3. u.antispam \in PowArtifact
    BY <2>2, <1>8 DEF Tx, QuotaArtifact
  <2> DEFINE v == Signed(m, u.antispam)
  <2>4. v \in Tx
    BY <2>3, <1>3, SignedIsTx
  <2>5. /\ v.antispam = u.antispam /\ v.anchor = m.anchor /\ v.nullifiers = m.nullifiers
        /\ v.commitments = m.commitments /\ v.enc_outputs = m.enc_outputs
        /\ v.proof[1] = EncodePublicInputs(ToPublicInputs(m)) /\ v.proof[2] = 0
    BY DEF Signed, DevProof
  <2>6. Carries(c, v)
    <3> HIDE DEF v, t, u, b, m, a
    <3>1. /\ c[1] = b[1] /\ c[2] = b[2] /\ c[3] = b[3] /\ c[4] = b[4] /\ c[5] = b[5]
          /\ c[6] = b[6] /\ c[7] = b[7] /\ c[8] = b[8] /\ c[9] = b[9]
          /\ c[15] = b[15] /\ c[16] = b[16]
      BY <2>1
    <3> QED BY <3>1, <2>2, <2>5, <1>2, <1>4, <1>7, <1>8 DEF Carries
  <2>7. u = v
    BY <2>4, <2>6, <1>8, OneTransaction
  <2> QED BY <2>2, <2>3, <2>7
<1>23. CASE i = 15
  <2>1. c[15] = << >>
    BY <1>16, <1>23 DEF ChangedAt
  <2>2. u.proof[1] = << >>
    BY <2>1, <1>8 DEF Carries
  <2>3. /\ EncodePublicInputs(ToPublicInputs(u)) \in Seq(Cell)
        /\ Len(EncodePublicInputs(ToPublicInputs(u))) = 17
    BY <1>11, PublicInputsCells DEF Cells
  <2>4. \A e \in Seq(Cell) : Len(e) = 17 => e # << >>
    BY EmptySeq
  <2> QED BY <2>2, <2>3, <2>4, <1>9, Zenon
<1>24. CASE i = 16
  BY <1>2, <1>4, <1>8, <1>9, <1>24 DEF Carries
<1> QED
  BY <1>18, <1>19, <1>20, <1>21, <1>22, <1>23, <1>24

-----------------------------------------------------------------------------
(* The verdicts of decode and of the stateless checks.                     *)
LEMMA Verdicts ==
    /\ \A b : "error" \in DOMAIN Decode(b) => Decode(b).error = "Malformed"
    /\ \A tx : ValidateStateless(tx) \in
                 {"Ok", "NullifierOrder", "PowInvalid", "QuotaInvalid", "ProofInvalid"}
<1>1. ASSUME NEW b, "error" \in DOMAIN Decode(b) PROVE Decode(b).error = "Malformed"
  <2> DEFINE lane == FromWire(b[10], SubSeq(b, 11, 14))
  <2>1. CASE Len(b) # ENCODED_LEN \/ b[1] # TX_VERSION
    BY <2>1 DEF Decode
  <2>2. CASE ~(Len(b) # ENCODED_LEN \/ b[1] # TX_VERSION)
    <3>1. "error" \in DOMAIN lane /\ Decode(b) = lane
      BY <1>1, <2>2 DEF Decode
    <3>2. lane.error = "Malformed"
      BY <3>1 DEF FromWire
    <3> QED BY <3>1, <3>2
  <2> QED BY <2>1, <2>2
<1>2. ASSUME NEW tx
      PROVE  ValidateStateless(tx) \in
                 {"Ok", "NullifierOrder", "PowInvalid", "QuotaInvalid", "ProofInvalid"}
  BY DEF ValidateStateless
<1> QED BY <1>1, <1>2

(* What the ledger's checks have established of bytes it applies, and of   *)
(* bytes it slashes for.                                                   *)
LEMMA Passed ==
    ASSUME NEW b, NEW reg, Outcome(b, reg).verdict \in {"Ok", "Slash"}
    PROVE  LET tx == Decode(b).tx
           IN  /\ "error" \notin DOMAIN Decode(b)
               /\ ValidateStateless(tx) = "Ok"
               /\ Outcome(b, reg).verdict = "Ok" /\ tx.antispam.lane = "quota" =>
                     tx.antispam.epoch = epoch /\ SlotOf(tx.antispam) \notin DOMAIN reg
               /\ Outcome(b, reg).verdict = "Slash" =>
                     /\ tx.antispam.lane = "quota"
                     /\ SlotOf(tx.antispam) \in DOMAIN reg
                     /\ reg[SlotOf(tx.antispam)].x # tx.antispam.x
                     /\ Outcome(b, reg).secret
                          = RecoveredSecret(reg[SlotOf(tx.antispam)], tx.antispam)
<1> DEFINE tx == Decode(b).tx
<1>1. "error" \notin DOMAIN Decode(b)
  BY Verdicts DEF Outcome
<1>2. Outcome(b, reg) =
          IF tx.anchor \notin AnchorsValid THEN [verdict |-> "StaleOrUnknownAnchor"]
          ELSE IF ValidateStateless(tx) # "Ok" THEN [verdict |-> ValidateStateless(tx)]
          ELSE IF Range(tx.nullifiers) \cap spent # {} THEN [verdict |-> "DoubleSpend"]
          ELSE IF tx.antispam.lane = "quota" THEN QuotaVerdict(reg, tx.antispam)
          ELSE [verdict |-> "Ok"]
  BY <1>1 DEF Outcome
<1> HIDE DEF tx
<1>3. ValidateStateless(tx) = "Ok"
  BY <1>2, Verdicts
<1>4. /\ tx.antispam.lane = "quota" => Outcome(b, reg) = QuotaVerdict(reg, tx.antispam)
      /\ tx.antispam.lane # "quota" => Outcome(b, reg).verdict = "Ok"
  BY <1>2, <1>3
<1>5. Outcome(b, reg).verdict = "Ok" /\ tx.antispam.lane = "quota" =>
          tx.antispam.epoch = epoch /\ SlotOf(tx.antispam) \notin DOMAIN reg
  BY <1>4 DEF QuotaVerdict, AdmitProof
<1>6. Outcome(b, reg).verdict = "Slash" =>
          /\ tx.antispam.lane = "quota"
          /\ SlotOf(tx.antispam) \in DOMAIN reg
          /\ reg[SlotOf(tx.antispam)].x # tx.antispam.x
          /\ Outcome(b, reg).secret = RecoveredSecret(reg[SlotOf(tx.antispam)], tx.antispam)
  BY <1>4 DEF QuotaVerdict, AdmitProof
<1> QED BY <1>1, <1>3, <1>5, <1>6 DEF tx

-----------------------------------------------------------------------------
(* The share of a slot that the registry holds for a sent message.         *)
Share(s, ns) == [x |-> Art(s, ns).x, y |-> Art(s, ns).y]

SentSlot(s, ns) == <<s.epoch, RateNullifier(ns[s.by], s.epoch, s.slot)>>

(* Who holds a slot of the registry: a staker that sent a message for it   *)
(* whose notes are spent.                                                  *)
RegistryOk(reg, st, ns, sp) ==
    \A slot \in DOMAIN reg : \E s \in st :
        /\ s.by \in Stakers /\ slot = SentSlot(s, ns) /\ reg[slot] = Share(s, ns)
        /\ Range(s.message.nullifiers) \subseteq sp

Authentic(tx, s, ns) ==
    \/ tx = Signed(s.message, Art(s, ns))
    \/ /\ Art(s, ns).lane = "pow" /\ tx.antispam.lane = "pow"
       /\ tx = Signed(s.message, tx.antispam)

(* What was applied was sent.                                              *)
AcceptedOk(acc, st, ns) == \A tx \in acc : \E s \in st : Authentic(tx, s, ns)

(* The slot of what was applied is taken, by it alone.                     *)
SlotsTaken(acc, reg) ==
    /\ \A tx \in acc : tx.antispam.lane = "quota" => SlotOf(tx.antispam) \in DOMAIN reg
    /\ \A t, u \in acc : (/\ t.antispam.lane = "quota" /\ u.antispam.lane = "quota"
                          /\ SlotOf(t.antispam) = SlotOf(u.antispam)) => t = u

(* A secret given away was recovered from two shares of one slot.          *)
SlashedOk(sl, st, ns) ==
    \A z \in sl : \E a, b \in st :
        /\ a.message # b.message
        /\ a.by \in Stakers /\ <<a.by, a.epoch, a.slot>> = <<b.by, b.epoch, b.slot>>
        /\ z.slot = SentSlot(a, ns)
        /\ z.secret = RecoveredSecret(Share(b, ns), Art(a, ns))

SentInv == epoch \in Epochs /\ NotesOk(notes) /\ \A s \in sent : SentOk(s, notes, epoch)

(* The ledger as long as every rate proof arrives as its staker made it.   *)
LedgerInv ==
    /\ RegistryOk(registry, sent, notes, spent)
    /\ AcceptedOk(accepted, sent, notes)
    /\ SlashedOk(slashed, sent, notes)

(* Quota notes as they are made.                                           *)
LEMMA NotesMade ==
    ASSUME NEW seed \in Field
    PROVE  NotesOk([q \in Stakers |-> QuotaNote(q, seed)])
<1> SUFFICES ASSUME NEW q \in Stakers
             PROVE  /\ QuotaNote(q, seed).key = q /\ QuotaNote(q, seed).stake = StakeOf[q]
                    /\ QuotaNote(q, seed).a0 \in Field
                    /\ QuotaNote(q, seed).a1 \in [Epochs -> Field]
  BY DEF NotesOk
<1>1. seed \in Nat /\ q \in Nat
  BY StakersAssumption DEF Field
<1>2. Reduce(seed + q) \in Field
  BY <1>1, FieldClosed
<1>3. ASSUME NEW e \in Epochs PROVE Reduce(seed * seed + q + 2 * e) \in Field
  <2>1. e \in Nat
    BY DEF Epochs
  <2>2. seed * seed \in Nat
    BY <1>1
  <2>3. seed * seed + q + 2 * e \in Nat
    BY <1>1, <2>1, <2>2
  <2> QED BY <2>3, FieldClosed
<1> QED BY <1>2, <1>3 DEF QuotaNote

(* Sending adds one record as signal and solve make them.                  *)
LEMMA SendKeeps ==
    ASSUME LedgerInv, NEW r, sent' = sent \cup {r},
           UNCHANGED <<notes, epoch, registry, spent, accepted, slashed>>
    PROVE  LedgerInv'
<1>1. RegistryOk(registry, sent', notes, spent)
  BY DEF LedgerInv, RegistryOk
<1>2. AcceptedOk(accepted, sent', notes)
  BY DEF LedgerInv, AcceptedOk
<1>3. SlashedOk(slashed, sent', notes)
  BY DEF LedgerInv, SlashedOk
<1> QED BY <1>1, <1>2, <1>3 DEF LedgerInv

(* Bytes that pass the ledger's checks are authentic.                      *)
LEMMA PassedIsAuthentic ==
    ASSUME SentInv, NEW b \in Arriving, NEW reg, Outcome(b, reg).verdict \in {"Ok", "Slash"}
    PROVE  \E s \in sent :
               /\ Authentic(Decode(b).tx, s, notes)
               /\ Decode(b).tx.nullifiers = s.message.nullifiers
               /\ Decode(b).tx.antispam.lane = "quota" =>
                     /\ s.by \in Stakers
                     /\ Decode(b).tx.antispam = Art(s, notes)
                     /\ SlotOf(Decode(b).tx.antispam) = SentSlot(s, notes)
<1>1. PICK s \in sent : b \in {s.bytes} \cup Damaged(s.bytes)
  BY DEF Arriving
<1>2. "error" \notin DOMAIN Decode(b) /\ ValidateStateless(Decode(b).tx) = "Ok"
  BY Passed
<1>3. SentOk(s, notes, epoch) /\ NotesOk(notes) /\ epoch \in Epochs
  BY DEF SentInv
<1> DEFINE tx == Decode(b).tx
           art == Art(s, notes)
<1>4. \/ tx = Signed(s.message, art)
      \/ art.lane = "pow" /\ \E a \in PowArtifact : tx = Signed(s.message, a)
  BY <1>1, <1>2, <1>3, DamageCaught
<1>5. \A a : Signed(s.message, a).antispam = a /\ Signed(s.message, a).nullifiers = s.message.nullifiers
  BY DEF Signed
<1>6. \A a \in PowArtifact : a.lane = "pow"
  BY DEF PowArtifact
<1>7. art.lane = "quota" => /\ s.by \in Stakers
                            /\ SlotOf(art) = SentSlot(s, notes)
  <2>1. art.lane = "quota" => s.by \in Stakers
    BY <1>3, ArtFacts
  <2> QED BY <2>1 DEF Art, QuotaArt, SlotOf, SentSlot
<1> HIDE DEF tx, art
<1>8. CASE tx = Signed(s.message, art)
  BY <1>5, <1>7, <1>8 DEF Authentic, tx, art
<1>9. CASE art.lane = "pow" /\ \E a \in PowArtifact : tx = Signed(s.message, a)
  BY <1>5, <1>6, <1>9 DEF Authentic, tx, art
<1> QED BY <1>4, <1>8, <1>9

(* Two sent messages have one slot only when one staker used it for both.  *)
LEMMA SlotsApart ==
    ASSUME SentInv, NEW s \in sent, NEW t \in sent, s.by \in Stakers, t.by \in Stakers,
           SentSlot(s, notes) = SentSlot(t, notes)
    PROVE  s.by = t.by /\ s.epoch = t.epoch /\ s.slot = t.slot
<1>1. SentOk(s, notes, epoch) /\ SentOk(t, notes, epoch) /\ NotesOk(notes) /\ epoch \in Epochs
  BY DEF SentInv
<1>2. s.epoch \in Epochs /\ t.epoch \in Epochs
  BY <1>1, StakersAssumption DEF SentOk, Epochs
<1>3. s.slot \in 0..StakeOf[s.by] /\ t.slot \in 0..StakeOf[t.by]
  BY <1>1, QuotaBounds DEF SentOk
<1>4. RateHash(s.by, s.epoch, s.slot) = RateHash(t.by, t.epoch, t.slot)
  BY <1>1 DEF SentSlot, RateNullifier, NotesOk
<1> QED BY <1>2, <1>3, <1>4, RateHashAssumption

(* A delivery keeps the invariant, whatever its verdict.                   *)
LEMMA DeliverKeeps ==
    ASSUME SentInv, LedgerInv, NEW b \in Arriving, Deliver(b)
    PROVE  LedgerInv'
<1> DEFINE tx == Decode(b).tx
           outcome == Outcome(b, registry)
<1>1. UNCHANGED <<notes, sent, epoch>>
  BY DEF Deliver
<1>3. CASE outcome.verdict = "Ok"
  <2>1. /\ registry' = IF tx.antispam.lane = "quota"
                       THEN Recorded(registry, tx.antispam) ELSE registry
        /\ spent' = spent \cup Range(tx.nullifiers)
        /\ accepted' = accepted \cup {tx}
        /\ slashed' = slashed
    BY <1>3 DEF Deliver
  <2>2. tx.antispam.lane = "quota" => SlotOf(tx.antispam) \notin DOMAIN registry
    BY <1>3, Passed
  <2>3. PICK s \in sent :
            /\ Authentic(tx, s, notes)
            /\ tx.nullifiers = s.message.nullifiers
            /\ tx.antispam.lane = "quota" =>
                  /\ s.by \in Stakers
                  /\ tx.antispam = Art(s, notes)
                  /\ SlotOf(tx.antispam) = SentSlot(s, notes)
    BY <1>1, <1>3, PassedIsAuthentic
  <2> HIDE DEF tx
  <2>4. /\ tx.antispam.lane = "quota" =>
            /\ DOMAIN registry' = DOMAIN registry \cup {SlotOf(tx.antispam)}
            /\ registry'[SlotOf(tx.antispam)] = Share(s, notes)
            /\ \A slot \in DOMAIN registry : registry'[slot] = registry[slot]
        /\ tx.antispam.lane # "quota" => registry' = registry
    BY <2>1, <2>2, <2>3 DEF Recorded, Share
  <2>5. RegistryOk(registry', sent, notes, spent')
    <3> SUFFICES ASSUME NEW slot \in DOMAIN registry'
                 PROVE  \E r \in sent : /\ r.by \in Stakers /\ slot = SentSlot(r, notes)
                                        /\ registry'[slot] = Share(r, notes)
                                        /\ Range(r.message.nullifiers) \subseteq spent'
      BY DEF RegistryOk
    <3>1. CASE slot \in DOMAIN registry
      <4>1. registry'[slot] = registry[slot]
        BY <2>4, <3>1
      <4> QED BY <3>1, <4>1, <2>1 DEF LedgerInv, RegistryOk
    <3>2. CASE slot \notin DOMAIN registry
      <4>1. tx.antispam.lane = "quota" /\ slot = SlotOf(tx.antispam)
        BY <2>4, <3>2
      <4> QED BY <4>1, <2>1, <2>3, <2>4
    <3> QED BY <3>1, <3>2
  <2>6. AcceptedOk(accepted', sent, notes)
    BY <2>1, <2>3 DEF LedgerInv, AcceptedOk
  <2> QED BY <1>1, <2>1, <2>5, <2>6 DEF LedgerInv
<1>4. CASE outcome.verdict = "Slash"
  <2>1. /\ slashed' = slashed \cup {[slot |-> SlotOf(tx.antispam), secret |-> outcome.secret]}
        /\ UNCHANGED <<registry, spent, accepted>>
    BY <1>4 DEF Deliver
  <2>2. /\ tx.antispam.lane = "quota"
        /\ SlotOf(tx.antispam) \in DOMAIN registry
        /\ registry[SlotOf(tx.antispam)].x # tx.antispam.x
        /\ outcome.secret = RecoveredSecret(registry[SlotOf(tx.antispam)], tx.antispam)
    BY <1>4, Passed
  <2>3. PICK s \in sent : s.by \in Stakers /\ tx.antispam = Art(s, notes)
                          /\ SlotOf(tx.antispam) = SentSlot(s, notes)
    BY <1>1, <1>4, <2>2, PassedIsAuthentic
  <2> HIDE DEF tx, outcome
  <2>4. PICK t \in sent : /\ t.by \in Stakers /\ SlotOf(tx.antispam) = SentSlot(t, notes)
                          /\ registry[SlotOf(tx.antispam)] = Share(t, notes)
    BY <2>2 DEF LedgerInv, RegistryOk
  <2>5. s.by = t.by /\ s.epoch = t.epoch /\ s.slot = t.slot
    BY <1>1, <2>3, <2>4, SlotsApart
  <2>6. s.message # t.message
    BY <2>2, <2>3, <2>4 DEF Share, Art, QuotaArt
  <2>7. SlashedOk(slashed', sent, notes)
    <3> DEFINE z == [slot |-> SlotOf(tx.antispam), secret |-> outcome.secret]
    <3>1. z.slot = SentSlot(s, notes) /\ z.secret = RecoveredSecret(Share(t, notes), Art(s, notes))
      BY <2>2, <2>3, <2>4
    <3> HIDE DEF z
    <3>2. slashed' = slashed \cup {z}
      BY <2>1 DEF z
    <3> QED BY <3>1, <3>2, <2>3, <2>5, <2>6 DEF LedgerInv, SlashedOk
  <2> QED BY <1>1, <2>1, <2>7 DEF LedgerInv
<1>5. CASE outcome.verdict \notin {"Ok", "Slash"}
  <2>1. UNCHANGED <<registry, spent, accepted, slashed>>
    BY <1>5 DEF Deliver
  <2> QED BY <1>1, <2>1 DEF LedgerInv
<1> QED BY <1>3, <1>4, <1>5

(* What the senders and the epochs do, for both invariants below: a record *)
(* is added as signal or solve make it, or the epoch moves on.             *)
LEMMA QuotaSent ==
    ASSUME SentInv, NEW q \in Stakers, NEW m \in Messages, NEW k \in 0..StakeOf[q],
           SendQuota(q, k, m)
    PROVE  /\ \E r : SentOk(r, notes, epoch) /\ sent' = sent \cup {r}
           /\ UNCHANGED <<notes, epoch, registry, spent, accepted, slashed>>
<1> DEFINE r == [by |-> q, epoch |-> epoch, slot |-> k, message |-> m,
                 bytes |-> Encode(Signed(m, QuotaArt(notes[q], epoch, k, m)))]
<1>1. sent' = sent \cup {r} /\ UNCHANGED <<notes, epoch, registry, spent, accepted, slashed>>
  BY DEF SendQuota, Signal, QuotaArt
<1>2. Art(r, notes) = QuotaArt(notes[q], epoch, k, m)
  BY DEF Art
<1>3. k \in 0..(QuotaOf(notes[q]) - 1)
  <2>1. k < QuotaOf(notes[q])
    BY DEF SendQuota, CanSignal
  <2>2. QuotaOf(notes[q]) \in Nat \ {0}
    BY QuotaBounds DEF SentInv
  <2> QED BY <2>1, <2>2
<1>4. epoch \in 0..epoch
  BY StakersAssumption DEF SentInv, Epochs
<1>5. SentOk(r, notes, epoch)
  BY <1>2, <1>3, <1>4 DEF SentOk
<1> HIDE DEF r
<1> QED BY <1>1, <1>5

(* The same of the proof-of-work lane.                                     *)
LEMMA PowSent ==
    ASSUME NEW m \in Messages, SendPow(m)
    PROVE  /\ \E r : SentOk(r, notes, epoch) /\ sent' = sent \cup {r}
           /\ UNCHANGED <<notes, epoch, registry, spent, accepted, slashed>>
<1> DEFINE r == [by |-> 0, epoch |-> epoch, slot |-> 0, message |-> m,
                 bytes |-> Encode(Signed(m, PowArt(m)))]
<1>1. sent' = sent \cup {r} /\ UNCHANGED <<notes, epoch, registry, spent, accepted, slashed>>
  BY DEF SendPow, PowArt
<1>2. 0 \notin Stakers
  BY StakersAssumption
<1>3. Art(r, notes) = PowArt(m)
  BY <1>2 DEF Art
<1>4. SentOk(r, notes, epoch)
  BY <1>2, <1>3 DEF SentOk
<1> HIDE DEF r
<1> QED BY <1>1, <1>4

(* A later epoch takes nothing back of what was sent.                      *)
LEMMA EpochKeeps ==
    ASSUME SentInv, NextEpoch
    PROVE  SentInv'
<1>1. epoch' \in Epochs /\ 0..epoch \subseteq 0..epoch'
  BY StakersAssumption DEF NextEpoch, Epochs, SentInv
<1> QED BY <1>1 DEF NextEpoch, SentInv, SentOk

-----------------------------------------------------------------------------
(* Rate proofs that arrive altered.  A transaction with the body, the lane *)
(* and the x of what was sent:                                             *)
Kept(tx, s, ns) ==
    /\ tx = Signed(s.message, tx.antispam)
    /\ tx.antispam.lane = Art(s, ns).lane
    /\ tx.antispam.lane = "quota" => tx.antispam.x = Art(s, ns).x

BodyInv ==
    /\ SentInv
    /\ \A tx \in accepted : /\ \E s \in sent : Kept(tx, s, notes)
                            /\ Range(tx.nullifiers) \subseteq spent
    /\ \A t, u \in accepted : Digest(t) = Digest(u) => t = u
    /\ SlotsTaken(accepted, registry)

AdmissionInv == BodyInv /\ (~altered => LedgerInv)

(* An altered rate proof differs from what was sent in one of its cells.   *)
LEMMA AlteredCells ==
    ASSUME NEW c, Cells(c, 16), \A i \in (1..16) \ {15} : c[i] \in Nat, NEW b \in Altered(c)
    PROVE  /\ c[10] = QUOTA_TAG /\ Cells(b, 16)
           /\ \E i \in 11..14 : \A j \in 1..16 : j # i => b[j] = c[j]
<1>1. c \in Seq(Cell) /\ Len(c) = 16
  BY DEF Cells
<1>2. /\ c[10] = QUOTA_TAG
      /\ \E i \in 11..14 : b = [c EXCEPT ![i] = c[i] + 1]
  BY <1>1 DEF Altered
<1>3. PICK i \in 11..14 : b = [c EXCEPT ![i] = c[i] + 1]
  BY <1>2
<1> DEFINE v == c[i] + 1
<1>4. b = [c EXCEPT ![i] = v]
  BY <1>3
<1>5. v \in Cell
  BY DEF Cell
<1> HIDE DEF v
<1>6. c \in Seq(Cell) /\ i \in 1..Len(c) /\ v \in Cell /\ b = [c EXCEPT ![i] = v]
  BY <1>1, <1>4, <1>5
<1>7. b \in Seq(Cell) /\ Len(b) = Len(c)
  BY ONLY <1>6, ExceptSeq
<1>8. \A j \in 1..16 : j # i => b[j] = c[j]
  BY <1>1, <1>4
<1> QED BY <1>1, <1>2, <1>7, <1>8 DEF Cells

(* A rate proof whose changed cell gets past the stateless checks keeps    *)
(* the body and the x: x must be the hash of the digest.                   *)
LEMMA AlteredKeeps ==
    ASSUME SentInv, NEW s \in sent, NEW b \in Altered(s.bytes),
           "error" \notin DOMAIN Decode(b), ValidateStateless(Decode(b).tx) = "Ok"
    PROVE  Kept(Decode(b).tx, s, notes)
<1> DEFINE c == s.bytes
           m == s.message
           art == Art(s, notes)
           o == Signed(m, art)
           tx == Decode(b).tx
           t == Signed(m, tx.antispam)
<1>0. NotesOk(notes) /\ epoch \in Epochs /\ SentOk(s, notes, epoch) /\ m \in Messages
  BY DEF SentInv, SentOk
<1>1. Cells(c, 16) /\ \A i \in (1..16) \ {15} : c[i] \in Nat
  BY <1>0, SentCells
<1>2. o \in Tx /\ Carries(c, o)
  BY <1>0, SentCarries
<1>3. o.antispam = art /\ art \in PowArtifact \cup QuotaArtifact
  BY <1>0, ArtFacts DEF Signed
<1>4. /\ c[10] = QUOTA_TAG /\ Cells(b, 16)
      /\ \E i \in 11..14 : \A j \in 1..16 : j # i => b[j] = c[j]
  BY <1>1, AlteredCells
<1> HIDE DEF c, m, art, o, tx, t
<1>5. PICK i \in 11..14 : \A j \in 1..16 : j # i => b[j] = c[j]
  BY <1>4
<1>6. Cells(b, 16) /\ \A j \in 1..16 : j # i => b[j] = c[j]
  BY <1>4, <1>5
<1>7. tx \in Tx /\ Carries(b, tx)
  BY <1>6, DecodeReads DEF tx
<1>8. b[10] = QUOTA_TAG
  BY <1>4, <1>6
<1>9. tx.antispam \in PowArtifact \cup QuotaArtifact /\ tx.antispam.lane = "quota"
  <2>1. tx.antispam \in PowArtifact \cup QuotaArtifact
    BY <1>7 DEF Tx
  <2> QED BY <2>1, <1>7, <1>8 DEF Carries, PowArtifact, QuotaArtifact, POW_TAG, QUOTA_TAG
<1>10. art.lane = "quota"
  BY <1>2, <1>3, <1>4 DEF Carries, PowArtifact, QuotaArtifact, POW_TAG, QUOTA_TAG
<1>11. /\ t \in Tx /\ t.antispam = tx.antispam
       /\ Digest(t) = Digest(m)
       /\ t.anchor = o.anchor /\ t.nullifiers = o.nullifiers /\ t.commitments = o.commitments
       /\ t.enc_outputs = o.enc_outputs /\ t.proof = o.proof
  <2>1. t \in Tx /\ Digest(t) = Digest(m)
    BY <1>0, <1>9, SignedIsTx DEF t
  <2> QED BY <2>1 DEF t, o, Signed
<1>12. Carries(b, t)
  <2>1. /\ b[1] = c[1] /\ b[2] = c[2] /\ b[3] = c[3] /\ b[4] = c[4] /\ b[5] = c[5]
        /\ b[6] = c[6] /\ b[7] = c[7] /\ b[8] = c[8] /\ b[9] = c[9]
        /\ b[15] = c[15] /\ b[16] = c[16]
    BY <1>6
  <2> QED BY <2>1, <1>2, <1>6, <1>7, <1>9, <1>11 DEF Carries
<1>13. tx = t
  BY <1>7, <1>11, <1>12, OneTransaction
<1>14. tx.antispam.x = MessageX(Digest(m))
  <2>1. tx.antispam.x = MessageX(Digest(tx))
    BY <1>9, StatelessOk DEF tx
  <2> QED BY <2>1, <1>11, <1>13
<1>15. art.x = MessageX(Digest(m))
  <2>1. s.by \in Stakers
    BY <1>0, <1>10, ArtFacts DEF art
  <2> QED BY <2>1 DEF art, m, Art, QuotaArt
<1> QED BY <1>9, <1>10, <1>13, <1>14, <1>15 DEF Kept, t, tx, m, art

(* So does everything else that passes.                                    *)
LEMMA ArrivingKeeps ==
    ASSUME SentInv, NEW b \in Arriving, Outcome(b, registry).verdict = "Ok"
    PROVE  \E s \in sent : Kept(Decode(b).tx, s, notes)
<1>1. PICK s \in sent : Authentic(Decode(b).tx, s, notes)
  BY PassedIsAuthentic
<1>2. \A a : Signed(s.message, a).antispam = a
  BY DEF Signed
<1> QED BY <1>1, <1>2 DEF Authentic, Kept

(* A transaction with the body of a message has its digest; and what is    *)
(* applied spends nothing that is spent.                                   *)
LEMMA KeptDigest ==
    ASSUME NEW tx, NEW s, NEW ns, Kept(tx, s, ns)
    PROVE  Digest(tx) = Digest(s.message) /\ tx.nullifiers = s.message.nullifiers
<1>1. \A a : /\ Digest(Signed(s.message, a)) = Digest(s.message)
             /\ Signed(s.message, a).nullifiers = s.message.nullifiers
  BY DEF Signed, Digest
<1>2. tx = Signed(s.message, tx.antispam)
  BY DEF Kept
<1> QED BY <1>1, <1>2

(* The double-spend check comes before the registry is asked.              *)
LEMMA OkIsUnspent ==
    ASSUME NEW b, Outcome(b, registry).verdict = "Ok"
    PROVE  Range(Decode(b).tx.nullifiers) \cap spent = {}
<1> DEFINE tx == Decode(b).tx
<1>1. "error" \notin DOMAIN Decode(b)
  BY Verdicts DEF Outcome
<1>2. Outcome(b, registry) =
          IF tx.anchor \notin AnchorsValid THEN [verdict |-> "StaleOrUnknownAnchor"]
          ELSE IF ValidateStateless(tx) # "Ok" THEN [verdict |-> ValidateStateless(tx)]
          ELSE IF Range(tx.nullifiers) \cap spent # {} THEN [verdict |-> "DoubleSpend"]
          ELSE IF tx.antispam.lane = "quota" THEN QuotaVerdict(registry, tx.antispam)
          ELSE [verdict |-> "Ok"]
  BY <1>1 DEF Outcome
<1> HIDE DEF tx
<1>3. Range(tx.nullifiers) \cap spent = {}
  BY <1>2
<1> QED BY <1>3 DEF tx

(* A delivery of a kept body: it is new, so no accepted one has its digest.*)
LEMMA DeliverKeepsBody ==
    ASSUME BodyInv, NEW b, Deliver(b),
           Outcome(b, registry).verdict = "Ok" => \E s \in sent : Kept(Decode(b).tx, s, notes)
    PROVE  BodyInv'
<1> DEFINE tx == Decode(b).tx
<1>1. UNCHANGED <<notes, sent, epoch>> /\ SentInv /\ SentInv'
  BY DEF Deliver, BodyInv, SentInv
<1>2. CASE Outcome(b, registry).verdict = "Ok"
  <2>1. accepted' = accepted \cup {tx} /\ spent' = spent \cup Range(tx.nullifiers)
    BY <1>2 DEF Deliver
  <2>2. PICK s \in sent : Kept(tx, s, notes)
    BY <1>2
  <2>3. Range(tx.nullifiers) \cap spent = {}
    BY <1>2, OkIsUnspent
  <2>4. s.message \in Messages /\ Digest(tx) = Digest(s.message)
        /\ tx.nullifiers = s.message.nullifiers
    BY <1>1, <2>2, KeptDigest DEF SentInv, SentOk
  <2> HIDE DEF tx
  <2>5. ASSUME NEW t \in accepted PROVE Digest(t) # Digest(tx)
    <3> SUFFICES ASSUME Digest(t) = Digest(tx) PROVE FALSE
      OBVIOUS
    <3>1. PICK r \in sent : Kept(t, r, notes)
      BY DEF BodyInv
    <3>2. r.message \in Messages /\ Digest(t) = Digest(r.message)
          /\ t.nullifiers = r.message.nullifiers
      BY <1>1, <3>1, KeptDigest DEF SentInv, SentOk
    <3>3. r.message = s.message
      <4>1. MessageX(Digest(r.message)) = MessageX(Digest(s.message))
        BY <2>4, <3>2
      <4> QED BY <2>4, <3>2, <4>1, MessageAssumption
    <3>4. Range(tx.nullifiers) \subseteq spent
      BY <2>4, <3>2, <3>3 DEF BodyInv
    <3>5. Range(tx.nullifiers) # {}
      <4>1. tx.nullifiers \in Nat \X Nat
        BY <2>4, MessageFields
      <4>2. 1 \in DOMAIN tx.nullifiers
        BY <4>1
      <4> QED BY <4>2 DEF Range
    <3> QED BY <2>3, <3>4, <3>5
  <2>6. \A t \in accepted' : (\E r \in sent' : Kept(t, r, notes'))
                              /\ Range(t.nullifiers) \subseteq spent'
    BY <1>1, <2>1, <2>2 DEF BodyInv
  <2>7. \A t, u \in accepted' : Digest(t) = Digest(u) => t = u
    BY <2>1, <2>5 DEF BodyInv
  <2>8. SlotsTaken(accepted', registry')
    <3>1. tx.antispam.lane = "quota" =>
              /\ SlotOf(tx.antispam) \notin DOMAIN registry
              /\ DOMAIN registry' = DOMAIN registry \cup {SlotOf(tx.antispam)}
      BY <1>2, Passed DEF Deliver, Recorded, tx
    <3>2. tx.antispam.lane # "quota" => registry' = registry
      BY <1>2 DEF Deliver, tx
    <3>3. SlotsTaken(accepted, registry)
      BY DEF BodyInv
    <3>4. \A t \in accepted' :
              t.antispam.lane = "quota" => SlotOf(t.antispam) \in DOMAIN registry'
      BY <2>1, <3>1, <3>2, <3>3 DEF SlotsTaken
    <3>5. ASSUME NEW t \in accepted', NEW u \in accepted', t.antispam.lane = "quota",
                 u.antispam.lane = "quota", SlotOf(t.antispam) = SlotOf(u.antispam)
          PROVE  t = u
      <4>1. \A z \in accepted : z.antispam.lane = "quota" => SlotOf(z.antispam) \in DOMAIN registry
        BY <3>3 DEF SlotsTaken
      <4>2. CASE t \in accepted /\ u \in accepted
        BY <3>3, <3>5, <4>2 DEF SlotsTaken
      <4> QED BY <2>1, <3>1, <3>5, <4>1, <4>2
    <3> QED BY <3>4, <3>5 DEF SlotsTaken
  <2> QED BY <1>1, <2>6, <2>7, <2>8 DEF BodyInv
<1>3. CASE Outcome(b, registry).verdict # "Ok"
  BY <1>1, <1>3 DEF Deliver, BodyInv
<1> QED BY <1>2, <1>3

(* The invariant that the theorems rest on: what is sent, what was applied *)
(* and which slots it took; and, until a rate proof arrives altered, who   *)
(* holds the registry's slots and whose secrets were given away.           *)
THEOREM AdmissionInvariant == Spec => []AdmissionInv
<1>1. Init => AdmissionInv
  <2> SUFFICES ASSUME Init PROVE AdmissionInv
    OBVIOUS
  <2>1. NotesOk(notes)
    BY NotesMade DEF Init
  <2>2. epoch \in Epochs
    BY StakersAssumption DEF Init, Epochs
  <2>3. BodyInv
    BY <2>1, <2>2 DEF Init, BodyInv, SentInv, SlotsTaken
  <2>4. LedgerInv
    BY DEF Init, LedgerInv, RegistryOk, AcceptedOk, SlashedOk
  <2> QED BY <2>3, <2>4 DEF AdmissionInv
<1>2. AdmissionInv /\ [Next]_vars => AdmissionInv'
  <2> SUFFICES ASSUME AdmissionInv, [Next]_vars PROVE AdmissionInv'
    OBVIOUS
  <2>0. SentInv /\ BodyInv /\ (~altered => LedgerInv)
    BY DEF AdmissionInv, BodyInv
  <2>1. ASSUME NEW r, SentOk(r, notes, epoch), sent' = sent \cup {r},
               UNCHANGED <<notes, epoch, registry, spent, accepted, slashed>>,
               UNCHANGED altered
        PROVE  AdmissionInv'
    <3>1. BodyInv'
      BY <2>0, <2>1 DEF BodyInv, SentInv, SlotsTaken
    <3>2. ~altered => LedgerInv'
      BY <2>0, <2>1, SendKeeps
    <3> QED BY <2>1, <3>1, <3>2 DEF AdmissionInv
  <2>2. ASSUME NEW q \in Stakers, NEW m \in Messages, NEW k \in 0..StakeOf[q],
               SendQuota(q, k, m)
        PROVE  AdmissionInv'
    <3>1. UNCHANGED altered
      BY <2>2 DEF SendQuota
    <3> QED BY <2>0, <2>1, <2>2, <3>1, QuotaSent
  <2>3. ASSUME NEW m \in Messages, SendPow(m) PROVE AdmissionInv'
    <3>1. UNCHANGED altered
      BY <2>3 DEF SendPow
    <3> QED BY <2>1, <2>3, <3>1, PowSent
  <2>4. ASSUME NEW b \in Arriving, Deliver(b), UNCHANGED altered PROVE AdmissionInv'
    <3>1. BodyInv'
      BY <2>0, <2>4, ArrivingKeeps, DeliverKeepsBody
    <3>2. ~altered => LedgerInv'
      BY <2>0, <2>4, DeliverKeeps
    <3> QED BY <2>4, <3>1, <3>2 DEF AdmissionInv
  <2>5. ASSUME NEW s \in sent, NEW b \in Altered(s.bytes), DeliverAltered(b)
        PROVE  AdmissionInv'
    <3>1. Deliver(b) /\ altered'
      BY <2>5 DEF DeliverAltered
    <3>2. Outcome(b, registry).verdict = "Ok" => Kept(Decode(b).tx, s, notes)
      <4>1. Outcome(b, registry).verdict = "Ok" =>
                "error" \notin DOMAIN Decode(b) /\ ValidateStateless(Decode(b).tx) = "Ok"
        BY Passed
      <4> QED BY <2>0, <4>1, AlteredKeeps
    <3>3. BodyInv'
      BY <2>0, <3>1, <3>2, DeliverKeepsBody
    <3> QED BY <3>1, <3>3 DEF AdmissionInv
  <2>6. ASSUME NextEpoch PROVE AdmissionInv'
    <3>1. SentInv'
      BY <2>0, <2>6, EpochKeeps
    <3> QED BY <2>0, <2>6, <3>1 DEF NextEpoch, AdmissionInv, BodyInv, LedgerInv
  <2>7. ASSUME UNCHANGED vars PROVE AdmissionInv'
    BY <2>0, <2>7 DEF vars, AdmissionInv, BodyInv, SentInv, LedgerInv
  <2> QED BY <2>2, <2>3, <2>4, <2>5, <2>6, <2>7 DEF Next
<1> QED BY <1>1, <1>2, PTL DEF Spec

-----------------------------------------------------------------------------
(* One transaction, one encoding, for every sequence of bytes that can     *)
(* arrive (TxV1::encode, decode and AntiSpam::from_wire).                  *)
THEOREM CanonicalWireHolds == Spec => []CanonicalWire
<1>1. AdmissionInv => CanonicalWire
  <2> SUFFICES ASSUME SentInv, NEW b \in Arriving, "tx" \in DOMAIN Decode(b)
               PROVE  Encode(Decode(b).tx) = b /\ Len(b) = ENCODED_LEN
    BY DEF AdmissionInv, BodyInv, CanonicalWire
  <2> DEFINE lane == FromWire(b[10], SubSeq(b, 11, 14))
  <2>1. "error" \notin DOMAIN Decode(b) /\ Len(b) = 16
    <3>1. ~(Len(b) # ENCODED_LEN \/ b[1] # TX_VERSION)
      BY DEF Decode
    <3>2. "error" \in DOMAIN lane => lane = [error |-> "Malformed"]
      BY DEF FromWire
    <3>3. "error" \notin DOMAIN lane
      <4> HIDE DEF lane
      <4>1. "error" \in DOMAIN lane => Decode(b) = lane
        BY <3>1 DEF Decode, lane
      <4> QED BY <3>2, <4>1
    <3> QED BY <3>1, <3>3 DEF Decode, ENCODED_LEN
  <2>2. PICK s \in sent : b \in {s.bytes} \cup Damaged(s.bytes)
    BY DEF Arriving
  <2>3. Cells(s.bytes, 16) /\ \A i \in (1..16) \ {15} : s.bytes[i] \in Nat
    BY SentCells DEF SentInv
  <2>4. Cells(b, 16)
    BY <2>1, <2>2, <2>3, DamageIsOneCell
  <2>5. Decode(b).tx \in Tx /\ Carries(b, Decode(b).tx)
    BY <2>1, <2>4, DecodeReads
  <2>6. Carries(Encode(Decode(b).tx), Decode(b).tx)
    BY <2>5, EncodeLaysOut
  <2> QED BY <2>1, <2>5, <2>6, OneEncoding DEF ENCODED_LEN
<1> QED BY <1>1, AdmissionInvariant, PTL

(* Whatever one cell of damage, a transaction that is applied was sent, up *)
(* to the nonce, and to the slot and the share if its rate proof was       *)
(* altered; and it is applied once (TxV1::validate_stateless and the       *)
(* double-spend check of apply_checkpoint).                                *)
THEOREM AcceptedIsAuthenticHolds == Spec => []AcceptedIsAuthentic
<1>1. AdmissionInv => AcceptedIsAuthentic
  <2> SUFFICES ASSUME AdmissionInv, NEW tx \in accepted
               PROVE  \E s \in sent :
                        LET original == Decode(s.bytes).tx
                        IN  /\ tx = [original EXCEPT !.antispam = tx.antispam]
                            /\ tx.antispam.lane = original.antispam.lane
                            /\ tx.antispam.lane = "quota" =>
                                  /\ tx.antispam.x = original.antispam.x
                                  /\ ~altered => tx.antispam = original.antispam
    BY DEF AcceptedIsAuthentic, AdmissionInv, BodyInv
  <2>1. ASSUME NEW s \in sent, Kept(tx, s, notes)
        PROVE  LET original == Decode(s.bytes).tx
               IN  /\ tx = [original EXCEPT !.antispam = tx.antispam]
                   /\ tx.antispam.lane = original.antispam.lane
                   /\ tx.antispam.lane = "quota" => tx.antispam.x = original.antispam.x
                   /\ original.antispam = Art(s, notes)
    <3>1. Decode(s.bytes).tx = Signed(s.message, Art(s, notes))
      BY SentCarries DEF AdmissionInv, BodyInv, SentInv
    <3> DEFINE o == Decode(s.bytes).tx
    <3>2. [o EXCEPT !.antispam = tx.antispam] = Signed(s.message, tx.antispam)
      BY <3>1 DEF Signed
    <3>3. o.antispam = Art(s, notes)
      BY <3>1 DEF Signed
    <3>4. tx = [o EXCEPT !.antispam = tx.antispam]
      BY <2>1, <3>2 DEF Kept
    <3> HIDE DEF o
    <3> QED BY <2>1, <3>3, <3>4 DEF Kept, o
  <2>2. CASE altered
    <3>1. PICK s \in sent : Kept(tx, s, notes)
      BY DEF AdmissionInv, BodyInv
    <3> QED BY <2>1, <2>2, <3>1
  <2>3. CASE ~altered
    <3>1. PICK s \in sent : Authentic(tx, s, notes)
      BY <2>3 DEF AdmissionInv, LedgerInv, AcceptedOk
    <3>2. \A a : Signed(s.message, a).antispam = a
      BY DEF Signed
    <3>3. Kept(tx, s, notes) /\ (tx.antispam.lane = "quota" => tx.antispam = Art(s, notes))
      BY <3>1, <3>2 DEF Authentic, Kept
    <3> QED BY <2>1, <3>3
  <2> QED BY <2>2, <2>3
<1> QED BY <1>1, AdmissionInvariant, PTL

(* The slots of past epochs decide nothing: QuotaRegistry could forget them*)
(* (the ledger asks for the current epoch only).                           *)
THEOREM PruningIsSafeHolds == Spec => []PruningIsSafe
<1>1. PruningIsSafe
  <2> DEFINE live == [z \in {t \in DOMAIN registry : t[1] = epoch} |-> registry[z]]
  <2> SUFFICES ASSUME NEW s \in sent PROVE Outcome(s.bytes, registry) = Outcome(s.bytes, live)
    BY DEF PruningIsSafe
  <2>1. \A proof : QuotaVerdict(registry, proof) = QuotaVerdict(live, proof)
    <3> TAKE proof
    <3>1. CASE proof.epoch # epoch
      BY <3>1 DEF QuotaVerdict
    <3>2. CASE proof.epoch = epoch
      <4>1. SlotOf(proof)[1] = epoch
        BY <3>2 DEF SlotOf
      <4>2. /\ SlotOf(proof) \in DOMAIN registry <=> SlotOf(proof) \in DOMAIN live
            /\ SlotOf(proof) \in DOMAIN live => live[SlotOf(proof)] = registry[SlotOf(proof)]
        BY <4>1
      <4>3. AdmitProof(registry, proof) = AdmitProof(live, proof)
        BY <4>2 DEF AdmitProof
      <4> QED BY <3>2, <4>3 DEF QuotaVerdict
    <3> QED BY <3>1, <3>2
  <2> HIDE DEF live
  <2> QED BY <2>1 DEF Outcome
<1> QED BY <1>1, PTL

(* A staker's stake bounds what it gets through in an epoch (admit answers *)
(* Ok once per slot, and signal gives out quota() slots).                  *)
THEOREM AdmissionsWithinQuotaHolds == Spec => []AdmissionsWithinQuota
<1>1. AdmissionInv => AdmissionsWithinQuota
  <2> SUFFICES ASSUME AdmissionInv, NEW q \in Stakers, NEW e \in Epochs
               PROVE  Cardinality({tx \in accepted :
                                     /\ tx.antispam.lane = "quota"
                                     /\ SlotOf(tx.antispam) \in SlotsOf(q, e)})
                        <= QuotaOf(notes[q])
    BY DEF AdmissionsWithinQuota
  <2> DEFINE n == QuotaOf(notes[q])
             T == SlotsOf(q, e)
             S == {tx \in accepted : tx.antispam.lane = "quota" /\ SlotOf(tx.antispam) \in T}
             f == [tx \in S |-> SlotOf(tx.antispam)]
             g == [i \in 1..n |-> <<e, RateNullifier(notes[q], e, i - 1)>>]
  <2>1. n \in Nat \ {0}
    BY QuotaBounds DEF AdmissionInv, BodyInv, SentInv
  <2>2. T = {<<e, RateNullifier(notes[q], e, k)>> : k \in 0..(n - 1)}
    BY DEF SlotsOf
  <2> HIDE DEF n
  <2>3. g \in Surjection(1..n, T)
    <3>1. \A i \in 1..n : i - 1 \in 0..(n - 1)
      BY <2>1
    <3>2. g \in [1..n -> T]
      BY <3>1, <2>2
    <3>3. ASSUME NEW t \in T PROVE \E i \in 1..n : g[i] = t
      <4>1. PICK k \in 0..(n - 1) : t = <<e, RateNullifier(notes[q], e, k)>>
        BY <2>2
      <4>2. k + 1 \in 1..n /\ (k + 1) - 1 = k
        BY <2>1
      <4>3. g[k + 1] = t
        BY <4>1, <4>2
      <4> QED BY <4>2, <4>3
    <3> HIDE DEF g, T
    <3> QED BY <3>2, <3>3 DEF Surjection
  <2>4. IsFiniteSet(T) /\ Cardinality(T) <= n
    <3> HIDE DEF g, T
    <3>1. IsFiniteSet(1..n)
      BY <2>1, FS_Interval
    <3>2. IsFiniteSet(T)
      BY <2>3, <3>1, FS_Surjection
    <3>3. ExistsSurjection(1..n, T)
      BY <2>3 DEF ExistsSurjection
    <3> QED BY <2>1, <3>2, <3>3, FS_SurjCardinalityBound
  <2>5. f \in Injection(S, T)
    <3>1. f \in [S -> T]
      OBVIOUS
    <3>2. ASSUME NEW t \in S, NEW u \in S, f[t] = f[u] PROVE t = u
      <4>1. SlotsTaken(accepted, registry)
        BY DEF AdmissionInv, BodyInv
      <4> QED BY <3>2, <4>1 DEF SlotsTaken
    <3> HIDE DEF f, S, T
    <3> QED BY <3>1, <3>2 DEF Injection, IsInjective
  <2>6. IsFiniteSet(S) /\ Cardinality(S) <= Cardinality(T)
    <3> HIDE DEF f, S, T
    <3> QED BY <2>4, <2>5, FS_Injection
  <2>7. Cardinality(S) <= n
    <3> HIDE DEF S, T
    <3>1. Cardinality(S) \in Nat /\ Cardinality(T) \in Nat
      BY <2>4, <2>6, FS_CardinalityType
    <3> QED BY <2>1, <2>4, <2>6, <3>1
  <2> QED BY <2>7 DEF n
<1> QED BY <1>1, AdmissionInvariant, PTL

(* A message the ledger has no other reason to refuse.                     *)
Admissible(m) == m.anchor \in AnchorsValid /\ m.nullifiers[1] < m.nullifiers[2]

(* A staker who used a slot for one message gets it applied in that epoch: *)
(* the registry's slots are held by messages that were sent for them and   *)
(* applied (QuotaRegistry::admit, Ledger's quota rule).                    *)
THEOREM FairUseAdmittedHolds ==
    ASSUME \A m \in Messages : Admissible(m)
    PROVE  Spec => []FairUseAdmitted
<1>1. AdmissionInv => FairUseAdmitted
  <2> SUFFICES ASSUME AdmissionInv, ~altered, NEW s \in sent, s.by \in Stakers, s.epoch = epoch,
                      \A t \in sent \ {s} : <<t.by, t.epoch, t.slot>> = <<s.by, s.epoch, s.slot>>
                                            => t.message = s.message,
                      Range(s.message.nullifiers) \cap spent = {}
               PROVE  Outcome(s.bytes, registry).verdict = "Ok"
    BY DEF FairUseAdmitted
  <2> DEFINE m == s.message
             a == Art(s, notes)
             tx == Signed(m, a)
  <2>1. SentInv /\ SentOk(s, notes, epoch) /\ NotesOk(notes) /\ epoch \in Epochs /\ m \in Messages
    BY DEF AdmissionInv, BodyInv, SentInv, SentOk
  <2>2. "error" \notin DOMAIN Decode(s.bytes) /\ Decode(s.bytes).tx = tx
    BY <2>1, SentCarries
  <2>3. a.lane = "quota" /\ a.epoch = epoch /\ a.x = MessageX(Digest(m))
        /\ SlotOf(a) = SentSlot(s, notes)
    BY DEF Art, QuotaArt, SlotOf, SentSlot
  <2>4. a \in PowArtifact \cup QuotaArtifact
    BY <2>1, ArtFacts
  <2>5. Digest(tx) = Digest(m) /\ ToPublicInputs(tx) = ToPublicInputs(m)
    BY <2>1, <2>4, SignedIsTx
  <2>6. tx.antispam = a /\ tx.anchor = m.anchor /\ tx.nullifiers = m.nullifiers
        /\ tx.proof = DevProof(ToPublicInputs(m))
    BY DEF Signed
  <2>7. m.nullifiers \in Nat \X Nat
    BY <2>1, MessageFields
  <2>8. ValidateStateless(tx) = "Ok"
    <3> HIDE DEF tx, a
    <3>1. ~(tx.nullifiers[1] >= tx.nullifiers[2])
      BY <2>1, <2>6, <2>7 DEF Admissible
    <3>2. DevVerify(ToPublicInputs(tx), tx.proof)
      BY <2>5, <2>6 DEF DevVerify, DevProof
    <3>3. tx.antispam.lane = "quota" /\ tx.antispam.x = MessageX(Digest(tx))
      BY <2>3, <2>5, <2>6
    <3> QED BY <3>1, <3>2, <3>3 DEF ValidateStateless
  <2>9. SlotOf(a) \notin DOMAIN registry
    <3> SUFFICES ASSUME SlotOf(a) \in DOMAIN registry PROVE FALSE
      OBVIOUS
    <3>1. PICK t \in sent : /\ t.by \in Stakers /\ SlotOf(a) = SentSlot(t, notes)
                            /\ Range(t.message.nullifiers) \subseteq spent
      BY DEF AdmissionInv, LedgerInv, RegistryOk
    <3>2. s.by = t.by /\ s.epoch = t.epoch /\ s.slot = t.slot
      BY <2>1, <2>3, <3>1, SlotsApart
    <3>3. t.message = m
      BY <3>2
    <3>4. m.nullifiers[1] \in Range(m.nullifiers)
      BY <2>7 DEF Range
    <3> QED BY <3>1, <3>3, <3>4
  <2>10. QuotaVerdict(registry, tx.antispam).verdict = "Ok"
    BY <2>3, <2>6, <2>9 DEF QuotaVerdict, AdmitProof
  <2>11. tx.anchor \in AnchorsValid /\ Range(tx.nullifiers) \cap spent = {}
    BY <2>1, <2>6 DEF Admissible
  <2> HIDE DEF tx, a, m
  <2>12. tx.antispam.lane = "quota"
    BY <2>3, <2>6
  <2> QED BY <2>2, <2>8, <2>10, <2>11, <2>12 DEF Outcome
<1> QED BY <1>1, AdmissionInvariant, PTL

-----------------------------------------------------------------------------
(* Reduction leaves a multiple of the prime out.                           *)
LEMMA ReduceInt ==
    ASSUME NEW a \in Int
    PROVE  Reduce(a) \in Field /\ \E u \in Int : Reduce(a) = a + P * u
<1>1. P \in Nat /\ P > 0
  BY PrimeAssumption
<1>2. Reduce(a) \in Field
  BY <1>1 DEF Field, Reduce
<1>3. a = P * (a \div P) + (a % P)
  BY <1>1
<1>4. a \div P \in Int /\ -(a \div P) \in Int /\ a % P \in Int
  BY <1>1
<1>5. Reduce(a) = a + P * (-(a \div P))
  BY <1>1, <1>3, <1>4 DEF Reduce
<1> QED BY <1>2, <1>4, <1>5

(* Elements that differ by a multiple of the prime are equal.              *)
LEMMA FieldEqual ==
    ASSUME NEW a \in Field, NEW b \in Field, NEW u \in Int, a = b + P * u
    PROVE  a = b
<1>1. P \in Nat /\ P > 0
  BY PrimeAssumption
<1>2. a \in Int /\ b \in Int /\ a < P /\ b < P /\ a >= 0 /\ b >= 0
  BY <1>1 DEF Field
<1>3. CASE u >= 1
  <2>1. P * u >= P
    BY <1>1, <1>3
  <2> QED BY <2>1, <1>2, <1>1
<1>4. CASE u <= -1
  <2>1. P * u <= -P
    BY <1>1, <1>4
  <2> QED BY <2>1, <1>2, <1>1
<1> QED BY <1>3, <1>4, <1>2, <1>1

(* A line's value and slope are in the field, and so is each of its points.*)
OnLine(p, a0, a1) == p.x \in Field /\ p.y = FieldAdd(a0, FieldMul(a1, p.x))

(* Two points of a line give its value at 0.                               *)
LEMMA SecretRecovered ==
    ASSUME NEW a0 \in Field, NEW a1 \in Field, NEW p, NEW r,
           OnLine(p, a0, a1), OnLine(r, a0, a1), p.x # r.x
    PROVE  RecoveredSecret(p, r) = a0
<1> DEFINE x1 == p.x
           x2 == r.x
           y1 == p.y
           y2 == r.y
           dx == FieldSub(x2, x1)
           dy == FieldSub(y2, y1)
           inv == FieldInv(dx)
           slope == FieldMul(dy, inv)
           secret == FieldSub(y1, FieldMul(slope, x1))
<1>0. P \in Nat /\ P > 0 /\ \A a \in Field : a \in Int
  BY PrimeAssumption DEF Field
<1>1. RecoveredSecret(p, r) = secret
  BY DEF RecoveredSecret
<1>2. x1 \in Field /\ x2 \in Field /\ x1 # x2
  BY DEF OnLine
<1>3. \A a, b \in Int : FieldMul(a, b) \in Field /\ \E u \in Int : FieldMul(a, b) = a * b + P * u
  <2> SUFFICES ASSUME NEW a \in Int, NEW b \in Int
               PROVE  FieldMul(a, b) \in Field /\ \E u \in Int : FieldMul(a, b) = a * b + P * u
    OBVIOUS
  <2>1. a * b \in Int
    OBVIOUS
  <2> QED BY <2>1, ReduceInt DEF FieldMul
<1>4. \A a, b \in Int : FieldAdd(a, b) \in Field /\ \E u \in Int : FieldAdd(a, b) = a + b + P * u
  <2> SUFFICES ASSUME NEW a \in Int, NEW b \in Int
               PROVE  FieldAdd(a, b) \in Field /\ \E u \in Int : FieldAdd(a, b) = a + b + P * u
    OBVIOUS
  <2>1. a + b \in Int
    OBVIOUS
  <2> QED BY <2>1, ReduceInt DEF FieldAdd
<1>5. \A a, b \in Int : FieldSub(a, b) \in Field /\ \E u \in Int : FieldSub(a, b) = a - b + P * u
  <2> SUFFICES ASSUME NEW a \in Int, NEW b \in Int
               PROVE  FieldSub(a, b) \in Field /\ \E u \in Int : FieldSub(a, b) = a - b + P * u
    OBVIOUS
  <2>1. a + P - b \in Int
    BY <1>0
  <2>2. PICK u \in Int : FieldSub(a, b) = (a + P - b) + P * u
    BY <2>1, ReduceInt DEF FieldSub
  <2>3. u + 1 \in Int /\ FieldSub(a, b) = a - b + P * (u + 1)
    BY <2>2, <1>0
  <2> QED BY <2>1, <2>3, ReduceInt DEF FieldSub
<1>6. y1 \in Field /\ \E u \in Int : y1 = a0 + a1 * x1 + P * u
  <2>1. PICK v \in Int : FieldMul(a1, x1) = a1 * x1 + P * v
    BY <1>0, <1>2, <1>3
  <2>2. FieldMul(a1, x1) \in Int
    BY <1>0, <1>2, <1>3
  <2>3. PICK w \in Int : FieldAdd(a0, FieldMul(a1, x1)) = a0 + FieldMul(a1, x1) + P * w
    BY <1>0, <2>2, <1>4
  <2>4. y1 = FieldAdd(a0, FieldMul(a1, x1)) /\ y1 \in Field
    BY <1>0, <2>2, <1>4 DEF OnLine
  <2>5. v + w \in Int /\ y1 = a0 + a1 * x1 + P * (v + w)
    BY <1>0, <1>2, <2>1, <2>3, <2>4
  <2> QED BY <2>4, <2>5
<1>7. y2 \in Field /\ \E u \in Int : y2 = a0 + a1 * x2 + P * u
  <2>1. PICK v \in Int : FieldMul(a1, x2) = a1 * x2 + P * v
    BY <1>0, <1>2, <1>3
  <2>2. FieldMul(a1, x2) \in Int
    BY <1>0, <1>2, <1>3
  <2>3. PICK w \in Int : FieldAdd(a0, FieldMul(a1, x2)) = a0 + FieldMul(a1, x2) + P * w
    BY <1>0, <2>2, <1>4
  <2>4. y2 = FieldAdd(a0, FieldMul(a1, x2)) /\ y2 \in Field
    BY <1>0, <2>2, <1>4 DEF OnLine
  <2>5. v + w \in Int /\ y2 = a0 + a1 * x2 + P * (v + w)
    BY <1>0, <1>2, <2>1, <2>3, <2>4
  <2> QED BY <2>4, <2>5
<1> HIDE DEF x1, x2, y1, y2
<1>8. PICK u1 \in Int : y1 = a0 + a1 * x1 + P * u1
  BY <1>6
<1>9. PICK u2 \in Int : y2 = a0 + a1 * x2 + P * u2
  BY <1>7
<1>10. dx \in Field /\ \E u \in Int : dx = x2 - x1 + P * u
  BY <1>0, <1>2, <1>5
<1>11. PICK u3 \in Int : dx = x2 - x1 + P * u3
  BY <1>10
<1>12. dy \in Field /\ \E u \in Int : dy = y2 - y1 + P * u
  <2>1. y1 \in Int /\ y2 \in Int
    BY <1>0, <1>6, <1>7
  <2> QED BY ONLY <2>1, <1>5, Zenon DEF dy
<1>13. PICK u4 \in Int : dy = y2 - y1 + P * u4
  BY <1>12
<1> HIDE DEF dx, dy
<1>14. dx # 0
  <2> SUFFICES ASSUME dx = 0 PROVE FALSE
    OBVIOUS
  <2>1. x1 \in Int /\ x2 \in Int /\ P \in Int
    BY <1>0, <1>2
  <2>2. \A a, b, c, d \in Int : a = 0 /\ a = b - c + d => c = b + d
    OBVIOUS
  <2>3. P * u3 \in Int
    BY <2>1
  <2>4. x1 = x2 + P * u3
    BY <2>1, <2>2, <2>3, <1>11, 0 \in Int
  <2> QED BY <1>2, <2>4, FieldEqual
<1>15. inv \in Field /\ FieldMul(dx, inv) = 1
  BY <1>10, <1>14, InverseAssumption
<1> HIDE DEF inv
<1>16. PICK u5 \in Int : dx * inv = 1 + P * u5
  <2>1. PICK v \in Int : FieldMul(dx, inv) = dx * inv + P * v
    <3>1. dx \in Int /\ inv \in Int
      BY <1>0, <1>10, <1>15
    <3> QED BY ONLY <3>1, <1>3, Zenon
  <2> DEFINE z == dx * inv
  <2>2. z \in Int
    BY <1>0, <1>10, <1>15
  <2>3. 1 = z + P * v
    BY <2>1, <1>15
  <2> HIDE DEF z
  <2>4. -v \in Int /\ z = 1 + P * (-v)
    BY <1>0, <2>2, <2>3
  <2> QED BY <2>4 DEF z
<1>17. slope \in Field /\ \E u \in Int : slope = dy * inv + P * u
  <2>1. dy \in Int /\ inv \in Int
    BY <1>0, <1>12, <1>15
  <2> QED BY ONLY <2>1, <1>3, Zenon DEF slope
<1>18. PICK u6 \in Int : slope = dy * inv + P * u6
  BY <1>17
<1> HIDE DEF slope
<1>19. \E w \in Int : slope = a1 + P * w
  <2>1. /\ a0 \in Int /\ a1 \in Int /\ x1 \in Int /\ x2 \in Int /\ y1 \in Int /\ y2 \in Int
        /\ dx \in Int /\ dy \in Int /\ inv \in Int /\ slope \in Int
    BY <1>0, <1>2, <1>6, <1>7, <1>10, <1>12, <1>15, <1>17
  <2>2. P \in Int
    BY <1>0
  <2> DEFINE v == u2 - u1 + u4 - a1 * u3
  <2>3. v \in Int
    BY <2>1
  <2>4. dy = a1 * (x2 - x1) + P * (u2 - u1 + u4)
    BY <2>1, <2>2, <1>8, <1>9, <1>13
  <2>5. dy = a1 * (dx - P * u3) + P * (u2 - u1 + u4)
    BY <2>1, <2>2, <2>4, <1>11
  <2>6. dy = a1 * dx + P * v
    BY <2>1, <2>2, <2>5
  <2> HIDE DEF v
  <2>7. dy * inv = a1 * (dx * inv) + P * (v * inv)
    BY ONLY <2>1, <2>2, <2>3, <2>6
  <2>8. dy * inv = a1 + P * (a1 * u5 + v * inv)
    BY <2>1, <2>2, <2>3, <2>7, <1>16
  <2>9. slope = a1 + P * (a1 * u5 + v * inv + u6)
    BY <2>1, <2>2, <2>3, <2>8, <1>18
  <2>10. a1 * u5 + v * inv + u6 \in Int
    BY <2>1, <2>3
  <2> QED BY <2>9, <2>10
<1>20. slope = a1
  BY <1>17, <1>19, FieldEqual
<1>21. PICK v \in Int : FieldMul(a1, x1) = a1 * x1 + P * v
  BY <1>0, <1>2, <1>3
<1> DEFINE z == FieldMul(a1, x1)
<1>22. z \in Int
  BY <1>0, <1>2, <1>3
<1>23. z = a1 * x1 + P * v
  BY <1>21
<1> HIDE DEF z
<1>24. FieldSub(y1, z) \in Field /\ \E u \in Int : FieldSub(y1, z) = y1 - z + P * u
  <2>1. y1 \in Int
    BY <1>0, <1>6
  <2> QED BY ONLY <2>1, <1>5, <1>22, Zenon
<1>25. PICK w \in Int : FieldSub(y1, z) = y1 - z + P * w
  BY <1>24
<1>26. u1 - v + w \in Int /\ FieldSub(y1, z) = a0 + P * (u1 - v + w)
  <2>1. a0 \in Int /\ a1 * x1 \in Int
    BY <1>0, <1>2
  <2> DEFINE t == a1 * x1
  <2>2. t \in Int /\ z = t + P * v /\ y1 = a0 + t + P * u1
    BY <2>1, <1>8, <1>23
  <2> HIDE DEF t
  <2> QED BY <2>1, <2>2, <1>0, <1>25
<1>27. FieldSub(y1, z) = a0
  BY <1>24, <1>26, FieldEqual
<1>28. secret = FieldSub(y1, z)
  BY <1>20 DEF z
<1> QED BY <1>1, <1>27, <1>28

(* A secret is given away only for a slot that a staker used for two       *)
(* messages, and it is that staker's (QuotaRegistry::admit).               *)
THEOREM SlashNamesTheReuserHolds == Spec => []SlashNamesTheReuser
<1>1. AdmissionInv => SlashNamesTheReuser
  <2> SUFFICES ASSUME AdmissionInv, ~altered, NEW z \in slashed
               PROVE  \E a, b \in sent :
                         /\ a.message # b.message
                         /\ a.by \in Stakers
                         /\ <<a.by, a.epoch, a.slot>> = <<b.by, b.epoch, b.slot>>
                         /\ z.slot = <<a.epoch, RateNullifier(notes[a.by], a.epoch, a.slot)>>
                         /\ z.secret = notes[a.by].a0
    BY DEF SlashNamesTheReuser
  <2>1. PICK a \in sent, b \in sent :
            /\ a.message # b.message
            /\ a.by \in Stakers /\ <<a.by, a.epoch, a.slot>> = <<b.by, b.epoch, b.slot>>
            /\ z.slot = SentSlot(a, notes)
            /\ z.secret = RecoveredSecret(Share(b, notes), Art(a, notes))
    BY DEF AdmissionInv, LedgerInv, SlashedOk
  <2>2. b.by = a.by /\ b.epoch = a.epoch /\ b.slot = a.slot
    BY <2>1
  <2> DEFINE note == notes[a.by]
             a0 == note.a0
             a1 == note.a1[a.epoch]
             p == Share(b, notes)
             r == Art(a, notes)
  <2>3. /\ SentOk(a, notes, epoch) /\ SentOk(b, notes, epoch) /\ NotesOk(notes) /\ epoch \in Epochs
        /\ a.message \in Messages /\ b.message \in Messages
    BY DEF AdmissionInv, BodyInv, SentInv, SentOk
  <2>4. a.epoch \in Epochs
    BY <2>1, <2>3, StakersAssumption DEF SentOk, Epochs
  <2>5. a0 \in Field /\ a1 \in Field
    BY <2>1, <2>3, <2>4 DEF NotesOk
  <2>6. /\ p.x = MessageX(Digest(b.message)) /\ r.x = MessageX(Digest(a.message))
        /\ p.y = FieldAdd(a0, FieldMul(a1, p.x)) /\ r.y = FieldAdd(a0, FieldMul(a1, r.x))
    BY <2>1, <2>2 DEF Share, Art, QuotaArt
  <2>7. p.x \in Field /\ r.x \in Field /\ p.x # r.x
    BY <2>1, <2>3, <2>6, MessageAssumption
  <2>8. OnLine(p, a0, a1) /\ OnLine(r, a0, a1)
    BY <2>6, <2>7 DEF OnLine
  <2> HIDE DEF a0, a1, p, r
  <2>9. RecoveredSecret(p, r) = a0
    BY <2>5, <2>7, <2>8, SecretRecovered
  <2> QED BY <2>1, <2>9 DEF SentSlot, a0, p, r
<1> QED BY <1>1, AdmissionInvariant, PTL

-----------------------------------------------------------------------------
(* A number with n bits.                                                   *)
HasBits(v, n) == 2^(n - 1) <= v /\ v < 2^n

(* A byte that is not zero has its highest bit where LeadingZeros puts it. *)
LEMMA HighestBit ==
    ASSUME NEW byte \in 1..(2^BYTE_BITS - 1)
    PROVE  \E n \in 1..BYTE_BITS : LeadingZeros(byte) = BYTE_BITS - n /\ HasBits(byte, n)
<1> DEFINE p(n) == 2^n
           S == {n \in 0..BYTE_BITS : byte < p(n)}
           Right(n) == byte < p(n) /\ (n = 0 \/ byte >= p(n - 1))
<1>0. BYTE_BITS \in Nat \ {0} /\ (\A n \in Nat : p(n) \in Nat) /\ p(0) = 1
  BY PuzzleAssumption, PowerPositive
<1>1. byte \in Nat \ {0} /\ byte < p(BYTE_BITS)
  BY <1>0
<1>2. LeadingZeros(byte) = BYTE_BITS - (CHOOSE n \in 0..BYTE_BITS : Right(n))
  BY DEF LeadingZeros
<1> HIDE DEF p
<1>3. S \in SUBSET Nat /\ BYTE_BITS \in S
  BY <1>0, <1>1
<1>4. PICK n \in S : \A k \in S : n <= k
  <2> HIDE DEF S
  <2> QED BY <1>3, LeastNat
<1>5. Right(n)
  <2>1. n \in Nat /\ n <= BYTE_BITS /\ byte < p(n)
    BY <1>0
  <2>2. CASE n # 0
    <3>1. n - 1 \in 0..BYTE_BITS /\ n - 1 \in Nat /\ n - 1 < n
      BY <2>1, <2>2, <1>0
    <3>2. n - 1 \notin S
      BY <1>4, <2>1, <3>1
    <3>3. ~(byte < p(n - 1)) /\ p(n - 1) \in Nat
      BY <3>1, <3>2, <1>0
    <3> QED BY <2>1, <3>3, <1>1
  <2> QED BY <2>1, <2>2
<1>6. PICK m \in 0..BYTE_BITS : /\ m = CHOOSE k \in 0..BYTE_BITS : Right(k)
                                /\ Right(m)
  BY <1>5
<1> DEFINE c == CHOOSE k \in 0..BYTE_BITS : Right(k)
<1> HIDE DEF c
<1>6a. m = c /\ byte < p(m) /\ (m = 0 \/ byte >= p(m - 1))
  BY <1>6 DEF c
<1>7. m \in 1..BYTE_BITS
  <2>1. m # 0
    BY ONLY <1>0, <1>1, <1>6a
  <2> QED BY <2>1, <1>0
<1>8. LeadingZeros(byte) = BYTE_BITS - m
  BY <1>2, <1>6
<1>9. m - 1 \in Nat /\ p(m - 1) \in Nat
  BY <1>0, <1>7
<1>10. p(m - 1) <= byte /\ byte < p(m)
  BY ONLY <1>0, <1>1, <1>6a, <1>7, <1>9
<1> QED BY <1>7, <1>8, <1>10 DEF p, HasBits

(* The value of a hash, byte by byte.                                      *)
ReadsAs(u, h) ==
    /\ u \in [0..HASH_BYTES -> Nat]
    /\ u[0] = 0
    /\ \A k \in 1..HASH_BYTES : u[k] = u[k - 1] * 2^BYTE_BITS + h[k]

(* HashValue reads so.                                                     *)
LEMMA HashValueReads ==
    ASSUME NEW h \in Hashes
    PROVE  /\ DOMAIN h = 1..HASH_BYTES /\ Len(h) = HASH_BYTES
           /\ \E u : ReadsAs(u, h) /\ HashValue(h) = u[HASH_BYTES]
<1> DEFINE N == HASH_BYTES
           w == 2^BYTE_BITS
           F == [t \in Nat \X (1..N) |-> t[1] * w + h[t[2]]]
           body(u) == [k \in 0..Len(h) |-> IF k = 0 THEN 0 ELSE u[k - 1] * w + h[k]]
           v == CHOOSE u : u = body(u)
<1>0. N \in Nat \ {0} /\ w \in Nat \ {0}
  BY PuzzleAssumption, PowerPositive
<1>1. h \in [1..N -> 0..(w - 1)]
  BY DEF Hashes
<1>2. HashValue(h) = v[Len(h)]
  BY DEF HashValue
<1> HIDE DEF N, w
<1>3. h \in Seq(0..(w - 1)) /\ Len(h) = N /\ DOMAIN h = 1..N
  BY <1>0, <1>1
<1>4. \A k \in 1..N : h[k] \in Nat
  BY <1>0, <1>1
<1>5. F \in [Nat \X (1..N) -> Nat]
  BY <1>0, <1>4
<1>5a. PICK g : RunsBy(g, N, Nat, 0, F)
  <2> HIDE DEF F
  <2>1. N \in Nat /\ 0 \in Nat
    BY <1>0
  <2> QED BY <2>1, <1>5, PrefixRecursion
<1>6. g \in [0..N -> Nat] /\ g[0] = 0 /\ \A k \in 1..N : g[k] = F[<<g[k - 1], k>>]
  BY <1>5a DEF RunsBy
<1>7. \A k \in 1..N : g[k] = g[k - 1] * w + h[k]
  <2> SUFFICES ASSUME NEW k \in 1..N PROVE g[k] = g[k - 1] * w + h[k]
    OBVIOUS
  <2>1. k - 1 \in 0..N
    BY <1>0
  <2>2. g[k - 1] \in Nat
    BY <2>1, <1>6
  <2>3. <<g[k - 1], k>> \in Nat \X (1..N)
    BY <2>2
  <2> QED BY <2>3, <1>6
<1>8. g = body(g)
  <2>1. \A k \in 0..N : g[k] = IF k = 0 THEN 0 ELSE g[k - 1] * w + h[k]
    <3> SUFFICES ASSUME NEW k \in 0..N PROVE g[k] = IF k = 0 THEN 0 ELSE g[k - 1] * w + h[k]
      OBVIOUS
    <3>1. k = 0 \/ k \in 1..N
      BY <1>0
    <3> QED BY <3>1, <1>6, <1>7
  <2> QED BY <2>1, <1>3, <1>6
<1>9. v = body(v)
  <2> HIDE DEF body
  <2> QED BY <1>8
<1> HIDE DEF v
<1>10. /\ DOMAIN v = 0..N
       /\ \A k \in 0..N : v[k] = IF k = 0 THEN 0 ELSE v[k - 1] * w + h[k]
  BY <1>3, <1>9
<1>11. v[0] = 0 /\ \A k \in 1..N : v[k] = v[k - 1] * w + h[k]
  <2>1. 0 \in 0..N /\ \A k \in 1..N : k \in 0..N /\ k # 0
    BY <1>0
  <2> QED BY <2>1, <1>10
<1>12. \A k \in 0..N : v[k] \in Nat
  <2> DEFINE S == {k \in 0..N : v[k] \in Nat}
  <2>1. 0 \in S
    BY <1>0, <1>11
  <2>2. ASSUME NEW k \in S, k < N PROVE k + 1 \in S
    <3>1. k + 1 \in 1..N /\ (k + 1) - 1 = k /\ k + 1 \in 0..N
      BY <1>0, <2>2
    <3>2. v[k + 1] = v[k] * w + h[k + 1]
      BY <1>11, <3>1
    <3>3. v[k] \in Nat /\ h[k + 1] \in Nat
      BY <1>4, <3>1
    <3>4. v[k] * w \in Nat
      BY <3>3, <1>0
    <3> QED BY <3>1, <3>2, <3>3, <3>4
  <2>3. S \in SUBSET (0..N) /\ N \in Nat
    BY <1>0
  <2>4. S = 0..N
    <3> HIDE DEF S
    <3> QED BY <2>1, <2>2, <2>3, UpToInduction
  <2> QED BY <2>4
<1>13. v \in [0..N -> Nat]
  <2>1. v = [k \in 0..N |-> v[k]]
    BY <1>3, <1>9, <1>10
  <2> QED BY <2>1, <1>12
<1> QED BY <1>2, <1>3, <1>11, <1>13 DEF ReadsAs, N, w

(* The value of a hash whose first byte that is not zero is byte f, with   *)
(* its highest bit n: after j more bytes it has n + BYTE_BITS * j bits.    *)
LEMMA ValueBounds ==
    ASSUME NEW h \in Hashes, NEW u, ReadsAs(u, h), NEW f \in 1..HASH_BYTES,
           \A k \in 1..(f - 1) : h[k] = 0,
           NEW n \in 1..BYTE_BITS, HasBits(h[f], n)
    PROVE  HasBits(u[HASH_BYTES], n + BYTE_BITS * (HASH_BYTES - f))
<1> DEFINE N == HASH_BYTES
           B == BYTE_BITS
           p(i) == 2^i
           w == p(B)
<1>0. /\ N \in Nat \ {0} /\ B \in Nat \ {0} /\ f \in Nat \ {0} /\ f <= N /\ n \in Nat \ {0}
      /\ n - 1 \in Nat
  BY PuzzleAssumption
<1>1. /\ \A i \in Nat : p(i) \in Nat \ {0}
      /\ \A i, j \in Nat : p(i + j) = p(i) * p(j)
  BY PowerPositive, PowerSum
<1>2. /\ u \in [0..N -> Nat] /\ u[0] = 0
      /\ \A k \in 1..N : u[k] = u[k - 1] * w + h[k]
      /\ \A k \in 1..N : h[k] \in 0..(w - 1)
  BY DEF ReadsAs, Hashes
<1>3. p(n - 1) <= h[f] /\ h[f] < p(n)
  BY DEF HasBits
<1> HIDE DEF N, B, p, w
<1>4. w \in Nat \ {0} /\ p(B) = w
  BY <1>0, <1>1 DEF w
<1>5. \A k \in 1..N : h[k] \in Nat /\ h[k] < w
  BY <1>2, <1>4
<1>6. u[f - 1] = 0
  <2> DEFINE m == f - 1
             S == {k \in 0..m : u[k] = 0}
  <2>1. m \in Nat /\ S \in SUBSET (0..m) /\ 0 \in S
    BY <1>0, <1>2
  <2>2. ASSUME NEW k \in S, k < m PROVE k + 1 \in S
    <3>1. k + 1 \in 1..N /\ k + 1 \in 1..(f - 1) /\ (k + 1) - 1 = k /\ k + 1 \in 0..m
      BY <1>0, <2>1, <2>2
    <3>2. u[k + 1] = u[k] * w + h[k + 1]
      BY <1>2, <3>1
    <3>3. u[k] = 0 /\ h[k + 1] = 0
      BY <3>1
    <3> QED BY <1>4, <3>1, <3>2, <3>3
  <2>3. S = 0..m
    <3> HIDE DEF S, m
    <3> QED BY <2>1, <2>2, UpToInduction
  <2>4. m \in S
    BY <2>1, <2>3
  <2> QED BY <2>4
<1> DEFINE J == N - f
           lo(j) == p((n - 1) + B * j)
           hi(j) == p(n + B * j)
           T == {j \in 0..J : lo(j) <= u[f + j] /\ u[f + j] < hi(j)}
<1>7. J \in Nat /\ \A j \in 0..J : f + j \in 1..N /\ f + j \in 0..N
  BY <1>0
<1>8. \A j \in Nat : /\ B * j \in Nat /\ (n - 1) + B * j \in Nat /\ n + B * j \in Nat
                     /\ lo(j) \in Nat /\ hi(j) \in Nat
                     /\ lo(j + 1) = lo(j) * w /\ hi(j + 1) = hi(j) * w
  <2> SUFFICES ASSUME NEW j \in Nat
               PROVE  /\ B * j \in Nat /\ (n - 1) + B * j \in Nat /\ n + B * j \in Nat
                      /\ lo(j) \in Nat /\ hi(j) \in Nat
                      /\ lo(j + 1) = lo(j) * w /\ hi(j + 1) = hi(j) * w
    OBVIOUS
  <2>1. B * j \in Nat /\ (n - 1) + B * j \in Nat /\ n + B * j \in Nat
    BY <1>0
  <2>2. B * (j + 1) = B * j + B
    BY <1>0
  <2>3. /\ (n - 1) + B * (j + 1) = ((n - 1) + B * j) + B
        /\ n + B * (j + 1) = (n + B * j) + B
    BY <1>0, <2>1, <2>2
  <2> DEFINE a == (n - 1) + B * j
             c == n + B * j
  <2>4. a \in Nat /\ c \in Nat /\ B \in Nat
    BY <1>0, <2>1
  <2>5. lo(j) = p(a) /\ hi(j) = p(c) /\ lo(j + 1) = p(a + B) /\ hi(j + 1) = p(c + B)
    BY <2>3
  <2> HIDE DEF a, c, lo, hi
  <2>6. p(a + B) = p(a) * w /\ p(c + B) = p(c) * w /\ p(a) \in Nat /\ p(c) \in Nat
    BY <2>4, <1>1, <1>4
  <2> QED BY <2>1, <2>5, <2>6
<1>9. 0 \in T
  <2>1. B * 0 = 0 /\ (n - 1) + 0 = n - 1 /\ n + 0 = n /\ f + 0 = f
    BY <1>0
  <2>2. lo(0) = p(n - 1) /\ hi(0) = p(n)
    BY <2>1
  <2>3. u[f] = h[f]
    <3>1. u[f] = u[f - 1] * w + h[f]
      BY <1>2, <1>0
    <3>2. h[f] \in Nat
      BY <1>5, <1>0
    <3> QED BY <3>1, <3>2, <1>4, <1>6
  <2> QED BY <1>3, <1>7, <2>1, <2>2, <2>3
<1>10. ASSUME NEW j \in T, j < J PROVE j + 1 \in T
  <2>1. j \in Nat /\ j + 1 \in 0..J /\ f + j \in 0..N /\ f + (j + 1) \in 1..N
        /\ (f + (j + 1)) - 1 = f + j
    BY <1>7, <1>10, <1>0
  <2> DEFINE a == u[f + j]
             c == h[f + (j + 1)]
             l == lo(j)
             g == hi(j)
  <2>2. u[f + (j + 1)] = a * w + c
    BY <1>2, <2>1
  <2>3. a \in Nat /\ c \in Nat /\ c < w
    BY <1>2, <1>5, <2>1
  <2>4. l \in Nat /\ g \in Nat /\ lo(j + 1) = l * w /\ hi(j + 1) = g * w
    BY <1>8, <2>1
  <2>5. l <= a /\ a < g
    BY <1>10
  <2> HIDE DEF a, c, l, g, lo, hi
  <2>6. l * w <= a * w
    BY <1>4, <2>3, <2>4, <2>5
  <2>7. (a + 1) * w <= g * w
    BY <1>4, <2>3, <2>4, <2>5
  <2>8. (a + 1) * w = a * w + w
    BY <1>4, <2>3
  <2>9. l * w \in Nat /\ a * w \in Nat /\ g * w \in Nat
    BY <1>4, <2>3, <2>4
  <2>10. l * w <= a * w + c /\ a * w + c < g * w
    BY <1>4, <2>3, <2>6, <2>7, <2>8, <2>9
  <2> QED BY <2>1, <2>2, <2>4, <2>10
<1>11. T = 0..J
  <2>1. T \in SUBSET (0..J)
    OBVIOUS
  <2> HIDE DEF T, J
  <2> QED BY <1>7, <1>9, <1>10, <2>1, UpToInduction
<1>12. J \in T
  BY <1>7, <1>11
<1>13. lo(J) <= u[N] /\ u[N] < hi(J)
  <2>1. f + J = N
    BY <1>0
  <2> QED BY <1>12, <2>1
<1> DEFINE e == n + B * J
<1>14. (n - 1) + B * J = e - 1
  <2>1. B * J \in Nat
    BY <1>0, <1>7
  <2> QED BY <2>1, <1>0
<1>15. p(e - 1) <= u[N] /\ u[N] < p(e)
  BY <1>13, <1>14
<1> QED BY <1>15 DEF p, N, B, HasBits

(* The puzzle is a threshold on the value of the hash.                     *)
LEMMA ThresholdHolds ==
    ASSUME NEW h \in Hashes, NEW d \in 0..(BYTE_BITS * HASH_BYTES + 1)
    PROVE  LeadingZeroBits(h) >= d <=>
              /\ d <= BYTE_BITS * HASH_BYTES
              /\ HashValue(h) < 2^(BYTE_BITS * HASH_BYTES - d)
<1> DEFINE N == HASH_BYTES
           B == BYTE_BITS
           all == B * N
           p(i) == 2^i
           nonzero == {k \in DOMAIN h : h[k] # 0}
           first == CHOOSE k \in nonzero : \A j \in nonzero : k <= j
           value == HashValue(h)
<1>0. N \in Nat \ {0} /\ B \in Nat \ {0} /\ all \in Nat /\ d \in Nat
  BY PuzzleAssumption
<1>1. /\ \A i \in Nat : p(i) \in Nat \ {0}
      /\ \A i, j \in Nat : i <= j => p(i) <= p(j)
  BY PowerPositive, PowerMonotone
<1>2. DOMAIN h = 1..N /\ Len(h) = N
  BY HashValueReads
<1>3. PICK u : ReadsAs(u, h) /\ value = u[N]
  BY HashValueReads
<1>4. LeadingZeroBits(h) = IF nonzero = {} THEN all
                           ELSE B * (first - 1) + LeadingZeros(h[first])
  BY <1>2 DEF LeadingZeroBits
<1>5. /\ u \in [0..N -> Nat] /\ u[0] = 0
      /\ \A k \in 1..N : u[k] = u[k - 1] * p(B) + h[k]
      /\ \A k \in 1..N : h[k] \in 0..(p(B) - 1)
  BY <1>3 DEF ReadsAs, Hashes
<1>6. SUFFICES LeadingZeroBits(h) >= d <=> d <= all /\ value < p(all - d)
  OBVIOUS
<1>7. CASE nonzero = {}
  <2>1. \A k \in 1..N : h[k] = 0
    BY <1>2, <1>7
  <2> HIDE DEF p, N, B, value, nonzero
  <2> DEFINE S == {k \in 0..N : u[k] = 0}
  <2>2. S \in SUBSET (0..N) /\ 0 \in S /\ N \in Nat
    BY <1>0, <1>5
  <2>3. ASSUME NEW k \in S, k < N PROVE k + 1 \in S
    <3>1. k + 1 \in 1..N /\ k + 1 \in 0..N /\ (k + 1) - 1 = k
      BY <1>0, <2>3
    <3>2. u[k + 1] = u[k] * p(B) + h[k + 1]
      BY <1>5, <3>1
    <3>3. u[k] = 0 /\ h[k + 1] = 0 /\ p(B) \in Nat
      BY <2>1, <3>1, <1>0, <1>1
    <3> QED BY <3>1, <3>2, <3>3
  <2>4. S = 0..N
    <3> HIDE DEF S
    <3> QED BY <2>2, <2>3, UpToInduction
  <2>5. value = 0
    BY <2>2, <2>4, <1>3
  <2> HIDE DEF all
  <2>6. LeadingZeroBits(h) = all
    BY <1>4, <1>7
  <2>7. d <= all => 0 < p(all - d)
    <3> SUFFICES ASSUME d <= all PROVE 0 < p(all - d)
      OBVIOUS
    <3>1. all - d \in Nat
      BY <1>0
    <3>2. p(all - d) \in Nat \ {0}
      BY <3>1, <1>1
    <3> QED BY <3>2
  <2> QED BY <1>0, <2>5, <2>6, <2>7
<1>8. CASE nonzero # {}
  <2>1. nonzero \in SUBSET Nat /\ nonzero \subseteq 1..N
    BY <1>2
  <2>2. first \in nonzero /\ \A j \in nonzero : first <= j
    <3>1. \E k \in nonzero : \A j \in nonzero : k <= j
      <4> HIDE DEF nonzero
      <4> QED BY <2>1, <1>8, LeastNat
    <3> QED BY <3>1
  <2> DEFINE f == first
  <2> HIDE DEF first
  <2>3. f \in 1..N /\ h[f] # 0 /\ \A k \in 1..(f - 1) : h[k] = 0
    <3>1. f \in 1..N /\ h[f] # 0
      BY <2>1, <2>2
    <3>2. ASSUME NEW k \in 1..(f - 1) PROVE h[k] = 0
      <4>1. k \in 1..N /\ ~(f <= k)
        BY <1>0, <3>1
      <4>2. k \notin nonzero
        BY <2>2, <4>1
      <4> QED BY <1>2, <4>1, <4>2
    <3> QED BY <3>1, <3>2
  <2>4. h[f] \in 1..(2^BYTE_BITS - 1)
    <3>1. h[f] \in 0..(p(B) - 1) /\ p(B) \in Nat
      BY <2>3, <1>0, <1>1, <1>5
    <3> HIDE DEF p
    <3>2. h[f] \in 1..(p(B) - 1)
      BY <2>3, <3>1
    <3> QED BY <3>2 DEF p
  <2>5. PICK n \in 1..BYTE_BITS : LeadingZeros(h[f]) = BYTE_BITS - n /\ HasBits(h[f], n)
    BY <2>4, HighestBit
  <2> DEFINE e == n + B * (N - f)
             L == LeadingZeroBits(h)
  <2>6. p(e - 1) <= value /\ value < p(e)
    <3>1. HasBits(u[HASH_BYTES], n + BYTE_BITS * (HASH_BYTES - f))
      BY <1>3, <2>3, <2>5, ValueBounds
    <3>2. HasBits(value, e)
      <4> HIDE DEF value
      <4> QED BY <3>1, <1>3
    <3> HIDE DEF value, e
    <3> QED BY <3>2 DEF HasBits
  <2>7. L = B * (f - 1) + (B - n)
    BY <1>4, <1>8, <2>5
  <2>8. value \in Nat
    BY <1>0, <1>3, <1>5
  <2>9. n \in Nat \ {0} /\ n <= B /\ f \in Nat \ {0} /\ f <= N
    BY <1>0, <2>3
  <2> HIDE DEF p, N, B, value, f
  <2>10. /\ B * (f - 1) = B * f - B /\ B * (N - f) = B * N - B * f
         /\ B * f \in Nat /\ B * N \in Nat /\ B * f <= B * N /\ B <= B * f
    BY <1>0, <2>9
  <2>11. L \in Nat /\ e \in Nat \ {0} /\ L + e = all
    <3> DEFINE x == B * f
               y == B * N
    <3>1. x \in Nat /\ y \in Nat /\ x <= y /\ B <= x
      BY <2>10
    <3>2. L = (x - B) + (B - n) /\ e = n + (y - x) /\ all = y
      BY <2>7, <2>10
    <3> HIDE DEF x, y, L, e, all
    <3> QED BY <1>0, <2>9, <3>1, <3>2
  <2> HIDE DEF e, L, all
  <2>12. ASSUME d <= L PROVE d <= all /\ value < p(all - d)
    <3>1. all - d \in Nat /\ e <= all - d /\ e \in Nat
      BY <1>0, <2>11, <2>12
    <3>2. p(e) <= p(all - d) /\ p(e) \in Nat /\ p(all - d) \in Nat
      BY <3>1, <1>1
    <3> QED BY <1>0, <2>6, <2>8, <2>11, <2>12, <3>1, <3>2
  <2>13. ASSUME ~(d <= L), d <= all PROVE ~(value < p(all - d))
    <3>1. all - d \in Nat /\ e - 1 \in Nat /\ all - d <= e - 1
      BY <1>0, <2>11, <2>13
    <3>2. p(all - d) <= p(e - 1) /\ p(all - d) \in Nat /\ p(e - 1) \in Nat
      BY <3>1, <1>1
    <3> QED BY <2>6, <2>8, <3>2
  <2> QED BY <1>0, <2>11, <2>12, <2>13 DEF L
<1> QED BY <1>7, <1>8

(* Verification is a threshold on the hash, at any width of hash and byte, *)
(* and solve returns the least nonce below it (antispam-pow).              *)
THEOREM PuzzleThresholdHolds == Spec => []PuzzleThreshold
<1>1. AdmissionInv => PuzzleThreshold
  <2> SUFFICES ASSUME AdmissionInv PROVE PuzzleThreshold
    OBVIOUS
  <2>1. ASSUME NEW s \in sent, s.by = 0
        PROVE  \A n \in 0..Decode(s.bytes).tx.antispam.nonce :
                  PowVerify(Digest(s.message), n, DifficultyBits)
                      <=> n = Decode(s.bytes).tx.antispam.nonce
    <3>1. /\ SentOk(s, notes, epoch) /\ NotesOk(notes) /\ epoch \in Epochs
          /\ s.message \in Messages /\ s.by \notin Stakers
      BY <2>1, StakersAssumption DEF AdmissionInv, BodyInv, SentInv, SentOk
    <3>2. Decode(s.bytes).tx = Signed(s.message, Art(s, notes))
      BY <3>1, SentCarries
    <3>3. Art(s, notes).nonce = Solve(Digest(s.message), DifficultyBits)
      BY <3>1 DEF Art, PowArt
    <3>4. Decode(s.bytes).tx.antispam.nonce = Solve(Digest(s.message), DifficultyBits)
      BY <3>2, <3>3 DEF Signed
    <3> QED BY <3>1, <3>4, SolveIsLeast
  <2> QED BY <2>1, ThresholdHolds DEF PuzzleThreshold
<1> QED BY <1>1, AdmissionInvariant, PTL
=============================================================================
