---------------------------- MODULE DevnetProofs ----------------------------
(***************************************************************************)
(* Proofs about the devnet: that notes reach those they are meant for,     *)
(* that selection finds two notes whenever two are enough, that a wallet   *)
(* never counts money it does not have and that transfers conserve value,  *)
(* whatever the number of wallets, notes, transfers and checkpoints.       *)
(***************************************************************************)
EXTENDS Devnet, CheckpointProofs

Note == [value : Nat, addr_tag : Wallets, rho : Nat]

Base == Cardinality(Wallets) + 1

(* Wallets are numbers from 1 on, below the base that nullifiers use.      *)
LEMMA WalletFacts ==
  Base \in Nat \ {0} /\ \A w \in Wallets : w \in Nat /\ 0 < w /\ w < Base
<1>1. Cardinality(Wallets) \in Nat
  BY WalletsAssumption, FS_CardinalityType
<1>2. \A w \in Wallets : w \in 1..Cardinality(Wallets)
  BY WalletsAssumption
<1> QED BY <1>1, <1>2 DEF Base

(* A nullifier is a number and binds the rho and the key it is made of     *)
(* (Note::nullifier).                                                      *)
LEMMA NullifierBinds ==
  ASSUME NEW a, NEW b, a.rho \in Nat, b.rho \in Nat, NEW v \in Wallets, NEW w \in Wallets
  PROVE  /\ Nullifier(a, v) \in Nat
         /\ Nullifier(a, v) = Nullifier(b, w) => a.rho = b.rho /\ v = w
<1> DEFINE r == a.rho
           s == b.rho
           p == Nullifier(a, v)
           q == Nullifier(b, w)
<1>1. Base \in Nat \ {0} /\ v \in Nat /\ v < Base /\ w \in Nat /\ w < Base
  BY WalletFacts
<1>2. r \in Nat /\ s \in Nat /\ p = r * Base + v /\ q = s * Base + w
  BY DEF Nullifier, Base
<1> HIDE DEF r, s, p, q
<1>3. p \in Nat /\ q \in Nat /\ p = Base * r + v /\ q = Base * s + w
  BY <1>1, <1>2
<1>4. p \div Base = r /\ p % Base = v /\ q \div Base = s /\ q % Base = w
  BY <1>1, <1>2, <1>3, DivUnique
<1>5. p = q => r = s /\ v = w
  BY ONLY <1>4, Zenon
<1> QED BY <1>3, <1>5 DEF r, s, p, q

-----------------------------------------------------------------------------
(* Encryption.                                                             *)

(* A note encrypted to a wallet's address opens for that wallet alone, and *)
(* as that note (encrypt_note, try_decrypt).                               *)
LEMMA OpensForAddressee ==
  ASSUME NEW note, NEW w, NEW seed, NEW me
  PROVE  LET ct == EncryptNote(note, AddressOf(w), seed)
             ivk == IncomingViewingKey(SpendingKey(me))
         IN  /\ Opens(ct, ivk) <=> me = w
             /\ Decrypted(ct, ivk) = [value |-> note.value, addr_tag |-> me, rho |-> note.rho]
<1> DEFINE ct == EncryptNote(note, AddressOf(w), seed)
           ivk == IncomingViewingKey(SpendingKey(me))
           eph == <<"ephemeral", seed>>
           xs(n) == X25519Secret(n)
           pk(n) == PublicKey(KemSecret(n))
           kct == [to |-> pk(w), m |-> seed]
           key == DeriveAead({eph, xs(w)}, <<"shared", pk(w), seed>>, PublicKey(eph), kct, w)
           mine == RecipientKey(ct, ivk)
<1>1. /\ ct.epk = PublicKey(eph) /\ ct.mlkem_ct = kct /\ ct.aead_ct.key = key
      /\ ct.aead_ct.pt = [version |-> 0, value |-> note.value, rho |-> note.rho]
  BY DEF EncryptNote, AddressOf, DiffieHellman, KemEncapsulate, PublicKey, AddrTag,
         EncodePlaintext, NOTE_VERSION
<1>2. ivk.x25519_sk = xs(me) /\ ivk.kem_dk = KemSecret(me) /\ ivk.addr_tag = me
  BY DEF IncomingViewingKey, SpendingKey, AddrTag
<1>3. mine.memo_tag = me /\ key.memo_tag = w
  BY <1>2 DEF RecipientKey, DeriveAead
<1>4. ASSUME me = w PROVE mine = key
  <2>1. DiffieHellman(ivk.x25519_sk, ct.epk) = {eph, xs(w)}
    <3>1. ct.epk.of = eph
      BY <1>1 DEF PublicKey
    <3> QED BY <3>1, <1>2, <1>4 DEF DiffieHellman
  <2>2. Decapsulate(ivk, ct.mlkem_ct) = <<"shared", pk(w), seed>>
    BY <1>1, <1>2, <1>4 DEF Decapsulate
  <2> QED BY <2>1, <2>2, <1>1, <1>2, <1>4 DEF RecipientKey
<1> HIDE DEF mine, key
<1>5. Opens(ct, ivk) <=> mine = key
  BY <1>1 DEF Opens, mine, NOTE_VERSION
<1>6. Opens(ct, ivk) <=> me = w
  BY <1>3, <1>4, <1>5
<1>7. Decrypted(ct, ivk) = [value |-> note.value, addr_tag |-> me, rho |-> note.rho]
  BY <1>1, <1>2 DEF Decrypted
<1> QED BY <1>6, <1>7

(* What a wallet finds in a sealed note: the note, if it is the addressee. *)
LEMMA ScannedOne ==
  ASSUME NEW note \in Note, NEW w, NEW seed, NEW me, note.addr_tag = w
  PROVE  Scanned(<<EncryptNote(note, AddressOf(w), seed)>>, IncomingViewingKey(me))
           = IF me = w THEN <<note>> ELSE << >>
<1> DEFINE ct == EncryptNote(note, AddressOf(w), seed)
           ivk == IncomingViewingKey(me)
<1>1. /\ Opens(ct, ivk) <=> me = w
      /\ Decrypted(ct, ivk) = [value |-> note.value, addr_tag |-> me, rho |-> note.rho]
  BY OpensForAddressee DEF SpendingKey
<1>2. note = [value |-> note.value, addr_tag |-> w, rho |-> note.rho]
  BY DEF Note
<1> DEFINE d == Decrypted(ct, ivk)
           one == <<ct>>
<1>3. me = w => d = note
  BY <1>1, <1>2
<1>4. DOMAIN one = {1} /\ one[1] = ct
  OBVIOUS
<1> HIDE DEF ct, ivk
<1>5. Scanned(one, ivk) = [k \in {j \in {1} : Opens(one[j], ivk)} |-> Decrypted(one[k], ivk)]
  BY <1>4 DEF Scanned
<1> HIDE DEF one
<1>6. CASE me = w
  <2>1. {j \in {1} : Opens(one[j], ivk)} = {1}
    BY <1>1, <1>4, <1>6
  <2>2. Scanned(one, ivk) = [k \in {1} |-> note]
    BY <1>3, <1>4, <1>5, <1>6, <2>1
  <2> DEFINE s == <<note>>
  <2>3. DOMAIN s = {1} /\ s[1] = note /\ s = [k \in {1} |-> note]
    OBVIOUS
  <2> QED BY <2>2, <2>3, <1>6 DEF one, ct, ivk
<1>7. CASE me # w
  <2>1. {j \in {1} : Opens(one[j], ivk)} = {}
    BY <1>1, <1>4, <1>7
  <2>2. Scanned(one, ivk) = << >>
    BY <1>5, <2>1
  <2> QED BY <2>2, <1>7 DEF one, ct, ivk
<1> QED BY <1>6, <1>7

-----------------------------------------------------------------------------
(* Addresses.                                                              *)

(* The cells of an address text name its wallet, and a text that decodes   *)
(* holds four cells and, as its checksum, the same four.                   *)
LEMMA CellsBind ==
  ASSUME NEW v, NEW w, NEW k \in 2..5,
         EncodeAddress(AddressOf(v)).data[k] = EncodeAddress(AddressOf(w)).data[k]
  PROVE  v = w
<1> DEFINE cv == Payload(AddressOf(v))
           cw == Payload(AddressOf(w))
           dv == EncodeAddress(AddressOf(v)).data
           dw == EncodeAddress(AddressOf(w)).data
<1>1. /\ dv[2] = [of |-> <<"x25519", v>>] /\ dv[3] = [of |-> <<"kem", v>>]
      /\ dv[4] = v /\ dv[5] = cv /\ cv[4] = v
  BY DEF EncodeAddress, Payload, AddressOf, PublicKey, X25519Secret, KemSecret, AddrTag
<1>2. /\ dw[2] = [of |-> <<"x25519", w>>] /\ dw[3] = [of |-> <<"kem", w>>]
      /\ dw[4] = w /\ dw[5] = cw /\ cw[4] = w
  BY DEF EncodeAddress, Payload, AddressOf, PublicKey, X25519Secret, KemSecret, AddrTag
<1>3. dv[k] = dw[k]
  OBVIOUS
<1> HIDE DEF dv, dw, cv, cw
<1>4. CASE k = 2
  <2>1. [of |-> <<"x25519", v>>].of = [of |-> <<"x25519", w>>].of
    BY ONLY <1>1, <1>2, <1>3, <1>4, Zenon
  <2> QED BY <2>1
<1>5. CASE k = 3
  <2>1. [of |-> <<"kem", v>>].of = [of |-> <<"kem", w>>].of
    BY ONLY <1>1, <1>2, <1>3, <1>5, Zenon
  <2> QED BY <2>1
<1>6. CASE k = 4
  BY ONLY <1>1, <1>2, <1>3, <1>6, Zenon
<1>7. CASE k = 5
  BY ONLY <1>1, <1>2, <1>3, <1>7, Zenon
<1> QED BY <1>4, <1>5, <1>6, <1>7

(* A mistyped address either is refused or is no different                 *)
(* (Address::decode: the checksum covers every cell).                      *)
LEMMA TyposAreRefused ==
  ASSUME NEW w \in Wallets, NEW typed, typed \in Mistyped(EncodeAddress(AddressOf(w))),
         "address" \in DOMAIN DecodeAddress(typed)
  PROVE  typed = EncodeAddress(AddressOf(w))
<1> DEFINE text == EncodeAddress(AddressOf(w))
           a == [of |-> <<"x25519", w>>]
           b == [of |-> <<"kem", w>>]
           p == <<0, a, b, w>>
           d == <<0, a, b, w, p>>
<1>1. text = [prefix |-> "unk1", data |-> d]
  BY DEF EncodeAddress, Payload, AddressOf, PublicKey, X25519Secret, KemSecret, AddrTag,
         ADDRESS_HRP, ADDRESS_VERSION
<1> HIDE DEF text
<1>2. /\ typed.prefix = "unk1" /\ Len(typed.data) = 5 /\ typed.data[1] = 0
      /\ typed.data[5] = SubSeq(typed.data, 1, 4)
  BY DEF DecodeAddress, ADDRESS_HRP, ADDRESS_VERSION
<1>3. Len(d) = 5 /\ d \in Seq({0, a, b, w, p})
  OBVIOUS
<1>4. CASE typed = [text EXCEPT !.prefix = "xyz1"]
  BY <1>1, <1>2, <1>4
<1>5. CASE typed = [text EXCEPT !.data = SubSeq(@, 1, 4)]
  <2>1. typed.data = SubSeq(d, 1, 4)
    BY <1>1, <1>5
  <2>2. Len(SubSeq(d, 1, 4)) = 4
    <3> HIDE DEF d
    <3> QED BY <1>3
  <2> QED BY <1>2, <2>1, <2>2
<1>6. CASE typed = [text EXCEPT !.data = Append(@, text.data[5])]
  <2>1. typed.data = Append(d, text.data[5])
    BY <1>1, <1>6
  <2> DEFINE x == text.data[5]
  <2>2. Len(Append(d, x)) = 6
    <3> DEFINE S == {0, a, b, w, p, x}
    <3>1. d \in Seq(S) /\ x \in S
      OBVIOUS
    <3> HIDE DEF d, x, S
    <3>2. Len(Append(d, x)) = Len(d) + 1
      BY <3>1, AppendProperties
    <3> QED BY <1>3, <3>2
  <2> QED BY <1>2, <2>1, <2>2
<1>7. CASE typed = [text EXCEPT !.data[1] = 1]
  <2>1. typed.data = [d EXCEPT ![1] = 1]
    BY <1>1, <1>7
  <2>2. typed.data[1] = 1
    BY <2>1
  <2> QED BY <1>2, <2>2
<1>8. ASSUME NEW k \in 2..5, NEW v \in Wallets,
             typed = [text EXCEPT !.data[k] = EncodeAddress(AddressOf(v)).data[k]]
      PROVE  typed = text
  <2> DEFINE c == EncodeAddress(AddressOf(v)).data[k]
             e == typed.data
  <2>1. e = [d EXCEPT ![k] = c] /\ typed = [prefix |-> "unk1", data |-> [d EXCEPT ![k] = c]]
    BY <1>1, <1>8
  <2>2. c = text.data[k] => v = w
    BY CellsBind DEF text
  <2>3. text.data = d
    BY <1>1
  <2>4. c = d[k]
    <3> HIDE DEF c
    <3>1. SubSeq(e, 1, 4)[1] = e[1] /\ SubSeq(e, 1, 4)[2] = e[2]
          /\ SubSeq(e, 1, 4)[3] = e[3] /\ SubSeq(e, 1, 4)[4] = e[4]
      <4>1. e \in Seq({0, a, b, w, p, c})
        BY <2>1
      <4> HIDE DEF e
      <4> QED BY <4>1, <1>2 DEF e
    <3>2. e[5] = SubSeq(e, 1, 4)
      BY <1>2
    <3> HIDE DEF e
    <3>3. e[5][2] = e[2] /\ e[5][3] = e[3] /\ e[5][4] = e[4]
      BY <3>1, <3>2
    <3>4. CASE k = 2
      BY <3>3, <3>4, <2>1
    <3>5. CASE k = 3
      BY <3>3, <3>5, <2>1
    <3>6. CASE k = 4
      BY <3>3, <3>6, <2>1
    <3>7. CASE k = 5
      <4>1. c = Payload(AddressOf(v)) /\ c[4] = v
        BY <3>7 DEF c, EncodeAddress, Payload, AddressOf, AddrTag
      <4>2. e[5] = c /\ e[4] = w
        BY <3>7, <2>1
      <4>3. v = w
        BY <3>3, <4>1, <4>2
      <4> QED BY <4>3, <2>3 DEF c, text
    <3> QED BY <3>4, <3>5, <3>6, <3>7
  <2>5. [d EXCEPT ![k] = c] = d
    <3>1. d \in Seq({0, a, b, w, p}) /\ k \in DOMAIN d
      BY <1>3
    <3> HIDE DEF d, c
    <3> QED BY <2>4, <3>1
  <2> QED BY <2>1, <2>5, <1>1
<1> QED BY <1>4, <1>5, <1>6, <1>7, <1>8 DEF Mistyped, text

-----------------------------------------------------------------------------
(* Selection.                                                              *)

(* A note as a wallet records it.                                          *)
Record == [note : Note, position : Nat]

(* Among finitely many numbers, the first of the least comes before all    *)
(* others.                                                                 *)
LEMMA FirstOfLeast ==
  ASSUME NEW K \in SUBSET Nat, K # {}, NEW f, \A k \in K : f[k] \in Nat
  PROVE  \E k \in K : \A j \in K \ {k} : f[k] < f[j] \/ (f[k] = f[j] /\ k < j)
<1> DEFINE V == {f[k] : k \in K}
<1>1. PICK v \in V : \A y \in V : v <= y
  <2>1. V \in SUBSET Nat /\ V # {}
    OBVIOUS
  <2> HIDE DEF V
  <2> QED BY <2>1, LeastNat
<1> DEFINE M == {k \in K : f[k] = v}
<1>2. PICK k \in M : \A y \in M : k <= y
  <2>1. M \in SUBSET Nat /\ M # {}
    OBVIOUS
  <2> HIDE DEF M
  <2> QED BY <2>1, LeastNat
<1>3. ASSUME NEW j \in K \ {k} PROVE f[k] < f[j] \/ (f[k] = f[j] /\ k < j)
  <2>1. f[k] = v /\ v <= f[j] /\ f[j] \in Nat /\ v \in Nat /\ k \in Nat /\ j \in Nat /\ j # k
    BY <1>1
  <2>2. CASE f[j] = v
    BY <1>2, <2>1, <2>2
  <2>3. CASE f[j] # v
    BY <2>1, <2>3
  <2> QED BY <2>2, <2>3
<1> QED BY <1>3

(* What a wallet's records bring.                                          *)
LEMMA RecordTyped ==
  ASSUME NEW u \in Seq(Record)
  PROVE  /\ DOMAIN u = 1..Len(u) /\ Len(u) \in Nat /\ DOMAIN u \in SUBSET Nat
         /\ IsFiniteSet(DOMAIN u)
         /\ \A k \in DOMAIN u : /\ u[k] \in Record /\ u[k].note \in Note
                                /\ u[k].note.value \in Nat /\ u[k].note.rho \in Nat
                                /\ u[k].note.addr_tag \in Wallets /\ u[k].position \in Nat
<1>1. DOMAIN u = 1..Len(u) /\ Len(u) \in Nat
  OBVIOUS
<1>2. IsFiniteSet(1..Len(u))
  BY <1>1, FS_Interval
<1>3. ASSUME NEW k \in DOMAIN u
      PROVE  /\ u[k] \in Record /\ u[k].note \in Note
             /\ u[k].note.value \in Nat /\ u[k].note.rho \in Nat
             /\ u[k].note.addr_tag \in Wallets /\ u[k].position \in Nat
  <2>1. u[k] \in Record
    OBVIOUS
  <2>2. u[k].note \in Note /\ u[k].position \in Nat
    BY <2>1 DEF Record
  <2> QED BY <2>1, <2>2 DEF Note
<1> QED BY <1>1, <1>2, <1>3

(* The sum of the values held is at least that of any one or two of them.  *)
LEMMA HeldSum ==
  ASSUME NEW u \in Seq(Record)
  PROVE  /\ SumFunction(Values(u)) \in Nat
         /\ \A k \in DOMAIN u : u[k].note.value <= SumFunction(Values(u))
         /\ \A j, k \in DOMAIN u :
               j # k => u[j].note.value + u[k].note.value <= SumFunction(Values(u))
<1> DEFINE D == DOMAIN u
           f == Values(u)
<1>1. /\ IsFiniteSet(D) /\ DOMAIN f = D
      /\ \A k \in D : f[k] = u[k].note.value /\ f[k] \in Nat
  BY RecordTyped DEF Values
<1>2. SumFunction(f) = SumFunctionOnSet(f, D)
  BY <1>1 DEF SumFunction, SumFunctionOnSet, FoldFunction
<1> HIDE DEF D, f
<1>3. SumFunctionOnSet(f, D) \in Nat
  BY <1>1, SumNat
<1>4. ASSUME NEW k \in D PROVE f[k] <= SumFunctionOnSet(f, D)
  <2>1. {k} \in SUBSET D /\ SumFunctionOnSet(f, {k}) = f[k]
    BY <1>1, SumFew
  <2> QED BY <1>1, <2>1, SumPart
<1>5. ASSUME NEW j \in D, NEW k \in D, j # k PROVE f[j] + f[k] <= SumFunctionOnSet(f, D)
  <2>1. {j, k} \in SUBSET D /\ SumFunctionOnSet(f, {j, k}) = f[j] + f[k]
    BY <1>1, <1>5, SumFew
  <2> QED BY <1>1, <2>1, SumPart
<1> QED BY <1>1, <1>2, <1>3, <1>4, <1>5 DEF D, f

(* The largest of some notes is one of them, and none is larger.           *)
LEMMA LargestIs ==
  ASSUME NEW u \in Seq(Record), NEW ks \in SUBSET DOMAIN u, ks # {}
  PROVE  /\ Largest(u, ks) \in ks
         /\ \A j \in ks : u[j].note.value <= u[Largest(u, ks)].note.value
<1> DEFINE B == SumFunction(Values(u))
           v == [k \in DOMAIN u |-> u[k].note.value]
           f == [k \in DOMAIN u |-> B - v[k]]
           Best(k) == \A j \in ks \ {k} : v[j] < v[k] \/ (v[j] = v[k] /\ k < j)
<1>1. B \in Nat /\ \A k \in DOMAIN u : v[k] \in Nat /\ v[k] <= B
  BY HeldSum, RecordTyped
<1>2. ks \in SUBSET Nat /\ \A k \in ks : f[k] \in Nat /\ f[k] = B - v[k]
  <2> HIDE DEF B, v
  <2> QED BY <1>1, RecordTyped
<1>3. PICK k \in ks : \A j \in ks \ {k} : f[k] < f[j] \/ (f[k] = f[j] /\ k < j)
  <2> HIDE DEF f
  <2> QED BY <1>2, FirstOfLeast
<1>4. Best(k)
  <2> SUFFICES ASSUME NEW j \in ks \ {k} PROVE v[j] < v[k] \/ (v[j] = v[k] /\ k < j)
    OBVIOUS
  <2>1. f[k] < f[j] \/ (f[k] = f[j] /\ k < j)
    BY <1>3
  <2>2. f[k] = B - v[k] /\ f[j] = B - v[j] /\ v[k] \in Nat /\ v[j] \in Nat
    BY <1>1, <1>2
  <2> HIDE DEF f, v, B
  <2> QED BY <1>1, <2>1, <2>2
<1> DEFINE m == Largest(u, ks)
<1>5. m = CHOOSE x \in ks : Best(x)
  BY DEF Largest
<1>6. m \in ks /\ Best(m)
  <2> HIDE DEF Best, m
  <2> QED BY <1>4, <1>5
<1>7. ASSUME NEW j \in ks PROVE v[j] <= v[m]
  <2> HIDE DEF m
  <2>1. v[j] \in Nat /\ v[m] \in Nat
    BY <1>1, <1>6
  <2> HIDE DEF v
  <2>2. CASE j = m
    BY <2>1, <2>2
  <2>3. CASE j # m
    BY <1>6, <2>1, <2>3
  <2> QED BY <2>2, <2>3
<1> QED BY <1>6, <1>7

(* Which notes select_inputs settles on, by their places.                  *)
Covering(u, amount) == {k \in DOMAIN u : u[k].note.value >= amount}

PickOf(u, amount) ==
    LET value(k) == u[k].note.value
        before(j, k) == value(j) < value(k) \/ (value(j) = value(k) /\ j < k)
        covering == Covering(u, amount)
    IN  IF covering # {}
        THEN <<CHOOSE k \in covering : \A j \in covering \ {k} : before(k, j)>>
        ELSE TwoLargest(u)

TotalOf(u, pick) == SumFunction([n \in DOMAIN pick |-> u[pick[n]].note.value])

(* They are at most two different notes; the one note covers the amount,   *)
(* and no two are worth more than the two.                                 *)
Picked(u, amount, pick) ==
    /\ pick \in Seq(DOMAIN u) /\ Len(pick) <= 2
    /\ Len(pick) = 2 => pick[1] # pick[2]
    /\ Covering(u, amount) # {} => Len(pick) = 1 /\ pick[1] \in Covering(u, amount)
    /\ Covering(u, amount) = {} =>
          /\ Len(u) < 2 => Len(pick) = Len(u)
          /\ Len(u) >= 2 =>
                /\ Len(pick) = 2
                /\ \A j, k \in DOMAIN u :
                      j # k => u[j].note.value + u[k].note.value
                                 <= u[pick[1]].note.value + u[pick[2]].note.value

(* The choice is such.                                                     *)
LEMMA PickIs ==
  ASSUME NEW u \in Seq(Record), NEW amount \in Nat
  PROVE  Picked(u, amount, PickOf(u, amount))
<1> DEFINE C == Covering(u, amount)
           D == DOMAIN u
           v == [k \in D |-> u[k].note.value]
           pick == PickOf(u, amount)
<1>1. /\ D = 1..Len(u) /\ Len(u) \in Nat /\ D \in SUBSET Nat /\ C \in SUBSET D
      /\ \A k \in D : v[k] = u[k].note.value /\ v[k] \in Nat
  BY RecordTyped DEF Covering
<1>2. CASE C # {}
  <2> DEFINE First(k) == \A j \in C \ {k} : v[k] < v[j] \/ (v[k] = v[j] /\ k < j)
             c == CHOOSE k \in C : First(k)
  <2>1. \E k \in C : First(k)
    <3>1. C \in SUBSET Nat /\ \A k \in C : v[k] \in Nat
      BY <1>1
    <3> HIDE DEF C, v
    <3> QED BY <1>2, <3>1, FirstOfLeast
  <2>2. c \in C
    <3> HIDE DEF First
    <3> QED BY <2>1
  <2>3. pick = <<c>>
    BY <1>2, <1>1 DEF PickOf
  <2> HIDE DEF c
  <2>4. c \in D
    BY <1>1, <2>2
  <2>5. Len(pick) = 1 /\ pick[1] = c /\ pick \in Seq(D)
    BY <2>3, <2>4
  <2> HIDE DEF pick, C, D
  <2> QED BY <1>2, <2>2, <2>5 DEF Picked, C, D, pick
<1>3. CASE C = {} /\ Len(u) < 2
  <2>1. pick = [k \in D |-> k]
    BY <1>3 DEF PickOf, TwoLargest
  <2>2. pick \in Seq(D) /\ Len(pick) = Len(u)
    BY <1>1, <2>1
  <2> HIDE DEF pick, C, D
  <2> QED BY <1>1, <1>3, <2>2 DEF Picked, C, D, pick
<1>4. CASE C = {} /\ ~(Len(u) < 2)
  <2> DEFINE a == Largest(u, D)
             E == D \ {a}
             b == Largest(u, E)
  <2>1. pick = <<a, b>>
    BY <1>4 DEF PickOf, TwoLargest
  <2>2. a \in D /\ \A j \in D : u[j].note.value <= u[a].note.value
    <3>1. D # {}
      BY <1>1, <1>4
    <3> QED BY <3>1, LargestIs
  <2> HIDE DEF a
  <2>3. b \in E /\ \A j \in E : u[j].note.value <= u[b].note.value
    <3>1. E \in SUBSET D
      OBVIOUS
    <3>2. E # {}
      <4>1. 1 \in D /\ 2 \in D
        BY <1>1, <1>4
      <4> QED BY <4>1
    <3> HIDE DEF E
    <3> QED BY <3>1, <3>2, LargestIs DEF D
  <2> HIDE DEF b
  <2>4. Len(pick) = 2 /\ pick[1] = a /\ pick[2] = b /\ a # b /\ pick \in Seq(D)
    BY <2>1, <2>2, <2>3
  <2>5. ASSUME NEW j \in D, NEW k \in D, j # k
        PROVE  u[j].note.value + u[k].note.value <= u[a].note.value + u[b].note.value
    <3>1. v[j] \in Nat /\ v[k] \in Nat /\ v[a] \in Nat /\ v[b] \in Nat
      BY <1>1, <2>2, <2>3
    <3>2. v[j] <= v[a] /\ v[k] <= v[a] /\ (j # a => v[j] <= v[b]) /\ (k # a => v[k] <= v[b])
      BY <1>1, <2>2, <2>3
    <3>3. v[j] + v[k] <= v[a] + v[b]
      <4> HIDE DEF v
      <4> QED BY <3>1, <3>2, <2>5
    <3> QED BY <3>3, <1>1, <2>2, <2>3
  <2> HIDE DEF pick, C, D
  <2> QED BY <1>1, <1>4, <2>4, <2>5 DEF Picked, C, D, pick
<1> QED BY <1>2, <1>3, <1>4

(* What a choice of places adds up to.                                     *)
LEMMA TotalIs ==
  ASSUME NEW u \in Seq(Record), NEW pick \in Seq(DOMAIN u), Len(pick) <= 2
  PROVE  TotalOf(u, pick) = IF Len(pick) = 0 THEN 0
                            ELSE IF Len(pick) = 1 THEN u[pick[1]].note.value
                            ELSE u[pick[1]].note.value + u[pick[2]].note.value
<1> DEFINE D == DOMAIN pick
           f == [n \in D |-> u[pick[n]].note.value]
<1>1. /\ D = 1..Len(pick) /\ Len(pick) \in Nat /\ DOMAIN f = D
      /\ \A n \in D : f[n] = u[pick[n]].note.value /\ f[n] \in Nat
  BY RecordTyped
<1>2. TotalOf(u, pick) = SumFunctionOnSet(f, D)
  BY DEF TotalOf, SumFunction, SumFunctionOnSet, FoldFunction
<1> HIDE DEF f, D
<1>3. CASE Len(pick) = 0
  <2>1. D = {}
    BY <1>1, <1>3
  <2>2. SumFunctionOnSet(f, D) = 0
    BY <2>1, SumEmpty
  <2> QED BY <1>2, <1>3, <2>2
<1>4. CASE Len(pick) = 1
  <2>1. D = {1}
    BY <1>1, <1>4
  <2>2. SumFunctionOnSet(f, D) = f[1] /\ f[1] = u[pick[1]].note.value
    BY <1>1, <2>1, SumFew
  <2> QED BY <1>2, <1>4, <2>2
<1>5. CASE Len(pick) = 2
  <2>1. D = {1, 2}
    BY <1>1, <1>5
  <2>2. /\ f[1] = u[pick[1]].note.value /\ f[2] = u[pick[2]].note.value
        /\ f[1] \in Nat /\ f[2] \in Nat /\ 1 # 2
    BY <1>1, <2>1
  <2>3. SumFunctionOnSet(f, {1, 2}) = f[1] + f[2]
    <3> DEFINE x == 1
               y == 2
    <3>1. f[x] \in Nat /\ f[y] \in Nat /\ x # y
      BY <2>2
    <3> HIDE DEF x, y
    <3>2. SumFunctionOnSet(f, {x, y}) = f[x] + f[y]
      BY <3>1, SumFew
    <3> QED BY <3>2 DEF x, y
  <2>4. SumFunctionOnSet(f, D) = f[1] + f[2]
    BY ONLY <2>1, <2>3, Zenon
  <2> QED BY <1>2, <1>5, <2>2, <2>4
<1> DEFINE m == Len(pick)
<1>6. m \in Nat /\ m <= 2
  BY <1>1
<1> HIDE DEF m
<1>7. m = 0 \/ m = 1 \/ m = 2
  BY ONLY <1>6
<1> QED BY <1>3, <1>4, <1>5, <1>7 DEF m

(* select_inputs, said with the choice of places.                          *)
LEMMA SelectIs ==
  ASSUME NEW u \in Seq(Record), NEW amount \in Nat
  PROVE  LET pick == PickOf(u, amount)
             ok == SumFunction(Values(u)) >= amount /\ TotalOf(u, pick) >= amount
         IN  /\ Selects(u, amount) <=> ok
             /\ ok => SelectInputs(u, amount).picked = [n \in DOMAIN pick |-> u[pick[n]]]
             /\ TotalOf(u, pick) \in Nat
<1> DEFINE pick == PickOf(u, amount)
           s == SumFunction(Values(u))
           t == TotalOf(u, pick)
           r == [n \in DOMAIN pick |-> u[pick[n]]]
<1>1. SelectInputs(u, amount) =
         IF s < amount THEN [error |-> "InsufficientFunds"]
         ELSE IF t < amount THEN [error |-> "TooManyInputsNeeded"]
         ELSE [picked |-> r]
  BY DEF SelectInputs, PickOf, TotalOf, Covering
<1>2. s \in Nat
  BY HeldSum
<1>3. pick \in Seq(DOMAIN u) /\ Len(pick) <= 2
  BY PickIs DEF Picked
<1> HIDE DEF pick
<1>4. t \in Nat
  <2>1. \A n \in 1..Len(pick) : u[pick[n]].note.value \in Nat
    BY <1>3, RecordTyped
  <2>2. Len(pick) = 0 \/ Len(pick) = 1 \/ Len(pick) = 2
    <3> DEFINE S == DOMAIN u
    <3>1. pick \in Seq(S) /\ Len(pick) <= 2
      BY <1>3
    <3> HIDE DEF S
    <3>2. Len(pick) \in Nat
      BY <3>1, LenProperties
    <3> DEFINE m == Len(pick)
    <3>3. m \in Nat /\ m <= 2
      BY <3>1, <3>2
    <3> HIDE DEF m
    <3>4. m = 0 \/ m = 1 \/ m = 2
      BY ONLY <3>3
    <3> QED BY <3>4 DEF m
  <2>3. t = IF Len(pick) = 0 THEN 0
            ELSE IF Len(pick) = 1 THEN u[pick[1]].note.value
            ELSE u[pick[1]].note.value + u[pick[2]].note.value
    BY <1>3, TotalIs
  <2>4. CASE Len(pick) = 0
    BY <2>3, <2>4
  <2>5. CASE Len(pick) = 1
    BY <2>1, <2>3, <2>5
  <2>6. CASE Len(pick) = 2
    BY <2>1, <2>3, <2>6
  <2> QED BY <2>2, <2>4, <2>5, <2>6
<1> HIDE DEF s, t, r
<1>5. "picked" \notin DOMAIN [error |-> "InsufficientFunds"]
      /\ "picked" \notin DOMAIN [error |-> "TooManyInputsNeeded"]
      /\ "picked" \in DOMAIN [picked |-> r] /\ [picked |-> r].picked = r
  OBVIOUS
<1>6. Selects(u, amount) <=> s >= amount /\ t >= amount
  BY <1>1, <1>2, <1>4, <1>5 DEF Selects
<1>7. s >= amount /\ t >= amount => SelectInputs(u, amount).picked = r
  BY <1>1, <1>2, <1>4, <1>5
<1> QED BY <1>4, <1>6, <1>7 DEF pick, s, t, r

(* Selection succeeds precisely if two notes cover the amount.             *)
LEMMA SelectsIff ==
  ASSUME NEW u \in Seq(Record), NEW amount \in Nat
  PROVE  Selects(u, amount) <=>
            \/ amount = 0
            \/ \E j, k \in DOMAIN u :
                  (IF j = k THEN u[j].note.value ELSE u[j].note.value + u[k].note.value) >= amount
<1> DEFINE D == DOMAIN u
           v == [k \in D |-> u[k].note.value]
           pick == PickOf(u, amount)
           s == SumFunction(Values(u))
           t == TotalOf(u, pick)
           C == Covering(u, amount)
           m == Len(pick)
<1>1. D = 1..Len(u) /\ Len(u) \in Nat /\ \A k \in D : v[k] = u[k].note.value /\ v[k] \in Nat
  BY RecordTyped
<1>2. /\ s \in Nat /\ \A k \in D : v[k] <= s
      /\ \A j, k \in D : j # k => v[j] + v[k] <= s
  BY HeldSum
<1>3. (Selects(u, amount) <=> s >= amount /\ t >= amount) /\ t \in Nat
  BY SelectIs
<1>4. Picked(u, amount, pick)
  BY PickIs
<1>5. pick \in Seq(D) /\ m <= 2
  BY <1>4 DEF Picked
<1>6. t = IF m = 0 THEN 0 ELSE IF m = 1 THEN u[pick[1]].note.value
          ELSE u[pick[1]].note.value + u[pick[2]].note.value
  BY <1>5, TotalIs
<1> HIDE DEF pick, t, s
<1>7. m \in Nat /\ \A n \in 1..m : pick[n] \in D
  BY <1>5
<1>8. C = {k \in D : v[k] >= amount}
  BY DEF Covering
<1> SUFFICES (s >= amount /\ t >= amount) <=>
                \/ amount = 0
                \/ \E j, k \in D : (IF j = k THEN v[j] ELSE v[j] + v[k]) >= amount
  BY <1>1, <1>3
<1>9. CASE C # {}
  <2>1. m = 1 /\ pick[1] \in C
    BY <1>4, <1>9 DEF Picked
  <2> DEFINE c == pick[1]
  <2>2. c \in D /\ v[c] >= amount /\ t = v[c] /\ v[c] \in Nat /\ v[c] <= s
    BY <1>1, <1>2, <1>6, <1>8, <2>1
  <2> HIDE DEF v, c, m, C, D
  <2>3. s >= amount /\ t >= amount
    BY <2>2, <1>2
  <2>4. \E j, k \in D : (IF j = k THEN v[j] ELSE v[j] + v[k]) >= amount
    BY <2>2
  <2> QED BY <2>3, <2>4
<1>10. CASE C = {} /\ Len(u) < 2
  <2>1. m = Len(u)
    BY <1>4, <1>10 DEF Picked
  <2>2. CASE m = 0
    <3>1. D = {} /\ t = 0
      BY <1>1, <1>6, <2>1, <2>2
    <3> HIDE DEF D, C, m, v
    <3>2. amount = 0 => s >= amount /\ t >= amount
      BY <1>2, <3>1
    <3>3. t >= amount => amount = 0
      BY <3>1
    <3> QED BY <3>1, <3>2, <3>3
  <2>3. CASE m # 0
    <3>1. D = {1} /\ m = 1
      BY <1>1, <1>10, <2>1, <2>3
    <3>2. pick[1] = 1 /\ v[1] \in Nat /\ ~(v[1] >= amount)
      <4>1. 1 \in D /\ v[1] \in Nat
        BY <3>1, <1>1
      <4>2. pick[1] = 1
        <5>1. pick[1] \in D
          BY <3>1, <1>7
        <5> HIDE DEF D
        <5> QED BY <5>1, <3>1
      <4>3. ~(v[1] >= amount)
        <5> HIDE DEF D, C
        <5> QED BY <4>1, <1>8, <1>10
      <4> QED BY <4>1, <4>2, <4>3
    <3>3. t = v[1]
      BY <3>1, <3>2, <1>6, <1>1
    <3> HIDE DEF D, C, m, v
    <3>4. ~(t >= amount) /\ amount # 0
      BY <3>2, <3>3
    <3>5. ~ \E j, k \in D : (IF j = k THEN v[j] ELSE v[j] + v[k]) >= amount
      BY <3>1, <3>2
    <3> QED BY <3>4, <3>5
  <2> QED BY <2>2, <2>3
<1>11. CASE C = {} /\ Len(u) >= 2
  <2>1. /\ m = 2 /\ pick[1] # pick[2]
        /\ \A j, k \in D : j # k => u[j].note.value + u[k].note.value
                                      <= u[pick[1]].note.value + u[pick[2]].note.value
    BY <1>4, <1>11 DEF Picked
  <2> DEFINE a == pick[1]
             b == pick[2]
  <2>2. a \in D /\ b \in D /\ a # b
    BY <1>7, <2>1
  <2>3. t = v[a] + v[b] /\ v[a] \in Nat /\ v[b] \in Nat /\ v[a] + v[b] <= s
    BY <1>1, <1>2, <1>6, <2>1, <2>2
  <2>4. \A j, k \in D : j # k => v[j] + v[k] <= v[a] + v[b]
    BY <2>1, <2>2, <1>1
  <2>5. \A k \in D : v[k] \in Nat /\ ~(v[k] >= amount)
    BY <1>1, <1>8, <1>11
  <2> HIDE DEF D, C, m, v, a, b
  <2>6. amount # 0
    BY <2>2, <2>5
  <2>7. ASSUME t >= amount PROVE \E j, k \in D : (IF j = k THEN v[j] ELSE v[j] + v[k]) >= amount
    BY <2>2, <2>3, <2>7
  <2>8. ASSUME NEW j \in D, NEW k \in D, (IF j = k THEN v[j] ELSE v[j] + v[k]) >= amount
        PROVE  s >= amount /\ t >= amount
    <3>1. j # k /\ v[j] + v[k] >= amount /\ v[j] + v[k] <= v[a] + v[b]
      BY <2>4, <2>5, <2>8
    <3>2. v[j] \in Nat /\ v[k] \in Nat
      BY <2>5
    <3> QED BY <1>2, <2>3, <3>1, <3>2
  <2> QED BY <2>6, <2>7, <2>8
<1> QED BY <1>1, <1>9, <1>10, <1>11

(* Records at different positions.                                         *)
Apart(u) == \A j, k \in DOMAIN u : u[j].position = u[k].position => j = k

(* What is picked are at most two different records that cover the amount. *)
LEMMA PickedRecords ==
  ASSUME NEW u \in Seq(Record), NEW amount \in Nat, Selects(u, amount)
  PROVE  LET picked == SelectInputs(u, amount).picked
             pick == PickOf(u, amount)
         IN  /\ pick \in Seq(DOMAIN u) /\ Len(pick) <= 2 /\ (Len(pick) = 2 => pick[1] # pick[2])
             /\ picked \in Seq(Record) /\ Len(picked) = Len(pick)
             /\ DOMAIN picked = 1..Len(pick)
             /\ \A n \in 1..Len(pick) : pick[n] \in DOMAIN u /\ picked[n] = u[pick[n]]
             /\ SumFunction(Values(picked)) = TotalOf(u, pick)
             /\ TotalOf(u, pick) >= amount
<1> DEFINE pick == PickOf(u, amount)
           picked == SelectInputs(u, amount).picked
           D == DOMAIN u
<1>1. /\ pick \in Seq(D) /\ Len(pick) <= 2 /\ (Len(pick) = 2 => pick[1] # pick[2])
  BY PickIs DEF Picked
<1>2. picked = [n \in DOMAIN pick |-> u[pick[n]]] /\ TotalOf(u, pick) >= amount
  BY SelectIs
<1>3. \A k \in D : u[k] \in Record
  BY RecordTyped
<1> HIDE DEF pick, picked, D
<1>4. DOMAIN pick = 1..Len(pick) /\ Len(pick) \in Nat /\ \A n \in 1..Len(pick) : pick[n] \in D
  BY <1>1
<1>5. /\ picked \in Seq(Record) /\ Len(picked) = Len(pick) /\ DOMAIN picked = 1..Len(pick)
      /\ \A n \in 1..Len(pick) : picked[n] = u[pick[n]]
  BY <1>2, <1>3, <1>4
<1>6. Values(picked) = [n \in DOMAIN pick |-> u[pick[n]].note.value]
  BY <1>4, <1>5 DEF Values
<1> QED BY <1>1, <1>2, <1>4, <1>5, <1>6 DEF pick, picked, D, TotalOf

(* So selection is complete.                                               *)
LEMMA SelectionIsComplete ==
  ASSUME NEW u \in Seq(Record), Apart(u), NEW amount \in Nat
  PROVE  LET value(k) == u[k].note.value
             coverable == \/ amount = 0
                          \/ \E j, k \in DOMAIN u :
                                (IF j = k THEN value(j) ELSE value(j) + value(k)) >= amount
         IN  /\ Selects(u, amount) <=> coverable
             /\ Selects(u, amount) =>
                   LET picked == SelectInputs(u, amount).picked
                   IN  /\ Len(picked) <= 2
                       /\ SumFunction(Values(picked)) >= amount
                       /\ \A j, k \in DOMAIN picked : picked[j] = picked[k] => j = k
<1> DEFINE picked == SelectInputs(u, amount).picked
           pick == PickOf(u, amount)
<1>1. ASSUME Selects(u, amount)
      PROVE  /\ Len(picked) <= 2 /\ SumFunction(Values(picked)) >= amount
             /\ \A j, k \in DOMAIN picked : picked[j] = picked[k] => j = k
  <2>1. /\ pick \in Seq(DOMAIN u) /\ Len(pick) <= 2 /\ (Len(pick) = 2 => pick[1] # pick[2])
        /\ Len(picked) = Len(pick) /\ DOMAIN picked = 1..Len(pick)
        /\ \A n \in 1..Len(pick) : pick[n] \in DOMAIN u /\ picked[n] = u[pick[n]]
        /\ SumFunction(Values(picked)) >= amount
    BY <1>1, PickedRecords
  <2> HIDE DEF pick, picked
  <2>2. ASSUME NEW j \in DOMAIN picked, NEW k \in DOMAIN picked, picked[j] = picked[k]
        PROVE  j = k
    <3>1. /\ pick[j] \in DOMAIN u /\ pick[k] \in DOMAIN u /\ u[pick[j]] = u[pick[k]]
          /\ j \in 1..Len(pick) /\ k \in 1..Len(pick)
      BY <2>1, <2>2
    <3>2. pick[j] = pick[k]
      BY <3>1 DEF Apart
    <3> DEFINE m == Len(pick)
    <3>3. m \in Nat /\ m <= 2 /\ j \in 1..m /\ k \in 1..m
      BY <2>1, <3>1
    <3>4. m = 2 => pick[1] # pick[2]
      BY <2>1
    <3> HIDE DEF m
    <3>5. j = k \/ (m = 2 /\ j = 1 /\ k = 2) \/ (m = 2 /\ j = 2 /\ k = 1)
      BY ONLY <3>3
    <3> QED BY ONLY <3>2, <3>4, <3>5, Zenon
  <2> QED BY <2>1, <2>2
<1> QED BY <1>1, SelectsIff

-----------------------------------------------------------------------------
(* The ledger's notes.                                                     *)

NfOf(leaf) == Nullifier(NoteOf(leaf), OwnerOf(leaf))

(* The places in T of notes that were not minted and not spent in S.       *)
Live(T, S) == {p \in DOMAIN T : T[p].source = "output" /\ NfOf(T[p]) \notin S}

DummyNf(s) == \E d \in {0, 1}, w \in Wallets : s = Nullifier(DummyNote(d), w)

(* Output leaves belong to wallets, and have the rho of a genesis note or  *)
(* one that a spent nullifier gave them; no two have the same.             *)
GoodLeaves(T, S) ==
    /\ T \in Seq(Leaf) /\ S \in SUBSET Nat
    /\ \A p \in DOMAIN T : T[p].source = "output" =>
          /\ T[p].idx \in Wallets
          /\ T[p].id <= 9 \/ \E f \in S, i \in {0, 1} : T[p].id = RhoTransfer(f, i)
    /\ \A p, q \in DOMAIN T :
          T[p].source = "output" /\ T[q].source = "output" /\ T[p].id = T[q].id => p = q

(* What is spent was a dummy or is a note of the tree.                     *)
SpentKnown(T, S) ==
    \A s \in S : DummyNf(s) \/ \E p \in DOMAIN T : T[p].source = "output" /\ NfOf(T[p]) = s

WorthOf(T, P) == SumFunctionOnSet([p \in DOMAIN T |-> T[p].value], P)

Sound(T, S) ==
    GoodLeaves(T, S) /\ SpentKnown(T, S) /\ WorthOf(T, Live(T, S)) = GenesisSupply

(* The nullifier s spends v: a dummy is worth nothing.                     *)
Spends(T, s, v) ==
    \/ DummyNf(s) /\ v = 0
    \/ \E p \in DOMAIN T : T[p].source = "output" /\ NfOf(T[p]) = s /\ T[p].value = v

(* A transfer of notes in T: its outputs are worth what it spends.         *)
Funded(T, tx) ==
    /\ tx \in Tx
    /\ \A k \in 1..2 : /\ tx.commitments[k].source = "output"
                       /\ tx.commitments[k].idx \in Wallets
                       /\ tx.commitments[k].id = RhoTransfer(tx.nullifiers[1], k - 1)
    /\ \E v, w \in Nat :
          /\ Spends(T, tx.nullifiers[1], v) /\ Spends(T, tx.nullifiers[2], w)
          /\ tx.commitments[1].value + tx.commitments[2].value = v + w

(* The nullifier of a wallet's leaf binds its id and its owner.            *)
LEMMA LeafNullifier ==
  ASSUME NEW l \in Leaf, l.idx \in Wallets
  PROVE  /\ NfOf(l) \in Nat
         /\ DummyNf(NfOf(l)) => l.id \in {10, 11}
         /\ \A m \in Leaf : m.idx \in Wallets /\ NfOf(m) = NfOf(l) => m.id = l.id
<1> DEFINE a == NoteOf(l)
<1>1. a.rho = l.id /\ a.rho \in Nat /\ NfOf(l) = Nullifier(a, l.idx)
  BY DEF NoteOf, NfOf, OwnerOf, Leaf
<1> HIDE DEF a
<1>2. NfOf(l) \in Nat
  BY <1>1, NullifierBinds
<1>3. ASSUME NEW d \in {0, 1}, NEW w \in Wallets, NfOf(l) = Nullifier(DummyNote(d), w)
      PROVE  l.id \in {10, 11}
  <2> DEFINE b == DummyNote(d)
  <2>1. b.rho \in Nat /\ b.rho \in {10, 11}
    BY DEF DummyNote, RhoDummy
  <2> HIDE DEF b
  <2>2. Nullifier(a, l.idx) = Nullifier(b, w)
    BY <1>1, <1>3 DEF b
  <2>3. a.rho = b.rho
    BY <1>1, <2>1, <2>2, NullifierBinds
  <2> QED BY <1>1, <2>1, <2>3
<1>4. ASSUME NEW m \in Leaf, m.idx \in Wallets, NfOf(m) = NfOf(l) PROVE m.id = l.id
  <2> DEFINE b == NoteOf(m)
  <2>1. b.rho = m.id /\ b.rho \in Nat /\ NfOf(m) = Nullifier(b, m.idx)
    BY DEF NoteOf, NfOf, OwnerOf, Leaf
  <2> HIDE DEF b
  <2>2. Nullifier(a, l.idx) = Nullifier(b, m.idx)
    BY <1>1, <1>4, <2>1
  <2>3. a.rho = b.rho
    BY <1>1, <1>4, <2>1, <2>2, NullifierBinds
  <2> QED BY <1>1, <2>1, <2>3
<1> QED BY <1>2, <1>3, <1>4 DEF DummyNf

(* No note of the tree has a dummy's rho, and a nullifier spends one note. *)
LEMMA LeavesApart ==
  ASSUME NEW T, NEW S, GoodLeaves(T, S)
  PROVE  /\ DOMAIN T = 1..Len(T) /\ Len(T) \in Nat
         /\ \A p \in DOMAIN T :
               /\ T[p] \in Leaf /\ T[p].value \in Nat /\ T[p].id \in Nat
               /\ T[p].source = "output" => /\ T[p].idx \in Wallets
                                            /\ NfOf(T[p]) \in Nat /\ ~DummyNf(NfOf(T[p]))
         /\ \A p, q \in DOMAIN T :
               /\ T[p].source = "output" /\ T[q].source = "output" /\ NfOf(T[p]) = NfOf(T[q])
               => p = q
<1>1. T \in Seq(Leaf) /\ S \in SUBSET Nat
  BY DEF GoodLeaves
<1>2. ASSUME NEW p \in DOMAIN T
      PROVE  /\ T[p] \in Leaf /\ T[p].value \in Nat /\ T[p].id \in Nat
             /\ T[p].source = "output" => /\ T[p].idx \in Wallets
                                          /\ NfOf(T[p]) \in Nat /\ ~DummyNf(NfOf(T[p]))
  <2> DEFINE l == T[p]
  <2>1. l \in Leaf
    BY <1>1
  <2>2. l.value \in Nat /\ l.id \in Nat
    BY <2>1 DEF Leaf
  <2>3. ASSUME l.source = "output"
        PROVE  l.idx \in Wallets /\ NfOf(l) \in Nat /\ ~DummyNf(NfOf(l))
    <3>1. l.idx \in Wallets
      BY <2>3 DEF GoodLeaves
    <3>2. l.id \notin {10, 11}
      <4>1. CASE l.id <= 9
        BY <2>2, <4>1
      <4>2. ASSUME NEW f \in S, NEW i \in {0, 1}, l.id = RhoTransfer(f, i)
            PROVE  l.id \notin {10, 11}
        <5>1. f \in Nat /\ i \in Nat /\ l.id = 12 + 2 * f + i
          BY <1>1, <4>2 DEF RhoTransfer
        <5> HIDE DEF l
        <5> QED BY <5>1
      <4>3. l.id <= 9 \/ \E f \in S, i \in {0, 1} : l.id = RhoTransfer(f, i)
        BY <2>3 DEF GoodLeaves
      <4> QED BY <4>1, <4>2, <4>3
    <3> HIDE DEF l
    <3> QED BY <2>1, <3>1, <3>2, LeafNullifier
  <2> QED BY <2>1, <2>2, <2>3
<1>3. ASSUME NEW p \in DOMAIN T, NEW q \in DOMAIN T, T[p].source = "output",
             T[q].source = "output", NfOf(T[p]) = NfOf(T[q])
      PROVE  p = q
  <2>1. T[p] \in Leaf /\ T[q] \in Leaf /\ T[p].idx \in Wallets /\ T[q].idx \in Wallets
    BY <1>2, <1>3
  <2>2. T[p].id = T[q].id
    BY <2>1, <1>3, LeafNullifier
  <2> QED BY <2>2, <1>3 DEF GoodLeaves
<1> QED BY <1>1, <1>2, <1>3

(* The tree with a transfer's outputs, place by place.                     *)
Extends(T, c, X) ==
    /\ X \in Seq(Leaf) /\ Len(X) = Len(T) + 2 /\ DOMAIN X = 1..(Len(T) + 2)
    /\ \A p \in DOMAIN T : p \in DOMAIN X /\ X[p] = T[p]
    /\ X[Len(T) + 1] = c[1] /\ X[Len(T) + 2] = c[2]
    /\ \A p \in DOMAIN X : p \in DOMAIN T \/ p = Len(T) + 1 \/ p = Len(T) + 2

(* Appending two leaves does that.                                         *)
LEMMA ExtendsTree ==
  ASSUME NEW T \in Seq(Leaf), NEW c \in [1..2 -> Leaf]
  PROVE  Extends(T, c, T \o c)
<1> DEFINE n == Len(T)
           X == T \o c
<1>1. c \in Seq(Leaf) /\ Len(c) = 2 /\ n \in Nat /\ DOMAIN T = 1..n
  <2>1. c \in Seq(Leaf) /\ Len(c) = 2
    BY FcnIsSeq
  <2> QED BY <2>1
<1>2. /\ X \in Seq(Leaf) /\ Len(X) = n + 2 /\ DOMAIN X = 1..(n + 2)
      /\ \A p \in 1..n : X[p] = T[p]
      /\ X[n + 1] = c[1] /\ X[n + 2] = c[2]
  <2> DEFINE S == Leaf
  <2>1. T \in Seq(S) /\ c \in Seq(S)
    BY <1>1
  <2> HIDE DEF S
  <2>2. /\ X \in Seq(S) /\ Len(X) = Len(T) + Len(c)
        /\ \A i \in 1..(Len(T) + Len(c)) :
              X[i] = IF i <= Len(T) THEN T[i] ELSE c[i - Len(T)]
    BY <2>1, ConcatProperties
  <2> HIDE DEF X, n
  <2>3. /\ Len(X) = n + 2 /\ DOMAIN X = 1..(n + 2)
        /\ \A i \in 1..(n + 2) : X[i] = IF i <= n THEN T[i] ELSE c[i - n]
    BY <1>1, <2>2 DEF n
  <2>4. /\ \A p \in 1..n : p \in 1..(n + 2) /\ p <= n
        /\ n + 1 \in 1..(n + 2) /\ n + 2 \in 1..(n + 2) /\ (n + 1) - n = 1 /\ (n + 2) - n = 2
        /\ ~(n + 1 <= n) /\ ~(n + 2 <= n)
    BY <1>1
  <2>5. /\ \A p \in 1..n : X[p] = T[p]
        /\ X[n + 1] = c[1] /\ X[n + 2] = c[2]
    BY ONLY <2>3, <2>4, Zenon
  <2> QED BY <2>2, <2>3, <2>5 DEF S
<1> HIDE DEF X, n
<1>3. \A p \in 1..(n + 2) : p \in 1..n \/ p = n + 1 \/ p = n + 2
  BY <1>1
<1>4. \A p \in 1..n : p \in 1..(n + 2)
  BY <1>1
<1> QED BY <1>1, <1>2, <1>3, <1>4 DEF Extends, X, n

(* A transfer of notes in a tree is one of notes in a longer tree.         *)
LEMMA FundedGrows ==
  ASSUME NEW T, NEW X, NEW tx, Funded(T, tx),
         \A p \in DOMAIN T : p \in DOMAIN X /\ X[p] = T[p]
  PROVE  Funded(X, tx)
<1>1. ASSUME NEW s, NEW v, Spends(T, s, v) PROVE Spends(X, s, v)
  BY <1>1 DEF Spends
<1>2. PICK v, w \in Nat :
          /\ Spends(T, tx.nullifiers[1], v) /\ Spends(T, tx.nullifiers[2], w)
          /\ tx.commitments[1].value + tx.commitments[2].value = v + w
  BY DEF Funded
<1>3. Spends(X, tx.nullifiers[1], v) /\ Spends(X, tx.nullifiers[2], w)
  BY <1>1, <1>2
<1> QED BY <1>2, <1>3 DEF Funded

(* What a transfer brings, and what it takes to apply it.                  *)
Fresh(S, tx) == tx.nullifiers[1] # tx.nullifiers[2] /\ Nfs(tx) \cap S = {}

(* The types of its parts.                                                 *)
LEMMA FundedTyped ==
  ASSUME NEW T, NEW tx, Funded(T, tx)
  PROVE  /\ tx \in Tx /\ tx.commitments \in [1..2 -> Leaf]
         /\ tx.nullifiers[1] \in Nat /\ tx.nullifiers[2] \in Nat
         /\ Nfs(tx) = {tx.nullifiers[1], tx.nullifiers[2]}
         /\ \A k \in 1..2 : /\ tx.commitments[k] \in Leaf /\ tx.commitments[k].value \in Nat
                            /\ tx.commitments[k].source = "output"
                            /\ tx.commitments[k].idx \in Wallets
                            /\ tx.commitments[k].id = 12 + 2 * tx.nullifiers[1] + (k - 1)
<1>1. tx \in Tx
  BY DEF Funded
<1>2. tx.commitments \in [1..2 -> Leaf] /\ tx.nullifiers \in [1..2 -> Nat]
  BY <1>1 DEF Tx
<1>3. \A k \in 1..2 : tx.commitments[k] \in Leaf /\ tx.commitments[k].value \in Nat
  BY <1>2 DEF Leaf
<1> QED BY <1>1, <1>2, <1>3 DEF Funded, Nfs, RhoTransfer

(* Applying a transfer of unspent notes keeps the leaves good.             *)
LEMMA AcceptGood ==
  ASSUME NEW T, NEW S, GoodLeaves(T, S), NEW tx, Funded(T, tx), Fresh(S, tx),
         NEW X, Extends(T, tx.commitments, X)
  PROVE  GoodLeaves(X, S \cup Nfs(tx))
<1> DEFINE x == tx.nullifiers[1]
           y == tx.nullifiers[2]
           c == tx.commitments
           n == Len(T)
           Z == S \cup Nfs(tx)
<1>1. /\ x \in Nat /\ y \in Nat /\ Nfs(tx) = {x, y}
      /\ \A k \in 1..2 : /\ c[k] \in Leaf /\ c[k].source = "output" /\ c[k].idx \in Wallets
                         /\ c[k].id = 12 + 2 * x + (k - 1)
  BY FundedTyped
<1>2. /\ T \in Seq(Leaf) /\ S \in SUBSET Nat /\ x \notin S
      /\ \A p \in DOMAIN T : T[p].source = "output" =>
          /\ T[p].idx \in Wallets
          /\ T[p].id <= 9 \/ \E f \in S, i \in {0, 1} : T[p].id = RhoTransfer(f, i)
      /\ \A p, q \in DOMAIN T :
          T[p].source = "output" /\ T[q].source = "output" /\ T[p].id = T[q].id => p = q
  BY <1>1 DEF GoodLeaves, Fresh
<1>3. /\ X \in Seq(Leaf)
      /\ \A p \in DOMAIN T : p \in DOMAIN X /\ X[p] = T[p]
      /\ X[n + 1] = c[1] /\ X[n + 2] = c[2] /\ n \in Nat
      /\ \A p \in DOMAIN X : p \in DOMAIN T \/ p = n + 1 \/ p = n + 2
  BY <1>2 DEF Extends
<1>4. /\ X[n + 1].source = "output" /\ X[n + 1].idx \in Wallets /\ X[n + 1].id = 12 + 2 * x + 0
      /\ X[n + 2].source = "output" /\ X[n + 2].idx \in Wallets /\ X[n + 2].id = 12 + 2 * x + 1
  BY <1>1, <1>3
<1>5. Z \in SUBSET Nat /\ x \in Z
  BY <1>1, <1>2
<1>6. ASSUME NEW p \in DOMAIN T, T[p].source = "output"
      PROVE  T[p].id # 12 + 2 * x + 0 /\ T[p].id # 12 + 2 * x + 1
  <2>1. T[p].id \in Nat
    BY LeavesApart
  <2>2. CASE T[p].id <= 9
    BY <1>1, <2>1, <2>2
  <2>3. ASSUME NEW f \in S, NEW i \in {0, 1}, T[p].id = RhoTransfer(f, i)
        PROVE  T[p].id # 12 + 2 * x + 0 /\ T[p].id # 12 + 2 * x + 1
    <3>1. f \in Nat /\ f # x /\ T[p].id = 12 + 2 * f + i /\ (i = 0 \/ i = 1)
      BY <1>2, <2>3 DEF RhoTransfer
    <3> HIDE DEF x
    <3> QED BY <1>1, <3>1
  <2> QED BY <1>2, <1>6, <2>2, <2>3
<1> HIDE DEF x, y, c, n, Z
<1>7. ASSUME NEW p \in DOMAIN X, X[p].source = "output"
      PROVE  /\ X[p].idx \in Wallets
             /\ X[p].id <= 9 \/ \E f \in Z, i \in {0, 1} : X[p].id = RhoTransfer(f, i)
  <2>1. CASE p \in DOMAIN T
    BY <1>2, <1>3, <1>7, <2>1 DEF Z
  <2>2. CASE p = n + 1
    <3>1. X[p].id = RhoTransfer(x, 0)
      BY <1>4, <2>2 DEF RhoTransfer
    <3> QED BY <3>1, <1>4, <1>5, <2>2
  <2>3. CASE p = n + 2
    <3>1. X[p].id = RhoTransfer(x, 1)
      BY <1>4, <2>3 DEF RhoTransfer
    <3> QED BY <3>1, <1>4, <1>5, <2>3
  <2> QED BY <1>3, <2>1, <2>2, <2>3
<1>8. ASSUME NEW p \in DOMAIN X, NEW q \in DOMAIN X, X[p].source = "output",
             X[q].source = "output", X[p].id = X[q].id
      PROVE  p = q
  <2>1. X[n + 1].id # X[n + 2].id
    BY <1>1, <1>4
  <2>2. CASE p \in DOMAIN T /\ q \in DOMAIN T
    BY <1>2, <1>3, <1>8, <2>2
  <2>3. CASE p \in DOMAIN T /\ q \notin DOMAIN T
    BY <1>3, <1>4, <1>6, <1>8, <2>3
  <2>4. CASE p \notin DOMAIN T /\ q \in DOMAIN T
    BY <1>3, <1>4, <1>6, <1>8, <2>4
  <2>5. CASE p \notin DOMAIN T /\ q \notin DOMAIN T
    BY <1>3, <1>8, <2>1, <2>5
  <2> QED BY <2>2, <2>3, <2>4, <2>5
<1>9. GoodLeaves(X, Z)
  BY <1>3, <1>5, <1>7, <1>8 DEF GoodLeaves
<1> QED BY <1>9 DEF Z

(* What it spends stays known.                                             *)
LEMMA AcceptKnown ==
  ASSUME NEW T, NEW S, SpentKnown(T, S), NEW tx, Funded(T, tx),
         NEW X, \A p \in DOMAIN T : p \in DOMAIN X /\ X[p] = T[p]
  PROVE  SpentKnown(X, S \cup Nfs(tx))
<1> SUFFICES ASSUME NEW s \in S \cup Nfs(tx)
             PROVE  DummyNf(s) \/ \E p \in DOMAIN X : X[p].source = "output" /\ NfOf(X[p]) = s
  BY DEF SpentKnown
<1>1. DummyNf(s) \/ \E p \in DOMAIN T : T[p].source = "output" /\ NfOf(T[p]) = s
  <2>1. CASE s \in S
    BY <2>1 DEF SpentKnown
  <2>2. CASE s \in Nfs(tx)
    <3>1. \E v : Spends(T, s, v)
      BY <2>2 DEF Funded, Nfs
    <3> QED BY <3>1 DEF Spends
  <2> QED BY <2>1, <2>2
<1> QED BY <1>1

(* The places of the note that a nullifier spends: one, or none.           *)
Places(T, s) == {p \in DOMAIN T : T[p].source = "output" /\ NfOf(T[p]) = s}

(* The note is worth what the nullifier spends.                            *)
LEMMA SpendsWorth ==
  ASSUME NEW T, NEW S, GoodLeaves(T, S), NEW s, NEW v, Spends(T, s, v)
  PROVE  WorthOf(T, Places(T, s)) = v
<1> DEFINE f == [p \in DOMAIN T |-> T[p].value]
<1>1. WorthOf(T, Places(T, s)) = SumFunctionOnSet(f, Places(T, s))
  BY DEF WorthOf
<1>2. CASE DummyNf(s) /\ v = 0
  <2>1. Places(T, s) = {}
    BY <1>2, LeavesApart DEF Places
  <2>2. SumFunctionOnSet(f, {}) = 0
    BY SumEmpty
  <2> QED BY <1>1, <1>2, <2>1, <2>2
<1>3. ASSUME NEW p \in DOMAIN T, T[p].source = "output", NfOf(T[p]) = s, T[p].value = v
      PROVE  SumFunctionOnSet(f, Places(T, s)) = v
  <2>1. Places(T, s) = {p}
    BY <1>3, LeavesApart DEF Places
  <2>2. f[p] = v /\ f[p] \in Nat
    BY <1>3, LeavesApart
  <2> HIDE DEF f
  <2>3. SumFunctionOnSet(f, {p}) = f[p]
    BY <2>2, SumFew
  <2> QED BY <2>1, <2>2, <2>3
<1> QED BY <1>1, <1>2, <1>3 DEF Spends

(* No spent nullifier is that of an output just made.                      *)
LEMMA NewIsLive ==
  ASSUME NEW T, NEW S, GoodLeaves(T, S), SpentKnown(T, S), NEW tx, Funded(T, tx),
         Fresh(S, tx), NEW X, Extends(T, tx.commitments, X),
         NEW q \in DOMAIN X, q \notin DOMAIN T
  PROVE  q \in Live(X, S \cup Nfs(tx))
<1> DEFINE Z == S \cup Nfs(tx)
<1>1. GoodLeaves(X, Z)
  BY AcceptGood
<1>2. /\ \A p \in DOMAIN T : p \in DOMAIN X /\ X[p] = T[p]
      /\ X[q].source = "output"
  <2>1. \A k \in 1..2 : tx.commitments[k].source = "output"
    BY FundedTyped
  <2> QED BY <2>1 DEF Extends
<1>3. SpentKnown(T, Z)
  BY AcceptKnown
<1>4. ~DummyNf(NfOf(X[q]))
  BY <1>1, <1>2, LeavesApart
<1>5. ASSUME NEW p \in DOMAIN T, T[p].source = "output", NfOf(T[p]) = NfOf(X[q]) PROVE FALSE
  <2>1. p \in DOMAIN X /\ X[p].source = "output" /\ NfOf(X[p]) = NfOf(X[q])
    BY <1>2, <1>5
  <2>2. p = q
    BY <1>1, <1>2, <2>1, LeavesApart
  <2> QED BY <2>2
<1>6. NfOf(X[q]) \notin Z
  BY <1>3, <1>4, <1>5 DEF SpentKnown
<1> QED BY <1>2, <1>6 DEF Live

(* Applying a transfer of unspent notes conserves what is unspent.         *)
LEMMA AcceptWorth ==
  ASSUME NEW T, NEW S, Sound(T, S), NEW tx, Funded(T, tx), Fresh(S, tx),
         NEW X, Extends(T, tx.commitments, X)
  PROVE  WorthOf(X, Live(X, S \cup Nfs(tx))) = GenesisSupply
<1> DEFINE x == tx.nullifiers[1]
           y == tx.nullifiers[2]
           c == tx.commitments
           n == Len(T)
           Z == S \cup Nfs(tx)
           f == [p \in DOMAIN T |-> T[p].value]
           g == [p \in DOMAIN X |-> X[p].value]
           R == Places(T, x)
           Q == Places(T, y)
           A == Live(T, S) \ (R \cup Q)
           N == {n + 1, n + 2}
<1>1. GoodLeaves(T, S) /\ SpentKnown(T, S) /\ WorthOf(T, Live(T, S)) = GenesisSupply
  BY DEF Sound
<1>2. PICK v, w \in Nat : Spends(T, x, v) /\ Spends(T, y, w) /\ c[1].value + c[2].value = v + w
  BY DEF Funded
<1>3. WorthOf(T, R) = v /\ WorthOf(T, Q) = w
  BY <1>1, <1>2, SpendsWorth
<1>4. x # y /\ x \notin S /\ y \notin S /\ Nfs(tx) = {x, y}
  BY FundedTyped DEF Fresh
<1>5. /\ DOMAIN T = 1..n /\ n \in Nat /\ \A p \in DOMAIN T : f[p] \in Nat /\ f[p] = T[p].value
  BY <1>1, LeavesApart
<1>6. IsFiniteSet(DOMAIN T)
  BY <1>5, FS_Interval
<1>7. /\ \A p \in DOMAIN T : p \in DOMAIN X /\ X[p] = T[p]
      /\ X[n + 1] = c[1] /\ X[n + 2] = c[2] /\ DOMAIN X = 1..(n + 2)
      /\ \A p \in DOMAIN X : p \in DOMAIN T \/ p = n + 1 \/ p = n + 2
  BY DEF Extends
<1>8. /\ R \in SUBSET DOMAIN T /\ Q \in SUBSET DOMAIN T /\ A \in SUBSET DOMAIN T
      /\ R \cap Q = {} /\ A \cap (R \cup Q) = {} /\ Live(T, S) = A \cup (R \cup Q)
  BY <1>4 DEF Places, Live
<1>9. n + 1 \in DOMAIN X /\ n + 2 \in DOMAIN X /\ n + 1 \notin DOMAIN T /\ n + 2 \notin DOMAIN T
  BY <1>5, <1>7
<1>10. n + 1 \in Live(X, Z) /\ n + 2 \in Live(X, Z)
  BY <1>1, <1>9, NewIsLive
<1>11. Live(X, Z) = A \cup N /\ A \cap N = {}
  <2>1. ASSUME NEW p \in DOMAIN T PROVE p \in Live(X, Z) <=> p \in A
    BY <1>4, <1>7 DEF Live, Places
  <2>2. \A p \in Live(X, Z) : p \in DOMAIN X
    BY DEF Live
  <2> HIDE DEF A, Z
  <2> QED BY <2>1, <2>2, <1>7, <1>8, <1>9, <1>10
<1>12. /\ IsFiniteSet(R) /\ IsFiniteSet(Q) /\ IsFiniteSet(A) /\ IsFiniteSet(R \cup Q)
       /\ IsFiniteSet(N)
  <2>1. IsFiniteSet({n + 1}) /\ IsFiniteSet({n + 2}) /\ N = {n + 1} \cup {n + 2}
    BY FS_Singleton
  <2>2. IsFiniteSet({n + 1} \cup {n + 2})
    BY <2>1, FS_Union
  <2> HIDE DEF R, Q, A, N
  <2>3. R \cup Q \in SUBSET DOMAIN T
    BY <1>8
  <2> QED BY <1>6, <1>8, <2>1, <2>2, <2>3, FS_Subset
<1>13. \A p \in A \cup N : g[p] \in Nat
  <2>1. \A k \in 1..2 : c[k].value \in Nat
    BY FundedTyped
  <2>2. \A p \in DOMAIN T : g[p] = f[p]
    BY <1>7
  <2>3. g[n + 1] = c[1].value /\ g[n + 2] = c[2].value
    BY <1>7, <1>9
  <2> HIDE DEF g, f, A
  <2> QED BY <2>1, <2>2, <2>3, <1>5, <1>8
<1>14. \A p \in A : f[p] \in Nat /\ f[p] = g[p]
  <2>1. \A p \in DOMAIN T : g[p] = f[p]
    BY <1>7
  <2> HIDE DEF g, f, A
  <2> QED BY <2>1, <1>5, <1>8
<1>15. g[n + 1] = c[1].value /\ g[n + 2] = c[2].value /\ n + 1 # n + 2
  BY <1>5, <1>7, <1>9
<1>16. \A p \in DOMAIN T : f[p] \in Nat
  BY <1>5
<1>17. /\ WorthOf(T, Live(T, S)) = SumFunctionOnSet(f, Live(T, S))
       /\ SumFunctionOnSet(f, R) = v /\ SumFunctionOnSet(f, Q) = w
       /\ WorthOf(X, Live(X, Z)) = SumFunctionOnSet(g, Live(X, Z))
  BY <1>3 DEF WorthOf
<1>18. \A k \in 1..2 : c[k].value \in Nat
  BY FundedTyped
<1> HIDE DEF f, g, R, Q, A, N, Z, c, n
<1>19. SumFunctionOnSet(f, R \cup Q) = SumFunctionOnSet(f, R) + SumFunctionOnSet(f, Q)
  <2>1. \A p \in R \cup Q : f[p] \in Nat
    BY <1>8, <1>16
  <2> QED BY <2>1, <1>8, <1>12, SumDisjoint
<1> DEFINE B == R \cup Q
<1>20. /\ SumFunctionOnSet(f, A) \in Nat
       /\ SumFunctionOnSet(f, A \cup B) = SumFunctionOnSet(f, A) + SumFunctionOnSet(f, B)
  <2>1. A \cap B = {} /\ IsFiniteSet(B) /\ \A p \in A \cup B : f[p] \in Nat
    BY <1>8, <1>12, <1>16
  <2> HIDE DEF B
  <2> QED BY <2>1, <1>12, SumDisjoint
<1>21. SumFunctionOnSet(g, A \cup N) = SumFunctionOnSet(g, A) + SumFunctionOnSet(g, N)
  BY <1>11, <1>12, <1>13, SumDisjoint
<1>22. SumFunctionOnSet(f, A) = SumFunctionOnSet(g, A)
  BY <1>12, <1>14, SumSame
<1>23. SumFunctionOnSet(g, N) = v + w
  <2> DEFINE a == n + 1
             b == n + 2
  <2>1. g[a] \in Nat /\ g[b] \in Nat /\ a # b /\ N = {a, b}
    BY <1>15, <1>18 DEF N
  <2> HIDE DEF a, b
  <2>2. SumFunctionOnSet(g, {a, b}) = g[a] + g[b]
    BY <2>1, SumFew
  <2> QED BY <2>1, <2>2, <1>2, <1>15 DEF a, b
<1> DEFINE r == SumFunctionOnSet(f, A)
<1>24. r \in Nat /\ GenesisSupply = r + (v + w)
  BY <1>1, <1>8, <1>17, <1>19, <1>20
<1>25. WorthOf(X, Live(X, Z)) = r + (v + w)
  BY <1>11, <1>17, <1>21, <1>22, <1>23
<1> QED BY <1>24, <1>25 DEF Z

(* So the ledger stays sound.                                              *)
LEMMA AcceptSound ==
  ASSUME NEW T, NEW S, Sound(T, S), NEW tx, Funded(T, tx), Fresh(S, tx),
         NEW X, Extends(T, tx.commitments, X)
  PROVE  Sound(X, S \cup Nfs(tx))
<1>1. GoodLeaves(T, S) /\ SpentKnown(T, S)
  BY DEF Sound
<1>2. GoodLeaves(X, S \cup Nfs(tx))
  BY <1>1, AcceptGood
<1>3. SpentKnown(X, S \cup Nfs(tx))
  <2>1. \A p \in DOMAIN T : p \in DOMAIN X /\ X[p] = T[p]
    BY DEF Extends
  <2> QED BY <1>1, <2>1, AcceptKnown
<1> QED BY <1>2, <1>3, AcceptWorth DEF Sound

(* Leaves that are no outputs make no difference.                          *)
LEMMA RewardsSound ==
  ASSUME NEW T, NEW S, Sound(T, S), NEW m \in Seq(Leaf),
         \A k \in DOMAIN m : m[k].source # "output"
  PROVE  /\ Sound(T \o m, S) /\ Live(T \o m, S) = Live(T, S)
         /\ \A p \in DOMAIN T : p \in DOMAIN (T \o m) /\ (T \o m)[p] = T[p]
<1> DEFINE X == T \o m
           n == Len(T)
<1>1. GoodLeaves(T, S) /\ SpentKnown(T, S) /\ WorthOf(T, Live(T, S)) = GenesisSupply
  BY DEF Sound
<1>2. T \in Seq(Leaf) /\ DOMAIN T = 1..n /\ n \in Nat
  BY <1>1, LeavesApart DEF GoodLeaves
<1>3. /\ X \in Seq(Leaf) /\ \A p \in DOMAIN T : p \in DOMAIN X /\ X[p] = T[p]
      /\ \A p \in DOMAIN X : p \in DOMAIN T \/ X[p].source # "output"
  <2> DEFINE V == Leaf
             l == Len(m)
  <2>1. T \in Seq(V) /\ m \in Seq(V)
    BY <1>2
  <2>2. l \in Nat /\ DOMAIN m = 1..l
    OBVIOUS
  <2> HIDE DEF V
  <2>3. /\ X \in Seq(V) /\ Len(X) = Len(T) + Len(m)
        /\ \A i \in 1..(Len(T) + Len(m)) : X[i] = IF i <= Len(T) THEN T[i] ELSE m[i - Len(T)]
    BY <2>1, ConcatProperties
  <2> HIDE DEF X, n, l
  <2>4. /\ DOMAIN X = 1..(n + l)
        /\ \A i \in 1..(n + l) : X[i] = IF i <= n THEN T[i] ELSE m[i - n]
    BY <2>3 DEF n, l
  <2>5. /\ \A p \in 1..n : p \in 1..(n + l) /\ p <= n
        /\ \A p \in 1..(n + l) : p \in 1..n \/ (~(p <= n) /\ p - n \in 1..l)
    BY <1>2, <2>2
  <2>6. \A p \in 1..n : p \in 1..(n + l) /\ X[p] = T[p]
    BY ONLY <2>4, <2>5, Zenon
  <2>7. ASSUME NEW p \in 1..(n + l), p \notin 1..n PROVE X[p].source # "output"
    <3>1. X[p] = m[p - n] /\ p - n \in DOMAIN m
      BY ONLY <2>2, <2>4, <2>5, <2>7, Zenon
    <3> QED BY <3>1
  <2> QED BY <2>3, <2>4, <2>6, <2>7, <1>2 DEF V
<1> HIDE DEF X
<1>4. GoodLeaves(X, S)
  BY <1>1, <1>3 DEF GoodLeaves
<1>5. SpentKnown(X, S)
  BY <1>1, <1>3 DEF SpentKnown
<1>6. Live(X, S) = Live(T, S)
  BY <1>3 DEF Live
<1>7. WorthOf(X, Live(T, S)) = WorthOf(T, Live(T, S))
  <2> DEFINE f == [p \in DOMAIN T |-> T[p].value]
             g == [p \in DOMAIN X |-> X[p].value]
             A == Live(T, S)
  <2>1. A \in SUBSET DOMAIN T
    BY DEF Live
  <2>2. IsFiniteSet(A)
    <3>1. IsFiniteSet(1..n)
      BY <1>2, FS_Interval
    <3> HIDE DEF A
    <3> QED BY <1>2, <2>1, <3>1, FS_Subset
  <2>3. \A p \in A : f[p] \in Nat /\ f[p] = g[p]
    <3>1. \A p \in DOMAIN T : f[p] \in Nat /\ f[p] = g[p]
      BY <1>1, <1>3, LeavesApart
    <3> HIDE DEF f, g, A
    <3> QED BY <2>1, <3>1
  <2> HIDE DEF f, g, A
  <2>4. SumFunctionOnSet(f, A) = SumFunctionOnSet(g, A)
    BY <2>2, <2>3, SumSame
  <2> QED BY <2>4 DEF WorthOf, f, g, A
<1>8. Sound(X, S)
  BY <1>1, <1>4, <1>5, <1>6, <1>7 DEF Sound
<1> QED BY <1>3, <1>6, <1>8 DEF X

(* What is staged of a scan is sound, and its outputs are all unspent.     *)
Staged(L, s) ==
    LET T == L.leaves \o s.staged_cm
        S == L.nullifiers \cup s.seen
    IN  /\ Sound(T, S)
        /\ \A p \in DOMAIN L.leaves : p \in DOMAIN T /\ T[p] = L.leaves[p]
        /\ \A p \in DOMAIN T : p \notin DOMAIN L.leaves => p \in Live(T, S)

(* One transfer more.                                                      *)
LEMMA StagedNext ==
  ASSUME NEW L, L.leaves \in Seq(Leaf), NEW s \in ScanState, Staged(L, s),
         NEW tx, Funded(L.leaves, tx)
  PROVE  Staged(L, ScanTx(L, s, tx))
<1> DEFINE t == ScanTx(L, s, tx)
           T == L.leaves \o s.staged_cm
           S == L.nullifiers \cup s.seen
           X == L.leaves \o t.staged_cm
           Z == L.nullifiers \cup t.seen
           c == tx.commitments
<1>1. tx \in Tx /\ c \in [1..2 -> Leaf] /\ Nfs(tx) = {tx.nullifiers[1], tx.nullifiers[2]}
  BY FundedTyped
<1>2. AfterTx(L, s, tx, t)
  BY <1>1, ScanTxIs
<1>3. CASE Passed(L, s, tx) # "Accepted"
  <2>1. t.seen = s.seen /\ t.staged_cm = s.staged_cm
    BY <1>2, <1>3 DEF AfterTx
  <2> HIDE DEF t
  <2> QED BY <2>1 DEF Staged, t
<1>4. CASE Passed(L, s, tx) = "Accepted"
  <2>1. t.seen = s.seen \cup Nfs(tx) /\ t.staged_cm = s.staged_cm \o c
    BY <1>2, <1>4 DEF AfterTx
  <2>2. ValidateStateless(tx) /\ Nfs(tx) \cap S = {}
    BY <1>4 DEF Passed, Verdict
  <2>3. Fresh(S, tx)
    <3>1. tx.nullifiers[1] \in Nat /\ tx.nullifiers[2] \in Nat
      BY FundedTyped
    <3>2. tx.nullifiers[1] < tx.nullifiers[2]
      BY <2>2 DEF ValidateStateless
    <3>3. tx.nullifiers[1] # tx.nullifiers[2]
      BY <3>1, <3>2
    <3> QED BY <3>3, <2>2 DEF Fresh
  <2>4. /\ Sound(T, S) /\ \A p \in DOMAIN L.leaves : p \in DOMAIN T /\ T[p] = L.leaves[p]
        /\ \A p \in DOMAIN T : p \notin DOMAIN L.leaves => p \in Live(T, S)
    BY DEF Staged
  <2>5. Funded(T, tx)
    BY <2>4, FundedGrows
  <2>6. X = T \o c
    <3>1. s.staged_cm \in Seq(Leaf) /\ c \in Seq(Leaf)
      BY <1>1, FcnIsSeq DEF ScanState
    <3> DEFINE a == L.leaves
               b == s.staged_cm
               V == Leaf
    <3>2. a \in Seq(V) /\ b \in Seq(V) /\ c \in Seq(V)
      BY <3>1
    <3> HIDE DEF a, b, c, V
    <3>3. a \o (b \o c) = (a \o b) \o c
      BY <3>2, ConcatAssociative
    <3> QED BY <3>3, <2>1 DEF a, b
  <2>7. Extends(T, c, X)
    <3>1. T \in Seq(Leaf)
      BY <2>4 DEF Sound, GoodLeaves
    <3> HIDE DEF T, X, c
    <3> QED BY <3>1, <2>6, <1>1, ExtendsTree
  <2>8. Z = S \cup Nfs(tx)
    BY <2>1
  <2> HIDE DEF t, T, S, X, Z
  <2>9. Sound(X, Z)
    BY <2>3, <2>4, <2>5, <2>7, <2>8, AcceptSound DEF c
  <2>10. \A p \in DOMAIN T : p \in DOMAIN X /\ X[p] = T[p]
    BY <2>7 DEF Extends
  <2>11. ASSUME NEW p \in DOMAIN X, p \notin DOMAIN L.leaves PROVE p \in Live(X, Z)
    <3>1. GoodLeaves(T, S) /\ SpentKnown(T, S)
      BY <2>4 DEF Sound
    <3>2. CASE p \notin DOMAIN T
      <4>1. p \in Live(X, S \cup Nfs(tx))
        BY <2>3, <2>5, <2>7, <3>1, <3>2, NewIsLive DEF c
      <4> QED BY <4>1, <2>8
    <3>3. CASE p \in DOMAIN T
      <4>1. T[p].source = "output" /\ NfOf(T[p]) \notin S
        BY <2>4, <2>11, <3>3 DEF Live
      <4>2. ASSUME NEW v, NEW r, Spends(L.leaves, r, v) PROVE NfOf(T[p]) # r
        <5>1. CASE DummyNf(r)
          BY <5>1, <4>1, <3>1, <3>3, LeavesApart
        <5>2. ASSUME NEW q \in DOMAIN L.leaves, L.leaves[q].source = "output",
                     NfOf(L.leaves[q]) = r
              PROVE  NfOf(T[p]) # r
          <6>1. q \in DOMAIN T /\ T[q].source = "output" /\ NfOf(T[q]) = r /\ q # p
            BY <2>4, <2>11, <5>2
          <6> QED BY <6>1, <4>1, <3>1, <3>3, LeavesApart
        <5> QED BY <4>2, <5>1, <5>2 DEF Spends
      <4>3. \A r \in Nfs(tx) : NfOf(T[p]) # r
        BY <4>2 DEF Funded, Nfs
      <4> QED BY <2>8, <2>10, <3>3, <4>1, <4>3 DEF Live
    <3> QED BY <3>2, <3>3
  <2>12. \A p \in DOMAIN L.leaves : p \in DOMAIN X /\ X[p] = L.leaves[p]
    BY <2>4, <2>10
  <2> QED BY <2>9, <2>11, <2>12 DEF Staged, X, Z, t
<1> QED BY <1>3, <1>4

(* A scan records the verdict it reaches.                                  *)
LEMMA VerdictRecorded ==
  ASSUME NEW L, NEW s \in ScanState, NEW tx \in Tx
  PROVE  /\ Passed(L, s, tx) \in Verdicts
         /\ ScanTx(L, s, tx).verdicts = Append(s.verdicts, Passed(L, s, tx))
<1> DEFINE v == Passed(L, s, tx)
           ws == Append(s.verdicts, v)
           t == [s EXCEPT !.verdicts = ws]
<1>1. v \in Verdicts
  BY DEF Passed, Verdict, Verdicts, RejectReason
<1>2. ScanTx(L, s, tx) =
         IF v # "Accepted" THEN t
         ELSE [t EXCEPT !.seen = @ \cup Nfs(tx), !.staged_cm = @ \o tx.commitments,
                        !.quota = RegistryAfter(@, tx)]
  BY DEF ScanTx, Passed, ScanState
<1> HIDE DEF ws, v
<1>3. t.verdicts = ws /\ DOMAIN t = {"seen", "staged_cm", "quota", "verdicts"}
  BY DEF ScanState
<1> HIDE DEF t
<1>4. ScanTx(L, s, tx).verdicts = ws
  BY <1>2, <1>3
<1> QED BY <1>1, <1>4 DEF ws, v

(* The verdicts of a scan, one for each transaction, in order.             *)
Tells(g, L, txs) ==
    \A k \in 1..Len(txs) : g[Len(txs)].verdicts[k] = Passed(L, g[k - 1], txs[k])

(* They are the ones that the steps of the scan reached.                   *)
LEMMA VerdictsRun ==
  ASSUME NEW L, NEW txs \in Seq(Tx), NEW g, Runs(g, L, txs)
  PROVE  Tells(g, L, txs)
<1> DEFINE n == Len(txs)
           In(k) == /\ Len(g[k].verdicts) = k
                    /\ \A j \in 1..k : g[k].verdicts[j] = Passed(L, g[j - 1], txs[j])
           S == {k \in 0..n : In(k)}
<1>1. n \in Nat /\ \A k \in 1..n : txs[k] \in Tx
  OBVIOUS
<1>2. /\ g \in [0..n -> ScanState] /\ g[0].verdicts = << >>
      /\ \A k \in 1..n : g[k] = ScanTx(L, g[k - 1], txs[k])
  BY DEF Runs, ScanFrom
<1> HIDE DEF n
<1>3. 0 \in S
  BY <1>1, <1>2
<1>4. ASSUME NEW k \in S, k < n PROVE k + 1 \in S
  <2> DEFINE m == k + 1
             s == g[k]
             u == s.verdicts
             v == Passed(L, s, txs[m])
  <2>1. k \in 0..n /\ m \in 1..n /\ m \in 0..n /\ m - 1 = k /\ k \in Nat
    BY <1>1, <1>4
  <2>2. s \in ScanState /\ txs[m] \in Tx /\ g[m] = ScanTx(L, s, txs[m])
    BY <1>1, <1>2, <2>1
  <2>3. v \in Verdicts /\ g[m].verdicts = Append(u, v)
    BY <2>2, VerdictRecorded
  <2>4. u \in Seq(Verdicts) /\ Len(u) = k
    BY <2>2 DEF ScanState
  <2>5. \A j \in 1..k : u[j] = Passed(L, g[j - 1], txs[j])
    OBVIOUS
  <2> HIDE DEF u, v, s
  <2>6. /\ Len(Append(u, v)) = k + 1 /\ Append(u, v)[k + 1] = v
        /\ \A j \in 1..k : Append(u, v)[j] = u[j]
    BY <2>3, <2>4, AppendProperties
  <2>7. ASSUME NEW j \in 1..m PROVE Append(u, v)[j] = Passed(L, g[j - 1], txs[j])
    <3>1. CASE j \in 1..k
      BY <3>1, <2>5, <2>6
    <3>2. CASE j = m
      <4>1. v = Passed(L, g[j - 1], txs[j])
        BY <2>1, <3>2 DEF v, s
      <4> QED BY <4>1, <3>2, <2>6
    <3>3. j \in 1..k \/ j = m
      BY <2>1
    <3> QED BY <3>1, <3>2, <3>3
  <2>8. In(m)
    BY <2>3, <2>6, <2>7
  <2> HIDE DEF In
  <2> QED BY <2>1, <2>8
<1>5. S = 0..n
  <2>1. S \in SUBSET (0..n)
    OBVIOUS
  <2> HIDE DEF S
  <2> QED BY <1>1, <1>3, <1>4, <2>1, UpToInduction
<1>6. n \in S
  BY <1>1, <1>5
<1> QED BY <1>6 DEF n, Tells

-----------------------------------------------------------------------------
(* Delivery.                                                               *)

Cipher == {EncryptNote(note, AddressOf(w), seed) : note \in Note, w \in Wallets, seed \in Nat}

(* e is the encryption, to its owner, of the note of a leaf.               *)
Encloses(e, leaf) == \E seed \in Nat : e = EncryptNote(NoteOf(leaf), AddressOf(leaf.idx), seed)

(* The ciphertexts es go with the leaves ls, one by one.                   *)
Paired(es, ls) ==
    /\ es \in Seq(Cipher) /\ ls \in Seq(Leaf) /\ Len(es) = Len(ls)
    /\ \A k \in 1..Len(ls) : Encloses(es[k], ls[k]) /\ ls[k].idx \in Wallets

(* Pairs put after pairs are pairs.                                        *)
LEMMA PairedAppend ==
  ASSUME NEW es, NEW ls, Paired(es, ls), NEW fs, NEW ms, Paired(fs, ms)
  PROVE  Paired(es \o fs, ls \o ms)
<1> DEFINE n == Len(es)
           m == Len(fs)
           x == es \o fs
           y == ls \o ms
           C == Cipher
           V == Leaf
<1>1. /\ es \in Seq(C) /\ fs \in Seq(C) /\ ls \in Seq(V) /\ ms \in Seq(V)
      /\ Len(ls) = n /\ Len(ms) = m /\ n \in Nat /\ m \in Nat
      /\ \A k \in 1..n : Encloses(es[k], ls[k]) /\ ls[k].idx \in Wallets
      /\ \A k \in 1..m : Encloses(fs[k], ms[k]) /\ ms[k].idx \in Wallets
  BY DEF Paired
<1> HIDE DEF C, V
<1>2. /\ x \in Seq(C) /\ Len(x) = Len(es) + Len(fs)
      /\ \A i \in 1..(Len(es) + Len(fs)) : x[i] = IF i <= Len(es) THEN es[i] ELSE fs[i - Len(es)]
  BY <1>1, ConcatProperties
<1>3. /\ y \in Seq(V) /\ Len(y) = Len(ls) + Len(ms)
      /\ \A i \in 1..(Len(ls) + Len(ms)) : y[i] = IF i <= Len(ls) THEN ls[i] ELSE ms[i - Len(ls)]
  BY <1>1, ConcatProperties
<1> HIDE DEF x, y, n, m
<1>4. ASSUME NEW k \in 1..(n + m) PROVE Encloses(x[k], y[k]) /\ y[k].idx \in Wallets
  <2>1. /\ x[k] = IF k <= n THEN es[k] ELSE fs[k - n]
        /\ y[k] = IF k <= n THEN ls[k] ELSE ms[k - n]
    BY <1>1, <1>2, <1>3 DEF n, m
  <2>2. CASE k <= n
    <3>1. k \in 1..n /\ x[k] = es[k] /\ y[k] = ls[k]
      BY <1>1, <2>1, <2>2
    <3> QED BY <1>1, <3>1
  <2>3. CASE ~(k <= n)
    <3>1. k - n \in 1..m /\ x[k] = fs[k - n] /\ y[k] = ms[k - n]
      BY <1>1, <2>1, <2>3
    <3> QED BY <1>1, <3>1
  <2> QED BY <2>2, <2>3
<1> QED BY <1>1, <1>2, <1>3, <1>4 DEF Paired, x, y, n, m, C, V

(* A waiting transfer: built on notes of T, its outputs encrypted to the   *)
(* recipient and to the sender.                                            *)
Waiting(T, item) ==
    /\ item.from \in Wallets /\ item.to \in Wallets /\ Funded(T, item.tx)
    /\ item.tx.commitments[1].idx = item.to /\ item.tx.commitments[2].idx = item.from
    /\ item.enc_outputs =
          << EncryptNote(NoteOf(item.tx.commitments[1]), AddressOf(item.to), 10),
             EncryptNote(NoteOf(item.tx.commitments[2]), AddressOf(item.from), 11) >>

(* The note of a wallet's leaf.                                            *)
LEMMA NoteTyped ==
  ASSUME NEW l \in Leaf, l.idx \in Wallets
  PROVE  NoteOf(l) \in Note /\ NoteOf(l).addr_tag = l.idx /\ NoteOf(l).value = l.value
         /\ NoteOf(l).rho = l.id
BY DEF NoteOf, Note, Leaf

(* Its ciphertexts go with its commitments.                                *)
LEMMA WaitingPaired ==
  ASSUME NEW T, NEW item, Waiting(T, item)
  PROVE  Paired(item.enc_outputs, item.tx.commitments)
<1> DEFINE c == item.tx.commitments
           e == item.enc_outputs
           d == EncryptNote(NoteOf(c[1]), AddressOf(c[1].idx), 10)
           f == EncryptNote(NoteOf(c[2]), AddressOf(c[2].idx), 11)
<1>1. /\ c \in [1..2 -> Leaf] /\ c[1] \in Leaf /\ c[2] \in Leaf
      /\ c[1].idx \in Wallets /\ c[2].idx \in Wallets
  BY FundedTyped DEF Waiting
<1>2. c \in Seq(Leaf) /\ Len(c) = 2
  BY <1>1, FcnIsSeq
<1>3. NoteOf(c[1]) \in Note /\ NoteOf(c[2]) \in Note
  BY <1>1, NoteTyped
<1>4. e = <<d, f>>
  BY DEF Waiting
<1>5. d \in Cipher /\ f \in Cipher
  BY <1>1, <1>3 DEF Cipher
<1>6. Encloses(d, c[1]) /\ Encloses(f, c[2])
  BY DEF Encloses
<1> HIDE DEF c, e, d, f
<1>7. e \in Seq(Cipher) /\ Len(e) = 2 /\ e[1] = d /\ e[2] = f
  BY <1>4, <1>5
<1>8. \A k \in 1..2 : Encloses(e[k], c[k]) /\ c[k].idx \in Wallets
  <2>1. \A k \in 1..2 : k = 1 \/ k = 2
    OBVIOUS
  <2> QED BY <1>1, <1>6, <1>7, <2>1
<1> QED BY <1>2, <1>7, <1>8 DEF Paired, c, e

(* What a batch brings: the ledger it stages is sound, and the outputs     *)
(* delivered of it go with the commitments staged.                         *)
DeliveredOf(sent, verdicts) ==
    FlattenSeq([k \in DOMAIN sent |->
        IF verdicts[k] = "Accepted" THEN sent[k].enc_outputs ELSE << >>])

(* The scan pairs them, transfer by transfer.                              *)
LEMMA ScanDelivers ==
  ASSUME NEW L, L.quota \in Registry, Sound(L.leaves, L.nullifiers),
         NEW n \in Nat, NEW sent, DOMAIN sent = 1..n,
         \A k \in 1..n : Waiting(L.leaves, sent[k])
  PROVE  LET s == Scan(L, [k \in 1..n |-> sent[k].tx])
         IN  Staged(L, s) /\ Paired(DeliveredOf(sent, s.verdicts), s.staged_cm)
<1> DEFINE txs == [k \in 1..n |-> sent[k].tx]
           s == Scan(L, txs)
           f == [k \in 1..n |-> IF s.verdicts[k] = "Accepted" THEN sent[k].enc_outputs ELSE << >>]
           T == L.leaves
<1>1. \A k \in 1..n : sent[k].tx \in Tx /\ Funded(T, sent[k].tx)
  BY FundedTyped DEF Waiting
<1>2. txs \in Seq(Tx) /\ Len(txs) = n /\ \A k \in 1..n : txs[k] = sent[k].tx
  <2>1. txs \in [1..n -> Tx]
    BY <1>1
  <2>2. \A k \in 1..n : txs[k] = sent[k].tx
    OBVIOUS
  <2> HIDE DEF txs
  <2> QED BY <2>1, <2>2, FcnIsSeq
<1> HIDE DEF txs
<1>3. PICK g : Runs(g, L, txs) /\ Scan(L, txs) = g[Len(txs)]
  BY <1>2, ScanRuns
<1>4. /\ g \in [0..n -> ScanState] /\ g[0] = ScanFrom(L) /\ s = g[n]
      /\ \A k \in 1..n : g[k] = ScanTx(L, g[k - 1], txs[k])
  BY <1>2, <1>3 DEF Runs
<1>5. \A k \in 1..n : s.verdicts[k] = Passed(L, g[k - 1], txs[k])
  <2> HIDE DEF s, f, T
  <2>1. \A k \in 1..Len(txs) : g[Len(txs)].verdicts[k] = Passed(L, g[k - 1], txs[k])
    <3>1. Tells(g, L, txs)
      BY <1>2, <1>3, VerdictsRun
    <3> QED BY <3>1 DEF Tells
  <2> QED BY ONLY <2>1, <1>2, <1>4, Zenon
<1> HIDE DEF s
<1>6. T \in Seq(Leaf)
  BY DEF Sound, GoodLeaves
<1>7. \A k \in 1..n : f[k] \in Seq(Cipher)
  BY WaitingPaired DEF Paired
<1> HIDE DEF f
<1>8. PICK h : Flattens(h, n, Cipher, f) /\ FlattenSeq([k \in 1..n |-> f[k]]) = h[n]
  BY <1>7, FlattenRuns
<1>9. h[0] = << >> /\ \A k \in 1..n : h[k] = h[k - 1] \o f[k]
  BY <1>8 DEF Flattens
<1> DEFINE Holds(k) == Staged(L, g[k]) /\ Paired(h[k], g[k].staged_cm)
           S == {k \in 0..n : Holds(k)}
<1>10. 0 \in S
  <2>1. g[0].seen = {} /\ g[0].staged_cm = << >>
    BY <1>4 DEF ScanFrom
  <2>2. T \o << >> = T
    BY <1>6
  <2>3. L.nullifiers \cup {} = L.nullifiers
    OBVIOUS
  <2>4. Staged(L, g[0])
    BY <2>1, <2>2, <2>3 DEF Staged
  <2>5. Paired(h[0], g[0].staged_cm)
    BY <2>1, <1>9 DEF Paired
  <2> QED BY <2>4, <2>5
<1>11. ASSUME NEW k \in S, k < n PROVE k + 1 \in S
  <2> DEFINE m == k + 1
             u == g[k]
             tx == txs[m]
             t == g[m]
  <2>1. k \in 0..n /\ m \in 1..n /\ m \in 0..n /\ m - 1 = k
    BY <1>11
  <2>2. u \in ScanState /\ t = ScanTx(L, u, tx) /\ tx = sent[m].tx /\ tx \in Tx /\ Funded(T, tx)
    BY <1>1, <1>2, <1>4, <2>1
  <2>3. Staged(L, u) /\ Paired(h[k], u.staged_cm)
    OBVIOUS
  <2>4. h[m] = h[k] \o f[m] /\ s.verdicts[m] = Passed(L, u, tx)
    BY <1>5, <1>9, <2>1
  <2>5. f[m] = IF Passed(L, u, tx) = "Accepted" THEN sent[m].enc_outputs ELSE << >>
    BY <2>1, <2>4 DEF f
  <2> HIDE DEF u, tx, t, m
  <2>6. Staged(L, t)
    BY <1>6, <2>2, <2>3, StagedNext
  <2>7. AfterTx(L, u, tx, t)
    BY <2>2, ScanTxIs
  <2>8. Paired(h[m], t.staged_cm)
    <3>1. CASE Passed(L, u, tx) = "Accepted"
      <4>1. t.staged_cm = u.staged_cm \o tx.commitments /\ h[m] = h[k] \o sent[m].enc_outputs
        BY <2>4, <2>5, <2>7, <3>1 DEF AfterTx
      <4>2. Paired(sent[m].enc_outputs, tx.commitments)
        BY <2>1, <2>2, WaitingPaired
      <4> QED BY <4>1, <4>2, <2>3, PairedAppend
    <3>2. CASE Passed(L, u, tx) # "Accepted"
      <4>1. t.staged_cm = u.staged_cm /\ h[m] = h[k] \o << >>
        BY <2>4, <2>5, <2>7, <3>2 DEF AfterTx
      <4>2. h[k] \in Seq(Cipher)
        BY <2>3 DEF Paired
      <4>3. h[k] \o << >> = h[k]
        BY <4>2, ConcatEmptySeq
      <4> QED BY <4>1, <4>3, <2>3
    <3> QED BY <3>1, <3>2
  <2>9. Holds(m)
    BY <2>6, <2>8 DEF t
  <2> HIDE DEF Holds
  <2> QED BY <2>1, <2>9 DEF m
<1>12. S = 0..n
  <2>1. S \in SUBSET (0..n)
    OBVIOUS
  <2> HIDE DEF S
  <2> QED BY <1>10, <1>11, <2>1, UpToInduction
<1>13. Holds(n)
  BY <1>12
<1>14. DeliveredOf(sent, s.verdicts) = h[n]
  <2>1. DeliveredOf(sent, s.verdicts) = FlattenSeq(f)
    BY DEF DeliveredOf, f
  <2>2. f = [k \in 1..n |-> f[k]]
    BY DEF f
  <2> QED BY <1>8, <2>1, <2>2
<1>15. Staged(L, s) /\ Paired(DeliveredOf(sent, s.verdicts), s.staged_cm)
  BY <1>4, <1>13, <1>14
<1> QED BY <1>15 DEF s, txs

(* A wallet's fields.                                                      *)
WalletState == [unspent : Seq(Record), seen_nullifiers : SUBSET Nat]

(* What is added when a ciphertext is offered.                             *)
LEMMA ReceiveOne ==
  ASSUME NEW w \in WalletState, NEW me \in Wallets, NEW l \in Leaf, l.idx \in Wallets,
         NEW e, Encloses(e, l), NEW at \in Nat
  PROVE  LET v == TryReceive(w, me, e, at)
         IN  /\ v \in WalletState
             /\ \/ v = w
                \/ /\ l.idx = me
                   /\ v.unspent = Append(w.unspent, [note |-> NoteOf(l), position |-> at])
<1> DEFINE ivk == IncomingViewingKey(SpendingKey(me))
           note == Decrypted(e, ivk)
           r == [note |-> note, position |-> at]
           x == Append(w.unspent, r)
           v == TryReceive(w, me, e, at)
<1>1. PICK seed \in Nat : e = EncryptNote(NoteOf(l), AddressOf(l.idx), seed)
  BY DEF Encloses
<1>2. /\ Opens(e, ivk) <=> me = l.idx
      /\ note = [value |-> NoteOf(l).value, addr_tag |-> me, rho |-> NoteOf(l).rho]
  BY <1>1, OpensForAddressee
<1>3. v = IF Opens(e, ivk) /\ note.value > 0 THEN [w EXCEPT !.unspent = x] ELSE w
  BY DEF TryReceive, WalletState
<1>4. me = l.idx => note = NoteOf(l)
  BY <1>2 DEF NoteOf
<1>5. note \in Note
  <2>1. NoteOf(l).value \in Nat /\ NoteOf(l).rho \in Nat
    BY NoteTyped DEF Note
  <2> QED BY <1>2, <2>1 DEF Note
<1>6. r \in Record
  BY <1>5 DEF Record
<1>7. w.unspent \in Seq(Record) /\ w = [unspent |-> w.unspent, seen_nullifiers |-> w.seen_nullifiers]
      /\ w.seen_nullifiers \in SUBSET Nat
  BY DEF WalletState
<1> HIDE DEF note, ivk, v
<1>8. x \in Seq(Record)
  <2> HIDE DEF r
  <2> QED BY <1>6, <1>7, AppendProperties
<1> HIDE DEF x
<1>9. CASE Opens(e, ivk) /\ note.value > 0
  <2>1. v = [w EXCEPT !.unspent = x]
    BY <1>3, <1>9
  <2>2. v = [unspent |-> x, seen_nullifiers |-> w.seen_nullifiers]
    BY <2>1, <1>7
  <2>3. v \in WalletState /\ v.unspent = x
    BY <2>2, <1>7, <1>8 DEF WalletState
  <2>4. l.idx = me /\ x = Append(w.unspent, [note |-> NoteOf(l), position |-> at])
    BY <1>2, <1>4, <1>9 DEF x
  <2> QED BY <2>3, <2>4 DEF v
<1>10. CASE ~(Opens(e, ivk) /\ note.value > 0)
  BY <1>3, <1>10 DEF v
<1> QED BY <1>9, <1>10

(* The course of ReceiveAll.                                               *)
Receives(g, w, me, es, base) ==
    /\ g \in [0..Len(es) -> WalletState] /\ g[0] = w
    /\ \A k \in 1..Len(es) : g[k] = TryReceive(g[k - 1], me, es[k], base + k - 1)

(* The fold that ReceiveAll is written with has one.                       *)
LEMMA ReceiveRuns ==
  ASSUME NEW w \in WalletState, NEW me \in Wallets, NEW base \in Nat,
         NEW es, NEW ls, Paired(es, ls)
  PROVE  \E g : Receives(g, w, me, es, base) /\ ReceiveAll(w, me, es, base) = g[Len(es)]
<1> DEFINE n == Len(es)
           D == 1..n
           W == WalletState
           Take(v, k) == TryReceive(v, me, es[k], base + k - 1)
           F == [p \in W \X D |-> Take(p[1], p[2])]
           ks == [k \in DOMAIN es |-> k]
           Is(h) == h = [s \in SUBSET DOMAIN ks |->
                           IF s = {} THEN w ELSE LET x == Max(s) IN Take(h[s \ {x}], ks[x])]
           c == CHOOSE h : Is(h)
<1>1. n \in Nat /\ DOMAIN es = D /\ DOMAIN ks = D /\ \A k \in D : ks[k] = k
  BY DEF Paired
<1>2. ASSUME NEW v \in W, NEW k \in D PROVE Take(v, k) \in W
  <2>1. ls[k] \in Leaf /\ ls[k].idx \in Wallets /\ Encloses(es[k], ls[k])
    BY DEF Paired
  <2>2. base + k - 1 \in Nat
    BY <1>1
  <2> QED BY <2>1, <2>2, ReceiveOne
<1> HIDE DEF Take
<1>3. F \in [W \X D -> W]
  BY <1>2
<1>4. \E h : Is(h)
  <2>0. PICK h : FoldsBy(h, n, W, w, F)
    <3>1. n \in Nat /\ F \in [W \X (1..n) -> W] /\ w \in W
      BY <1>1, <1>3
    <3> HIDE DEF F, n, W
    <3> QED BY ONLY <3>1, FoldExists, Zenon
  <2> HIDE DEF F, n, ks, W
  <2>1. /\ h \in [SUBSET (1..n) -> W] /\ h[{}] = w
        /\ \A s \in (SUBSET (1..n)) \ {{}} : h[s] = F[<<h[s \ {Max(s)}], Max(s)>>]
    BY <2>0 DEF FoldsBy
  <2>2. ASSUME NEW s \in SUBSET D, s # {} PROVE h[s] = Take(h[s \ {Max(s)}], ks[Max(s)])
    <3>1. Max(s) \in D /\ ks[Max(s)] = Max(s)
      BY <1>1, <2>2, MaxIn
    <3>2. h[s \ {Max(s)}] \in W
      BY <2>1
    <3>3. F[<<h[s \ {Max(s)}], Max(s)>>] = Take(h[s \ {Max(s)}], Max(s))
      BY <3>1, <3>2 DEF F
    <3> QED BY <2>1, <2>2, <3>1, <3>3
  <2>3. Is(h)
    BY <1>1, <2>1, <2>2
  <2> QED BY <2>3
<1>5. Is(c)
  <2> HIDE DEF Is
  <2> QED BY <1>4
<1>6. ReceiveAll(w, me, es, base) = c[D]
  BY <1>1 DEF ReceiveAll, FoldLeft, MapThenFoldSet, Take
<1> HIDE DEF c, F, n, ks, W
<1>7. c[1..0] = w
  <2>1. 1..0 = {}
    OBVIOUS
  <2> QED BY <1>5, <2>1
<1>8. ASSUME NEW k \in D PROVE c[1..k] = Take(c[1..(k - 1)], k)
  <2>1. k \in Nat \ {0}
    BY <1>1
  <2>2. 1..k # {} /\ Max(1..k) = k /\ (1..k) \ {k} = 1..(k - 1)
    BY <2>1, MaxUpTo
  <2>3. 1..k \in SUBSET DOMAIN ks /\ ks[k] = k
    BY <1>1
  <2>4. \A s \in SUBSET DOMAIN ks : s # {} => c[s] = Take(c[s \ {Max(s)}], ks[Max(s)])
    BY <1>5
  <2> HIDE DEF D, Is
  <2>5. c[1..k] = Take(c[(1..k) \ {Max(1..k)}], ks[Max(1..k)])
    BY <2>2, <2>3, <2>4
  <2> QED BY ONLY <2>2, <2>3, <2>5, Zenon
<1> DEFINE g == [k \in 0..n |-> c[1..k]]
           S == {k \in 0..n : g[k] \in W}
<1>9. S = 0..n
  <2>1. 0 \in S
    BY <1>1, <1>7 DEF W
  <2>2. ASSUME NEW k \in S, k < n PROVE k + 1 \in S
    <3>1. k + 1 \in D /\ k + 1 \in 0..n /\ (k + 1) - 1 = k
      BY <1>1, <2>2
    <3>2. c[1..(k + 1)] = Take(c[1..k], k + 1) /\ c[1..k] \in W
      BY <1>8, <3>1
    <3> QED BY <1>2, <3>1, <3>2
  <2>3. S \in SUBSET (0..n)
    OBVIOUS
  <2> HIDE DEF S
  <2> QED BY <1>1, <2>1, <2>2, <2>3, UpToInduction
<1>10. ASSUME NEW k \in 1..n PROVE g[k] = Take(g[k - 1], k)
  <2>1. k \in 0..n /\ k - 1 \in 0..n
    BY <1>1
  <2> QED BY <1>8, <2>1
<1>11. Receives(g, w, me, es, base)
  <2>1. g \in [0..n -> W]
    BY <1>9
  <2>2. g[0] = w
    BY <1>1, <1>7
  <2> HIDE DEF g
  <2> QED BY <2>1, <2>2, <1>10 DEF Receives, n, W, Take
<1>12. ReceiveAll(w, me, es, base) = g[Len(es)]
  BY <1>1, <1>6 DEF n
<1> QED BY <1>11, <1>12

(* The records u of a wallet are its own unspent notes in the tree T.      *)
HeldIn(T, S, me, u) ==
    /\ u \in Seq(Record) /\ Apart(u)
    /\ \A k \in DOMAIN u : /\ u[k].position + 1 \in Live(T, S)
                           /\ NoteOf(T[u[k].position + 1]) = u[k].note
                           /\ u[k].note.addr_tag = me

Below(u, base) == \A k \in DOMAIN u : u[k].position < base

(* One record more, above the others.                                      *)
LEMMA HeldAppend ==
  ASSUME NEW T, NEW S, NEW me, NEW u, HeldIn(T, S, me, u), NEW at \in Nat, Below(u, at),
         NEW r \in Record, r.position = at, at + 1 \in Live(T, S),
         NoteOf(T[at + 1]) = r.note, r.note.addr_tag = me
  PROVE  HeldIn(T, S, me, Append(u, r)) /\ Below(Append(u, r), at + 1)
<1> DEFINE x == Append(u, r)
           n == Len(u)
           R == Record
<1>1. u \in Seq(R) /\ n \in Nat /\ DOMAIN u = 1..n /\ r \in R
  BY DEF HeldIn
<1> HIDE DEF R
<1>2. x \in Seq(R) /\ Len(x) = n + 1 /\ (\A i \in 1..n : x[i] = u[i]) /\ x[n + 1] = r
  BY <1>1, AppendProperties
<1>3. DOMAIN x = 1..(n + 1) /\ \A i \in 1..(n + 1) : i \in 1..n \/ i = n + 1
  BY <1>1, <1>2
<1> HIDE DEF x, n
<1>4. \A i \in 1..n : u[i].position \in Nat /\ u[i].position < at
  BY <1>1, RecordTyped DEF Below, R
<1>5. Apart(x)
  <2> SUFFICES ASSUME NEW j \in DOMAIN x, NEW k \in DOMAIN x, x[j].position = x[k].position
               PROVE  j = k
    BY DEF Apart
  <2>1. CASE j \in 1..n /\ k \in 1..n
    BY <1>1, <1>2, <2>1 DEF HeldIn, Apart
  <2>2. CASE j = n + 1 /\ k = n + 1
    BY <2>2
  <2>3. CASE j \in 1..n /\ k = n + 1
    BY <1>2, <1>4, <2>3
  <2>4. CASE j = n + 1 /\ k \in 1..n
    BY <1>2, <1>4, <2>4
  <2> QED BY <1>3, <2>1, <2>2, <2>3, <2>4
<1>6. ASSUME NEW k \in DOMAIN x
      PROVE  /\ x[k].position + 1 \in Live(T, S) /\ NoteOf(T[x[k].position + 1]) = x[k].note
             /\ x[k].note.addr_tag = me /\ x[k].position < at + 1
  <2>1. CASE k \in 1..n
    <3>1. x[k] = u[k] /\ k \in DOMAIN u /\ u[k].position < at + 1
      BY <1>1, <1>2, <1>4, <2>1
    <3> QED BY <3>1 DEF HeldIn
  <2>2. CASE k = n + 1
    BY <1>2, <2>2
  <2> QED BY <1>3, <2>1, <2>2
<1> QED BY <1>2, <1>5, <1>6 DEF HeldIn, Below, x, R

(* Receiving outputs at their positions in the tree leaves a wallet with   *)
(* its own notes, whatever outputs of others go by (try_receive in the     *)
(* delivery loop).                                                         *)
LEMMA ReceiveHolds ==
  ASSUME NEW T, NEW S, NEW w \in WalletState, NEW me \in Wallets, NEW base \in Nat,
         HeldIn(T, S, me, w.unspent), Below(w.unspent, base), NEW es, NEW ls, Paired(es, ls),
         \A k \in 1..Len(ls) : base + k \in Live(T, S) /\ T[base + k] = ls[k]
  PROVE  LET v == ReceiveAll(w, me, es, base)
         IN  v \in WalletState /\ HeldIn(T, S, me, v.unspent)
<1> DEFINE n == Len(es)
<1>1. PICK g : Receives(g, w, me, es, base) /\ ReceiveAll(w, me, es, base) = g[Len(es)]
  BY ReceiveRuns
<1>2. /\ g \in [0..n -> WalletState] /\ g[0] = w
      /\ \A k \in 1..n : g[k] = TryReceive(g[k - 1], me, es[k], base + k - 1)
  BY <1>1 DEF Receives
<1>3. n \in Nat /\ n = Len(ls) /\ \A k \in 1..n : ls[k] \in Leaf /\ ls[k].idx \in Wallets
                                                /\ Encloses(es[k], ls[k])
  BY DEF Paired
<1> HIDE DEF n
<1> DEFINE Holds(k) == HeldIn(T, S, me, g[k].unspent) /\ Below(g[k].unspent, base + k)
           Q == {k \in 0..n : Holds(k)}
<1>4. 0 \in Q
  <2>1. base + 0 = base
    OBVIOUS
  <2> QED BY <1>2, <1>3, <2>1
<1>5. ASSUME NEW k \in Q, k < n PROVE k + 1 \in Q
  <2> DEFINE m == k + 1
             at == base + k
             u == g[k].unspent
             l == ls[m]
             r == [note |-> NoteOf(l), position |-> at]
  <2>1. /\ k \in 0..n /\ m \in 1..n /\ m \in 0..n /\ m - 1 = k /\ base + m - 1 = at
        /\ at \in Nat /\ base + m = at + 1
    BY <1>3, <1>5
  <2>2. g[k] \in WalletState /\ g[m] = TryReceive(g[k], me, es[m], at)
    BY <1>2, <2>1
  <2>3. l \in Leaf /\ l.idx \in Wallets /\ Encloses(es[m], l)
    BY <1>3, <2>1
  <2>4. g[m] = g[k] \/ (l.idx = me /\ g[m].unspent = Append(u, r))
    <3> DEFINE e == es[m]
               p == g[k]
               v == TryReceive(p, me, e, at)
    <3>1. p \in WalletState /\ Encloses(e, l) /\ at \in Nat
      BY <2>1, <2>2, <2>3
    <3> HIDE DEF l, m, at, e, p
    <3>2. \/ v = p
          \/ l.idx = me /\ v.unspent = Append(p.unspent, [note |-> NoteOf(l), position |-> at])
      BY <2>3, <3>1, ReceiveOne
    <3> QED BY <2>2, <3>2 DEF e, p
  <2>5. HeldIn(T, S, me, u) /\ Below(u, at)
    OBVIOUS
  <2>6. at + 1 \in Live(T, S) /\ T[at + 1] = l
    BY <1>3, <2>1
  <2>7. CASE g[m] = g[k]
    <3>1. Below(u, at + 1)
      <4>1. \A i \in DOMAIN u : u[i].position \in Nat /\ u[i].position < at
        BY <2>5, RecordTyped DEF Below, HeldIn
      <4> HIDE DEF u, at
      <4> QED BY <4>1, <2>1 DEF Below
    <3> QED BY <2>1, <2>5, <2>7, <3>1
  <2>8. CASE l.idx = me /\ g[m].unspent = Append(u, r)
    <3>1. r \in Record /\ r.position = at /\ r.note = NoteOf(l) /\ NoteOf(l).addr_tag = me
      BY <2>1, <2>3, <2>8, NoteTyped DEF Record
    <3> HIDE DEF r, u, at, l
    <3>2. HeldIn(T, S, me, Append(u, r)) /\ Below(Append(u, r), at + 1)
      BY <2>1, <2>5, <2>6, <3>1, HeldAppend
    <3> QED BY <3>2, <2>1, <2>8
  <2> QED BY <2>4, <2>7, <2>8
<1>6. Q = 0..n
  <2>1. Q \in SUBSET (0..n)
    OBVIOUS
  <2> HIDE DEF Q
  <2> QED BY <1>3, <1>4, <1>5, <2>1, UpToInduction
<1>7. Holds(n) /\ g[n] \in WalletState
  <2>1. n \in 0..n
    BY <1>3
  <2>2. n \in Q
    BY <1>6, <2>1
  <2> QED BY <1>2, <2>1, <2>2
<1> QED BY <1>1, <1>7 DEF n

(* What observe_nullifiers keeps of the first k records of u.              *)
Kept(x, u, k, me, seen) ==
    /\ x \in Seq(Record) /\ Apart(x)
    /\ \A i \in DOMAIN x : \E j \in 1..k : x[i] = u[j] /\ Nullifier(u[j].note, me) \notin seen

(* One record more, if its nullifier was not seen.                         *)
LEMMA KeptAppend ==
  ASSUME NEW u \in Seq(Record), Apart(u), NEW me, NEW seen, NEW k \in Nat, k < Len(u),
         NEW x, Kept(x, u, k, me, seen), Nullifier(u[k + 1].note, me) \notin seen
  PROVE  Kept(x \o <<u[k + 1]>>, u, k + 1, me, seen)
<1> DEFINE r == u[k + 1]
           y == x \o <<r>>
           n == Len(x)
           R == Record
<1>1. x \in Seq(R) /\ n \in Nat /\ DOMAIN x = 1..n /\ r \in R /\ DOMAIN u = 1..Len(u)
  BY DEF Kept
<1>2. <<r>> \in Seq(R) /\ Len(<<r>>) = 1 /\ <<r>>[1] = r
  BY <1>1
<1> HIDE DEF R
<1>3. y \in Seq(R) /\ Len(y) = n + 1 /\ (\A i \in 1..n : y[i] = x[i]) /\ y[n + 1] = r
  <2> DEFINE z == <<r>>
  <2>1. z \in Seq(R) /\ Len(z) = 1 /\ z[1] = r
    BY <1>2
  <2> HIDE DEF z, r
  <2>2. /\ x \o z \in Seq(R) /\ Len(x \o z) = Len(x) + Len(z)
        /\ \A i \in 1..(Len(x) + Len(z)) :
              (x \o z)[i] = IF i <= Len(x) THEN x[i] ELSE z[i - Len(x)]
    BY <1>1, <2>1, ConcatProperties
  <2>3. /\ (x \o z)[n + 1] = z[1] /\ \A i \in 1..n : (x \o z)[i] = x[i]
    <3>1. n + 1 \in 1..(n + 1) /\ ~(n + 1 <= n) /\ (n + 1) - n = 1
          /\ \A i \in 1..n : i \in 1..(n + 1) /\ i <= n
      BY <1>1
    <3>2. \A i \in 1..(n + 1) : (x \o z)[i] = IF i <= n THEN x[i] ELSE z[i - n]
      BY <2>1, <2>2
    <3> QED BY <3>1, <3>2
  <2> QED BY <2>1, <2>2, <2>3 DEF z
<1>4. DOMAIN y = 1..(n + 1) /\ \A i \in 1..(n + 1) : i \in 1..n \/ i = n + 1
  BY <1>1, <1>3
<1> HIDE DEF y, n
<1>5. k + 1 \in DOMAIN u /\ k + 1 \in 1..(k + 1) /\ \A j \in 1..k : j \in DOMAIN u /\ j # k + 1
                                                            /\ j \in 1..(k + 1)
  BY <1>1
<1>6. ASSUME NEW i \in 1..n PROVE x[i].position # r.position
  <2>1. PICK j \in 1..k : x[i] = u[j]
    BY <1>1 DEF Kept
  <2> QED BY <2>1, <1>5 DEF Apart
<1>7. Apart(y)
  <2> SUFFICES ASSUME NEW i \in DOMAIN y, NEW j \in DOMAIN y, y[i].position = y[j].position
               PROVE  i = j
    BY DEF Apart
  <2>1. CASE i \in 1..n /\ j \in 1..n
    BY <1>1, <1>3, <2>1 DEF Kept, Apart
  <2>2. CASE i = n + 1 /\ j = n + 1
    BY <2>2
  <2>3. CASE i \in 1..n /\ j = n + 1
    BY <1>3, <1>6, <2>3
  <2>4. CASE i = n + 1 /\ j \in 1..n
    BY <1>3, <1>6, <2>4
  <2> QED BY <1>4, <2>1, <2>2, <2>3, <2>4
<1>8. ASSUME NEW i \in DOMAIN y
      PROVE  \E j \in 1..(k + 1) : y[i] = u[j] /\ Nullifier(u[j].note, me) \notin seen
  <2>1. CASE i \in 1..n
    <3>1. PICK j \in 1..k : x[i] = u[j] /\ Nullifier(u[j].note, me) \notin seen
      BY <1>1, <2>1 DEF Kept
    <3> QED BY <3>1, <1>3, <1>5, <2>1
  <2>2. CASE i = n + 1
    BY <1>3, <1>5, <2>2
  <2> QED BY <1>4, <2>1, <2>2
<1> QED BY <1>3, <1>7, <1>8 DEF Kept, y, R

(* Observing nullifiers keeps records of the wallet whose nullifiers are   *)
(* not among them.                                                         *)
LEMMA ObserveKeeps ==
  ASSUME NEW w \in WalletState, Apart(w.unspent), NEW me \in Wallets, NEW nfs \in SUBSET Nat
  PROVE  LET v == ObserveNullifiers(w, me, nfs)
         IN  v \in WalletState /\ Kept(v.unspent, w.unspent, Len(w.unspent), me, nfs)
<1> DEFINE u == w.unspent
           n == Len(u)
           seen == w.seen_nullifiers \cup nfs
           f == [k \in 1..n |-> IF Nullifier(u[k].note, me) \in seen THEN << >> ELSE <<u[k]>>]
           v == ObserveNullifiers(w, me, nfs)
<1>1. u \in Seq(Record) /\ w.seen_nullifiers \in SUBSET Nat
  BY DEF WalletState
<1>2. n \in Nat /\ DOMAIN u = 1..n /\ \A k \in 1..n : u[k] \in Record
  BY <1>1
<1>3. v = [unspent |-> FlattenSeq(f), seen_nullifiers |-> seen]
  BY <1>2 DEF ObserveNullifiers, Nk
<1> HIDE DEF u, n, seen
<1>4. \A k \in 1..n : f[k] \in Seq(Record)
  BY <1>2
<1>5. \A k \in 1..n : f[k] = IF Nullifier(u[k].note, me) \in seen THEN << >> ELSE <<u[k]>>
  OBVIOUS
<1>6. f = [k \in 1..n |-> f[k]]
  OBVIOUS
<1> HIDE DEF f
<1>7. PICK h : Flattens(h, n, Record, f) /\ FlattenSeq([k \in 1..n |-> f[k]]) = h[n]
  BY <1>2, <1>4, FlattenRuns
<1>8. h \in [0..n -> Seq(Record)] /\ h[0] = << >> /\ \A k \in 1..n : h[k] = h[k - 1] \o f[k]
  BY <1>7 DEF Flattens
<1> DEFINE Holds(k) == Kept(h[k], u, k, me, seen)
           Q == {k \in 0..n : Holds(k)}
<1>9. 0 \in Q
  BY <1>2, <1>8 DEF Kept, Apart
<1>10. ASSUME NEW k \in Q, k < n PROVE k + 1 \in Q
  <2> DEFINE m == k + 1
  <2>1. k \in 0..n /\ m \in 1..n /\ m \in 0..n /\ m - 1 = k /\ k \in Nat
    BY <1>2, <1>10
  <2>2. h[m] = h[k] \o f[m] /\ Kept(h[k], u, k, me, seen)
    BY <1>8, <2>1
  <2>3. CASE Nullifier(u[m].note, me) \in seen
    <3>1. f[m] = << >>
      BY <1>5, <2>1, <2>3
    <3>2. h[k] \in Seq(Record)
      BY <1>8, <2>1
    <3>3. h[m] = h[k]
      BY <2>2, <3>1, <3>2, ConcatEmptySeq
    <3>4. \A j \in 1..k : j \in 1..(k + 1)
      BY <2>1
    <3>5. Kept(h[k], u, m, me, seen)
      BY <2>2, <3>4 DEF Kept
    <3> QED BY <2>1, <3>3, <3>5
  <2>4. CASE Nullifier(u[m].note, me) \notin seen
    <3>1. h[m] = h[k] \o <<u[m]>>
      BY <1>5, <2>1, <2>2, <2>4
    <3>2. u \in Seq(Record) /\ Apart(u) /\ k < Len(u)
      BY <1>1, <1>10 DEF u, n
    <3>3. Kept(h[k] \o <<u[m]>>, u, m, me, seen)
      BY <2>1, <2>2, <2>4, <3>2, KeptAppend
    <3> QED BY <2>1, <3>1, <3>3
  <2> QED BY <2>3, <2>4
<1>11. Q = 0..n
  <2>1. Q \in SUBSET (0..n)
    OBVIOUS
  <2> HIDE DEF Q
  <2> QED BY <1>2, <1>9, <1>10, <2>1, UpToInduction
<1>12. Kept(h[n], u, n, me, seen)
  <2>1. n \in 0..n
    BY <1>2
  <2>2. n \in Q
    BY <1>11, <2>1
  <2> QED BY <2>2
<1>13. Kept(h[n], u, n, me, nfs)
  <2>1. nfs \subseteq seen
    BY DEF seen
  <2> QED BY <1>12, <2>1 DEF Kept
<1>14. v.unspent = h[n] /\ v = [unspent |-> h[n], seen_nullifiers |-> seen]
  <2>1. FlattenSeq(f) = h[n]
    BY ONLY <1>6, <1>7, Zenon
  <2> HIDE DEF v
  <2> QED BY <1>3, <2>1
<1>15. h[n] \in Seq(Record) /\ seen \in SUBSET Nat
  BY <1>1, <1>12 DEF Kept, seen
<1>16. v \in WalletState
  <2> HIDE DEF v
  <2> QED BY <1>14, <1>15 DEF WalletState
<1> QED BY <1>13, <1>14, <1>16 DEF u, n

(* The nullifiers that a scan spends are nullifiers of the batch.          *)
LEMMA SeenIsSent ==
  ASSUME NEW L, L.quota \in Registry, NEW txs \in Seq(Tx)
  PROVE  Scan(L, txs).seen \subseteq UNION {Nfs(txs[k]) : k \in 1..Len(txs)}
<1> DEFINE n == Len(txs)
           N == UNION {Nfs(txs[k]) : k \in 1..n}
<1>1. n \in Nat /\ \A k \in 1..n : txs[k] \in Tx /\ Nfs(txs[k]) \subseteq N
  OBVIOUS
<1> HIDE DEF n, N
<1>2. PICK g : Runs(g, L, txs) /\ Scan(L, txs) = g[n]
  BY ScanRuns DEF n
<1>3. /\ g \in [0..n -> ScanState] /\ g[0].seen = {}
      /\ \A k \in 1..n : g[k] = ScanTx(L, g[k - 1], txs[k])
  BY <1>2 DEF Runs, ScanFrom, n
<1> DEFINE Holds(k) == g[k].seen \subseteq N
           Q == {k \in 0..n : Holds(k)}
<1>4. 0 \in Q
  BY <1>1, <1>3
<1>5. ASSUME NEW k \in Q, k < n PROVE k + 1 \in Q
  <2> DEFINE m == k + 1
  <2>1. k \in 0..n /\ m \in 1..n /\ m \in 0..n /\ m - 1 = k
    BY <1>1, <1>5
  <2>2. g[m] = ScanTx(L, g[k], txs[m]) /\ g[k] \in ScanState /\ txs[m] \in Tx
        /\ Nfs(txs[m]) \subseteq N /\ g[k].seen \subseteq N
    BY <1>1, <1>3, <2>1
  <2>3. AfterTx(L, g[k], txs[m], g[m])
    BY <2>2, ScanTxIs
  <2>4. g[m].seen \subseteq N
    BY <2>2, <2>3 DEF AfterTx
  <2> QED BY <2>1, <2>4
<1>6. Q = 0..n
  <2>1. Q \in SUBSET (0..n)
    OBVIOUS
  <2> HIDE DEF Q
  <2> QED BY <1>1, <1>4, <1>5, <2>1, UpToInduction
<1>7. n \in Q
  <2>1. n \in 0..n
    BY <1>1
  <2> QED BY <1>6, <2>1
<1> QED BY <1>2, <1>7 DEF N, n

(* What a wallet still holds after a checkpoint's nullifiers reached it is *)
(* unspent after that checkpoint, in any tree that extends the one before. *)
LEMMA ObserveHolds ==
  ASSUME NEW T \in Seq(Leaf), NEW S, NEW w \in WalletState, NEW me \in Wallets,
         HeldIn(T, S, me, w.unspent), NEW nfs \in SUBSET Nat,
         NEW X, \A p \in DOMAIN T : p \in DOMAIN X /\ X[p] = T[p],
         NEW R, R \subseteq S \cup nfs
  PROVE  LET v == ObserveNullifiers(w, me, nfs)
         IN  v \in WalletState /\ HeldIn(X, R, me, v.unspent) /\ Below(v.unspent, Len(T))
<1> DEFINE v == ObserveNullifiers(w, me, nfs)
           u == w.unspent
           x == v.unspent
<1>1. v \in WalletState /\ Kept(x, u, Len(u), me, nfs) /\ Apart(u) /\ u \in Seq(Record)
  BY ObserveKeeps DEF HeldIn
<1>2. DOMAIN u = 1..Len(u) /\ Len(T) \in Nat /\ DOMAIN T = 1..Len(T)
      /\ \A j \in DOMAIN u : u[j] \in Record /\ u[j].position \in Nat
  BY <1>1, RecordTyped
<1> HIDE DEF v, x, u
<1>3. HeldIn(T, S, me, u)
  BY DEF u
<1>4. ASSUME NEW i \in DOMAIN x
      PROVE  /\ x[i].position + 1 \in Live(X, R) /\ x[i].position < Len(T)
             /\ NoteOf(X[x[i].position + 1]) = x[i].note /\ x[i].note.addr_tag = me
  <2>1. PICK j \in DOMAIN u : x[i] = u[j] /\ Nullifier(u[j].note, me) \notin nfs
    BY <1>1, <1>2 DEF Kept
  <2> DEFINE p == u[j].position + 1
  <2>2. p \in Live(T, S) /\ NoteOf(T[p]) = u[j].note /\ u[j].note.addr_tag = me
    BY <1>3 DEF HeldIn
  <2>3. p \in DOMAIN T /\ T[p].source = "output" /\ NfOf(T[p]) \notin S
    BY <2>2 DEF Live
  <2>4. NfOf(T[p]) = Nullifier(u[j].note, me)
    <3>1. T[p].idx = me
      BY <2>2 DEF NoteOf
    <3> QED BY <2>2, <3>1 DEF NfOf, OwnerOf
  <2>5. NfOf(T[p]) \notin R
    BY <2>1, <2>3, <2>4
  <2>6. p \in DOMAIN X /\ X[p] = T[p]
    BY <2>3
  <2>7. p \in Live(X, R)
    BY <2>3, <2>5, <2>6 DEF Live
  <2>8. u[j].position < Len(T)
    BY <1>2, <2>3
  <2> QED BY <2>1, <2>2, <2>6, <2>7, <2>8
<1>5. HeldIn(X, R, me, x)
  BY <1>1, <1>4 DEF HeldIn, Kept
<1>6. Below(x, Len(T))
  BY <1>4 DEF Below
<1> QED BY <1>1, <1>5, <1>6 DEF v, x

(* The ledger after a checkpoint of waiting transfers, and the ciphertexts *)
(* that go to the wallets: they pair with the leaves that were staged.     *)
Advanced(L, sent, s, M) ==
    /\ GoodLedger(M) /\ Sound(M.leaves, M.nullifiers)
    /\ \A p \in DOMAIN L.leaves : p \in DOMAIN M.leaves /\ M.leaves[p] = L.leaves[p]
    /\ M.nullifiers = L.nullifiers \cup s.seen
    /\ Paired(DeliveredOf(sent, s.verdicts), s.staged_cm)
    /\ \A k \in 1..Len(s.staged_cm) :
          /\ Len(L.leaves) + k \in Live(M.leaves, M.nullifiers)
          /\ M.leaves[Len(L.leaves) + k] = s.staged_cm[k]

(* Applying a checkpoint of waiting transfers.                             *)
LEMMA CheckpointAdvances ==
  ASSUME NEW L, GoodLedger(L), L.height < MaxHeight, Sound(L.leaves, L.nullifiers),
         NEW n \in Nat, NEW sent, DOMAIN sent = 1..n,
         \A k \in 1..n : Waiting(L.leaves, sent[k])
  PROVE  LET txs == [k \in 1..n |-> sent[k].tx]
         IN  txs \in Seq(Tx) /\ Advanced(L, sent, Scan(L, txs), ApplyCheckpoint(L, txs))
<1> DEFINE txs == [k \in 1..n |-> sent[k].tx]
           s == Scan(L, txs)
           M == ApplyCheckpoint(L, txs)
           m == MintedLeaves(L.height + 1)
           A == L.leaves
           B == s.staged_cm
           S == L.nullifiers \cup s.seen
           V == Leaf
<1>1. txs \in Seq(Tx)
  <2>1. \A k \in 1..n : sent[k].tx \in Tx
    BY DEF Waiting, Funded
  <2>2. txs \in [1..n -> Tx]
    BY <2>1
  <2> QED BY <2>2, FcnIsSeq
<1>2. Applied(L, txs, M)
  BY <1>1, ApplyFacts
<1>3. L.quota \in Registry /\ A \in Seq(V) /\ L.height \in Nat
  BY DEF GoodLedger
<1>4. Staged(L, s) /\ Paired(DeliveredOf(sent, s.verdicts), B)
  BY <1>3, ScanDelivers
<1>5. B \in Seq(V)
  BY <1>4 DEF Paired
<1>6. m \in Seq(V) /\ \A j \in DOMAIN m : m[j].source # "output"
  <2>1. L.height + 1 \in 1..MaxHeight
    BY <1>3, BoundsAssumption
  <2>2. m \in Seq(V)
    BY <2>1, MintTyped
  <2>3. \A j \in DOMAIN m : m[j].source = "reward"
    BY DEF MintedLeaves, RewardLeaf
  <2> QED BY <2>2, <2>3
<1>7. GoodLedger(M) /\ M.leaves = (A \o B) \o m /\ M.nullifiers = S
  BY <1>2 DEF Applied
<1> HIDE DEF txs, s, M, m, S
<1>8. /\ Sound(A \o B, S)
      /\ \A p \in DOMAIN A : p \in DOMAIN (A \o B) /\ (A \o B)[p] = A[p]
      /\ \A p \in DOMAIN (A \o B) : p \notin DOMAIN A => p \in Live(A \o B, S)
  BY <1>4 DEF Staged, S
<1> HIDE DEF A, B
<1>9. /\ Sound((A \o B) \o m, S) /\ Live((A \o B) \o m, S) = Live(A \o B, S)
      /\ \A p \in DOMAIN (A \o B) :
            p \in DOMAIN ((A \o B) \o m) /\ ((A \o B) \o m)[p] = (A \o B)[p]
  BY <1>6, <1>8, RewardsSound DEF V
<1> HIDE DEF V
<1>10. \A p \in DOMAIN A : p \in DOMAIN M.leaves /\ M.leaves[p] = A[p]
  BY <1>7, <1>8, <1>9
<1>11. ASSUME NEW k \in 1..Len(B)
       PROVE  Len(A) + k \in Live(M.leaves, M.nullifiers) /\ M.leaves[Len(A) + k] = B[k]
  <2>1. /\ Len(A) \in Nat /\ Len(B) \in Nat /\ DOMAIN A = 1..Len(A)
        /\ A \o B \in Seq(V) /\ Len(A \o B) = Len(A) + Len(B)
        /\ \A i \in 1..(Len(A) + Len(B)) :
              (A \o B)[i] = IF i <= Len(A) THEN A[i] ELSE B[i - Len(A)]
    BY <1>3, <1>5, ConcatProperties
  <2>2. DOMAIN (A \o B) = 1..(Len(A) + Len(B))
    BY <2>1
  <2>3. /\ Len(A) + k \in 1..(Len(A) + Len(B)) /\ ~(Len(A) + k <= Len(A))
        /\ (Len(A) + k) - Len(A) = k /\ Len(A) + k \notin DOMAIN A
    BY <2>1
  <2>4. (A \o B)[Len(A) + k] = B[k]
    BY <2>1, <2>3
  <2>5. Len(A) + k \in DOMAIN (A \o B)
    BY <2>2, <2>3
  <2> QED BY <1>7, <1>8, <1>9, <2>3, <2>4, <2>5
<1>12. Advanced(L, sent, s, M)
  BY <1>4, <1>7, <1>9, <1>10, <1>11 DEF Advanced, A, B, S
<1> QED BY <1>1, <1>12 DEF txs, s, M

(* An input of a transfer of wallet me: a dummy, or the note of an unspent *)
(* leaf that belongs to me, with its witness.                              *)
Entered(T, S, me, input) ==
    \/ input.is_dummy /\ \E d \in {0, 1} : input.note = DummyNote(d)
    \/ ~input.is_dummy /\ \E p \in Nat : /\ p + 1 \in Live(T, S)
                                         /\ input.note = NoteOf(T[p + 1])
                                         /\ input.note.addr_tag = me
                                         /\ input.path = Witness(T, p)

(* A record that a wallet holds, as an input.                              *)
LEMMA HeldEnters ==
  ASSUME NEW T, NEW S, GoodLeaves(T, S), NEW me \in Wallets, NEW u, HeldIn(T, S, me, u),
         NEW j \in DOMAIN u, NEW input,
         input = [note |-> u[j].note, is_dummy |-> FALSE, path |-> Witness(T, u[j].position)]
  PROVE  /\ Entered(T, S, me, input) /\ u[j].position + 1 \in DOMAIN T
         /\ T[u[j].position + 1].source = "output"
         /\ Nullifier(input.note, me) = NfOf(T[u[j].position + 1])
         /\ ~DummyNf(Nullifier(input.note, me)) /\ input.note.value = u[j].note.value
<1> DEFINE p == u[j].position
<1>1. u \in Seq(Record) /\ p \in Nat
  BY RecordTyped DEF HeldIn
<1>2. p + 1 \in Live(T, S) /\ NoteOf(T[p + 1]) = u[j].note /\ u[j].note.addr_tag = me
  BY DEF HeldIn
<1>3. input.note = u[j].note /\ ~input.is_dummy /\ input.path = Witness(T, p)
  OBVIOUS
<1>4. Entered(T, S, me, input)
  BY <1>1, <1>2, <1>3 DEF Entered
<1>5. p + 1 \in DOMAIN T /\ T[p + 1].source = "output"
  BY <1>2 DEF Live
<1>6. T[p + 1].idx = me
  BY <1>2 DEF NoteOf
<1>7. Nullifier(input.note, me) = NfOf(T[p + 1])
  BY <1>2, <1>3, <1>6 DEF NfOf, OwnerOf
<1>8. ~DummyNf(NfOf(T[p + 1]))
  BY <1>5, LeavesApart
<1> QED BY <1>3, <1>4, <1>5, <1>7, <1>8

(* A dummy, as an input.                                                   *)
LEMMA DummyEnters ==
  ASSUME NEW T, NEW S, NEW me \in Wallets, NEW d \in {0, 1}, NEW input,
         input = [note |-> DummyNote(d), is_dummy |-> TRUE, path |-> EmptyPath]
  PROVE  /\ Entered(T, S, me, input) /\ DummyNf(Nullifier(input.note, me))
         /\ input.note.value = 0 /\ input.note.rho = 10 + d /\ input.note = DummyNote(d)
<1>1. input.note = DummyNote(d) /\ input.is_dummy
  OBVIOUS
<1>2. Entered(T, S, me, input)
  BY <1>1 DEF Entered
<1>3. DummyNf(Nullifier(input.note, me))
  BY <1>1 DEF DummyNf
<1>4. DummyNote(d).value = 0 /\ DummyNote(d).rho = 10 + d
  BY DEF DummyNote, RhoDummy
<1> QED BY <1>1, <1>2, <1>3, <1>4

(* The two inputs of a transfer: they cover the amount and their           *)
(* nullifiers differ.                                                      *)
LEMMA InputsEnter ==
  ASSUME NEW T, NEW S, GoodLeaves(T, S), NEW me \in Wallets, NEW u, HeldIn(T, S, me, u),
         NEW amount \in Nat, Selects(u, amount)
  PROVE  LET in == Inputs(SelectInputs(u, amount).picked, T)
         IN  /\ Entered(T, S, me, in[1]) /\ Entered(T, S, me, in[2])
             /\ in[1].note.value + in[2].note.value >= amount
             /\ Nullifier(in[1].note, me) # Nullifier(in[2].note, me)
<1> DEFINE picked == SelectInputs(u, amount).picked
           pick == PickOf(u, amount)
           m == Len(pick)
           in == Inputs(picked, T)
           t == TotalOf(u, pick)
           real(k) == [note |-> picked[k].note, is_dummy |-> FALSE,
                       path |-> Witness(T, picked[k].position)]
           fake(d) == [note |-> DummyNote(d), is_dummy |-> TRUE, path |-> EmptyPath]
<1>1. u \in Seq(Record) /\ Apart(u)
  BY DEF HeldIn
<1>2. /\ pick \in Seq(DOMAIN u) /\ m <= 2 /\ (m = 2 => pick[1] # pick[2])
      /\ Len(picked) = m /\ DOMAIN picked = 1..m
      /\ \A n \in 1..m : pick[n] \in DOMAIN u /\ picked[n] = u[pick[n]]
      /\ t >= amount
  BY <1>1, PickedRecords
<1>3. t = IF m = 0 THEN 0 ELSE IF m = 1 THEN u[pick[1]].note.value
          ELSE u[pick[1]].note.value + u[pick[2]].note.value
  BY <1>1, <1>2, TotalIs
<1>4. m \in Nat
  BY <1>2
<1>5. \A k \in 1..2 : in[k] = IF k \in DOMAIN picked THEN real(k) ELSE fake(k - Len(picked) - 1)
  BY DEF Inputs
<1> HIDE DEF picked, pick, m, in, t
<1>6. m = 0 \/ m = 1 \/ m = 2
  BY ONLY <1>2, <1>4
<1>7. CASE m = 0
  <2>1. in[1] = fake(0) /\ in[2] = fake(1)
    <3>1. 1 \in 1..2 /\ 2 \in 1..2 /\ 1 \notin 1..m /\ 2 \notin 1..m /\ 1 - m - 1 = 0
          /\ 2 - m - 1 = 1
      BY <1>7
    <3> HIDE DEF real, fake
    <3>2. in[1] = fake(1 - m - 1) /\ in[2] = fake(2 - m - 1)
      BY <1>2, <1>5, <3>1
    <3> QED BY <3>1, <3>2
  <2>2. /\ Entered(T, S, me, in[1]) /\ in[1].note = DummyNote(0) /\ in[1].note.rho = 10
        /\ in[1].note.value = 0
    BY <2>1, DummyEnters
  <2>3. /\ Entered(T, S, me, in[2]) /\ in[2].note = DummyNote(1) /\ in[2].note.rho = 11
        /\ in[2].note.value = 0
    BY <2>1, DummyEnters
  <2>4. Nullifier(in[1].note, me) # Nullifier(in[2].note, me)
    BY <2>2, <2>3, NullifierBinds
  <2>5. in[1].note.value + in[2].note.value >= amount
    BY <1>2, <1>3, <1>7, <2>2, <2>3
  <2> QED BY <2>2, <2>3, <2>4, <2>5 DEF in, picked
<1>8. CASE m = 1
  <2>1. in[1] = real(1) /\ in[2] = fake(0) /\ 1 \in 1..m
    <3>1. 1 \in 1..2 /\ 2 \in 1..2 /\ 1 \in 1..m /\ 2 \notin 1..m /\ 2 - m - 1 = 0
      BY <1>8
    <3> HIDE DEF real, fake
    <3>2. in[1] = real(1) /\ in[2] = fake(2 - m - 1)
      BY <1>2, <1>5, <3>1
    <3> QED BY <3>1, <3>2
  <2> DEFINE a == pick[1]
  <2>2. a \in DOMAIN u /\ picked[1] = u[a]
    BY <1>2, <2>1
  <2>3. in[1] = [note |-> u[a].note, is_dummy |-> FALSE, path |-> Witness(T, u[a].position)]
    BY <2>1, <2>2
  <2> HIDE DEF a
  <2>4. /\ Entered(T, S, me, in[1]) /\ ~DummyNf(Nullifier(in[1].note, me))
        /\ in[1].note.value = u[a].note.value
    BY <2>2, <2>3, HeldEnters
  <2>5. /\ Entered(T, S, me, in[2]) /\ DummyNf(Nullifier(in[2].note, me))
        /\ in[2].note.value = 0
    BY <2>1, DummyEnters
  <2>6. u[a].note.value \in Nat
    BY <1>1, <2>2, RecordTyped
  <2>7. in[1].note.value + in[2].note.value >= amount
    BY <1>2, <1>3, <1>8, <2>4, <2>5, <2>6 DEF a
  <2> QED BY <2>4, <2>5, <2>7 DEF in, picked
<1>9. CASE m = 2
  <2>1. in[1] = real(1) /\ in[2] = real(2) /\ 1 \in 1..m /\ 2 \in 1..m
    <3>1. 1 \in 1..2 /\ 2 \in 1..2 /\ 1 \in 1..m /\ 2 \in 1..m
      BY <1>9
    <3> HIDE DEF real, fake
    <3> QED BY <1>2, <1>5, <3>1
  <2> DEFINE a == pick[1]
             b == pick[2]
  <2>2. a \in DOMAIN u /\ b \in DOMAIN u /\ picked[1] = u[a] /\ picked[2] = u[b] /\ a # b
    BY <1>2, <1>9, <2>1
  <2>3. /\ in[1] = [note |-> u[a].note, is_dummy |-> FALSE, path |-> Witness(T, u[a].position)]
        /\ in[2] = [note |-> u[b].note, is_dummy |-> FALSE, path |-> Witness(T, u[b].position)]
    BY <2>1, <2>2
  <2> HIDE DEF a, b
  <2>4. /\ Entered(T, S, me, in[1]) /\ u[a].position + 1 \in DOMAIN T
        /\ T[u[a].position + 1].source = "output"
        /\ Nullifier(in[1].note, me) = NfOf(T[u[a].position + 1])
        /\ in[1].note.value = u[a].note.value
    BY <2>2, <2>3, HeldEnters
  <2>5. /\ Entered(T, S, me, in[2]) /\ u[b].position + 1 \in DOMAIN T
        /\ T[u[b].position + 1].source = "output"
        /\ Nullifier(in[2].note, me) = NfOf(T[u[b].position + 1])
        /\ in[2].note.value = u[b].note.value
    BY <2>2, <2>3, HeldEnters
  <2>6. u[a].position \in Nat /\ u[b].position \in Nat /\ u[a].position # u[b].position
    BY <1>1, <2>2, RecordTyped DEF Apart
  <2>7. Nullifier(in[1].note, me) # Nullifier(in[2].note, me)
    <3>1. u[a].position + 1 # u[b].position + 1
      BY <2>6
    <3> QED BY <2>4, <2>5, <3>1, LeavesApart
  <2>8. in[1].note.value + in[2].note.value >= amount
    BY <1>2, <1>3, <1>9, <2>4, <2>5 DEF a, b
  <2> QED BY <2>4, <2>5, <2>7, <2>8 DEF in, picked
<1> QED BY <1>6, <1>7, <1>8, <1>9

(* What an input spends.                                                   *)
LEMMA EnteredSpends ==
  ASSUME NEW T, NEW S, GoodLeaves(T, S), NEW me \in Wallets, NEW input,
         Entered(T, S, me, input)
  PROVE  /\ input.note.value \in Nat /\ input.note.rho \in Nat
         /\ Nullifier(input.note, me) \in Nat
         /\ Spends(T, Nullifier(input.note, me), input.note.value)
<1>1. CASE input.is_dummy
  <2>1. PICK d \in {0, 1} : input.note = DummyNote(d)
    BY <1>1 DEF Entered
  <2>2. input.note.value = 0 /\ input.note.rho \in Nat
    BY <2>1 DEF DummyNote, RhoDummy
  <2>3. DummyNf(Nullifier(input.note, me))
    BY <2>1 DEF DummyNf
  <2>4. Nullifier(input.note, me) \in Nat
    BY <2>2, NullifierBinds
  <2> QED BY <2>2, <2>3, <2>4 DEF Spends
<1>2. CASE ~input.is_dummy
  <2>1. PICK p \in Nat : /\ p + 1 \in Live(T, S) /\ input.note = NoteOf(T[p + 1])
                         /\ input.note.addr_tag = me
    BY <1>2 DEF Entered
  <2> DEFINE l == T[p + 1]
  <2>2. p + 1 \in DOMAIN T /\ l.source = "output"
    BY <2>1 DEF Live
  <2>3. l \in Leaf /\ l.idx \in Wallets /\ NfOf(l) \in Nat /\ l.value \in Nat /\ l.id \in Nat
    BY <2>2, LeavesApart
  <2>4. NoteOf(l).value = l.value /\ NoteOf(l).rho = l.id /\ NoteOf(l).addr_tag = l.idx
    BY DEF NoteOf
  <2>5. l.idx = me
    BY <2>1, <2>4
  <2>6. Nullifier(input.note, me) = NfOf(l)
    BY <2>1, <2>5 DEF NfOf, OwnerOf
  <2>7. Spends(T, NfOf(l), l.value)
    BY <2>2 DEF Spends
  <2> HIDE DEF l
  <2> QED BY <2>1, <2>3, <2>4, <2>6, <2>7 DEF l
<1> QED BY <1>1, <1>2

(* A waiting transfer, as the mempool keeps it.                            *)
Item == [tx : Tx, enc_outputs : Seq(Cipher), from : Wallets, to : Wallets]

(* The commitment of a note is a leaf that holds it.                       *)
LEMMA CommitmentHolds ==
  ASSUME NEW note, note.value \in Nat, note.addr_tag \in Wallets, note.rho \in Nat,
         note = [value |-> note.value, addr_tag |-> note.addr_tag, rho |-> note.rho]
  PROVE  /\ Commitment(note) \in Leaf /\ NoteOf(Commitment(note)) = note
         /\ Commitment(note).source = "output" /\ Commitment(note).id = note.rho
         /\ Commitment(note).idx = note.addr_tag /\ Commitment(note).value = note.value
<1>1. note.addr_tag \in Nat
  BY WalletFacts
<1>2. Commitment(note) = [source |-> "output", id |-> note.rho, idx |-> note.addr_tag,
                          value |-> note.value]
  BY DEF Commitment
<1> QED BY <1>1, <1>2 DEF Leaf, NoteOf

(* A transfer that a wallet builds on its selection: its inputs are unspent*)
(* notes of the wallet or dummies, it moves their value, and the two       *)
(* outputs are encrypted to those they belong to.                          *)
LEMMA BuiltWaits ==
  ASSUME NEW T, NEW S, GoodLeaves(T, S), NEW me \in Wallets, NEW recipient \in Wallets,
         NEW w, HeldIn(T, S, me, w.unspent), NEW amount \in Nat, Selects(w.unspent, amount),
         NEW anchor \in Anchor
  PROVE  LET b == Built(w, me, recipient, amount, anchor, T)
             item == [tx |-> b.tx, enc_outputs |-> b.enc_outputs,
                      from |-> me, to |-> recipient]
         IN  item \in Item /\ Waiting(T, item)
<1> DEFINE in == Inputs(SelectInputs(w.unspent, amount).picked, T)
           nf == SortedNullifiers(in, me)
           out == TransferOutputs(me, recipient, amount, in)
           cm == [k \in DOMAIN out |-> Commitment(out[k])]
           es == EncryptOutputs(me, recipient, out)
           b == Built(w, me, recipient, amount, anchor, T)
           tx == b.tx
           item == [tx |-> b.tx, enc_outputs |-> b.enc_outputs, from |-> me, to |-> recipient]
           a1 == Nullifier(in[1].note, me)
           a2 == Nullifier(in[2].note, me)
           v1 == in[1].note.value
           v2 == in[2].note.value
<1>1. Entered(T, S, me, in[1]) /\ Entered(T, S, me, in[2]) /\ v1 + v2 >= amount
  BY InputsEnter
<1>2. v1 \in Nat /\ a1 \in Nat /\ Spends(T, a1, v1)
  <2> HIDE DEF in
  <2> QED BY <1>1, EnteredSpends
<1>3. v2 \in Nat /\ a2 \in Nat /\ Spends(T, a2, v2)
  <2> HIDE DEF in
  <2> QED BY <1>1, EnteredSpends
<1>4. /\ tx.anchor = anchor /\ tx.nullifiers = nf /\ tx.commitments = cm
      /\ tx.antispam = [lane |-> "pow", epoch |-> 0, rate_nullifier |-> 0, bound |-> TRUE]
      /\ tx.proof_sized = TRUE /\ tx.proof_ok \in BOOLEAN
      /\ tx = [anchor |-> tx.anchor, nullifiers |-> tx.nullifiers,
               commitments |-> tx.commitments, antispam |-> tx.antispam,
               proof_sized |-> tx.proof_sized, proof_ok |-> tx.proof_ok]
      /\ b.enc_outputs = es
  BY DEF Built, Nk
<1>5. nf = IF a2 < a1 THEN <<a2, a1>> ELSE <<a1, a2>>
  BY DEF SortedNullifiers
<1>6. out = << [value |-> amount, addr_tag |-> recipient, rho |-> RhoTransfer(nf[1], 0)],
               [value |-> v1 + v2 - amount, addr_tag |-> me, rho |-> RhoTransfer(nf[1], 1)] >>
  BY DEF TransferOutputs, Nk, AddrTag, AddressOf
<1>7. es = << EncryptNote(out[1], AddressOf(recipient), 10),
              EncryptNote(out[2], AddressOf(me), 11) >>
  BY DEF EncryptOutputs
<1> HIDE DEF in, a1, a2, v1, v2, nf, out, es, b
<1>8. /\ nf \in [1..2 -> Nat]
      /\ \/ nf[1] = a1 /\ nf[2] = a2
         \/ nf[1] = a2 /\ nf[2] = a1
  BY <1>2, <1>3, <1>5
<1>9. /\ DOMAIN out = 1..2 /\ nf[1] \in Nat
      /\ out[1] = [value |-> amount, addr_tag |-> recipient, rho |-> 12 + 2 * nf[1] + 0]
      /\ out[2] = [value |-> v1 + v2 - amount, addr_tag |-> me, rho |-> 12 + 2 * nf[1] + 1]
  BY <1>6, <1>8 DEF RhoTransfer
<1>10. v1 + v2 - amount \in Nat /\ amount + (v1 + v2 - amount) = v1 + v2
  BY <1>1, <1>2, <1>3
<1>11. /\ Commitment(out[1]) \in Leaf /\ NoteOf(Commitment(out[1])) = out[1]
       /\ Commitment(out[1]).source = "output" /\ Commitment(out[1]).id = 12 + 2 * nf[1] + 0
       /\ Commitment(out[1]).idx = recipient /\ Commitment(out[1]).value = amount
  <2>1. out[1].value = amount /\ out[1].addr_tag = recipient /\ out[1].rho = 12 + 2 * nf[1] + 0
        /\ out[1].rho \in Nat /\ out[1] = [value |-> out[1].value,
                                           addr_tag |-> out[1].addr_tag, rho |-> out[1].rho]
    BY <1>9
  <2> QED BY <2>1, CommitmentHolds
<1>12. /\ Commitment(out[2]) \in Leaf /\ NoteOf(Commitment(out[2])) = out[2]
       /\ Commitment(out[2]).source = "output" /\ Commitment(out[2]).id = 12 + 2 * nf[1] + 1
       /\ Commitment(out[2]).idx = me /\ Commitment(out[2]).value = v1 + v2 - amount
  <2>1. out[2].value = v1 + v2 - amount /\ out[2].addr_tag = me
        /\ out[2].rho = 12 + 2 * nf[1] + 1
        /\ out[2].rho \in Nat /\ out[2] = [value |-> out[2].value,
                                           addr_tag |-> out[2].addr_tag, rho |-> out[2].rho]
    BY <1>9
  <2> QED BY <1>10, <2>1, CommitmentHolds
<1>13. cm \in [1..2 -> Leaf] /\ cm[1] = Commitment(out[1]) /\ cm[2] = Commitment(out[2])
  <2>1. \A k \in 1..2 : k = 1 \/ k = 2
    OBVIOUS
  <2>2. \A k \in 1..2 : Commitment(out[k]) \in Leaf
    BY <1>11, <1>12, <2>1
  <2> QED BY <1>9, <2>2
<1> HIDE DEF cm, tx
<1>14. tx \in Tx
  <2>1. tx.antispam \in AntiSpam /\ tx.anchor \in Anchor /\ tx.nullifiers \in [1..2 -> Nat]
        /\ tx.commitments \in [1..2 -> Leaf] /\ tx.proof_sized \in BOOLEAN
    <3>1. [lane |-> "pow", epoch |-> 0, rate_nullifier |-> 0, bound |-> TRUE] \in AntiSpam
      BY DEF AntiSpam
    <3>2. TRUE \in BOOLEAN
      OBVIOUS
    <3> QED BY ONLY <1>4, <1>8, <1>13, <3>1, <3>2, anchor \in Anchor, Zenon
  <2> QED BY <1>4, <2>1 DEF Tx
<1>15. Funded(T, tx)
  <2>1. ASSUME NEW k \in 1..2
        PROVE  /\ tx.commitments[k].source = "output" /\ tx.commitments[k].idx \in Wallets
               /\ tx.commitments[k].id = RhoTransfer(tx.nullifiers[1], k - 1)
    <3>1. k = 1 \/ k = 2
      OBVIOUS
    <3>2. RhoTransfer(tx.nullifiers[1], k - 1) = 12 + 2 * nf[1] + (k - 1)
      BY <1>4 DEF RhoTransfer
    <3>3. CASE k = 1
      BY <1>4, <1>11, <1>13, <3>2, <3>3
    <3>4. CASE k = 2
      BY <1>4, <1>12, <1>13, <3>2, <3>4
    <3> QED BY <3>1, <3>3, <3>4
  <2>2. tx.commitments[1].value + tx.commitments[2].value = v1 + v2
    BY <1>4, <1>10, <1>11, <1>12, <1>13
  <2>3. \E v, x \in Nat : /\ Spends(T, tx.nullifiers[1], v) /\ Spends(T, tx.nullifiers[2], x)
                          /\ tx.commitments[1].value + tx.commitments[2].value = v + x
    <3>1. CASE nf[1] = a1 /\ nf[2] = a2
      BY <1>2, <1>3, <1>4, <2>2, <3>1
    <3>2. CASE nf[1] = a2 /\ nf[2] = a1
      <4>1. tx.commitments[1].value + tx.commitments[2].value = v2 + v1
        BY <1>2, <1>3, <2>2
      <4> QED BY <1>2, <1>3, <1>4, <4>1, <3>2
    <3> QED BY <1>8, <3>1, <3>2
  <2> QED BY <1>14, <2>1, <2>3 DEF Funded
<1>16. out[1] \in Note /\ out[2] \in Note
  BY <1>9, <1>10 DEF Note
<1>17. b.enc_outputs \in Seq(Cipher)
  <2>1. EncryptNote(out[1], AddressOf(recipient), 10) \in Cipher
        /\ EncryptNote(out[2], AddressOf(me), 11) \in Cipher
    <3>1. 10 \in Nat /\ 11 \in Nat
      OBVIOUS
    <3> QED BY <1>16, <3>1 DEF Cipher
  <2> QED BY <1>4, <1>7, <2>1
<1>18. item \in Item
  BY <1>14, <1>17 DEF Item, tx
<1>19. Waiting(T, item)
  <2>1. item.tx = tx /\ item.from = me /\ item.to = recipient /\ item.enc_outputs = es
    BY <1>4 DEF tx
  <2> HIDE DEF item
  <2> QED BY <1>4, <1>7, <1>11, <1>12, <1>13, <1>15, <2>1 DEF Waiting
<1> QED BY <1>18, <1>19 DEF b

(* The genesis leaves commit to the genesis notes, one by one.             *)
LEMMA GenesisLeaves ==
  /\ Len(Genesis) \in Nat /\ Len(Genesis) <= 10
  /\ DOMAIN Genesis = 1..Len(Genesis) /\ DOMAIN GenesisNotes = 1..Len(Genesis)
  /\ \A k \in 1..Len(Genesis) :
        /\ Genesis[k] \in Leaf /\ Genesis[k].source = "output" /\ Genesis[k].idx \in Wallets
        /\ Genesis[k].id = k - 1 /\ Genesis[k].value = GenesisNotes[k].value
        /\ NoteOf(Genesis[k]) = GenesisNotes[k] /\ Genesis[k].idx = GenesisNotes[k].addr_tag
        /\ GenesisNotes[k] \in Note
<1> DEFINE n == Len(GenesisNotes)
<1>1. GenesisNotes \in Seq(Note) /\ n \in Nat /\ DOMAIN GenesisNotes = 1..n /\ n <= 10
      /\ \A k \in 1..n : GenesisNotes[k] \in Note
  <2>1. GenesisNotes \in Seq(Note) /\ n <= 10
    BY GenesisNotesAssumption, Zenon DEF Note
  <2> QED BY <2>1
<1>2. Genesis = [k \in 1..n |-> Commitment(GenesisNotes[k])]
  BY <1>1, GenesisNotesAssumption
<1>3. ASSUME NEW k \in 1..n
      PROVE  /\ Genesis[k] \in Leaf /\ Genesis[k].source = "output"
             /\ Genesis[k].idx \in Wallets /\ Genesis[k].id = k - 1
             /\ Genesis[k].value = GenesisNotes[k].value
             /\ NoteOf(Genesis[k]) = GenesisNotes[k]
             /\ Genesis[k].idx = GenesisNotes[k].addr_tag
  <2> DEFINE note == GenesisNotes[k]
  <2>1. /\ note.value \in Nat /\ note.addr_tag \in Wallets /\ note.rho \in Nat
        /\ note = [value |-> note.value, addr_tag |-> note.addr_tag, rho |-> note.rho]
    BY <1>1 DEF Note
  <2>2. note.rho = k - 1
    BY <1>1, GenesisNotesAssumption DEF RhoGenesis
  <2>3. Genesis[k] = Commitment(note)
    BY <1>2
  <2> HIDE DEF note
  <2> QED BY <2>1, <2>2, <2>3, CommitmentHolds DEF note
<1>4. Len(Genesis) = n /\ DOMAIN Genesis = 1..n
  <2>1. Genesis \in [1..n -> Leaf]
    BY <1>2, <1>3
  <2> QED BY <1>1, <2>1, FcnIsSeq
<1> QED BY <1>1, <1>3, <1>4

(* The genesis ledger is sound.                                            *)
LEMMA GenesisSound == Sound(Genesis, {})
<1> DEFINE n == Len(Genesis)
<1>1. Genesis \in Seq(Leaf)
  BY GenesisAssumption
<1>2. \A p \in 1..n : Genesis[p].id <= 9
  BY GenesisLeaves
<1>3. GoodLeaves(Genesis, {})
  BY <1>1, <1>2, GenesisLeaves DEF GoodLeaves
<1>4. SpentKnown(Genesis, {})
  BY DEF SpentKnown
<1>5. Live(Genesis, {}) = 1..n
  BY GenesisLeaves DEF Live
<1>6. WorthOf(Genesis, 1..n) = GenesisSupply
  <2> DEFINE f == [p \in DOMAIN Genesis |-> Genesis[p].value]
             g == [k \in DOMAIN GenesisNotes |-> GenesisNotes[k].value]
  <2>1. \A p \in 1..n : f[p] \in Nat /\ f[p] = g[p]
    BY <1>3, LeavesApart, GenesisLeaves
  <2>2. DOMAIN g = 1..n
    BY GenesisLeaves
  <2>3. GenesisSupply = SumFunctionOnSet(g, 1..n)
    BY <2>2, GenesisNotesAssumption DEF SumFunction
  <2>4. IsFiniteSet(1..n)
    BY GenesisLeaves, FS_Interval
  <2> HIDE DEF f, g, n
  <2>5. SumFunctionOnSet(f, 1..n) = SumFunctionOnSet(g, 1..n)
    BY <2>1, <2>4, SumSame
  <2> QED BY <2>3, <2>5 DEF WorthOf, f
<1> QED BY <1>3, <1>4, <1>5, <1>6 DEF Sound

(* What genesis gives to a wallet.                                         *)
LEMMA GenesisHeld ==
  ASSUME NEW me \in Wallets
  PROVE  LET encs == [k \in DOMAIN GenesisNotes |-> GenesisOutput(GenesisNotes[k])]
             w == ReceiveAll(EmptyWallet, me, encs, 0)
         IN  w \in WalletState /\ HeldIn(Genesis, {}, me, w.unspent)
<1> DEFINE encs == [k \in DOMAIN GenesisNotes |-> GenesisOutput(GenesisNotes[k])]
           n == Len(Genesis)
<1>1. EmptyWallet \in WalletState /\ HeldIn(Genesis, {}, me, EmptyWallet.unspent)
      /\ Below(EmptyWallet.unspent, 0)
  BY DEF EmptyWallet, WalletState, HeldIn, Apart, Below
<1>2. Paired(encs, Genesis)
  <2>1. ASSUME NEW k \in 1..n
        PROVE  encs[k] \in Cipher /\ Encloses(encs[k], Genesis[k])
    <3> DEFINE note == GenesisNotes[k]
    <3>1. /\ note \in Note /\ NoteOf(Genesis[k]) = note /\ Genesis[k].idx = note.addr_tag
          /\ Genesis[k].idx \in Wallets /\ k \in DOMAIN GenesisNotes
      BY GenesisLeaves
    <3>2. encs[k] = EncryptNote(note, AddressOf(note.addr_tag), 0)
      BY <3>1 DEF GenesisOutput
    <3>3. 0 \in Nat
      OBVIOUS
    <3> HIDE DEF encs, note
    <3>4. encs[k] \in Cipher
      BY <3>1, <3>2, <3>3 DEF Cipher
    <3> QED BY <3>1, <3>2, <3>3, <3>4 DEF Encloses
  <2>2. n \in Nat /\ DOMAIN encs = 1..n
    BY GenesisLeaves
  <2>3. encs \in [1..n -> Cipher]
    BY <2>1, <2>2
  <2> HIDE DEF encs, n
  <2>4. encs \in Seq(Cipher) /\ Len(encs) = n
    BY <2>2, <2>3, FcnIsSeq
  <2>5. Genesis \in Seq(Leaf) /\ \A k \in 1..n : Genesis[k].idx \in Wallets
    BY GenesisAssumption, GenesisLeaves DEF n
  <2> QED BY <2>1, <2>4, <2>5 DEF Paired, n
<1>3. \A k \in 1..n : 0 + k \in Live(Genesis, {}) /\ Genesis[0 + k] = Genesis[k]
  <2>1. \A k \in 1..n : 0 + k = k
    OBVIOUS
  <2>2. \A k \in 1..n : k \in Live(Genesis, {})
    BY GenesisLeaves DEF Live
  <2> QED BY <2>1, <2>2
<1>4. 0 \in Nat
  OBVIOUS
<1> HIDE DEF encs
<1> QED BY <1>1, <1>2, <1>3, <1>4, ReceiveHolds DEF encs

-----------------------------------------------------------------------------
(* The inductive invariant.  The ledger is good (its anchors, registry and *)
(* sets) and sound (whatever was spent is known, what is unspent is worth  *)
(* the genesis allocation); each wallet holds unspent notes of its own, at *)
(* their positions; each waiting transfer moves what its inputs are worth. *)
WalletsHold ==
    /\ wallets \in [Wallets -> WalletState]
    /\ \A me \in Wallets : HeldIn(net.leaves, net.nullifiers, me, wallets[me].unspent)

PoolWaits ==
    /\ mempool \in Seq(Item)
    /\ \A k \in DOMAIN mempool : Waiting(net.leaves, mempool[k])

DInv ==
    GoodLedger(net) /\ Sound(net.leaves, net.nullifiers) /\ WalletsHold /\ PoolWaits

(* Genesis establishes it.                                                 *)
LEMMA DInvInit == Init => DInv
<1> SUFFICES ASSUME Init PROVE DInv
  OBVIOUS
<1>1. net = GenesisLedger /\ mempool = << >>
  BY DEF Init
<1>2. net.leaves = Genesis /\ net.nullifiers = {}
  BY <1>1 DEF GenesisLedger
<1>3. GoodLedger(net)
  BY <1>1, GenesisGood
<1>4. WalletsHold
  <2> DEFINE encs == [k \in DOMAIN GenesisNotes |-> GenesisOutput(GenesisNotes[k])]
  <2>1. wallets = [me \in Wallets |-> ReceiveAll(EmptyWallet, me, encs, 0)]
    BY DEF Init
  <2>2. \A me \in Wallets : /\ ReceiveAll(EmptyWallet, me, encs, 0) \in WalletState
                            /\ HeldIn(Genesis, {}, me, ReceiveAll(EmptyWallet, me, encs, 0).unspent)
    BY GenesisHeld
  <2> HIDE DEF encs
  <2> QED BY <1>2, <2>1, <2>2 DEF WalletsHold
<1>5. PoolWaits
  BY <1>1 DEF PoolWaits
<1> QED BY <1>2, <1>3, <1>4, <1>5, GenesisSound DEF DInv

(* Building a transfer keeps it.                                           *)
LEMMA DInvBuild ==
  ASSUME DInv, NEW me \in Wallets, NEW recipient \in Wallets, NEW amount \in Amounts,
         Build(me, recipient, amount)
  PROVE  DInv'
<1> DEFINE T == net.leaves
           S == net.nullifiers
           w == wallets[me]
           b == Built(w, me, recipient, amount, current_anchor, T)
           item == [tx |-> b.tx, enc_outputs |-> b.enc_outputs, from |-> me, to |-> recipient]
<1>1. /\ GoodLedger(net) /\ GoodLeaves(T, S) /\ HeldIn(T, S, me, w.unspent) /\ amount \in Nat
      /\ mempool \in Seq(Item) /\ \A k \in DOMAIN mempool : Waiting(T, mempool[k])
  BY AmountsAssumption DEF DInv, Sound, WalletsHold, PoolWaits
<1>2. mempool' = Append(mempool, item) /\ net' = net /\ wallets' = wallets
      /\ Selects(w.unspent, amount)
  BY DEF Build, CanBuild
<1>3. current_anchor \in Anchor
  BY <1>1 DEF current_anchor, Anchor, Root, GoodLedger
<1>4. item \in Item /\ Waiting(T, item)
  <2> HIDE DEF T, S, w
  <2> QED BY <1>1, <1>2, <1>3, BuiltWaits
<1> HIDE DEF item, T
<1>5. mempool' \in Seq(Item) /\ \A k \in DOMAIN mempool' : Waiting(T, mempool'[k])
  <2> DEFINE V == Item
             n == Len(mempool)
  <2>1. mempool \in Seq(V) /\ item \in V
    BY <1>1, <1>4
  <2> HIDE DEF V
  <2>2. /\ mempool' \in Seq(V) /\ DOMAIN mempool' = DOMAIN mempool \cup {n + 1}
        /\ mempool'[n + 1] = item /\ \A k \in DOMAIN mempool : mempool'[k] = mempool[k]
    BY <1>2, <2>1, AppendDomain, AppendProperties
  <2> QED BY <1>1, <1>4, <2>2 DEF V
<1>6. PoolWaits'
  BY <1>2, <1>5 DEF PoolWaits, T
<1> QED BY <1>2, <1>6 DEF DInv, WalletsHold

(* The front and the rest of a queue.                                      *)
LEMMA QueueSplit ==
  ASSUME NEW V, NEW q \in Seq(V), NEW n \in 0..Len(q)
  PROVE  /\ SubSeq(q, 1, n) \in Seq(V) /\ DOMAIN SubSeq(q, 1, n) = 1..n
         /\ \A k \in 1..n : k \in DOMAIN q /\ SubSeq(q, 1, n)[k] = q[k]
         /\ SubSeq(q, n + 1, Len(q)) \in Seq(V)
         /\ \A k \in DOMAIN SubSeq(q, n + 1, Len(q)) :
               \E j \in DOMAIN q : SubSeq(q, n + 1, Len(q))[k] = q[j]
<1> DEFINE l == Len(q)
           a == SubSeq(q, 1, n)
           b == SubSeq(q, n + 1, l)
<1>1. l \in Nat /\ DOMAIN q = 1..l /\ \A i \in 1..l : q[i] \in V
  OBVIOUS
<1> HIDE DEF l
<1>2. n \in Nat /\ n <= l /\ n + 1 \in Int /\ n \in Int /\ l \in Int /\ 1 \in Int
  BY <1>1 DEF l
<1>3. /\ a \in Seq(V) /\ Len(a) = (IF 1 <= n THEN n - 1 + 1 ELSE 0)
      /\ \A i \in 1..(n - 1 + 1) : a[i] = q[1 + i - 1]
  <2>1. \A i \in 1..n : q[i] \in V
    BY <1>1, <1>2
  <2> QED BY <1>2, <2>1, SubSeqProperties
<1>4. /\ b \in Seq(V) /\ Len(b) = (IF n + 1 <= l THEN l - (n + 1) + 1 ELSE 0)
      /\ \A i \in 1..(l - (n + 1) + 1) : b[i] = q[(n + 1) + i - 1]
  <2>1. \A i \in (n + 1)..l : q[i] \in V
    BY <1>1, <1>2
  <2> QED BY <1>2, <2>1, SubSeqProperties
<1> HIDE DEF a, b
<1>5. DOMAIN a = 1..n /\ \A k \in 1..n : k \in DOMAIN q /\ a[k] = q[k]
  <2>1. Len(a) = n
    BY <1>2, <1>3
  <2>2. DOMAIN a = 1..n
    BY <1>3, <2>1
  <2>3. \A k \in 1..n : k \in 1..l /\ k \in 1..(n - 1 + 1) /\ 1 + k - 1 = k
    BY <1>1, <1>2
  <2> QED BY <1>1, <1>3, <2>2, <2>3
<1>6. ASSUME NEW k \in DOMAIN b PROVE \E j \in DOMAIN q : b[k] = q[j]
  <2>1. k \in 1..Len(b)
    BY <1>4
  <2>2. k \in 1..(l - (n + 1) + 1) /\ (n + 1) + k - 1 \in 1..l
    BY <1>1, <1>2, <1>4, <2>1
  <2> QED BY <1>1, <1>4, <2>2
<1> QED BY <1>3, <1>4, <1>5, <1>6 DEF a, b, l

(* A checkpoint keeps it.                                                  *)
LEMMA DInvCheckpoint ==
  ASSUME DInv, NEW n \in 0..Len(mempool), CheckpointFirst(n)
  PROVE  DInv'
<1> DEFINE sent == SubSeq(mempool, 1, n)
           rest == SubSeq(mempool, n + 1, Len(mempool))
           txs == [k \in 1..n |-> sent[k].tx]
           s == Scan(net, txs)
           all_nf == UNION {Nfs(txs[k]) : k \in 1..n}
           M == ApplyCheckpoint(net, txs)
           T == net.leaves
           V == Item
<1>1. /\ GoodLedger(net) /\ Sound(T, net.nullifiers)
      /\ wallets \in [Wallets -> WalletState]
      /\ \A me \in Wallets : HeldIn(T, net.nullifiers, me, wallets[me].unspent)
      /\ mempool \in Seq(V) /\ \A k \in DOMAIN mempool : Waiting(T, mempool[k])
  BY DEF DInv, WalletsHold, PoolWaits
<1>2. /\ net.height < MaxHeight /\ net' = M /\ mempool' = rest
      /\ wallets' = [me \in Wallets |->
            Deliver(ObserveNullifiers(wallets[me], me, all_nf), me, sent, s.verdicts, Len(T))]
  BY DEF CheckpointFirst
<1> HIDE DEF V
<1>3. /\ sent \in Seq(V) /\ DOMAIN sent = 1..n
      /\ \A k \in 1..n : k \in DOMAIN mempool /\ sent[k] = mempool[k]
      /\ rest \in Seq(V)
      /\ \A k \in DOMAIN rest : \E j \in DOMAIN mempool : rest[k] = mempool[j]
  BY <1>1, QueueSplit
<1>4. n \in Nat
  BY <1>1
<1> HIDE DEF sent, rest, M, all_nf, s, T
<1>5. \A k \in 1..n : Waiting(T, sent[k])
  BY <1>1, <1>3
<1>6. txs \in Seq(Tx) /\ Advanced(net, sent, s, M)
  BY <1>1, <1>2, <1>3, <1>4, <1>5, CheckpointAdvances DEF s, M, T
<1>7. /\ GoodLedger(M) /\ Sound(M.leaves, M.nullifiers)
      /\ \A p \in DOMAIN T : p \in DOMAIN M.leaves /\ M.leaves[p] = T[p]
      /\ M.nullifiers = net.nullifiers \cup s.seen
      /\ Paired(DeliveredOf(sent, s.verdicts), s.staged_cm)
      /\ \A k \in 1..Len(s.staged_cm) : /\ Len(T) + k \in Live(M.leaves, M.nullifiers)
                                        /\ M.leaves[Len(T) + k] = s.staged_cm[k]
  BY <1>6 DEF Advanced, T
<1>8. s.seen \subseteq all_nf /\ all_nf \in SUBSET Nat
  <2>1. Len(txs) = n /\ \A k \in 1..n : txs[k] \in Tx
    BY <1>4, <1>6
  <2>2. net.quota \in Registry
    BY <1>1 DEF GoodLedger
  <2>3. \A k \in 1..n : Nfs(txs[k]) \subseteq Nat
    BY <2>1, TxTyped
  <2> HIDE DEF txs
  <2>4. all_nf \in SUBSET Nat
    BY <2>3 DEF all_nf
  <2>5. s.seen \subseteq UNION {Nfs(txs[k]) : k \in 1..Len(txs)}
    BY <1>6, <2>2, SeenIsSent DEF s
  <2> QED BY <2>1, <2>4, <2>5 DEF all_nf
<1> HIDE DEF txs
<1>9. ASSUME NEW me \in Wallets
      PROVE  LET v == Deliver(ObserveNullifiers(wallets[me], me, all_nf), me, sent,
                              s.verdicts, Len(T))
             IN  v \in WalletState /\ HeldIn(M.leaves, M.nullifiers, me, v.unspent)
  <2> DEFINE w == wallets[me]
             x == ObserveNullifiers(w, me, all_nf)
             es == DeliveredOf(sent, s.verdicts)
  <2>1. w \in WalletState /\ HeldIn(T, net.nullifiers, me, w.unspent) /\ T \in Seq(Leaf)
        /\ Len(T) \in Nat
    BY <1>1 DEF GoodLedger, T
  <2>2. M.nullifiers \subseteq net.nullifiers \cup all_nf
    BY <1>7, <1>8
  <2> HIDE DEF w
  <2>3. /\ x \in WalletState /\ HeldIn(M.leaves, M.nullifiers, me, x.unspent)
        /\ Below(x.unspent, Len(T))
    BY <1>7, <1>8, <2>1, <2>2, ObserveHolds
  <2> HIDE DEF x, es
  <2>4. Paired(es, s.staged_cm)
    BY <1>7 DEF es
  <2>5. LET v == ReceiveAll(x, me, es, Len(T))
        IN  v \in WalletState /\ HeldIn(M.leaves, M.nullifiers, me, v.unspent)
    BY <1>7, <2>1, <2>3, <2>4, ReceiveHolds
  <2> QED BY <2>5 DEF Deliver, DeliveredOf, es, x, w
<1>10. WalletsHold'
  <2> DEFINE d(me) == Deliver(ObserveNullifiers(wallets[me], me, all_nf), me, sent,
                              s.verdicts, Len(T))
  <2>1. \A me \in Wallets : d(me) \in WalletState
                            /\ HeldIn(M.leaves, M.nullifiers, me, d(me).unspent)
    BY <1>9
  <2>2. wallets' = [me \in Wallets |-> d(me)]
    BY <1>2
  <2> HIDE DEF d
  <2>3. wallets' \in [Wallets -> WalletState]
        /\ \A me \in Wallets : HeldIn(M.leaves, M.nullifiers, me, wallets'[me].unspent)
    BY <2>1, <2>2
  <2> QED BY <1>2, <2>3 DEF WalletsHold
<1>11. PoolWaits'
  <2>1. ASSUME NEW k \in DOMAIN rest PROVE Waiting(M.leaves, rest[k])
    <3>1. PICK j \in DOMAIN mempool : rest[k] = mempool[j]
      BY <1>3
    <3> DEFINE item == mempool[j]
    <3>2. Waiting(T, item)
      BY <1>1
    <3> HIDE DEF item
    <3>3. Funded(M.leaves, item.tx)
      BY <1>7, <3>2, FundedGrows DEF Waiting
    <3>4. Waiting(M.leaves, item)
      BY <3>2, <3>3 DEF Waiting
    <3> QED BY <3>1, <3>4 DEF item
  <2> QED BY <1>2, <1>3, <2>1 DEF PoolWaits, V
<1> QED BY <1>2, <1>7, <1>10, <1>11 DEF DInv

(* The invariant is inductive.                                             *)
LEMMA DInvHolds == Spec => []DInv
<1>1. DInv /\ [Next]_dvars => DInv'
  <2> SUFFICES ASSUME DInv, [Next]_dvars PROVE DInv'
    OBVIOUS
  <2>1. CASE UNCHANGED dvars
    BY <2>1 DEF dvars, DInv, WalletsHold, PoolWaits
  <2>2. CASE Next
    <3>1. CASE \E me, recipient \in Wallets, amount \in Amounts : Build(me, recipient, amount)
      BY <3>1, DInvBuild
    <3>2. CASE \E n \in 0..Len(mempool) : CheckpointFirst(n)
      BY <3>2, DInvCheckpoint
    <3>3. CASE Quiesce
      BY <3>3 DEF Quiesce, dvars, DInv, WalletsHold, PoolWaits
    <3> QED BY <2>2, <3>1, <3>2, <3>3 DEF Next
  <2> QED BY <2>1, <2>2
<1> QED BY <1>1, DInvInit, PTL DEF Spec

-----------------------------------------------------------------------------
(* What is unspent on the ledger, in the words of the properties.          *)
LEMMA UnspentIsLive == UnspentAt = Live(net.leaves, net.nullifiers)
BY DEF UnspentAt, Live, NfOf

(* NoPhantomFunds for every instance: a wallet never counts money it does  *)
(* not have (crates/node checkpoint, wallet try_receive and                *)
(* observe_nullifiers).                                                    *)
THEOREM NoPhantomFundsHolds == Spec => []NoPhantomFunds
<1>1. DInv => NoPhantomFunds
  <2> SUFFICES ASSUME DInv, NEW me \in Wallets
               PROVE  LET held == wallets[me].unspent
                      IN  /\ \A k \in DOMAIN held :
                                /\ held[k].position + 1 \in UnspentAt
                                /\ NoteOf(net.leaves[held[k].position + 1]) = held[k].note
                                /\ held[k].note.addr_tag = me
                          /\ \A j, k \in DOMAIN held :
                                held[j].position = held[k].position => j = k
    BY DEF NoPhantomFunds
  <2>1. HeldIn(net.leaves, net.nullifiers, me, wallets[me].unspent)
    BY DEF DInv, WalletsHold
  <2> QED BY <2>1, UnspentIsLive DEF HeldIn, Apart
<1> QED BY <1>1, DInvHolds, PTL

(* ShieldedValueConserved for every instance: whatever was built, delayed, *)
(* rejected or spent twice, the notes unspent on the ledger, rewards       *)
(* aside, are worth the genesis allocation (apply_checkpoint).             *)
THEOREM ShieldedValueConservedHolds == Spec => []ShieldedValueConserved
<1>1. DInv => ShieldedValueConserved
  <2> SUFFICES ASSUME DInv PROVE ShieldedValueConserved
    OBVIOUS
  <2> DEFINE T == net.leaves
             S == net.nullifiers
             A == Live(T, S)
             f == [p \in DOMAIN T |-> T[p].value]
             g == [p \in A |-> T[p].value]
  <2>1. GoodLeaves(T, S) /\ SumFunctionOnSet(f, A) = GenesisSupply
    BY DEF DInv, Sound, WorthOf
  <2>2. DOMAIN T = 1..Len(T) /\ Len(T) \in Nat /\ \A p \in DOMAIN T : T[p].value \in Nat
    BY <2>1, LeavesApart
  <2>3. A \in SUBSET DOMAIN T
    BY DEF Live
  <2> HIDE DEF T, S, A
  <2>4. IsFiniteSet(A)
    <3>1. IsFiniteSet(1..Len(T))
      BY <2>2, FS_Interval
    <3> QED BY <2>2, <2>3, <3>1, FS_Subset
  <2>5. \A p \in A : f[p] \in Nat /\ f[p] = g[p]
    BY <2>2, <2>3
  <2>6. DOMAIN g = A
    OBVIOUS
  <2> HIDE DEF f
  <2>7. SumFunctionOnSet(g, A) = GenesisSupply
    <3> HIDE DEF g
    <3> QED BY <2>1, <2>4, <2>5, SumSame
  <2>8. SumFunction(g) = SumFunctionOnSet(g, A)
    <3> HIDE DEF g
    <3> QED BY <2>6 DEF SumFunction
  <2>9. A = UnspentAt
    BY UnspentIsLive DEF A, T, S
  <2>10. g = [p \in UnspentAt |-> net.leaves[p].value]
    BY <2>9 DEF T
  <2> HIDE DEF g
  <2> QED BY <2>7, <2>8, <2>10 DEF ShieldedValueConserved
<1> QED BY <1>1, DInvHolds, PTL

(* SelectionComplete for every instance and every wallet state reached:    *)
(* select_inputs refuses only what no two notes cover, and picks distinct  *)
(* notes that cover the amount.                                            *)
THEOREM SelectionCompleteHolds == Spec => []SelectionComplete
<1>1. DInv => SelectionComplete
  <2> SUFFICES ASSUME DInv, NEW me \in Wallets, NEW amount \in 0..GenesisSupply
               PROVE  LET held == wallets[me].unspent
                          value(k) == held[k].note.value
                          coverable == \/ amount = 0
                                       \/ \E j, k \in DOMAIN held :
                                             (IF j = k THEN value(j)
                                              ELSE value(j) + value(k)) >= amount
                      IN  /\ Selects(held, amount) <=> coverable
                          /\ Selects(held, amount) =>
                                LET picked == SelectInputs(held, amount).picked
                                IN  /\ Len(picked) <= 2
                                    /\ SumFunction(Values(picked)) >= amount
                                    /\ \A j, k \in DOMAIN picked : picked[j] = picked[k] => j = k
    BY DEF SelectionComplete
  <2>1. wallets[me].unspent \in Seq(Record) /\ Apart(wallets[me].unspent)
    BY DEF DInv, WalletsHold, HeldIn
  <2>2. amount \in Nat
    BY GenesisAssumption
  <2> QED BY <2>1, <2>2, SelectionIsComplete
<1> QED BY <1>1, DInvHolds, PTL

(* The two outputs of a transfer, opened by me.                            *)
LEMMA PairOpens ==
  ASSUME NEW l1 \in Leaf, NEW l2 \in Leaf, NEW v, NEW w, NEW me,
         l1.idx = v, l2.idx = w
  PROVE  LET es == << EncryptNote(NoteOf(l1), AddressOf(v), 10),
                      EncryptNote(NoteOf(l2), AddressOf(w), 11) >>
             owner == <<v, w>>
             ls == <<l1, l2>>
         IN  Scanned(es, IncomingViewingKey(SpendingKey(me)))
               = [k \in {j \in 1..2 : owner[j] = me} |-> NoteOf(ls[k])]
<1> DEFINE e1 == EncryptNote(NoteOf(l1), AddressOf(v), 10)
           e2 == EncryptNote(NoteOf(l2), AddressOf(w), 11)
           es == <<e1, e2>>
           owner == <<v, w>>
           ls == <<l1, l2>>
           ivk == IncomingViewingKey(SpendingKey(me))
<1>1. /\ Opens(e1, ivk) <=> me = v
      /\ Decrypted(e1, ivk) = [value |-> NoteOf(l1).value, addr_tag |-> me, rho |-> NoteOf(l1).rho]
  BY OpensForAddressee
<1>2. /\ Opens(e2, ivk) <=> me = w
      /\ Decrypted(e2, ivk) = [value |-> NoteOf(l2).value, addr_tag |-> me, rho |-> NoteOf(l2).rho]
  BY OpensForAddressee
<1>3. me = v => Decrypted(e1, ivk) = NoteOf(l1)
  BY <1>1 DEF NoteOf
<1>4. me = w => Decrypted(e2, ivk) = NoteOf(l2)
  BY <1>2 DEF NoteOf
<1> HIDE DEF e1, e2, ivk
<1>5. /\ DOMAIN es = 1..2 /\ es[1] = e1 /\ es[2] = e2 /\ owner[1] = v /\ owner[2] = w
      /\ ls[1] = l1 /\ ls[2] = l2 /\ \A j \in 1..2 : j = 1 \/ j = 2
  OBVIOUS
<1> HIDE DEF es, owner, ls
<1>6. {j \in DOMAIN es : Opens(es[j], ivk)} = {j \in 1..2 : owner[j] = me}
  <2>1. \A j \in 1..2 : Opens(es[j], ivk) <=> owner[j] = me
    BY <1>1, <1>2, <1>5
  <2> QED BY <1>5, <2>1
<1>7. \A j \in 1..2 : owner[j] = me => Decrypted(es[j], ivk) = NoteOf(ls[j])
  BY <1>3, <1>4, <1>5
<1>8. [k \in {j \in DOMAIN es : Opens(es[j], ivk)} |-> Decrypted(es[k], ivk)]
        = [k \in {j \in 1..2 : owner[j] = me} |-> NoteOf(ls[k])]
  BY <1>6, <1>7
<1> QED BY <1>8 DEF Scanned, es, owner, ls, e1, e2, ivk

(* PaysTheAddressee for every instance: an output that waits opens for the *)
(* wallet it belongs to, as the note committed to, and for nobody else     *)
(* (wallet build_transfer, encryption encrypt_note and scan).              *)
THEOREM PaysTheAddresseeHolds == Spec => []PaysTheAddressee
<1>1. DInv => PaysTheAddressee
  <2> SUFFICES ASSUME DInv, NEW n \in DOMAIN mempool, NEW me \in Wallets
               PROVE  LET item == mempool[n]
                          owner == <<item.to, item.from>>
                      IN  Scanned(item.enc_outputs, IncomingViewingKey(SpendingKey(me)))
                            = [k \in {j \in 1..2 : owner[j] = me} |-> NoteOf(item.tx.commitments[k])]
    BY DEF PaysTheAddressee
  <2> DEFINE item == mempool[n]
             l1 == item.tx.commitments[1]
             l2 == item.tx.commitments[2]
             owner == <<item.to, item.from>>
             ls == <<l1, l2>>
             D == {j \in 1..2 : owner[j] = me}
  <2>1. Waiting(net.leaves, item)
    BY DEF DInv, PoolWaits
  <2>2. Funded(net.leaves, item.tx) /\ l1.idx = item.to /\ l2.idx = item.from
        /\ item.enc_outputs = << EncryptNote(NoteOf(l1), AddressOf(item.to), 10),
                                 EncryptNote(NoteOf(l2), AddressOf(item.from), 11) >>
    BY <2>1 DEF Waiting
  <2>3. l1 \in Leaf /\ l2 \in Leaf
    BY <2>2, FundedTyped
  <2> HIDE DEF l1, l2, item
  <2>4. Scanned(item.enc_outputs, IncomingViewingKey(SpendingKey(me)))
          = [k \in D |-> NoteOf(ls[k])]
    BY <2>2, <2>3, PairOpens
  <2>5. \A k \in 1..2 : ls[k] = item.tx.commitments[k]
    <3>1. \A k \in 1..2 : k = 1 \/ k = 2
      OBVIOUS
    <3> QED BY <3>1 DEF l1, l2
  <2>6. D \in SUBSET (1..2)
    OBVIOUS
  <2> HIDE DEF ls, D
  <2>7. [k \in D |-> NoteOf(ls[k])] = [k \in D |-> NoteOf(item.tx.commitments[k])]
    BY <2>5, <2>6
  <2> QED BY <2>4, <2>7 DEF item, D
<1> QED BY <1>1, DInvHolds, PTL

(* An output opens for a reader with the addressee's X25519 secret, KEM    *)
(* secret and tag, and for nobody who lacks one (derive_aead).             *)
LEMMA AllThreeOpen ==
  ASSUME NEW note, NEW w, NEW seed, NEW c, NEW q, NEW tag
  PROVE  Opens(EncryptNote(note, AddressOf(w), seed),
               [x25519_sk |-> X25519Secret(c), kem_dk |-> KemSecret(q), addr_tag |-> AddrTag(tag)])
           <=> c = w /\ q = w /\ tag = w
<1> DEFINE ct == EncryptNote(note, AddressOf(w), seed)
           rd == [x25519_sk |-> X25519Secret(c), kem_dk |-> KemSecret(q), addr_tag |-> AddrTag(tag)]
           eph == <<"ephemeral", seed>>
           xs(n) == X25519Secret(n)
           pk(n) == PublicKey(KemSecret(n))
           kct == [to |-> pk(w), m |-> seed]
           key == DeriveAead({eph, xs(w)}, <<"shared", pk(w), seed>>, PublicKey(eph), kct, w)
           mine == RecipientKey(ct, rd)
           ss == Decapsulate(rd, kct)
<1>1. /\ ct.epk = PublicKey(eph) /\ ct.mlkem_ct = kct /\ ct.aead_ct.key = key
      /\ ct.aead_ct.pt.version = 0
  BY DEF EncryptNote, AddressOf, DiffieHellman, KemEncapsulate, PublicKey, AddrTag,
         EncodePlaintext, NOTE_VERSION
<1>2. DiffieHellman(rd.x25519_sk, PublicKey(eph)) = {xs(c), eph}
  BY DEF DiffieHellman, PublicKey
<1>3. /\ mine = DeriveAead({xs(c), eph}, ss, PublicKey(eph), kct, tag)
  BY <1>1, <1>2 DEF RecipientKey, AddrTag
<1>4. /\ mine.x25519_ss = {xs(c), eph} /\ mine.mlkem_ss = ss /\ mine.memo_tag = tag
      /\ key.x25519_ss = {eph, xs(w)} /\ key.mlkem_ss = <<"shared", pk(w), seed>>
      /\ key.memo_tag = w
  BY <1>3 DEF DeriveAead
<1>5. {xs(c), eph} = {eph, xs(w)} => c = w
  <2>1. \A a, b, e : {a, e} = {e, b} => a = b
    OBVIOUS
  <2>2. xs(c) = xs(w) => c = w
    BY DEF X25519Secret
  <2> QED BY ONLY <2>1, <2>2
<1>6. ss[2] = pk(q) /\ (q = w => ss = <<"shared", pk(w), seed>>)
  BY DEF Decapsulate
<1>7. pk(q) = pk(w) => q = w
  BY DEF PublicKey, KemSecret
<1>8. mine = key => c = w /\ q = w /\ tag = w
  <2> SUFFICES ASSUME mine = key PROVE c = w /\ q = w /\ tag = w
    OBVIOUS
  <2> HIDE DEF mine, key, ss
  <2>1. {xs(c), eph} = {eph, xs(w)} /\ ss = <<"shared", pk(w), seed>> /\ tag = w
    BY <1>4
  <2>2. ss[2] = pk(w)
    BY <2>1
  <2> QED BY <1>5, <1>6, <1>7, <2>1, <2>2
<1>9. c = w /\ q = w /\ tag = w => mine = key
  <2> SUFFICES ASSUME c = w, q = w, tag = w PROVE mine = key
    OBVIOUS
  <2>1. {xs(c), eph} = {eph, xs(w)} /\ ss = <<"shared", pk(w), seed>>
    BY <1>6
  <2> HIDE DEF ss
  <2> QED BY <1>3, <2>1
<1> HIDE DEF mine, key
<1>10. Opens(ct, rd) <=> mine = key
  BY <1>1 DEF Opens, mine, NOTE_VERSION
<1> QED BY <1>8, <1>9, <1>10

(* BothLegsNeeded for every instance: an output that waits opens for a     *)
(* reader with both secrets of its owner and its tag, and with nothing     *)
(* less (encryption derive_aead, try_decrypt).                             *)
THEOREM BothLegsNeededHolds == Spec => []BothLegsNeeded
<1>1. DInv => BothLegsNeeded
  <2> SUFFICES ASSUME DInv, NEW n \in DOMAIN mempool, NEW k \in 1..2, NEW c \in Wallets,
                      NEW q \in Wallets, NEW tag \in Wallets
               PROVE  LET owner == <<mempool[n].to, mempool[n].from>>[k]
                          reader == [x25519_sk |-> X25519Secret(c), kem_dk |-> KemSecret(q),
                                     addr_tag |-> AddrTag(tag)]
                      IN  Opens(mempool[n].enc_outputs[k], reader)
                            <=> c = owner /\ q = owner /\ tag = owner
    BY DEF BothLegsNeeded
  <2> DEFINE item == mempool[n]
             owner == <<item.to, item.from>>[k]
  <2>1. Waiting(net.leaves, item)
    BY DEF DInv, PoolWaits
  <2>2. k = 1 \/ k = 2
    OBVIOUS
  <2>3. \E note, seed : item.enc_outputs[k] = EncryptNote(note, AddressOf(owner), seed)
    BY <2>1, <2>2 DEF Waiting
  <2> HIDE DEF item, owner
  <2>4. Opens(item.enc_outputs[k], [x25519_sk |-> X25519Secret(c), kem_dk |-> KemSecret(q),
                                    addr_tag |-> AddrTag(tag)])
           <=> c = owner /\ q = owner /\ tag = owner
    BY <2>3, AllThreeOpen
  <2> QED BY <2>4 DEF item, owner
<1> QED BY <1>1, DInvHolds, PTL

(* The text of an address decodes to it.                                   *)
LEMMA TextDecodes ==
  ASSUME NEW w
  PROVE  LET text == EncodeAddress(AddressOf(w))
         IN  DecodeAddress(text) = [address |-> AddressOf(w)]
<1> DEFINE text == EncodeAddress(AddressOf(w))
           a == [of |-> <<"x25519", w>>]
           b == [of |-> <<"kem", w>>]
           p == <<0, a, b, w>>
           d == <<0, a, b, w, p>>
<1>1. text = [prefix |-> "unk1", data |-> d]
      /\ AddressOf(w) = [x25519_pk |-> a, kem_pk |-> b, addr_tag |-> w]
  BY DEF EncodeAddress, Payload, AddressOf, PublicKey, X25519Secret, KemSecret, AddrTag,
         ADDRESS_HRP, ADDRESS_VERSION
<1> HIDE DEF text
<1>2. /\ Len(d) = 5 /\ d[1] = 0 /\ d[2] = a /\ d[3] = b /\ d[4] = w /\ d[5] = p
      /\ d \in Seq({0, a, b, w, p})
  OBVIOUS
<1>3. SubSeq(d, 1, 4) = p
  <2> DEFINE V == {0, a, b, w, p}
             q == SubSeq(d, 1, 4)
  <2>1. \A i \in 1..4 : d[i] \in V
    BY <1>2
  <2>2. q \in Seq(V) /\ Len(q) = 4 /\ \A i \in 1..4 : q[i] = d[i]
    <3> HIDE DEF d, V
    <3>1. q \in Seq(V) /\ Len(q) = (IF 1 <= 4 THEN 4 - 1 + 1 ELSE 0)
          /\ \A i \in 1..(4 - 1 + 1) : q[i] = d[1 + i - 1]
      <4>1. 1 \in Int /\ 4 \in Int
        OBVIOUS
      <4> QED BY <2>1, <4>1, SubSeqProperties
    <3>2. \A i \in 1..4 : i \in 1..(4 - 1 + 1) /\ 1 + i - 1 = i
      OBVIOUS
    <3> HIDE DEF q
    <3>3. Len(q) = 4
      BY <3>1
    <3> QED BY <3>1, <3>2, <3>3
  <2>3. p \in Seq(V) /\ Len(p) = 4 /\ \A i \in 1..4 : p[i] = d[i]
    OBVIOUS
  <2> HIDE DEF p, q, d, V
  <2>4. q = p
    BY <2>2, <2>3
  <2> QED BY <2>4 DEF q
<1>4. text.prefix = "unk1" /\ text.data = d
  BY <1>1
<1>5. DecodeAddress(text) = [address |-> [x25519_pk |-> a, kem_pk |-> b, addr_tag |-> w]]
  <2> HIDE DEF d, a, b, p
  <2> QED BY <1>2, <1>3, <1>4 DEF DecodeAddress, ADDRESS_HRP, ADDRESS_VERSION
<1> QED BY <1>1, <1>5 DEF text

(* NoNoteLostToATypo for every instance: what a text decodes to is the     *)
(* recipient's address or nothing, and a note sent on to it arrives (keys  *)
(* Address::decode, encryption encrypt_note and scan).                     *)
THEOREM NoNoteLostToATypoHolds == Spec => []NoNoteLostToATypo
<1>1. DInv => NoNoteLostToATypo
  <2> SUFFICES ASSUME DInv, NEW me \in Wallets, NEW recipient \in Wallets,
                      NEW k \in DOMAIN wallets[me].unspent
               PROVE  LET text == EncodeAddress(AddressOf(recipient))
                          sent(to) == [wallets[me].unspent[k].note
                                          EXCEPT !.addr_tag = to.addr_tag]
                      IN  /\ "address" \in DOMAIN DecodeAddress(text)
                          /\ \A typed \in {text} \cup Mistyped(text) :
                                LET decoded == DecodeAddress(typed)
                                IN  "address" \in DOMAIN decoded =>
                                      \A reader \in Wallets :
                                         LET enc == EncryptNote(sent(decoded.address),
                                                                decoded.address, 10)
                                             found == Scanned(<<enc>>, IncomingViewingKey(reader))
                                         IN  found = IF reader = recipient
                                                     THEN <<sent(AddressOf(recipient))>> ELSE << >>
    BY DEF NoNoteLostToATypo
  <2> DEFINE text == EncodeAddress(AddressOf(recipient))
             note == wallets[me].unspent[k].note
             moved == [note EXCEPT !.addr_tag = AddressOf(recipient).addr_tag]
  <2>1. DecodeAddress(text) = [address |-> AddressOf(recipient)]
    BY TextDecodes
  <2> HIDE DEF text
  <2>2. "address" \in DOMAIN DecodeAddress(text)
        /\ DecodeAddress(text).address = AddressOf(recipient)
    BY <2>1
  <2>3. note \in Note
    BY RecordTyped DEF DInv, WalletsHold, HeldIn
  <2>4. moved \in Note /\ moved.addr_tag = recipient
    <3>1. AddressOf(recipient).addr_tag = recipient
      BY DEF AddressOf, AddrTag
    <3> HIDE DEF note
    <3> QED BY <2>3, <3>1 DEF Note
  <2>5. ASSUME NEW typed \in {text} \cup Mistyped(text),
               "address" \in DOMAIN DecodeAddress(typed)
        PROVE  typed = text
    BY <2>5, TyposAreRefused DEF text
  <2> HIDE DEF moved
  <2>6. ASSUME NEW reader \in Wallets
        PROVE  Scanned(<<EncryptNote(moved, AddressOf(recipient), 10)>>,
                       IncomingViewingKey(reader))
                 = IF reader = recipient THEN <<moved>> ELSE << >>
    BY <2>4, ScannedOne
  <2> QED BY <2>2, <2>5, <2>6 DEF moved, text
<1> QED BY <1>1, DInvHolds, PTL

-----------------------------------------------------------------------------
(* What an input is worth: nothing, or an unspent leaf.                    *)
LEMMA EnteredWorth ==
  ASSUME NEW T, NEW S, GoodLeaves(T, S), NEW me \in Wallets, NEW input,
         Entered(T, S, me, input)
  PROVE  \/ input.note.value = 0
         \/ \E q \in Live(T, S) : /\ input.note.value = T[q].value
                                  /\ Nullifier(input.note, me) = NfOf(T[q])
<1>1. CASE input.is_dummy
  BY <1>1 DEF Entered, DummyNote
<1>2. CASE ~input.is_dummy
  <2>1. PICK p \in Nat : /\ p + 1 \in Live(T, S) /\ input.note = NoteOf(T[p + 1])
                         /\ input.note.addr_tag = me
    BY <1>2 DEF Entered
  <2>2. input.note.value = T[p + 1].value /\ T[p + 1].idx = me
    BY <2>1 DEF NoteOf
  <2>3. Nullifier(input.note, me) = NfOf(T[p + 1])
    BY <2>1, <2>2 DEF NfOf, OwnerOf
  <2> QED BY <2>1, <2>2, <2>3
<1> QED BY <1>1, <1>2

(* Two inputs with different nullifiers are worth no more than everything  *)
(* that is unspent.                                                        *)
LEMMA InputsWithin ==
  ASSUME NEW T, NEW S, Sound(T, S), NEW me \in Wallets,
         NEW a, Entered(T, S, me, a), NEW b, Entered(T, S, me, b),
         Nullifier(a.note, me) # Nullifier(b.note, me)
  PROVE  /\ a.note.value \in Nat /\ b.note.value \in Nat
         /\ a.note.value + b.note.value <= GenesisSupply
<1> DEFINE f == [p \in DOMAIN T |-> T[p].value]
           A == Live(T, S)
           x == a.note.value
           y == b.note.value
<1>1. GoodLeaves(T, S) /\ SumFunctionOnSet(f, A) = GenesisSupply
  BY DEF Sound, WorthOf
<1>2. x \in Nat /\ y \in Nat
  BY <1>1, EnteredSpends
<1>3. DOMAIN T = 1..Len(T) /\ Len(T) \in Nat /\ \A p \in DOMAIN T : T[p].value \in Nat
  BY <1>1, LeavesApart
<1>4. A \in SUBSET DOMAIN T
  BY DEF Live
<1>5. /\ x = 0 \/ \E q \in A : x = T[q].value /\ Nullifier(a.note, me) = NfOf(T[q])
      /\ y = 0 \/ \E q \in A : y = T[q].value /\ Nullifier(b.note, me) = NfOf(T[q])
  BY <1>1, EnteredWorth
<1> HIDE DEF A, x, y
<1>6. IsFiniteSet(A) /\ \A q \in A : f[q] \in Nat /\ f[q] = T[q].value
  <2>1. IsFiniteSet(1..Len(T))
    BY <1>3, FS_Interval
  <2>2. IsFiniteSet(A)
    BY <1>3, <1>4, <2>1, FS_Subset
  <2> QED BY <1>3, <1>4, <2>2
<1> HIDE DEF f
<1>7. GenesisSupply \in Nat
  BY GenesisAssumption
<1>8. ASSUME NEW q \in A PROVE f[q] <= GenesisSupply
  <2>1. SumFunctionOnSet(f, {q}) = f[q]
    BY <1>6, SumFew
  <2>2. {q} \in SUBSET A
    OBVIOUS
  <2>3. SumFunctionOnSet(f, {q}) <= SumFunctionOnSet(f, A)
    BY <1>6, <2>2, SumPart
  <2> QED BY <1>1, <2>1, <2>3
<1>9. ASSUME NEW q \in A, NEW r \in A, q # r PROVE f[q] + f[r] <= GenesisSupply
  <2>1. SumFunctionOnSet(f, {q, r}) = f[q] + f[r]
    BY <1>6, <1>9, SumFew
  <2>2. {q, r} \in SUBSET A
    OBVIOUS
  <2>3. SumFunctionOnSet(f, {q, r}) <= SumFunctionOnSet(f, A)
    BY <1>6, <2>2, SumPart
  <2> QED BY <1>1, <2>1, <2>3
<1>10. CASE x = 0 /\ y = 0
  BY <1>2, <1>7, <1>10 DEF x, y
<1>11. CASE x = 0 /\ y # 0
  <2>1. y <= GenesisSupply
    BY <1>5, <1>6, <1>8, <1>11
  <2> QED BY <1>2, <1>7, <1>11, <2>1 DEF x, y
<1>12. CASE x # 0 /\ y = 0
  <2>1. x <= GenesisSupply
    BY <1>5, <1>6, <1>8, <1>12
  <2> QED BY <1>2, <1>7, <1>12, <2>1 DEF x, y
<1>13. CASE x # 0 /\ y # 0
  <2>1. PICK q \in A : x = T[q].value /\ Nullifier(a.note, me) = NfOf(T[q])
    BY <1>5, <1>13
  <2>2. PICK r \in A : y = T[r].value /\ Nullifier(b.note, me) = NfOf(T[r])
    BY <1>5, <1>13
  <2>3. q # r
    BY <2>1, <2>2
  <2>4. x + y <= GenesisSupply
    BY <1>6, <1>9, <2>1, <2>2, <2>3
  <2> QED BY <1>2, <2>4 DEF x, y
<1> QED BY <1>10, <1>11, <1>12, <1>13

(* A leaf of the tree is the commitment of its note.                       *)
LEMMA LeafCommits ==
  ASSUME NEW l \in Leaf, l.source = "output"
  PROVE  Commitment(NoteOf(l)) = l
<1>1. l = [source |-> l.source, id |-> l.id, idx |-> l.idx, value |-> l.value]
  BY DEF Leaf
<1> QED BY <1>1 DEF Commitment, NoteOf

(* An input passes its checks.                                             *)
LEMMA InputPasses ==
  ASSUME NEW T, NEW S, GoodLeaves(T, S), Len(T) <= Capacity, NEW me \in Wallets,
         NEW w, NEW pi, NEW k, Entered(T, S, me, w.inputs[k]),
         w.inputs[k].note.value < MAX_MONEY,
         w.spender_nk = me, w.spender_addr_tag = me, pi.anchor.root = T,
         pi.nullifiers[k] = Nullifier(w.inputs[k].note, me)
  PROVE  InputChecks(w, pi, k) = "Ok"
<1> DEFINE in == w.inputs[k]
           note == in.note
<1>1. note.value \in Nat /\ MAX_MONEY \in Nat /\ ~(note.value >= MAX_MONEY)
  <2>1. note.value \in Nat
    BY EnteredSpends
  <2> QED BY <2>1, MoneyAssumption
<1>2. CASE in.is_dummy
  <2>1. note.value = 0
    BY <1>2 DEF Entered, DummyNote
  <2> QED BY <1>1, <1>2, <2>1 DEF InputChecks
<1>3. CASE ~in.is_dummy
  <2>1. PICK p \in Nat : /\ p + 1 \in Live(T, S) /\ note = NoteOf(T[p + 1])
                         /\ note.addr_tag = me /\ in.path = Witness(T, p)
    BY <1>3 DEF Entered
  <2>2. p + 1 \in DOMAIN T /\ T[p + 1].source = "output"
    BY <2>1 DEF Live
  <2>3. T \in Seq(Leaf) /\ DOMAIN T = 1..Len(T) /\ Len(T) \in Nat /\ T[p + 1] \in Leaf
    BY <2>2, LeavesApart DEF GoodLeaves
  <2>4. p < Len(T) /\ p < Capacity
    <3>1. Capacity \in Nat
      BY DepthAssumption, PowerPositive DEF Capacity
    <3> QED BY <2>2, <2>3, <3>1
  <2>5. Commitment(note) = T[p + 1]
    BY <2>1, <2>2, <2>3, LeafCommits
  <2>6. VerifyPath(T[p + 1], Witness(T, p), MerkleRoot(T))
    <3> DEFINE V == Leaf
    <3>1. T \in Seq(V)
      BY <2>3
    <3> HIDE DEF V
    <3> QED BY <2>4, <3>1, PathKept
  <2>7. VerifyPath(Commitment(note), in.path, MerkleRoot(pi.anchor.root))
    BY <2>1, <2>5, <2>6
  <2> QED BY <1>1, <1>3, <2>1, <2>7 DEF InputChecks
<1> QED BY <1>2, <1>3

(* An output passes its checks.                                            *)
LEMMA OutputPasses ==
  ASSUME NEW w, NEW pi, NEW k, w.outputs[k].value < MAX_MONEY, w.outputs[k].value \in Nat,
         pi.commitments[k] = Commitment(w.outputs[k]),
         w.outputs[k].rho = RhoTransfer(pi.nullifiers[1], k - 1)
  PROVE  OutputChecks(w, pi, k) = "Ok"
<1>1. MAX_MONEY \in Nat
  BY MoneyAssumption
<1>2. ~(w.outputs[k].value >= MAX_MONEY)
  BY <1>1
<1> QED BY <1>2 DEF OutputChecks

(* All checks of a statement passed.                                       *)
LEMMA StatementPasses ==
  ASSUME NEW w, NEW pi, Len(w.inputs) = 2, Len(w.outputs) = 2, Len(pi.nullifiers) = 2,
         Len(pi.commitments) = 2, pi.binding_digest = w.binding_digest,
         InputChecks(w, pi, 1) = "Ok", InputChecks(w, pi, 2) = "Ok",
         OutputChecks(w, pi, 1) = "Ok", OutputChecks(w, pi, 2) = "Ok",
         BalanceChecks(w) = "Ok"
  PROVE  CheckSpendStatement(w, pi) = "Ok"
<1> DEFINE results == <<"Ok", "Ok", "Ok", "Ok", "Ok">>
<1>1. \A k \in DOMAIN results : results[k] = "Ok"
  OBVIOUS
<1>2. FirstFailed(results) = "Ok"
  <2> HIDE DEF results
  <2> QED BY <1>1 DEF FirstFailed
<1>3. CheckSpendStatement(w, pi)
        = FirstFailed(<<InputChecks(w, pi, 1), InputChecks(w, pi, 2),
                        OutputChecks(w, pi, 1), OutputChecks(w, pi, 2), BalanceChecks(w)>>)
  BY DEF CheckSpendStatement
<1> QED BY <1>2, <1>3

(* The canonical inputs: the same two, in the order of the nullifiers that *)
(* are on the wire.                                                        *)
LEMMA CanonicalIs ==
  ASSUME NEW T, NEW S, GoodLeaves(T, S), NEW me \in Wallets, NEW in, DOMAIN in = 1..2,
         in = [k \in 1..2 |-> in[k]],
         Entered(T, S, me, in[1]), Entered(T, S, me, in[2]),
         Nullifier(in[1].note, me) # Nullifier(in[2].note, me)
  PROVE  LET c == Canonicalize(in, me)
             nf == SortedNullifiers(in, me)
         IN  /\ DOMAIN c = 1..2 /\ Len(c) = 2 /\ nf \in [1..2 -> Nat] /\ Len(nf) = 2
             /\ nf[1] < nf[2]
             /\ \A k \in 1..2 : Entered(T, S, me, c[k]) /\ nf[k] = Nullifier(c[k].note, me)
             /\ c[1].note.value + c[2].note.value = in[1].note.value + in[2].note.value
<1> DEFINE a == Nullifier(in[1].note, me)
           b == Nullifier(in[2].note, me)
           c == Canonicalize(in, me)
           nf == SortedNullifiers(in, me)
           V == {in[1], in[2]}
<1>1. /\ a \in Nat /\ b \in Nat /\ in[1].note.value \in Nat /\ in[2].note.value \in Nat
      /\ a # b
  BY EnteredSpends
<1>2. c = (IF b < a THEN <<in[2], in[1]>> ELSE in) /\ nf = IF b < a THEN <<b, a>> ELSE <<a, b>>
  BY DEF Canonicalize, SortedNullifiers
<1>3. \A k \in 1..2 : k = 1 \/ k = 2
  OBVIOUS
<1> HIDE DEF c, nf
<1>4. nf \in [1..2 -> Nat] /\ Len(nf) = 2 /\ nf[1] < nf[2]
  <2> HIDE DEF a, b
  <2>1. CASE b < a
    BY <1>1, <1>2, <2>1
  <2>2. CASE ~(b < a)
    <3>1. a < b
      BY <1>1, <2>2
    <3> QED BY <1>1, <1>2, <2>2, <3>1
  <2> QED BY <2>1, <2>2
<1>5. CASE b < a
  <2>1. c = <<in[2], in[1]>> /\ nf = <<b, a>>
    BY <1>2, <1>5
  <2>2. DOMAIN c = 1..2 /\ Len(c) = 2 /\ c[1] = in[2] /\ c[2] = in[1] /\ nf[1] = b /\ nf[2] = a
    BY <2>1
  <2>3. c[1].note.value + c[2].note.value = in[1].note.value + in[2].note.value
    BY <1>1, <2>2
  <2>4. \A k \in 1..2 : Entered(T, S, me, c[k]) /\ nf[k] = Nullifier(c[k].note, me)
    BY <1>3, <2>2
  <2> QED BY <1>4, <2>2, <2>3, <2>4 DEF c, nf
<1>6. CASE ~(b < a)
  <2>1. c = in /\ nf = <<a, b>>
    BY <1>2, <1>6
  <2>2. nf[1] = a /\ nf[2] = b
    BY <2>1
  <2>3. Len(in) = 2
    <3>1. in \in [1..2 -> V]
      <4>1. \A k \in 1..2 : in[k] \in V
        BY <1>3
      <4> HIDE DEF V
      <4> QED BY <4>1
    <3>2. 2 \in Nat
      OBVIOUS
    <3> QED BY <3>1, <3>2, FcnIsSeq
  <2>4. \A k \in 1..2 : Entered(T, S, me, c[k]) /\ nf[k] = Nullifier(c[k].note, me)
    BY <1>3, <2>1, <2>2
  <2> QED BY <1>4, <2>1, <2>3, <2>4 DEF c, nf
<1> QED BY <1>5, <1>6

(* A transfer built on a selection is proved and passes validation.        *)
LEMMA BuiltVerifies ==
  ASSUME GenesisSupply < MAX_MONEY,
         NEW T, NEW S, Sound(T, S), Len(T) <= Capacity,
         NEW me \in Wallets, NEW recipient \in Wallets,
         NEW w, HeldIn(T, S, me, w.unspent), NEW amount \in Nat, Selects(w.unspent, amount),
         NEW anchor, anchor.root = T
  PROVE  LET b == Built(w, me, recipient, amount, anchor, T)
         IN  b.proved /\ ValidateStateless(b.tx)
<1> DEFINE in == Inputs(SelectInputs(w.unspent, amount).picked, T)
           nf == SortedNullifiers(in, me)
           out == TransferOutputs(me, recipient, amount, in)
           cm == [k \in DOMAIN out |-> Commitment(out[k])]
           digest == [anchor |-> anchor, nullifiers |-> nf, commitments |-> cm,
                      enc_outputs |-> EncryptOutputs(me, recipient, out)]
           W == [spender_nk |-> me, spender_addr_tag |-> me, inputs |-> in,
                 outputs |-> out, mint_value |-> 0, binding_digest |-> digest]
           C == Canonicalize(in, me)
           c == [W EXCEPT !.inputs = Canonicalize(@, me)]
           pi == PublicInputs(c, anchor)
           wire == [anchor |-> anchor, nullifiers |-> nf, commitments |-> cm,
                    binding_digest |-> digest, mint_value |-> 0]
           b == Built(w, me, recipient, amount, anchor, T)
           v1 == in[1].note.value
           v2 == in[2].note.value
<1>1. GoodLeaves(T, S)
  BY DEF Sound
<1>2. /\ Entered(T, S, me, in[1]) /\ Entered(T, S, me, in[2]) /\ v1 + v2 >= amount
      /\ Nullifier(in[1].note, me) # Nullifier(in[2].note, me)
  BY <1>1, InputsEnter
<1>3. DOMAIN in = 1..2 /\ in = [k \in 1..2 |-> in[k]]
  BY DEF Inputs
<1>4. /\ b.tx.nullifiers = nf /\ b.tx.proof_sized = TRUE /\ b.tx.antispam.bound = TRUE
      /\ b.tx.proof_ok = (pi = wire) /\ b.proved = (CheckSpendStatement(c, pi) = "Ok")
  BY DEF Built, Prove, Nk, AddrTag
<1>5. out = << [value |-> amount, addr_tag |-> recipient, rho |-> RhoTransfer(nf[1], 0)],
               [value |-> v1 + v2 - amount, addr_tag |-> me, rho |-> RhoTransfer(nf[1], 1)] >>
  BY DEF TransferOutputs, Nk, AddrTag, AddressOf
<1> HIDE DEF in, b, v1, v2
<1>6. v1 \in Nat /\ v2 \in Nat /\ v1 + v2 <= GenesisSupply
  BY <1>2, InputsWithin DEF v1, v2
<1>7. /\ DOMAIN C = 1..2 /\ Len(C) = 2 /\ nf \in [1..2 -> Nat] /\ Len(nf) = 2 /\ nf[1] < nf[2]
      /\ \A k \in 1..2 : Entered(T, S, me, C[k]) /\ nf[k] = Nullifier(C[k].note, me)
      /\ C[1].note.value + C[2].note.value = v1 + v2
  BY <1>1, <1>2, <1>3, CanonicalIs DEF v1, v2
<1>8. /\ c.inputs = C /\ c.outputs = out /\ c.mint_value = 0 /\ c.binding_digest = digest
      /\ c.spender_nk = me /\ c.spender_addr_tag = me
  OBVIOUS
<1> HIDE DEF out, nf, digest, C, W
<1>9. /\ DOMAIN out = 1..2 /\ Len(out) = 2
      /\ out[1].value = amount /\ out[1].rho = RhoTransfer(nf[1], 0)
      /\ out[2].value = v1 + v2 - amount /\ out[2].rho = RhoTransfer(nf[1], 1)
  BY <1>5
<1> HIDE DEF c
<1>10. pi = [anchor |-> anchor,
             nullifiers |-> [k \in 1..2 |-> Nullifier(C[k].note, me)],
             commitments |-> [k \in 1..2 |-> Commitment(out[k])],
             binding_digest |-> digest, mint_value |-> 0]
  BY <1>7, <1>8, <1>9 DEF PublicInputs
<1>11. nf = [k \in 1..2 |-> Nullifier(C[k].note, me)]
  BY <1>7
<1>12. pi = wire /\ cm = [k \in 1..2 |-> Commitment(out[k])]
  BY <1>9, <1>10, <1>11
<1> HIDE DEF pi, wire
<1>13. /\ pi.anchor.root = T /\ pi.nullifiers = nf /\ pi.binding_digest = digest
       /\ pi.commitments = [k \in 1..2 |-> Commitment(out[k])]
  BY <1>10, <1>11
<1>14. Len(pi.commitments) = 2
  <2> DEFINE f == [k \in 1..2 |-> Commitment(out[k])]
             V == {f[k] : k \in 1..2}
  <2>1. f \in [1..2 -> V] /\ 2 \in Nat
    OBVIOUS
  <2> HIDE DEF V
  <2>2. Len(f) = 2
    BY <2>1, FcnIsSeq
  <2> QED BY <1>13, <2>2
<1>15. 1 \in 1..2 /\ 2 \in 1..2 /\ 1 - 1 = 0 /\ 2 - 1 = 1
  OBVIOUS
<1>16. C[1].note.value \in Nat /\ C[2].note.value \in Nat
  BY <1>1, <1>7, <1>15, EnteredSpends
<1>17. /\ C[1].note.value < MAX_MONEY /\ C[2].note.value < MAX_MONEY
       /\ amount < MAX_MONEY /\ v1 + v2 - amount < MAX_MONEY /\ v1 + v2 - amount \in Nat
       /\ amount + (v1 + v2 - amount) = v1 + v2
  <2> DEFINE x1 == C[1].note.value
             x2 == C[2].note.value
  <2>1. x1 \in Nat /\ x2 \in Nat /\ x1 + x2 = v1 + v2
    BY <1>7, <1>16
  <2>2. MAX_MONEY \in Nat /\ GenesisSupply \in Nat /\ GenesisSupply < MAX_MONEY
        /\ amount \in Nat
    BY MoneyAssumption, GenesisAssumption
  <2> HIDE DEF x1, x2
  <2>3. /\ x1 < MAX_MONEY /\ x2 < MAX_MONEY
        /\ amount < MAX_MONEY /\ v1 + v2 - amount < MAX_MONEY /\ v1 + v2 - amount \in Nat
        /\ amount + (v1 + v2 - amount) = v1 + v2
    BY ONLY <1>2, <1>6, <2>1, <2>2
  <2> QED BY <2>3 DEF x1, x2
<1>18. InputChecks(c, pi, 1) = "Ok" /\ InputChecks(c, pi, 2) = "Ok"
  <2>1. /\ Entered(T, S, me, c.inputs[1]) /\ c.inputs[1].note.value < MAX_MONEY
        /\ pi.nullifiers[1] = Nullifier(c.inputs[1].note, me)
        /\ Entered(T, S, me, c.inputs[2]) /\ c.inputs[2].note.value < MAX_MONEY
        /\ pi.nullifiers[2] = Nullifier(c.inputs[2].note, me)
    BY <1>7, <1>8, <1>13, <1>15, <1>17
  <2> QED BY <1>1, <1>8, <1>13, <2>1, InputPasses
<1>19. OutputChecks(c, pi, 1) = "Ok" /\ OutputChecks(c, pi, 2) = "Ok"
  <2>1. /\ c.outputs[1].value < MAX_MONEY /\ c.outputs[1].value \in Nat
        /\ c.outputs[2].value < MAX_MONEY /\ c.outputs[2].value \in Nat
    BY <1>8, <1>9, <1>17
  <2>2. /\ pi.commitments[1] = Commitment(c.outputs[1])
        /\ pi.commitments[2] = Commitment(c.outputs[2])
    BY <1>8, <1>13, <1>15
  <2>3. /\ c.outputs[1].rho = RhoTransfer(pi.nullifiers[1], 1 - 1)
        /\ c.outputs[2].rho = RhoTransfer(pi.nullifiers[1], 2 - 1)
    BY <1>8, <1>9, <1>13, <1>15
  <2> QED BY <2>1, <2>2, <2>3, OutputPasses
<1>20. BalanceChecks(c) = "Ok"
  <2>1. /\ c.inputs[1].note.value + c.inputs[2].note.value + c.mint_value
             = c.outputs[1].value + c.outputs[2].value
        /\ ~(c.mint_value >= MAX_MONEY)
    <3>1. C[1].note.value + C[2].note.value + 0 = amount + (v1 + v2 - amount)
          /\ ~(0 >= MAX_MONEY)
      BY <1>6, <1>7, <1>16, <1>17, MoneyAssumption
    <3> QED BY <1>8, <1>9, <3>1
  <2> QED BY <2>1 DEF BalanceChecks
<1>21. CheckSpendStatement(c, pi) = "Ok"
  BY <1>7, <1>8, <1>9, <1>13, <1>14, <1>18, <1>19, <1>20, StatementPasses
<1>22. b.proved /\ b.tx.proof_ok /\ b.tx.proof_sized /\ b.tx.antispam.bound
  BY <1>4, <1>12, <1>21
<1>23. b.tx.nullifiers[1] < b.tx.nullifiers[2]
  BY <1>4, <1>7
<1> QED BY <1>22, <1>23 DEF ValidateStateless, b

(* FundedTransfersVerify for every instance whose money supply is within   *)
(* the range check (C6), while the tree has room for its leaves: a wallet  *)
(* whose notes cover an amount can transfer it on the current anchor       *)
(* (wallet build_transfer, prover-dev prove, tx validate_stateless).       *)
THEOREM FundedTransfersVerifyHolds ==
  ASSUME GenesisSupply < MAX_MONEY
  PROVE  Spec => [](Len(net.leaves) <= Capacity => FundedTransfersVerify)
<1>1. DInv => (Len(net.leaves) <= Capacity => FundedTransfersVerify)
  <2> SUFFICES ASSUME DInv, Len(net.leaves) <= Capacity,
                      NEW me \in Wallets, NEW recipient \in Wallets, NEW amount \in Amounts,
                      Selects(wallets[me].unspent, amount)
               PROVE  LET built == Built(wallets[me], me, recipient, amount, current_anchor,
                                         net.leaves)
                      IN  built.proved /\ ValidateStateless(built.tx)
    BY DEF FundedTransfersVerify
  <2>1. Sound(net.leaves, net.nullifiers)
        /\ HeldIn(net.leaves, net.nullifiers, me, wallets[me].unspent)
    BY DEF DInv, WalletsHold
  <2>2. amount \in Nat
    BY AmountsAssumption
  <2>3. current_anchor.root = net.leaves
    BY DEF current_anchor
  <2> HIDE DEF current_anchor
  <2> QED BY <2>1, <2>2, <2>3, BuiltVerifies
<1> QED BY <1>1, DInvHolds, PTL
=============================================================================
