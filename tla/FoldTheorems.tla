---------------------------- MODULE FoldTheorems ----------------------------
(***************************************************************************)
(* Induction over naturals and over finite sets, stated for sets instead   *)
(* of predicates, recursion on the subsets of a finite set, what the sums  *)
(* and folds of the community modules compute, and what the paths of the   *)
(* note commitment tree (Tree) show, whatever its depth.                   *)
(***************************************************************************)
EXTENDS Tree, Integers, SequencesExt, FiniteSetTheorems, WellFoundedInduction,
        SequenceTheorems, TLAPS

(* A set that has 0 and, with a number, its successor, has every natural.  *)
(* Otherwise a least number would be missing.                              *)
LEMMA NatInductionSet ==
  ASSUME NEW S \in SUBSET Nat, 0 \in S, \A n \in S : n + 1 \in S
  PROVE  S = Nat
<1> DEFINE R == {ss \in Nat \X Nat : ss[1] < ss[2]}
<1>1. IsWellFoundedOn(R, Nat)
  BY NatLessThanWellFounded DEF OpToRel
<1>2. SUFFICES ASSUME Nat \ S # {} PROVE FALSE
  OBVIOUS
<1>3. \A x, y \in Nat : <<x, y>> \in R <=> x < y
  OBVIOUS
<1> HIDE DEF R
<1>4. PICK x \in Nat \ S : \A y \in Nat \ S : ~ (<<y, x>> \in R)
  BY <1>1, <1>2, WFMin
<1>5. x # 0 /\ x - 1 \in Nat /\ x - 1 < x
  OBVIOUS
<1>6. x - 1 \in S
  BY <1>3, <1>4, <1>5
<1>7. (x - 1) + 1 \in S
  BY <1>6
<1> QED
  BY <1>7, <1>5

(* A nonempty set of naturals has a least element.                         *)
LEMMA LeastNat ==
  ASSUME NEW S \in SUBSET Nat, S # {}
  PROVE  \E x \in S : \A y \in S : x <= y
<1> DEFINE B == {n \in Nat : \A y \in S : n <= y}
<1>1. B \in SUBSET Nat /\ 0 \in B
  OBVIOUS
<1>2. SUFFICES ASSUME ~ \E x \in S : \A y \in S : x <= y PROVE FALSE
  OBVIOUS
<1>3. ASSUME NEW n \in B PROVE n + 1 \in B
  <2>1. n \in Nat /\ \A y \in S : n <= y
    OBVIOUS
  <2>2. n \notin S
    BY <1>2, <2>1
  <2>3. ASSUME NEW y \in S PROVE n + 1 <= y
    BY <2>1, <2>2
  <2> QED
    BY <2>1, <2>3
<1>4. B = Nat
  <2> HIDE DEF B
  <2> QED
    BY <1>1, <1>3, NatInductionSet
<1>5. PICK y \in S : TRUE
  OBVIOUS
<1>6. y \in Nat /\ y + 1 \in Nat
  OBVIOUS
<1>7. y + 1 <= y
  BY <1>4, <1>6
<1> QED
  BY <1>6, <1>7

(* A family of subsets of D that has the empty one and that is closed      *)
(* under adding an element has every subset of D, when D is finite.        *)
LEMMA SubsetInduction ==
  ASSUME NEW D, IsFiniteSet(D), NEW F \in SUBSET SUBSET D, {} \in F,
         \A T \in F : \A x \in D \ T : T \cup {x} \in F
  PROVE  F = SUBSET D
<1> DEFINE S == {n \in Nat : \A T \in SUBSET D : Cardinality(T) = n => T \in F}
<1>1. \A T \in SUBSET D : IsFiniteSet(T) /\ Cardinality(T) \in Nat
  BY FS_Subset, FS_CardinalityType
<1>2. 0 \in S
  BY <1>1, FS_EmptySet
<1>3. ASSUME NEW n \in S PROVE n + 1 \in S
  <2> SUFFICES ASSUME NEW T \in SUBSET D, Cardinality(T) = n + 1 PROVE T \in F
    OBVIOUS
  <2>1. T # {}
    <3>1. Cardinality(T) # 0
      <4>1. n \in Nat
        OBVIOUS
      <4> QED
        BY <4>1
    <3> HIDE DEF S
    <3> QED
      BY <3>1, FS_EmptySet
  <2>2. PICK x \in T : TRUE
    BY <2>1
  <2>3. Cardinality(T \ {x}) = n
    <3>1. n \in Nat /\ IsFiniteSet(T)
      BY <1>1
    <3>2. Cardinality(T \ {x}) = Cardinality(T) - 1
      BY ONLY <3>1, <2>2, FS_RemoveElement
    <3> QED BY ONLY <3>1, <3>2, Cardinality(T) = n + 1
  <2>4. T \ {x} \in F
    BY <2>3
  <2>5. (T \ {x}) \cup {x} \in F
    BY <2>2, <2>4
  <2>6. (T \ {x}) \cup {x} = T
    BY <2>2
  <2> QED
    BY <2>5, <2>6
<1>4. S = Nat
  <2> HIDE DEF S
  <2>1. S \in SUBSET Nat
    BY DEF S
  <2> QED
    BY <1>2, <1>3, <2>1, NatInductionSet
<1> QED
  BY <1>1, <1>4

(* The same, by removing elements: a family that has a subset whenever it  *)
(* has all that lack one of its elements has every subset.                 *)
LEMMA SubsetDescent ==
  ASSUME NEW D, IsFiniteSet(D), NEW F \in SUBSET SUBSET D,
         \A s \in SUBSET D : (\A x \in s : s \ {x} \in F) => s \in F
  PROVE  F = SUBSET D
<1> DEFINE S == {n \in Nat : \A T \in SUBSET D : Cardinality(T) = n => T \in F}
<1>1. \A T \in SUBSET D : IsFiniteSet(T) /\ Cardinality(T) \in Nat
  BY FS_Subset, FS_CardinalityType
<1>2. 0 \in S
  <2>1. {} \in F
    OBVIOUS
  <2> QED
    BY <1>1, <2>1, FS_EmptySet
<1>3. ASSUME NEW n \in S PROVE n + 1 \in S
  <2> SUFFICES ASSUME NEW T \in SUBSET D, Cardinality(T) = n + 1 PROVE T \in F
    OBVIOUS
  <2>1. ASSUME NEW x \in T PROVE T \ {x} \in F
    <3>1. Cardinality(T \ {x}) = n
      <4>1. n \in Nat /\ IsFiniteSet(T)
        BY <1>1
      <4> HIDE DEF S
      <4>2. Cardinality(T \ {x}) = Cardinality(T) - 1
        BY <4>1, FS_RemoveElement
      <4> QED
        BY <4>1, <4>2
    <3> QED
      BY <3>1
  <2> QED
    BY <2>1
<1>4. S = Nat
  <2> HIDE DEF S
  <2>1. S \in SUBSET Nat
    BY DEF S
  <2> QED
    BY <1>2, <1>3, <2>1, NatInductionSet
<1> QED
  BY <1>1, <1>4

(* pick chooses an element of every nonempty subset of D.                  *)
Picks(pick, D) ==
    /\ pick \in [(SUBSET D) \ {{}} -> D]
    /\ \A s \in (SUBSET D) \ {{}} : pick[s] \in s

(* g starts from b and removes picked elements one at a time, with step F. *)
RecursBy(g, D, V, b, F, pick) ==
    /\ g \in [SUBSET D -> V] /\ g[{}] = b
    /\ \A s \in (SUBSET D) \ {{}} : g[s] = F[<<g[s \ {pick[s]}], pick[s]>>]

(* Recursion on the subsets of a finite set D: a value for the empty set   *)
(* and a step that removes a picked element define a function.             *)
LEMMA SubsetRecursion ==
  ASSUME NEW D, IsFiniteSet(D), NEW V, NEW b \in V, NEW F \in [V \X D -> V],
         NEW pick, Picks(pick, D)
  PROVE  \E g : RecursBy(g, D, V, b, F, pick)
<1> USE DEF Picks
<1> DEFINE Small(n) == {s \in SUBSET D : Cardinality(s) <= n}
           Defines(g, n) ==
              /\ g \in [Small(n) -> V] /\ g[{}] = b
              /\ \A s \in Small(n) \ {{}} :
                    g[s] = F[<<g[s \ {pick[s]}], pick[s]>>]
           S == {n \in Nat : \E g : Defines(g, n)}
<1>1. \A s \in SUBSET D : IsFiniteSet(s) /\ Cardinality(s) \in Nat
  BY FS_Subset, FS_CardinalityType
<1>2. \A n \in Nat : {} \in Small(n)
  BY FS_EmptySet
<1>3. ASSUME NEW n \in Nat, NEW s \in Small(n + 1), s # {}
      PROVE  s \ {pick[s]} \in Small(n)
  <2>1. pick[s] \in s /\ IsFiniteSet(s) /\ Cardinality(s) \in Nat
    BY <1>1, <1>3
  <2>2. Cardinality(s \ {pick[s]}) = Cardinality(s) - 1
    <3> HIDE DEF Small
    <3> DEFINE x == pick[s]
    <3>1. x \in s /\ IsFiniteSet(s)
      BY <2>1
    <3> HIDE DEF x
    <3>2. Cardinality(s \ {x}) = Cardinality(s) - 1
      BY <3>1, FS_RemoveElement
    <3> QED
      BY <3>2 DEF x
  <2> QED
    BY <2>1, <2>2
<1>4. 0 \in S
  <2>1. Small(0) = {{}}
    BY <1>1, FS_EmptySet
  <2>2. Defines([s \in Small(0) |-> b], 0)
    BY <2>1
  <2> QED
    BY <2>2
<1>5. ASSUME NEW n \in S PROVE n + 1 \in S
  <2>1. PICK g : Defines(g, n)
    BY <1>5
  <2> DEFINE h == [s \in Small(n + 1) |->
                     IF s = {} THEN b ELSE F[<<g[s \ {pick[s]}], pick[s]>>]]
  <2>2. ASSUME NEW s \in Small(n) PROVE s \in Small(n + 1) /\ h[s] = g[s]
    <3>1. s \in Small(n + 1)
      BY <1>1, <2>2
    <3> QED
      BY <2>1, <3>1
  <2>3. h \in [Small(n + 1) -> V]
    <3> SUFFICES ASSUME NEW s \in Small(n + 1), s # {}
                 PROVE  F[<<g[s \ {pick[s]}], pick[s]>>] \in V
      OBVIOUS
    <3>1. g[s \ {pick[s]}] \in V /\ pick[s] \in D
      BY <1>3, <2>1
    <3> QED
      BY <3>1
  <2>4. h[{}] = b
    BY <1>2
  <2>5. ASSUME NEW s \in Small(n + 1) \ {{}}
        PROVE  h[s] = F[<<h[s \ {pick[s]}], pick[s]>>]
    <3>1. h[s \ {pick[s]}] = g[s \ {pick[s]}]
      BY <1>3, <2>2
    <3> QED
      BY <3>1
  <2> HIDE DEF h
  <2>6. Defines(h, n + 1)
    BY <2>3, <2>4, <2>5
  <2>7. n + 1 \in Nat
    OBVIOUS
  <2> HIDE DEF Defines
  <2> QED
    BY <2>6, <2>7
<1>6. S = Nat
  <2>1. S \in SUBSET Nat
    OBVIOUS
  <2> HIDE DEF S
  <2> QED
    BY <1>4, <1>5, <2>1, NatInductionSet
<1>7. PICK g : Defines(g, Cardinality(D))
  BY <1>1, <1>6
<1>8. Small(Cardinality(D)) = SUBSET D
  BY <1>1, FS_Subset
<1> QED
  BY <1>7, <1>8 DEF RecursBy

-----------------------------------------------------------------------------
(* Sums.                                                                   *)

(* h sums f over each subset of D: what SumFunctionOnSet recurs with.      *)
Sums(h, f, D) ==
    h = [s \in SUBSET D |->
            IF s = {} THEN 0
            ELSE LET x == CHOOSE x \in s : TRUE IN f[x] + h[s \ {x}]]

(* The function the sum is defined with exists.                            *)
LEMMA SumsExists ==
  ASSUME NEW D, IsFiniteSet(D), NEW f, \A x \in D : f[x] \in Nat
  PROVE  \E h : Sums(h, f, D) /\ SumFunctionOnSet(f, D) = h[D]
<1> DEFINE F == [p \in Nat \X D |-> f[p[2]] + p[1]]
           pick == [s \in (SUBSET D) \ {{}} |-> CHOOSE x \in s : TRUE]
<1>1. F \in [Nat \X D -> Nat]
  OBVIOUS
<1>2. Picks(pick, D)
  BY DEF Picks
<1>3. PICK g : RecursBy(g, D, Nat, 0, F, pick)
  <2> HIDE DEF F, pick
  <2> QED
    BY <1>1, <1>2, SubsetRecursion
<1>4. ASSUME NEW s \in SUBSET D, s # {}
      PROVE  LET x == CHOOSE x \in s : TRUE IN g[s] = f[x] + g[s \ {x}]
  <2> DEFINE x == CHOOSE x \in s : TRUE
  <2>1. x \in s /\ x \in D /\ pick[s] = x /\ s \in (SUBSET D) \ {{}}
    BY <1>4
  <2> HIDE DEF x
  <2>2. g[s \ {x}] \in Nat
    BY <1>3 DEF RecursBy
  <2>3. g[s] = F[<<g[s \ {x}], x>>]
    BY <1>3, <2>1 DEF RecursBy
  <2>4. g[s] = f[x] + g[s \ {x}]
    BY <2>1, <2>2, <2>3
  <2> QED
    BY <2>4 DEF x
<1> HIDE DEF F, pick
<1>5. Sums(g, f, D)
  BY <1>3, <1>4 DEF Sums, RecursBy
<1> QED
  BY <1>5 DEF Sums, SumFunctionOnSet, FoldFunctionOnSet, MapThenFoldSet

(* One step of such a function.                                            *)
LEMMA SumsStep ==
  ASSUME NEW D, NEW f, NEW h, Sums(h, f, D), NEW s \in SUBSET D
  PROVE  /\ s = {} => h[s] = 0
         /\ s # {} => \E x \in s : /\ x = CHOOSE y \in s : TRUE
                                   /\ h[s] = f[x] + h[s \ {x}]
<1>1. h[s] = IF s = {} THEN 0
             ELSE LET x == CHOOSE x \in s : TRUE IN f[x] + h[s \ {x}]
  BY DEF Sums
<1>2. ASSUME s # {} PROVE (CHOOSE y \in s : TRUE) \in s
  BY <1>2
<1> QED
  BY <1>1, <1>2

(* Sums of naturals are naturals.                                          *)
LEMMA SumsNat ==
  ASSUME NEW D, IsFiniteSet(D), NEW f, \A x \in D : f[x] \in Nat,
         NEW h, Sums(h, f, D)
  PROVE  \A s \in SUBSET D : h[s] \in Nat
<1> DEFINE F == {s \in SUBSET D : h[s] \in Nat}
<1>1. ASSUME NEW s \in SUBSET D, \A x \in s : s \ {x} \in F PROVE s \in F
  <2>1. CASE s = {}
    BY <2>1, SumsStep
  <2>2. CASE s # {}
    <3>1. PICK x \in s : h[s] = f[x] + h[s \ {x}]
      BY <2>2, SumsStep
    <3> QED
      BY <3>1, <1>1
  <2> QED
    BY <2>1, <2>2
<1>2. F \in SUBSET SUBSET D
  OBVIOUS
<1>3. F = SUBSET D
  <2> HIDE DEF F
  <2> QED
    BY <1>1, <1>2, SubsetDescent
<1> QED
  BY <1>3

(* They do not depend on the set whose subsets are summed over.            *)
LEMMA SumsAgree ==
  ASSUME NEW D, IsFiniteSet(D), NEW f, NEW h, Sums(h, f, D),
         NEW E \in SUBSET D, NEW k, Sums(k, f, E)
  PROVE  \A s \in SUBSET E : k[s] = h[s]
<1> DEFINE F == {s \in SUBSET E : k[s] = h[s]}
<1>1. ASSUME NEW s \in SUBSET E, \A x \in s : s \ {x} \in F PROVE s \in F
  <2>0. s \in SUBSET D
    OBVIOUS
  <2>1. CASE s = {}
    BY <2>0, <2>1, SumsStep
  <2>2. CASE s # {}
    <3>1. PICK x \in s : x = (CHOOSE y \in s : TRUE) /\ h[s] = f[x] + h[s \ {x}]
      BY <2>0, <2>2, SumsStep
    <3>2. PICK z \in s : z = (CHOOSE y \in s : TRUE) /\ k[s] = f[z] + k[s \ {z}]
      BY <2>2, SumsStep
    <3> QED
      BY <3>1, <3>2, <1>1
  <2> QED
    BY <2>1, <2>2
<1>2. F \in SUBSET SUBSET E /\ IsFiniteSet(E)
  BY FS_Subset
<1>3. F = SUBSET E
  <2> HIDE DEF F
  <2> QED
    BY <1>1, <1>2, SubsetDescent
<1> QED
  BY <1>3

(* Any element may be taken out first.                                     *)
LEMMA SumsRemove ==
  ASSUME NEW D, IsFiniteSet(D), NEW f, \A x \in D : f[x] \in Nat,
         NEW h, Sums(h, f, D)
  PROVE  \A s \in SUBSET D : \A y \in s : h[s] = f[y] + h[s \ {y}]
<1> DEFINE F == {s \in SUBSET D : \A y \in s : h[s] = f[y] + h[s \ {y}]}
<1>0. \A s \in SUBSET D : h[s] \in Nat
  BY SumsNat
<1>1. ASSUME NEW s \in SUBSET D, \A x \in s : s \ {x} \in F PROVE s \in F
  <2> SUFFICES ASSUME NEW y \in s PROVE h[s] = f[y] + h[s \ {y}]
    OBVIOUS
  <2>1. PICK x \in s : h[s] = f[x] + h[s \ {x}]
    BY SumsStep
  <2>2. CASE x = y
    BY <2>1, <2>2
  <2>3. CASE x # y
    <3>1. h[s \ {x}] = f[y] + h[(s \ {x}) \ {y}]
      BY <1>1, <2>3
    <3>2. h[s \ {y}] = f[x] + h[(s \ {y}) \ {x}]
      BY <1>1, <2>3
    <3>3. (s \ {x}) \ {y} = (s \ {y}) \ {x}
      OBVIOUS
    <3> DEFINE a == f[x]
               b == f[y]
               c == h[(s \ {x}) \ {y}]
    <3>4. a \in Nat /\ b \in Nat /\ c \in Nat
      BY <1>0
    <3>5. h[s] = a + (b + c) /\ h[s \ {y}] = a + c
      BY <2>1, <3>1, <3>2, <3>3
    <3> HIDE DEF F, a, b, c
    <3>6. h[s] = b + h[s \ {y}]
      BY <3>4, <3>5
    <3> QED
      BY <3>6 DEF b
  <2> QED
    BY <2>2, <2>3
<1>2. F \in SUBSET SUBSET D
  OBVIOUS
<1>3. F = SUBSET D
  <2> HIDE DEF F
  <2> QED
    BY <1>1, <1>2, SubsetDescent
<1> QED
  BY <1>3

(* The sum over a subset of D is the value of any function that sums over  *)
(* the subsets of D.                                                       *)
LEMMA SumIsSums ==
  ASSUME NEW D, IsFiniteSet(D), NEW f, \A x \in D : f[x] \in Nat,
         NEW h, Sums(h, f, D), NEW E \in SUBSET D
  PROVE  SumFunctionOnSet(f, E) = h[E]
<1>1. IsFiniteSet(E) /\ \A x \in E : f[x] \in Nat
  BY FS_Subset
<1>2. PICK k : Sums(k, f, E) /\ SumFunctionOnSet(f, E) = k[E]
  BY <1>1, SumsExists
<1>3. k[E] = h[E]
  BY <1>2, SumsAgree
<1> QED
  BY <1>2, <1>3

(* A sum of naturals over a finite set is a natural number.                *)
LEMMA SumNat ==
  ASSUME NEW D, IsFiniteSet(D), NEW f, \A x \in D : f[x] \in Nat
  PROVE  SumFunctionOnSet(f, D) \in Nat
<1>1. PICK h : Sums(h, f, D) /\ SumFunctionOnSet(f, D) = h[D]
  BY SumsExists
<1> QED
  BY <1>1, SumsNat

(* The empty sum is zero.                                                  *)
LEMMA SumEmpty ==
  ASSUME NEW f
  PROVE  SumFunctionOnSet(f, {}) = 0
<1>1. PICK h : Sums(h, f, {}) /\ SumFunctionOnSet(f, {}) = h[{}]
  BY SumsExists, FS_EmptySet
<1> QED
  BY <1>1, SumsStep

(* One more element adds its value, wherever the sum meets it.             *)
LEMMA SumAdd ==
  ASSUME NEW D, IsFiniteSet(D), NEW x, x \notin D,
         NEW f, \A y \in D \cup {x} : f[y] \in Nat
  PROVE  SumFunctionOnSet(f, D \cup {x}) = SumFunctionOnSet(f, D) + f[x]
<1> DEFINE E == D \cup {x}
<1>1. IsFiniteSet(E) /\ E \ {x} = D /\ D \in SUBSET E /\ x \in E /\ E \in SUBSET E
  BY FS_AddElement
<1>2. \A y \in E : f[y] \in Nat
  OBVIOUS
<1> HIDE DEF E
<1>3. PICK h : Sums(h, f, E) /\ SumFunctionOnSet(f, E) = h[E]
  BY <1>1, <1>2, SumsExists
<1>4. SumFunctionOnSet(f, D) = h[D]
  BY <1>1, <1>2, <1>3, SumIsSums
<1>5. h[E] = f[x] + h[E \ {x}]
  BY <1>1, <1>2, <1>3, SumsRemove
<1>6. SumFunctionOnSet(f, D) \in Nat /\ f[x] \in Nat
  BY <1>1, <1>2, SumNat, FS_Subset
<1>7. SumFunctionOnSet(f, E) = SumFunctionOnSet(f, D) + f[x]
  <2> DEFINE a == f[x]
             c == SumFunctionOnSet(f, D)
  <2>1. SumFunctionOnSet(f, E) = a + c
    BY <1>1, <1>3, <1>4, <1>5
  <2>2. a \in Nat /\ c \in Nat
    BY <1>6
  <2> HIDE DEF a, c
  <2>3. SumFunctionOnSet(f, E) = c + a
    BY <2>1, <2>2
  <2> QED
    BY <2>3 DEF a, c
<1> QED
  BY <1>7 DEF E

(* Functions that agree on a set have the same sum over it.                *)
LEMMA SumSame ==
  ASSUME NEW D, IsFiniteSet(D), NEW f, NEW g,
         \A x \in D : f[x] \in Nat /\ f[x] = g[x]
  PROVE  SumFunctionOnSet(f, D) = SumFunctionOnSet(g, D)
<1> DEFINE F == {T \in SUBSET D : SumFunctionOnSet(f, T) = SumFunctionOnSet(g, T)}
<1>1. {} \in F
  BY SumEmpty
<1>2. ASSUME NEW T \in F, NEW x \in D \ T PROVE T \cup {x} \in F
  <2>1. IsFiniteSet(T) /\ x \notin T /\ T \in SUBSET D
    BY FS_Subset
  <2>2. /\ \A y \in T \cup {x} : f[y] \in Nat
        /\ \A y \in T \cup {x} : g[y] \in Nat
    BY <2>1
  <2>3. SumFunctionOnSet(f, T \cup {x}) = SumFunctionOnSet(f, T) + f[x]
    BY <2>1, <2>2, SumAdd
  <2>4. SumFunctionOnSet(g, T \cup {x}) = SumFunctionOnSet(g, T) + g[x]
    BY <2>1, <2>2, SumAdd
  <2> QED
    BY <2>1, <2>3, <2>4
<1>3. F = SUBSET D
  <2>1. F \in SUBSET SUBSET D
    OBVIOUS
  <2> HIDE DEF F
  <2> QED
    BY <1>1, <1>2, <2>1, SubsetInduction
<1> QED
  BY <1>3

(* The sum of a sum of functions is the sum of their sums.                 *)
LEMMA SumPlus ==
  ASSUME NEW D, IsFiniteSet(D), NEW e, NEW f, NEW g,
         \A x \in D : f[x] \in Nat /\ g[x] \in Nat /\ e[x] = f[x] + g[x]
  PROVE  SumFunctionOnSet(e, D) = SumFunctionOnSet(f, D) + SumFunctionOnSet(g, D)
<1> DEFINE F == {T \in SUBSET D : SumFunctionOnSet(e, T)
                    = SumFunctionOnSet(f, T) + SumFunctionOnSet(g, T)}
<1>1. {} \in F
  BY SumEmpty
<1>2. ASSUME NEW T \in F, NEW x \in D \ T PROVE T \cup {x} \in F
  <2>1. IsFiniteSet(T) /\ x \notin T /\ T \in SUBSET D
    BY FS_Subset
  <2>2. /\ \A y \in T \cup {x} : e[y] \in Nat
        /\ \A y \in T \cup {x} : f[y] \in Nat
        /\ \A y \in T \cup {x} : g[y] \in Nat
    BY <2>1
  <2>3. /\ SumFunctionOnSet(e, T \cup {x}) = SumFunctionOnSet(e, T) + e[x]
        /\ SumFunctionOnSet(f, T \cup {x}) = SumFunctionOnSet(f, T) + f[x]
        /\ SumFunctionOnSet(g, T \cup {x}) = SumFunctionOnSet(g, T) + g[x]
    BY <2>1, <2>2, SumAdd
  <2>4. /\ \A y \in T : f[y] \in Nat
        /\ \A y \in T : g[y] \in Nat
    BY <2>2
  <2>5. SumFunctionOnSet(f, T) \in Nat /\ SumFunctionOnSet(g, T) \in Nat
    BY <2>1, <2>4, SumNat
  <2> DEFINE a == SumFunctionOnSet(f, T)
             b == SumFunctionOnSet(g, T)
             c == f[x]
             d == g[x]
  <2>6. /\ a \in Nat /\ b \in Nat /\ c \in Nat /\ d \in Nat
        /\ SumFunctionOnSet(e, T) = a + b /\ e[x] = c + d
    BY <2>1, <2>5
  <2> HIDE DEF F, a, b, c, d
  <2>7. SumFunctionOnSet(e, T) + e[x] = (a + c) + (b + d)
    BY <2>6
  <2>8. SumFunctionOnSet(e, T \cup {x})
          = SumFunctionOnSet(f, T \cup {x}) + SumFunctionOnSet(g, T \cup {x})
    BY <2>3, <2>7 DEF a, b, c, d
  <2> QED
    BY <2>1, <2>8 DEF F
<1>3. F = SUBSET D
  <2>1. F \in SUBSET SUBSET D
    OBVIOUS
  <2> HIDE DEF F
  <2> QED
    BY <1>1, <1>2, <2>1, SubsetInduction
<1> QED
  BY <1>3

(* A sum over an interval from 1, and its last term.                       *)
LEMMA SumNext ==
  ASSUME NEW m \in Nat, NEW f, \A k \in 1..(m + 1) : f[k] \in Nat
  PROVE  /\ SumFunctionOnSet(f, 1..m) \in Nat
         /\ SumFunctionOnSet(f, 1..(m + 1)) = SumFunctionOnSet(f, 1..m) + f[m + 1]
<1> DEFINE x == m + 1
           D == 1..m
<1>1. IsFiniteSet(D)
  BY FS_Interval
<1>2. x \notin D /\ 1..(m + 1) = D \cup {x}
  OBVIOUS
<1>3. \A y \in D \cup {x} : f[y] \in Nat
  BY <1>2
<1> HIDE DEF x, D
<1>4. SumFunctionOnSet(f, D \cup {x}) = SumFunctionOnSet(f, D) + f[x]
  BY <1>1, <1>2, <1>3, SumAdd
<1>5. SumFunctionOnSet(f, D) \in Nat
  BY <1>1, <1>3, SumNat
<1> QED
  BY <1>2, <1>4, <1>5 DEF x, D

(* The sum over two sets apart is the sum of their sums.                   *)
LEMMA SumDisjoint ==
  ASSUME NEW A, IsFiniteSet(A), NEW B, IsFiniteSet(B), A \cap B = {},
         NEW f, \A x \in A \cup B : f[x] \in Nat
  PROVE  /\ SumFunctionOnSet(f, A) \in Nat /\ SumFunctionOnSet(f, B) \in Nat
         /\ SumFunctionOnSet(f, A \cup B) = SumFunctionOnSet(f, A) + SumFunctionOnSet(f, B)
<1> DEFINE sum(T) == SumFunctionOnSet(f, T)
           F == {T \in SUBSET B : sum(A \cup T) = sum(A) + sum(T)}
<1>0. \A T \in SUBSET B : IsFiniteSet(T)
  BY FS_Subset
<1>1. sum(A) \in Nat
  BY SumNat
<1>2. ASSUME NEW T \in SUBSET B PROVE sum(T) \in Nat
  <2>1. \A x \in T : f[x] \in Nat
    OBVIOUS
  <2> QED BY <1>0, <2>1, SumNat
<1>3. {} \in F
  <2>1. A \cup {} = A /\ sum({}) = 0
    BY SumEmpty
  <2> QED BY <1>1, <2>1
<1>4. ASSUME NEW T \in F, NEW x \in B \ T PROVE T \cup {x} \in F
  <2> DEFINE C == A \cup T
  <2>1. /\ IsFiniteSet(T) /\ T \in SUBSET B /\ x \notin T /\ x \notin C
        /\ \A y \in T \cup {x} : f[y] \in Nat
        /\ \A y \in C \cup {x} : f[y] \in Nat
        /\ sum(C) = sum(A) + sum(T) /\ f[x] \in Nat
    BY <1>0
  <2>2. IsFiniteSet(C)
    BY <2>1, FS_Union
  <2>3. sum(T \cup {x}) = sum(T) + f[x]
    BY <2>1, SumAdd
  <2>4. sum(C \cup {x}) = sum(C) + f[x]
    <3> HIDE DEF C
    <3> QED BY <2>1, <2>2, SumAdd
  <2>5. A \cup (T \cup {x}) = C \cup {x}
    OBVIOUS
  <2>6. sum(T) \in Nat
    BY <1>2, <2>1
  <2> DEFINE a == sum(A)
             t == sum(T)
             v == f[x]
  <2>7. /\ a \in Nat /\ t \in Nat /\ v \in Nat /\ sum(C) = a + t
        /\ sum(T \cup {x}) = t + v /\ sum(C \cup {x}) = sum(C) + v
    BY <1>1, <2>1, <2>3, <2>4, <2>6
  <2> HIDE DEF a, t, v, sum, F
  <2>8. sum(C \cup {x}) = a + sum(T \cup {x})
    BY <2>7
  <2>9. sum(A \cup (T \cup {x})) = sum(A) + sum(T \cup {x})
    BY <2>5, <2>8 DEF a
  <2> QED BY <2>1, <2>9 DEF F
<1>5. F = SUBSET B
  <2>1. F \in SUBSET SUBSET B
    OBVIOUS
  <2> HIDE DEF F
  <2> QED BY <1>3, <1>4, <2>1, SubsetInduction
<1>6. B \in F /\ B \in SUBSET B
  BY <1>5
<1> QED BY <1>1, <1>2, <1>6

(* Sums of one and of two terms.                                           *)
LEMMA SumFew ==
  ASSUME NEW f
  PROVE  /\ \A x : f[x] \in Nat => SumFunctionOnSet(f, {x}) = f[x]
         /\ \A x, y : x # y /\ f[x] \in Nat /\ f[y] \in Nat
               => SumFunctionOnSet(f, {x, y}) = f[x] + f[y]
<1>0. SumFunctionOnSet(f, {}) = 0 /\ IsFiniteSet({})
  BY SumEmpty, FS_EmptySet
<1>1. ASSUME NEW x, f[x] \in Nat PROVE SumFunctionOnSet(f, {x}) = f[x]
  <2> DEFINE D == {}
  <2>1. IsFiniteSet(D) /\ x \notin D /\ \A y \in D \cup {x} : f[y] \in Nat
    BY <1>0, <1>1
  <2> HIDE DEF D
  <2>2. SumFunctionOnSet(f, D \cup {x}) = SumFunctionOnSet(f, D) + f[x]
    BY <2>1, SumAdd
  <2>3. D \cup {x} = {x} /\ D = {}
    BY DEF D
  <2>4. SumFunctionOnSet(f, D) = 0 /\ SumFunctionOnSet(f, {x}) = SumFunctionOnSet(f, D) + f[x]
    BY ONLY <1>0, <2>2, <2>3, Zenon
  <2> QED BY <1>1, <2>4
<1>2. ASSUME NEW x, NEW y, x # y, f[x] \in Nat, f[y] \in Nat
      PROVE  SumFunctionOnSet(f, {x, y}) = f[x] + f[y]
  <2> DEFINE A == {x}
             B == {y}
  <2>1. A \cap B = {} /\ (\A z \in A \cup B : f[z] \in Nat) /\ A \cup B = {x, y}
    BY <1>2
  <2>2. IsFiniteSet(A) /\ IsFiniteSet(B)
    BY FS_Singleton
  <2>3. SumFunctionOnSet(f, A) = f[x] /\ SumFunctionOnSet(f, B) = f[y]
    BY <1>1, <1>2
  <2> HIDE DEF A, B
  <2>4. SumFunctionOnSet(f, A \cup B) = SumFunctionOnSet(f, A) + SumFunctionOnSet(f, B)
    BY <2>1, <2>2, SumDisjoint
  <2> QED BY <2>1, <2>3, <2>4
<1> QED BY <1>1, <1>2

(* A part of a sum of naturals is at most the whole.                       *)
LEMMA SumPart ==
  ASSUME NEW D, IsFiniteSet(D), NEW f, \A x \in D : f[x] \in Nat, NEW E \in SUBSET D
  PROVE  SumFunctionOnSet(f, E) \in Nat /\ SumFunctionOnSet(f, E) <= SumFunctionOnSet(f, D)
<1> DEFINE G == D \ E
<1>1. IsFiniteSet(E) /\ IsFiniteSet(G)
  BY FS_Subset
<1>2. E \cap G = {} /\ D = E \cup G /\ \A x \in E \cup G : f[x] \in Nat
  OBVIOUS
<1> HIDE DEF G
<1>3. /\ SumFunctionOnSet(f, E) \in Nat /\ SumFunctionOnSet(f, G) \in Nat
      /\ SumFunctionOnSet(f, E \cup G) = SumFunctionOnSet(f, E) + SumFunctionOnSet(f, G)
  BY <1>1, <1>2, SumDisjoint
<1>4. SumFunctionOnSet(f, D) = SumFunctionOnSet(f, E) + SumFunctionOnSet(f, G)
  BY ONLY <1>2, <1>3, Zenon
<1> QED BY <1>3, <1>4

-----------------------------------------------------------------------------
(* Folds along a sequence.                                                 *)

(* Induction up to a bound.                                                *)
LEMMA UpToInduction ==
  ASSUME NEW n \in Nat, NEW S \in SUBSET (0..n), 0 \in S,
         \A k \in S : k < n => k + 1 \in S
  PROVE  S = 0..n
<1> DEFINE T == {k \in Nat : k <= n => k \in S}
<1>1. T \in SUBSET Nat /\ 0 \in T
  OBVIOUS
<1>2. ASSUME NEW k \in T PROVE k + 1 \in T
  <2>1. k \in Nat
    OBVIOUS
  <2>2. CASE k + 1 <= n
    BY <2>1, <2>2
  <2>3. CASE ~(k + 1 <= n)
    BY <2>1, <2>3
  <2> QED
    BY <2>2, <2>3
<1>3. T = Nat
  <2> HIDE DEF T
  <2> QED
    BY <1>1, <1>2, NatInductionSet
<1>4. ASSUME NEW k \in 0..n PROVE k \in S
  <2>1. k \in Nat /\ k <= n
    OBVIOUS
  <2>2. k \in T
    BY <1>3, <2>1
  <2> QED
    BY <2>1, <2>2
<1> QED
  BY <1>4

(* A nonempty set of numbers up to a bound has its maximum.                *)
LEMMA MaxIn ==
  ASSUME NEW n \in Nat, NEW s \in SUBSET (1..n), s # {}
  PROVE  Max(s) \in s /\ \A y \in s : Max(s) >= y
<1> DEFINE S == {k \in 0..n : \A y \in s : y <= n - k}
<1>1. 0 \in S
  OBVIOUS
<1>2. SUFFICES ASSUME ~ \E x \in s : \A y \in s : x >= y PROVE FALSE
  BY DEF Max
<1>3. ASSUME NEW k \in S, k < n PROVE k + 1 \in S
  <2>1. ASSUME NEW y \in s PROVE y <= n - (k + 1)
    <3>1. y \in 1..n /\ y <= n - k
      OBVIOUS
    <3>2. CASE y = n - k
      <4>1. \A z \in s : y >= z
        BY <3>2
      <4> QED
        BY <4>1, <1>2
    <3>3. CASE y # n - k
      BY <3>1, <3>3
    <3> QED
      BY <3>2, <3>3
  <2> QED
    BY <1>3, <2>1
<1>4. S = 0..n
  <2>1. S \in SUBSET (0..n)
    OBVIOUS
  <2> HIDE DEF S
  <2> QED
    BY <1>1, <1>3, <2>1, UpToInduction
<1>5. n \in S
  BY <1>4
<1>6. \A y \in s : y <= 0 /\ y \in 1..n
  BY <1>5
<1>7. PICK y \in s : TRUE
  OBVIOUS
<1>8. y <= 0 /\ y \in 1..n
  BY <1>6
<1> QED
  BY <1>8

(* The last of the first k numbers is k, and without it they are the       *)
(* first k - 1.                                                            *)
LEMMA MaxUpTo ==
  ASSUME NEW k \in Nat \ {0}
  PROVE  1..k # {} /\ Max(1..k) = k /\ (1..k) \ {k} = 1..(k - 1)
<1> DEFINE s == 1..k
           m == Max(s)
<1>1. s # {} /\ s \in SUBSET (1..k) /\ k \in s /\ k \in Nat
  OBVIOUS
<1>2. m \in s /\ \A y \in s : m >= y
  <2> HIDE DEF s
  <2> QED
    BY <1>1, MaxIn DEF s
<1>3. m >= k /\ m \in 1..k
  BY <1>1, <1>2
<1> HIDE DEF m
<1>4. m = k
  BY <1>3
<1> QED
  BY <1>4 DEF m

(* FoldLeft recurs on the subsets of the domain and takes the last element *)
(* off first: h does so from b, with step F, and stays in V.               *)
FoldsBy(h, n, V, b, F) ==
    /\ h \in [SUBSET (1..n) -> V]
    /\ h[{}] = b
    /\ \A s \in (SUBSET (1..n)) \ {{}} : h[s] = F[<<h[s \ {Max(s)}], Max(s)>>]

(* Such a recursion exists.                                                *)
LEMMA FoldExists ==
  ASSUME NEW n \in Nat, NEW V, NEW b \in V, NEW F \in [V \X (1..n) -> V]
  PROVE  \E h : FoldsBy(h, n, V, b, F)
<1> DEFINE D == 1..n
           pick == [s \in (SUBSET D) \ {{}} |-> Max(s)]
<1>1. IsFiniteSet(D)
  BY FS_Interval
<1>2. Picks(pick, D)
  BY MaxIn DEF Picks
<1>3. F \in [V \X D -> V]
  OBVIOUS
<1>4. PICK g : RecursBy(g, D, V, b, F, pick)
  <2> HIDE DEF D, pick
  <2> QED
    BY <1>1, <1>2, <1>3, SubsetRecursion
<1> QED
  BY <1>4 DEF RecursBy, FoldsBy

(* Recursion along 1..n, as a function of how far it has come.             *)
RunsBy(g, n, V, b, F) ==
    g \in [0..n -> V] /\ g[0] = b /\ \A k \in 1..n : g[k] = F[<<g[k - 1], k>>]

(* It exists too.                                                          *)
LEMMA PrefixRecursion ==
  ASSUME NEW n \in Nat, NEW V, NEW b \in V, NEW F \in [V \X (1..n) -> V]
  PROVE  \E g : RunsBy(g, n, V, b, F)
<1>1. PICK h : FoldsBy(h, n, V, b, F)
  BY FoldExists
<1>2. /\ h \in [SUBSET (1..n) -> V] /\ h[{}] = b
      /\ \A s \in (SUBSET (1..n)) \ {{}} : h[s] = F[<<h[s \ {Max(s)}], Max(s)>>]
  BY <1>1 DEF FoldsBy
<1> DEFINE g == [k \in 0..n |-> h[1..k]]
<1>3. \A k \in 0..n : 1..k \in SUBSET (1..n)
  OBVIOUS
<1>4. g \in [0..n -> V]
  BY <1>2, <1>3
<1>5. g[0] = b
  <2>1. 1..0 = {}
    OBVIOUS
  <2> QED BY <2>1, <1>2
<1>6. ASSUME NEW k \in 1..n PROVE g[k] = F[<<g[k - 1], k>>]
  <2>1. k \in 0..n /\ k - 1 \in 0..n /\ k \in Nat \ {0}
    OBVIOUS
  <2>2. 1..k # {} /\ Max(1..k) = k /\ (1..k) \ {k} = 1..(k - 1)
    BY <2>1, MaxUpTo
  <2> DEFINE s == 1..k
  <2>3. s \in (SUBSET (1..n)) \ {{}}
    BY <2>1, <2>2, <1>3
  <2>4. h[s] = F[<<h[s \ {Max(s)}], Max(s)>>]
    <3> HIDE DEF s
    <3> QED BY <2>3, <1>2
  <2>5. h[s] = F[<<h[1..(k - 1)], k>>]
    BY <2>2, <2>4
  <2> QED BY <2>1, <2>5
<1>7. RunsBy(g, n, V, b, F)
  <2> HIDE DEF g
  <2> QED BY <1>4, <1>5, <1>6 DEF RunsBy
<1> QED BY <1>7

(* Flattening: the recursion of FlattenSeq, from the empty sequence.       *)
Flattens(g, n, V, f) ==
    g \in [0..n -> Seq(V)] /\ g[0] = << >> /\ \A k \in 1..n : g[k] = g[k - 1] \o f[k]

(* FlattenSeq of the first n values of f is what that recursion gives.     *)
LEMMA FlattenRuns ==
  ASSUME NEW V, NEW n \in Nat, NEW f, \A k \in 1..n : f[k] \in Seq(V)
  PROVE  \E g : Flattens(g, n, V, f) /\ FlattenSeq([k \in 1..n |-> f[k]]) = g[n]
<1> DEFINE F == [p \in Seq(V) \X (1..n) |-> p[1] \o f[p[2]]]
<1>1. F \in [Seq(V) \X (1..n) -> Seq(V)]
  OBVIOUS
<1>2. << >> \in Seq(V)
  OBVIOUS
<1>3. PICK g : RunsBy(g, n, Seq(V), << >>, F)
  <2> HIDE DEF F
  <2> QED BY <1>1, <1>2, PrefixRecursion
<1>4. g \in [0..n -> Seq(V)] /\ g[0] = << >> /\ \A k \in 1..n : g[k] = F[<<g[k - 1], k>>]
  BY <1>3 DEF RunsBy
<1>5. ASSUME NEW k \in 1..n PROVE g[k] = g[k - 1] \o f[k]
  <2>1. k - 1 \in 0..n
    OBVIOUS
  <2>2. g[k - 1] \in Seq(V)
    BY <1>4, <2>1
  <2> QED BY <1>4, <2>2
<1>6. Flattens(g, n, V, f)
  BY <1>4, <1>5 DEF Flattens
<1> DEFINE s == [k \in 1..n |-> f[k]]
           E(h) == h = [k \in 1..Len(s) |-> IF k = 1 THEN s[k] ELSE h[k - 1] \o s[k]]
<1>7. Len(s) = n /\ s \in Seq(Seq(V)) /\ DOMAIN s = 1..n
  OBVIOUS
<1>8. CASE n = 0
  BY <1>4, <1>6, <1>7, <1>8 DEF FlattenSeq
<1>9. CASE n # 0
  <2> DEFINE h0 == [k \in 1..n |-> g[k]]
             h == CHOOSE x : E(x)
  <2>1. E(h0)
    <3>1. ASSUME NEW k \in 1..n
          PROVE  h0[k] = IF k = 1 THEN s[k] ELSE h0[k - 1] \o s[k]
      <4>1. h0[k] = g[k - 1] \o f[k] /\ s[k] = f[k]
        BY <1>5
      <4>2. CASE k = 1
        <5>0. g[k - 1] = << >>
          BY <4>2, <1>4
        <5>1. h0[k] = << >> \o f[k]
          BY ONLY <4>1, <5>0, Zenon
        <5>2. f[k] \in Seq(V)
          OBVIOUS
        <5> QED BY <4>1, <4>2, <5>1, <5>2
      <4>3. CASE k # 1
        <5>1. k - 1 \in 1..n
          BY <4>3
        <5>2. h0[k - 1] = g[k - 1]
          BY <5>1
        <5> QED BY <4>1, <4>3, <5>2
      <4> QED BY <4>2, <4>3
    <3>2. h0 = [k \in 1..n |-> h0[k]]
      OBVIOUS
    <3> HIDE DEF h0, s
    <3> QED BY <3>1, <3>2, <1>7
  <2>2. E(h)
    <3> HIDE DEF E
    <3> QED BY <2>1
  <2>3. FlattenSeq(s) = h[n]
    <3>1. FlattenSeq(s) = h[Len(s)]
      <4> HIDE DEF s
      <4> QED BY <1>7, <1>9 DEF FlattenSeq
    <3> QED BY <3>1, <1>7
  <2>4. \A k \in 1..n : h[k] = IF k = 1 THEN s[k] ELSE h[k - 1] \o s[k]
    <3> HIDE DEF h, s
    <3> QED BY <2>2, <1>7
  <2> DEFINE S == {k \in 0..n : k = 0 \/ h[k] = g[k]}
  <2> HIDE DEF h
  <2>5. S = 0..n
    <3>1. S \in SUBSET (0..n) /\ 0 \in S
      OBVIOUS
    <3>2. ASSUME NEW k \in S, k < n PROVE k + 1 \in S
      <4>1. k \in 0..n /\ k + 1 \in 1..n /\ (k + 1) - 1 = k
        BY <3>2
      <4>2. h[k + 1] = IF k + 1 = 1 THEN s[k + 1] ELSE h[k] \o s[k + 1]
        BY <4>1, <2>4
      <4>3. g[k + 1] = g[k] \o f[k + 1] /\ s[k + 1] = f[k + 1] /\ f[k + 1] \in Seq(V)
        BY <4>1, <1>5
      <4>4. h[k + 1] = g[k + 1]
        <5>1. CASE k = 0
          <6>1. g[k + 1] = << >> \o f[k + 1]
            BY <5>1, <4>3, <1>4
          <6> QED BY <5>1, <6>1, <4>2, <4>3
        <5>2. CASE k # 0
          <6>1. h[k] = g[k] /\ k + 1 # 1
            BY <5>2, <4>1
          <6>2. h[k + 1] = h[k] \o f[k + 1]
            BY <6>1, <4>2, <4>3
          <6> QED BY ONLY <6>1, <6>2, <4>3, Zenon
        <5> QED BY <5>1, <5>2
      <4> QED BY <4>1, <4>4
    <3> HIDE DEF S
    <3> QED BY <3>1, <3>2, UpToInduction
  <2>6. h[n] = g[n]
    BY <2>5, <1>9
  <2> QED BY <2>3, <2>6, <1>6
<1> QED BY <1>8, <1>9

(* Flattening nothing gives nothing.                                       *)
LEMMA FlattenNone ==
  ASSUME NEW s, Len(s) = 0
  PROVE  FlattenSeq(s) = s
BY DEF FlattenSeq

(* Flattening one sequence more appends it.                                *)
LEMMA FlattenNext ==
  ASSUME NEW V, NEW n \in Nat, NEW f, \A k \in 1..(n + 1) : f[k] \in Seq(V)
  PROVE  /\ FlattenSeq([k \in 1..n |-> f[k]]) \in Seq(V)
         /\ FlattenSeq([k \in 1..(n + 1) |-> f[k]])
               = FlattenSeq([k \in 1..n |-> f[k]]) \o f[n + 1]
<1> DEFINE m == n + 1
<1>1. m \in Nat /\ n \in 0..m /\ m \in 1..m /\ m - 1 = n /\ \A k \in 1..n : k \in 1..m
  OBVIOUS
<1>2. \A k \in 1..m : f[k] \in Seq(V)
  OBVIOUS
<1> HIDE DEF m
<1>3. PICK h : Flattens(h, m, V, f) /\ FlattenSeq([k \in 1..m |-> f[k]]) = h[m]
  BY <1>1, <1>2, FlattenRuns
<1>4. \A k \in 1..n : f[k] \in Seq(V)
  BY <1>1, <1>2
<1>5. PICK g : Flattens(g, n, V, f) /\ FlattenSeq([k \in 1..n |-> f[k]]) = g[n]
  BY <1>4, FlattenRuns
<1> DEFINE S == {k \in 0..n : h[k] = g[k]}
<1>6. S = 0..n
  <2>1. S \in SUBSET (0..n) /\ 0 \in S
    BY <1>3, <1>5 DEF Flattens
  <2>2. ASSUME NEW k \in S, k < n PROVE k + 1 \in S
    <3>1. k \in 0..n /\ k + 1 \in 1..n /\ k + 1 \in 1..m /\ (k + 1) - 1 = k
      BY <2>2, <1>1
    <3>2. h[k + 1] = h[k] \o f[k + 1]
      BY <3>1, <1>3 DEF Flattens
    <3>3. g[k + 1] = g[k] \o f[k + 1]
      BY <3>1, <1>5 DEF Flattens
    <3>4. h[k] = g[k] /\ k + 1 \in 0..n
      BY <3>1
    <3>5. h[k + 1] = g[k + 1]
      BY ONLY <3>2, <3>3, <3>4, Zenon
    <3> QED BY <3>4, <3>5
  <2> HIDE DEF S
  <2> QED BY <2>1, <2>2, UpToInduction
<1>7. h[n] = g[n] /\ g[n] \in Seq(V)
  BY <1>6, <1>5 DEF Flattens
<1>8. h[m] = h[n] \o f[m]
  BY <1>1, <1>3 DEF Flattens
<1> QED BY <1>3, <1>5, <1>7, <1>8 DEF m

-----------------------------------------------------------------------------
(* Powers of two.                                                          *)

(* Powers of two are positive: they count the subsets of a finite set.     *)
LEMMA PowerPositive ==
  ASSUME NEW q \in Nat
  PROVE  2^q \in Nat \ {0}
<1> DEFINE S == 1..q
<1>1. IsFiniteSet(S) /\ Cardinality(S) = q
  BY FS_Interval
<1> HIDE DEF S
<1>2. IsFiniteSet(SUBSET S) /\ Cardinality(SUBSET S) = 2^q
  BY <1>1, FS_SUBSET
<1>3. Cardinality(SUBSET S) \in Nat /\ Cardinality(SUBSET S) # 0
  <2>1. {} \in SUBSET S
    OBVIOUS
  <2> QED
    BY <1>2, <2>1, FS_CardinalityType, FS_EmptySet
<1> QED
  BY <1>2, <1>3

(* One more element doubles the subsets.                                   *)
LEMMA PowerStep ==
  ASSUME NEW q \in Nat
  PROVE  2^(q + 1) = 2 * 2^q
<1> DEFINE S == 1..q
           T == 1..(q + 1)
           x == q + 1
           A == SUBSET S
           B == {X \cup {x} : X \in A}
           f == [X \in A |-> X \cup {x}]
<1>1. /\ IsFiniteSet(S) /\ Cardinality(S) = q
      /\ IsFiniteSet(T) /\ Cardinality(T) = q + 1
  BY FS_Interval
<1>2. x \notin S /\ T = S \cup {x}
  OBVIOUS
<1> HIDE DEF S, T, x
<1>3. IsFiniteSet(A) /\ Cardinality(A) = 2^q
  BY <1>1, FS_SUBSET
<1>4. Cardinality(SUBSET T) = 2^(q + 1)
  BY <1>1, FS_SUBSET
<1>5. SUBSET T = A \cup B
  <2>1. ASSUME NEW Y \in SUBSET T PROVE Y \in A \cup B
    <3>1. CASE x \in Y
      <4>1. Y \ {x} \in A /\ Y = (Y \ {x}) \cup {x}
        BY <1>2, <3>1
      <4> QED BY <4>1
    <3>2. CASE x \notin Y
      BY <1>2, <3>2
    <3> QED BY <3>1, <3>2
  <2>2. ASSUME NEW Y \in A \cup B PROVE Y \in SUBSET T
    BY <1>2
  <2> QED BY <2>1, <2>2
<1>6. A \cap B = {}
  BY <1>2
<1>7. f \in [A -> B] /\ (\A y \in B : \E X \in A : f[X] = y)
  OBVIOUS
<1>8. ASSUME NEW X \in A, NEW Y \in A, f[X] = f[Y] PROVE X = Y
  <2>1. x \notin X /\ x \notin Y /\ X \cup {x} = Y \cup {x}
    BY <1>2, <1>8
  <2> QED BY <2>1
<1> HIDE DEF A, B, f
<1>9. f \in Surjection(A, B)
  BY <1>7 DEF Surjection
<1>10. f \in Injection(A, B)
  BY <1>7, <1>8 DEF Injection, IsInjective
<1>11. IsFiniteSet(B) /\ Cardinality(B) = Cardinality(A)
  BY <1>3, <1>9, <1>10, FS_Surjection
<1>12. Cardinality(A \cup B) = Cardinality(A) + Cardinality(B)
  <2>1. Cardinality(A \cup B) = Cardinality(A) + Cardinality(B) - Cardinality(A \cap B)
    BY <1>3, <1>11, FS_Union
  <2>2. Cardinality(A \cap B) = 0 /\ Cardinality(A) \in Nat /\ Cardinality(B) \in Nat
    BY <1>3, <1>6, <1>11, FS_EmptySet, FS_CardinalityType
  <2> QED BY <2>1, <2>2
<1>13. 2^q \in Nat
  BY PowerPositive
<1> DEFINE m == 2^q
<1>14. Cardinality(A) = m /\ m \in Nat
  BY <1>3, <1>13
<1> HIDE DEF m
<1>15. Cardinality(SUBSET T) = 2 * m
  <2>1. Cardinality(SUBSET T) = Cardinality(A \cup B)
    BY ONLY <1>5, Zenon
  <2>2. Cardinality(SUBSET T) = m + m
    BY ONLY <2>1, <1>11, <1>12, <1>14, Zenon
  <2> QED BY <2>2, <1>14
<1> QED BY <1>4, <1>15 DEF m

(* The power of a sum.                                                     *)
LEMMA PowerSum ==
  ASSUME NEW a \in Nat, NEW b \in Nat
  PROVE  2^(a + b) = 2^a * 2^b
<1> DEFINE p(n) == 2^n
           S == {n \in Nat : p(a + n) = p(a) * p(n)}
<1>0. \A n \in Nat : p(n) \in Nat /\ p(n + 1) = 2 * p(n)
  BY PowerPositive, PowerStep
<1>1. p(0) = 1
  OBVIOUS
<1> HIDE DEF p
<1>2. 0 \in S
  <2>1. a + 0 = a /\ p(a) \in Nat
    BY <1>0
  <2> QED BY <2>1, <1>1
<1>3. ASSUME NEW n \in S PROVE n + 1 \in S
  <2>1. n \in Nat /\ a + n \in Nat /\ a + (n + 1) = (a + n) + 1 /\ p(a + n) = p(a) * p(n)
    OBVIOUS
  <2> DEFINE c == a + n
  <2>2. c \in Nat /\ p(c + 1) = 2 * p(c) /\ p(n + 1) = 2 * p(n)
    BY <1>0, <2>1
  <2>3. p(a) \in Nat /\ p(n) \in Nat
    BY <1>0, <2>1
  <2>4. p(c) = p(a) * p(n)
    BY <2>1
  <2>5. 2 * (p(a) * p(n)) = p(a) * (2 * p(n))
    BY <2>3
  <2>6. p(a + (n + 1)) = p(a) * p(n + 1)
    BY <2>1, <2>2, <2>4, <2>5
  <2> QED BY <2>1, <2>6
<1>4. S = Nat
  <2>1. S \in SUBSET Nat
    OBVIOUS
  <2> HIDE DEF S
  <2> QED BY <1>2, <1>3, <2>1, NatInductionSet
<1>5. p(a + b) = p(a) * p(b)
  BY <1>4
<1> QED BY <1>5 DEF p

(* Powers grow.                                                            *)
LEMMA PowerMonotone ==
  ASSUME NEW a \in Nat, NEW b \in Nat, a <= b
  PROVE  2^a <= 2^b
<1> DEFINE d == b - a
<1>1. d \in Nat /\ a + d = b
  OBVIOUS
<1> HIDE DEF d
<1>2. 2^(a + d) = 2^a * 2^d
  BY <1>1, PowerSum
<1>3. 2^a \in Nat \ {0} /\ 2^d \in Nat \ {0}
  BY <1>1, PowerPositive
<1> DEFINE m == 2^a
           n == 2^d
<1> HIDE DEF m, n
<1>4. m \in Nat \ {0} /\ n \in Nat \ {0}
  BY <1>3 DEF m, n
<1>5. m <= m * n
  BY <1>4
<1> QED BY <1>1, <1>2, <1>5 DEF m, n

-----------------------------------------------------------------------------
(* The note commitment tree.                                               *)

(* Quotient and remainder are unique.                                      *)
LEMMA DivUnique ==
  ASSUME NEW a \in Nat, NEW b \in Nat \ {0}, NEW q \in Nat, NEW r \in Nat,
         a = b * q + r, r < b
  PROVE  a \div b = q /\ a % b = r
<1> DEFINE u == a \div b
           v == a % b
<1>1. u \in Nat /\ v \in Nat /\ v < b /\ a = b * u + v
  OBVIOUS
<1> HIDE DEF u, v
<1>2. ~(u < q)
  <2> SUFFICES ASSUME u < q PROVE FALSE
    OBVIOUS
  <2>1. PICK e \in Nat : q = u + 1 + e
    <3>1. q - u - 1 \in Nat /\ q = u + 1 + (q - u - 1)
      BY <1>1
    <3> QED BY <3>1
  <2>2. b * q = b * u + b + b * e /\ b * e \in Nat /\ b * u \in Nat
    BY <1>1, <2>1
  <2> QED BY <1>1, <2>2
<1>3. ~(q < u)
  <2> SUFFICES ASSUME q < u PROVE FALSE
    OBVIOUS
  <2>1. PICK e \in Nat : u = q + 1 + e
    <3>1. u - q - 1 \in Nat /\ u = q + 1 + (u - q - 1)
      BY <1>1
    <3> QED BY <3>1
  <2>2. b * u = b * q + b + b * e /\ b * e \in Nat /\ b * q \in Nat
    BY <1>1, <2>1
  <2> QED BY <1>1, <2>2
<1>4. u = q
  BY <1>1, <1>2, <1>3
<1>5. v = r
  BY <1>1, <1>4
<1> QED BY <1>4, <1>5 DEF u, v

(* The parent of a node has half its index.                                *)
LEMMA HalfOf ==
  ASSUME NEW p \in Nat, NEW c \in Nat \ {0}
  PROVE  p \div (2 * c) = (p \div c) \div 2
<1> DEFINE q == p \div c
           r == p % c
           u == q \div 2
           v == q % 2
<1>1. q \in Nat /\ r \in Nat /\ r < c /\ p = c * q + r
  OBVIOUS
<1> HIDE DEF q, r
<1>2. u \in Nat /\ v \in {0, 1} /\ q = 2 * u + v
  BY <1>1
<1> HIDE DEF u, v
<1>3. c * v + r \in Nat /\ c * v + r < 2 * c
  BY <1>1, <1>2
<1>4. c * q = (2 * c) * u + c * v
  BY <1>1, <1>2
<1> DEFINE b == 2 * c
           w == c * v + r
<1>5. b \in Nat \ {0} /\ w \in Nat /\ w < b /\ p = b * u + w
  BY <1>1, <1>2, <1>3, <1>4
<1> HIDE DEF b, w
<1>6. p \div b = u
  BY <1>2, <1>5, DivUnique
<1> QED BY <1>6 DEF b, u, q

-----------------------------------------------------------------------------
(* A function from 1..n is a sequence of length n.                         *)
LEMMA FcnIsSeq ==
  ASSUME NEW n \in Nat, NEW V, NEW f \in [1..n -> V]
  PROVE  f \in Seq(V) /\ Len(f) = n /\ DOMAIN f = 1..n
<1>1. f \in Seq(V)
  BY SeqDef
<1> QED BY <1>1, LenProperties

(* The recursion of empty_roots has a solution, so the definition is one.  *)
LEMMA EmptyRootsDef ==
  /\ EmptyRoots[0] = EmptyLeaf
  /\ \A d \in 0..(TREE_DEPTH - 1) : EmptyRoots[d + 1] = <<EmptyRoots[d], EmptyRoots[d]>>
<1> DEFINE D == TREE_DEPTH
           Is(f, n) == f = [d \in 0..n |-> IF d = 0 THEN EmptyLeaf
                                           ELSE NodeHash(f[d - 1], f[d - 1])]
           S == {n \in 0..D : \E f : Is(f, n)}
<1>0. D \in Nat
  BY DepthAssumption
<1> HIDE DEF D
<1>1. 0 \in S
  <2>1. Is([d \in 0..0 |-> EmptyLeaf], 0)
    OBVIOUS
  <2> HIDE DEF Is
  <2> QED BY <2>1, <1>0
<1>2. ASSUME NEW n \in S, n < D PROVE n + 1 \in S
  <2>1. n \in Nat
    BY <1>0
  <2>2. PICK f : Is(f, n)
    OBVIOUS
  <2> DEFINE g == [d \in 0..(n + 1) |-> IF d = n + 1 THEN NodeHash(f[n], f[n]) ELSE f[d]]
  <2>3. ASSUME NEW d \in 0..(n + 1)
        PROVE  g[d] = IF d = 0 THEN EmptyLeaf ELSE NodeHash(g[d - 1], g[d - 1])
    <3>1. CASE d = n + 1
      BY <2>1, <3>1
    <3>2. CASE d # n + 1
      <4>1. d \in 0..n /\ (d # 0 => d - 1 \in 0..n)
        BY <2>1, <3>2
      <4>2. f[d] = IF d = 0 THEN EmptyLeaf ELSE NodeHash(f[d - 1], f[d - 1])
        BY <2>2, <4>1
      <4> HIDE DEF Is
      <4> QED BY <2>1, <3>2, <4>1, <4>2
    <3> QED BY <3>1, <3>2
  <2>4. g = [d \in 0..(n + 1) |-> IF d = 0 THEN EmptyLeaf ELSE NodeHash(g[d - 1], g[d - 1])]
    BY <2>3
  <2>5. Is(g, n + 1)
    BY <2>4
  <2>6. n + 1 \in 0..D
    BY <2>1, <1>0, <1>2
  <2> HIDE DEF Is, g
  <2> QED BY <2>5, <2>6
<1>3. D \in S
  <2>1. S = 0..D
    <3> HIDE DEF Is
    <3> QED BY <1>0, <1>1, <1>2, UpToInduction
  <2> QED BY <2>1, <1>0
<1>4. EmptyRoots = [d \in 0..D |-> IF d = 0 THEN EmptyLeaf
                                  ELSE NodeHash(EmptyRoots[d - 1], EmptyRoots[d - 1])]
  BY <1>3 DEF EmptyRoots, D
<1> HIDE DEF S, Is
<1>5. ASSUME NEW d \in 0..(D - 1)
      PROVE  EmptyRoots[d + 1] = <<EmptyRoots[d], EmptyRoots[d]>>
  <2> DEFINE e == d + 1
  <2>1. e \in 0..D /\ e # 0 /\ e - 1 = d
    BY <1>0
  <2> HIDE DEF e
  <2>2. EmptyRoots[e] = NodeHash(EmptyRoots[e - 1], EmptyRoots[e - 1])
    BY ONLY <1>4, <2>1
  <2> QED BY ONLY <2>1, <2>2 DEF e, NodeHash
<1>6. EmptyRoots[0] = EmptyLeaf
  BY ONLY <1>0, <1>4
<1> QED BY <1>5, <1>6 DEF D

(* So has that of the levels of a tree.                                    *)
LEMMA LevelsDef ==
  ASSUME NEW s
  PROVE  /\ Levels(s)[0] = s
         /\ \A d \in 0..(TREE_DEPTH - 1) : Levels(s)[d + 1] = NextLevel(Levels(s)[d], d)
<1> DEFINE D == TREE_DEPTH
           Is(f, n) == f = [d \in 0..n |-> IF d = 0 THEN s ELSE NextLevel(f[d - 1], d - 1)]
           S == {n \in 0..D : \E f : Is(f, n)}
<1>0. D \in Nat
  BY DepthAssumption
<1> HIDE DEF D
<1>1. 0 \in S
  <2>1. Is([d \in 0..0 |-> s], 0)
    OBVIOUS
  <2> HIDE DEF Is
  <2> QED BY <2>1, <1>0
<1>2. ASSUME NEW n \in S, n < D PROVE n + 1 \in S
  <2>1. n \in Nat
    BY <1>0
  <2>2. PICK f : Is(f, n)
    OBVIOUS
  <2> DEFINE g == [d \in 0..(n + 1) |-> IF d = n + 1 THEN NextLevel(f[n], n) ELSE f[d]]
  <2>3. ASSUME NEW d \in 0..(n + 1)
        PROVE  g[d] = IF d = 0 THEN s ELSE NextLevel(g[d - 1], d - 1)
    <3>1. CASE d = n + 1
      BY <2>1, <3>1
    <3>2. CASE d # n + 1
      <4>1. d \in 0..n /\ (d # 0 => d - 1 \in 0..n)
        BY <2>1, <3>2
      <4>2. f[d] = IF d = 0 THEN s ELSE NextLevel(f[d - 1], d - 1)
        BY <2>2, <4>1
      <4> HIDE DEF Is
      <4> QED BY <2>1, <3>2, <4>1, <4>2
    <3> QED BY <3>1, <3>2
  <2>4. g = [d \in 0..(n + 1) |-> IF d = 0 THEN s ELSE NextLevel(g[d - 1], d - 1)]
    BY <2>3
  <2>5. Is(g, n + 1)
    BY <2>4
  <2>6. n + 1 \in 0..D
    BY <2>1, <1>0, <1>2
  <2> HIDE DEF Is, g
  <2> QED BY <2>5, <2>6
<1>3. D \in S
  <2>1. S = 0..D
    <3> HIDE DEF Is
    <3> QED BY <1>0, <1>1, <1>2, UpToInduction
  <2> QED BY <2>1, <1>0
<1>4. Levels(s) = [d \in 0..D |-> IF d = 0 THEN s ELSE NextLevel(Levels(s)[d - 1], d - 1)]
  BY <1>3 DEF Levels, D
<1> HIDE DEF S, Is
<1>5. ASSUME NEW d \in 0..(D - 1)
      PROVE  Levels(s)[d + 1] = NextLevel(Levels(s)[d], d)
  <2> DEFINE e == d + 1
  <2>1. e \in 0..D /\ e # 0 /\ e - 1 = d
    BY <1>0
  <2> HIDE DEF e
  <2>2. Levels(s)[e] = NextLevel(Levels(s)[e - 1], e - 1)
    BY ONLY <1>4, <2>1
  <2> QED BY ONLY <2>1, <2>2 DEF e
<1>6. Levels(s)[0] = s
  BY ONLY <1>0, <1>4
<1> QED BY <1>5, <1>6 DEF D

(* And that of a path: cur climbs from the leaf to the root.               *)
Climbs(cur, leaf, path) ==
    /\ cur[0] = leaf
    /\ \A d \in 0..(TREE_DEPTH - 1) :
          cur[d + 1] = IF (path.position \div 2^d) % 2 = 0
                       THEN <<cur[d], path.siblings[d + 1]>>
                       ELSE <<path.siblings[d + 1], cur[d]>>
    /\ PathRoot(leaf, path) = cur[TREE_DEPTH]

(* Verifying a path climbs from the leaf, level by level.                  *)
LEMMA PathClimbs ==
  ASSUME NEW leaf, NEW path
  PROVE  \E cur : Climbs(cur, leaf, path)
<1> DEFINE D == TREE_DEPTH
           Up(c, d) == IF (path.position \div 2^(d - 1)) % 2 = 0
                       THEN NodeHash(c, path.siblings[d])
                       ELSE NodeHash(path.siblings[d], c)
           Is(f, n) == f = [d \in 0..n |-> IF d = 0 THEN leaf
                                           ELSE IF (path.position \div 2^(d - 1)) % 2 = 0
                                           THEN NodeHash(f[d - 1], path.siblings[d])
                                           ELSE NodeHash(path.siblings[d], f[d - 1])]
           Js(f, n) == f = [d \in 0..n |-> IF d = 0 THEN leaf ELSE Up(f[d - 1], d)]
           S == {n \in 0..D : \E f : Js(f, n)}
<1>0. D \in Nat
  BY DepthAssumption
<1> HIDE DEF D, Up
<1>1. 0 \in S
  <2>1. Js([d \in 0..0 |-> leaf], 0)
    OBVIOUS
  <2> HIDE DEF Js
  <2> QED BY <2>1, <1>0
<1>2. ASSUME NEW n \in S, n < D PROVE n + 1 \in S
  <2>1. n \in Nat
    BY <1>0
  <2>2. PICK f : Js(f, n)
    OBVIOUS
  <2> DEFINE g == [d \in 0..(n + 1) |-> IF d = n + 1 THEN Up(f[n], n + 1) ELSE f[d]]
  <2>3. ASSUME NEW d \in 0..(n + 1)
        PROVE  g[d] = IF d = 0 THEN leaf ELSE Up(g[d - 1], d)
    <3>1. CASE d = n + 1
      BY <2>1, <3>1
    <3>2. CASE d # n + 1
      <4>1. d \in 0..n /\ (d # 0 => d - 1 \in 0..n)
        BY <2>1, <3>2
      <4>2. f[d] = IF d = 0 THEN leaf ELSE Up(f[d - 1], d)
        BY <2>2, <4>1
      <4> HIDE DEF Js
      <4> QED BY <2>1, <3>2, <4>1, <4>2
    <3> QED BY <3>1, <3>2
  <2>4. g = [d \in 0..(n + 1) |-> IF d = 0 THEN leaf ELSE Up(g[d - 1], d)]
    BY <2>3
  <2>5. Js(g, n + 1)
    BY <2>4
  <2>6. n + 1 \in 0..D
    BY <2>1, <1>0, <1>2
  <2> HIDE DEF Js, g
  <2> QED BY <2>5, <2>6
<1>3. D \in S
  <2>1. S = 0..D
    <3> HIDE DEF Js
    <3> QED BY <1>0, <1>1, <1>2, UpToInduction
  <2> QED BY <2>1, <1>0
<1> DEFINE cur == CHOOSE f : Is(f, D)
<1>4. \E f : Is(f, D)
  BY <1>3 DEF Up
<1>5. Is(cur, D)
  BY <1>4
<1>6. PathRoot(leaf, path) = cur[D]
  BY DEF PathRoot, D
<1> HIDE DEF cur
<1>7. cur[0] = leaf
  BY <1>0, <1>5
<1>8. ASSUME NEW d \in 0..(D - 1)
      PROVE  cur[d + 1] = IF (path.position \div 2^d) % 2 = 0
                          THEN <<cur[d], path.siblings[d + 1]>>
                          ELSE <<path.siblings[d + 1], cur[d]>>
  <2>1. d + 1 \in 0..D /\ d + 1 # 0 /\ (d + 1) - 1 = d
    BY <1>0
  <2> DEFINE e == d + 1
  <2>2. e \in 0..D /\ e # 0 /\ e - 1 = d
    BY <2>1
  <2> HIDE DEF e
  <2>3. cur[e] = IF (path.position \div 2^(e - 1)) % 2 = 0
                 THEN NodeHash(cur[e - 1], path.siblings[e])
                 ELSE NodeHash(path.siblings[e], cur[e - 1])
    BY <1>5, <2>2
  <2> QED BY <2>2, <2>3 DEF e, NodeHash
<1> QED BY <1>6, <1>7, <1>8 DEF Climbs, D

-----------------------------------------------------------------------------
(* The node at an index, from 0, of a level: one that is not stored roots  *)
(* an empty subtree.                                                       *)
TreeNode(s, d, k) ==
    IF k < Len(Levels(s)[d]) THEN Levels(s)[d][k + 1] ELSE EmptyRoots[d]

(* Levels have a length, and one that begins is never empty.               *)
LEMMA LevelLengths ==
  ASSUME NEW S, NEW s \in Seq(S)
  PROVE  \A d \in 0..TREE_DEPTH : /\ Len(Levels(s)[d]) \in Nat
                                  /\ Len(s) > 0 => Len(Levels(s)[d]) > 0
<1> DEFINE D == TREE_DEPTH
           T == {d \in 0..D : /\ Len(Levels(s)[d]) \in Nat
                              /\ Len(s) > 0 => Len(Levels(s)[d]) > 0}
<1>0. D \in Nat
  BY DepthAssumption
<1>1. 0 \in T
  BY <1>0, LevelsDef
<1>2. ASSUME NEW d \in T, d < D PROVE d + 1 \in T
  <2> DEFINE n == Len(Levels(s)[d])
             m == (n + 1) \div 2
             l == NextLevel(Levels(s)[d], d)
  <2>1. d \in 0..(D - 1) /\ d + 1 \in 0..D /\ n \in Nat /\ (Len(s) > 0 => n > 0)
    BY <1>0, <1>2
  <2> HIDE DEF T
  <2>2. Levels(s)[d + 1] = l
    BY <2>1, LevelsDef
  <2>3. l \in [1..m -> {l[k] : k \in 1..m}]
    BY DEF NextLevel
  <2> HIDE DEF n, l
  <2>4. m \in Nat /\ (n > 0 => m > 0)
    BY <2>1
  <2> HIDE DEF m
  <2>5. Len(l) = m
    BY <2>3, <2>4, FcnIsSeq
  <2> QED BY <2>1, <2>2, <2>4, <2>5 DEF T
<1>3. T = 0..D
  <2> HIDE DEF T, D
  <2>1. T \in SUBSET (0..D)
    BY DEF T
  <2> QED BY <1>0, <1>1, <1>2, <2>1, UpToInduction
<1> QED BY <1>3

(* A leaf that is not stored is empty, and a node has two children.        *)
LEMMA NodeLeaf ==
  ASSUME NEW S, NEW s \in Seq(S), NEW k \in Nat
  PROVE  TreeNode(s, 0, k) = IF k < Len(s) THEN s[k + 1] ELSE EmptyLeaf
BY LevelsDef, EmptyRootsDef DEF TreeNode

(* A node of the padded tree is the pair of its children.                  *)
LEMMA NodeChildren ==
  ASSUME NEW S, NEW s \in Seq(S), NEW d \in 0..(TREE_DEPTH - 1), NEW k \in Nat
  PROVE  TreeNode(s, d + 1, k) = <<TreeNode(s, d, 2 * k), TreeNode(s, d, 2 * k + 1)>>
<1> DEFINE v == Levels(s)[d]
           n == Len(v)
           m == (n + 1) \div 2
           l == NextLevel(v, d)
<1>1. n \in Nat /\ m \in Nat
  <2>1. d \in 0..TREE_DEPTH
    BY DepthAssumption
  <2>2. n \in Nat
    BY <2>1, LevelLengths
  <2> HIDE DEF n
  <2> QED BY <2>2
<1>2. Levels(s)[d + 1] = l /\ EmptyRoots[d + 1] = <<EmptyRoots[d], EmptyRoots[d]>>
  BY LevelsDef, EmptyRootsDef
<1>3. l = [j \in 1..m |-> <<v[2 * j - 1], IF 2 * j <= n THEN v[2 * j] ELSE EmptyRoots[d]>>]
  BY DEF NextLevel, NodeHash
<1>4. TreeNode(s, d + 1, k) = IF k < Len(l) THEN l[k + 1] ELSE EmptyRoots[d + 1]
  BY <1>2 DEF TreeNode
<1>5. /\ TreeNode(s, d, 2 * k) = IF 2 * k < n THEN v[2 * k + 1] ELSE EmptyRoots[d]
      /\ TreeNode(s, d, 2 * k + 1) = IF 2 * k + 1 < n THEN v[2 * k + 1 + 1] ELSE EmptyRoots[d]
  BY DEF TreeNode
<1>6. Len(l) = m
  <2>1. l \in [1..m -> {l[j] : j \in 1..m}]
    BY <1>3
  <2> HIDE DEF l, m
  <2> QED BY <1>1, <2>1, FcnIsSeq
<1> HIDE DEF l, n, v
<1>7. 2 * m >= n /\ 2 * m <= n + 1
  BY <1>1
<1> HIDE DEF m
<1>8. CASE k < m
  <2>1. k + 1 \in 1..m /\ 2 * k < n /\ 2 * (k + 1) - 1 = 2 * k + 1
        /\ 2 * (k + 1) = 2 * k + 1 + 1
        /\ (2 * k + 1 + 1 <= n <=> 2 * k + 1 < n)
    BY <1>1, <1>7, <1>8
  <2>2. l[k + 1] = <<v[2 * (k + 1) - 1],
                     IF 2 * (k + 1) <= n THEN v[2 * (k + 1)] ELSE EmptyRoots[d]>>
    BY <1>3, <2>1
  <2> QED BY <1>4, <1>5, <1>6, <1>8, <2>1, <2>2
<1>9. CASE ~(k < m)
  <2>1. ~(2 * k < n) /\ ~(2 * k + 1 < n)
    BY <1>1, <1>7, <1>9
  <2> QED BY <1>2, <1>4, <1>5, <1>6, <1>9, <2>1
<1> QED BY <1>8, <1>9

(* The root is the node above all, and a witness has the siblings of the   *)
(* nodes above its position.                                               *)
LEMMA RootIsNode ==
  ASSUME NEW S, NEW s \in Seq(S)
  PROVE  MerkleRoot(s) = TreeNode(s, TREE_DEPTH, 0)
<1> DEFINE n == Len(Levels(s)[TREE_DEPTH])
<1>0. TREE_DEPTH \in 0..TREE_DEPTH /\ TREE_DEPTH \in Nat
  BY DepthAssumption
<1>1. n \in Nat /\ (Len(s) > 0 => n > 0)
  BY <1>0, LevelLengths
<1>2. CASE s = << >>
  <2> DEFINE T == {d \in 0..TREE_DEPTH : Len(Levels(s)[d]) = 0}
  <2>1. 0 \in T
    BY <1>0, <1>2, LevelsDef
  <2>2. ASSUME NEW d \in T, d < TREE_DEPTH PROVE d + 1 \in T
    <3>0. Len(Levels(s)[d]) = 0 /\ d \in 0..(TREE_DEPTH - 1) /\ d + 1 \in 0..TREE_DEPTH
      BY <1>0, <2>2
    <3> HIDE DEF T
    <3>1. Levels(s)[d + 1] = NextLevel(Levels(s)[d], d)
      BY <3>0, LevelsDef
    <3> DEFINE l == NextLevel(Levels(s)[d], d)
               m == (0 + 1) \div 2
    <3>2. l \in [1..m -> {l[k] : k \in 1..m}] /\ m = 0
      BY <3>0 DEF NextLevel
    <3> HIDE DEF l, m
    <3>3. Len(l) = 0
      BY <3>2, FcnIsSeq
    <3> QED BY <3>0, <3>1, <3>3 DEF l, T
  <2>3. T = 0..TREE_DEPTH
    <3> HIDE DEF T
    <3>1. T \in SUBSET (0..TREE_DEPTH)
      BY DEF T
    <3> QED BY <1>0, <2>1, <2>2, <3>1, UpToInduction
  <2>4. n = 0
    BY <1>0, <2>3
  <2> QED BY <1>2, <2>4 DEF MerkleRoot, TreeNode
<1>3. CASE s # << >>
  <2>1. Len(s) > 0
    BY <1>3
  <2> QED BY <1>1, <1>3, <2>1 DEF MerkleRoot, TreeNode
<1> QED BY <1>2, <1>3

(* A witness holds the sibling at each level.                              *)
LEMMA WitnessSiblings ==
  ASSUME NEW s, NEW p \in Nat, NEW d \in 0..(TREE_DEPTH - 1)
  PROVE  /\ Witness(s, p).position = p
         /\ Witness(s, p).siblings[d + 1] = TreeNode(s, d, Flip(p \div 2^d))
<1> DEFINE e == d + 1
<1>1. e \in 1..TREE_DEPTH /\ e - 1 = d
  BY DepthAssumption
<1> HIDE DEF e
<1>2. Witness(s, p).siblings[e] = TreeNode(s, e - 1, Flip(p \div 2^(e - 1)))
  BY <1>1 DEF Witness, TreeNode
<1> QED BY <1>1, <1>2 DEF e, Witness

-----------------------------------------------------------------------------
SameLeaves(s, t, d, k, m) ==
    \A j \in 0..(2^d - 1) : TreeNode(s, 0, k * 2^d + j) = TreeNode(t, 0, m * 2^d + j)

(* Hashes are injective: two nodes are equal exactly if the leaves below   *)
(* them are.                                                               *)
LEMMA NodesAgree ==
  ASSUME NEW S, NEW s \in Seq(S), NEW U, NEW t \in Seq(U),
         NEW n \in 0..TREE_DEPTH, NEW u \in Nat, NEW v \in Nat
  PROVE  TreeNode(s, n, u) = TreeNode(t, n, v) <=> SameLeaves(s, t, n, u, v)
<1> DEFINE D == TREE_DEPTH
           a(i) == TreeNode(s, 0, i)
           b(i) == TreeNode(t, 0, i)
           Below(k, m, c) == \A j \in 0..(c - 1) : a(k * c + j) = b(m * c + j)
           X == {d \in 0..D : \A k, m \in Nat :
                    TreeNode(s, d, k) = TreeNode(t, d, m) <=> Below(k, m, 2^d)}
<1>0. D \in Nat
  BY DepthAssumption
<1> HIDE DEF D, a, b
<1>1. 0 \in X
  <2>1. 2^0 = 1
    OBVIOUS
  <2>2. ASSUME NEW k \in Nat, NEW m \in Nat
        PROVE  Below(k, m, 1) <=> a(k) = b(m)
    <3>1. 0..(1 - 1) = {0} /\ k * 1 + 0 = k /\ m * 1 + 0 = m
      OBVIOUS
    <3> QED BY <3>1
  <2> HIDE DEF Below
  <2> QED BY <1>0, <2>1, <2>2 DEF a, b
<1>2. ASSUME NEW d \in X, d < D PROVE d + 1 \in X
  <2> DEFINE c == 2^d
  <2>1. d \in 0..(TREE_DEPTH - 1) /\ d + 1 \in 0..D
    BY <1>0, <1>2 DEF D
  <2>2. c \in Nat \ {0} /\ 2^(d + 1) = 2 * c
    BY <2>1, PowerPositive, PowerStep
  <2>3. ASSUME NEW k \in Nat, NEW m \in Nat
        PROVE  TreeNode(s, d, k) = TreeNode(t, d, m) <=> Below(k, m, c)
    BY <1>2
  <2> HIDE DEF X, c
  <2>4. ASSUME NEW k \in Nat, NEW m \in Nat
        PROVE  TreeNode(s, d + 1, k) = TreeNode(t, d + 1, m) <=> Below(k, m, 2 * c)
    <3>1. /\ TreeNode(s, d + 1, k) = <<TreeNode(s, d, 2 * k), TreeNode(s, d, 2 * k + 1)>>
          /\ TreeNode(t, d + 1, m) = <<TreeNode(t, d, 2 * m), TreeNode(t, d, 2 * m + 1)>>
      BY <2>1, NodeChildren
    <3>2. TreeNode(s, d + 1, k) = TreeNode(t, d + 1, m) <=>
             Below(2 * k, 2 * m, c) /\ Below(2 * k + 1, 2 * m + 1, c)
      <4>1. 2 * k \in Nat /\ 2 * k + 1 \in Nat /\ 2 * m \in Nat /\ 2 * m + 1 \in Nat
        OBVIOUS
      <4> HIDE DEF Below
      <4>2. /\ TreeNode(s, d, 2 * k) = TreeNode(t, d, 2 * m) <=> Below(2 * k, 2 * m, c)
            /\ TreeNode(s, d, 2 * k + 1) = TreeNode(t, d, 2 * m + 1)
                  <=> Below(2 * k + 1, 2 * m + 1, c)
        BY ONLY <2>3, <4>1
      <4> QED BY ONLY <3>1, <4>2
    <3>3. ASSUME Below(2 * k, 2 * m, c), Below(2 * k + 1, 2 * m + 1, c),
                 NEW j \in 0..(2 * c - 1)
          PROVE  a(k * (2 * c) + j) = b(m * (2 * c) + j)
      <4>1. CASE j < c
        <5>1. j \in 0..(c - 1) /\ k * (2 * c) + j = (2 * k) * c + j
              /\ m * (2 * c) + j = (2 * m) * c + j
          BY <2>2, <4>1
        <5>2. a((2 * k) * c + j) = b((2 * m) * c + j)
          BY <3>3, <5>1
        <5> QED BY <5>1, <5>2
      <4>2. CASE j >= c
        <5> DEFINE i == j - c
        <5>1. i \in 0..(c - 1)
          BY <2>2, <4>2
        <5>2. k * (2 * c) + j = (2 * k + 1) * c + i
          BY <2>2
        <5>3. m * (2 * c) + j = (2 * m + 1) * c + i
          BY <2>2
        <5>4. a((2 * k + 1) * c + i) = b((2 * m + 1) * c + i)
          BY <3>3, <5>1
        <5> QED BY <5>2, <5>3, <5>4
      <4> QED BY <2>2, <4>1, <4>2
    <3>4. ASSUME Below(k, m, 2 * c), NEW j \in 0..(c - 1)
          PROVE  /\ a((2 * k) * c + j) = b((2 * m) * c + j)
                 /\ a((2 * k + 1) * c + j) = b((2 * m + 1) * c + j)
      <4>1. j \in 0..(2 * c - 1) /\ c + j \in 0..(2 * c - 1)
        BY <2>2
      <4>2. k * (2 * c) + j = (2 * k) * c + j /\ k * (2 * c) + (c + j) = (2 * k + 1) * c + j
        BY <2>2
      <4>3. m * (2 * c) + j = (2 * m) * c + j /\ m * (2 * c) + (c + j) = (2 * m + 1) * c + j
        BY <2>2
      <4>4. /\ a(k * (2 * c) + j) = b(m * (2 * c) + j)
            /\ a(k * (2 * c) + (c + j)) = b(m * (2 * c) + (c + j))
        BY <3>4, <4>1
      <4> QED BY <4>2, <4>3, <4>4
    <3>5. Below(2 * k, 2 * m, c) /\ Below(2 * k + 1, 2 * m + 1, c) => Below(k, m, 2 * c)
      BY <3>3
    <3>6. Below(k, m, 2 * c) => Below(2 * k, 2 * m, c) /\ Below(2 * k + 1, 2 * m + 1, c)
      BY <3>4
    <3> HIDE DEF Below
    <3> QED BY <3>2, <3>5, <3>6
  <2> HIDE DEF Below
  <2> QED BY <2>1, <2>2, <2>4 DEF X
<1>3. X = 0..D
  <2>1. X \in SUBSET (0..D)
    OBVIOUS
  <2> HIDE DEF X
  <2> QED BY <1>0, <1>1, <1>2, <2>1, UpToInduction
<1>4. TreeNode(s, n, u) = TreeNode(t, n, v) <=> Below(u, v, 2^n)
  <2>1. n \in X
    BY <1>3 DEF D
  <2> HIDE DEF Below
  <2> QED BY <2>1
<1> QED BY <1>4 DEF a, b, SameLeaves

(* One step up: the parent's children are a node and its sibling, in the   *)
(* order that the bit of the index says.                                   *)
LEMMA NodeAndSibling ==
  ASSUME NEW S, NEW s \in Seq(S), NEW d \in 0..(TREE_DEPTH - 1), NEW m \in Nat
  PROVE  LET q == m \div 2^d
         IN  /\ q \in Nat /\ Flip(q) \in Nat /\ Flip(q) # q
             /\ TreeNode(s, d + 1, m \div 2^(d + 1))
                  = IF q % 2 = 0 THEN <<TreeNode(s, d, q), TreeNode(s, d, Flip(q))>>
                                 ELSE <<TreeNode(s, d, Flip(q)), TreeNode(s, d, q)>>
<1> DEFINE c == 2^d
           q == m \div c
           u == m \div 2^(d + 1)
<1>1. c \in Nat \ {0} /\ 2^(d + 1) = 2 * c
  BY DepthAssumption, PowerPositive, PowerStep
<1> HIDE DEF c
<1>2. q \in Nat /\ u = q \div 2
  <2>1. q \in Nat
    BY <1>1
  <2>2. m \div (2 * c) = q \div 2
    BY <1>1, HalfOf
  <2> QED BY <1>1, <2>1, <2>2
<1> HIDE DEF q, u
<1>3. u \in Nat /\ (q % 2 = 0 => q = 2 * u /\ Flip(q) = 2 * u + 1)
      /\ (q % 2 # 0 => q = 2 * u + 1 /\ Flip(q) = 2 * u)
  BY <1>2 DEF Flip
<1>4. TreeNode(s, d + 1, u) = <<TreeNode(s, d, 2 * u), TreeNode(s, d, 2 * u + 1)>>
  BY <1>3, NodeChildren
<1>5. Flip(q) \in Nat /\ Flip(q) # q
  BY <1>2, <1>3
<1> QED BY <1>2, <1>3, <1>4, <1>5 DEF c, q, u

(* A path that reaches a node was opened from the leaf below it, and its   *)
(* first sibling is that leaf's.                                           *)
LEMMA PathOpens ==
  ASSUME NEW S, NEW s \in Seq(S), NEW leaf, NEW path, NEW m \in Nat,
         \A d \in 0..(TREE_DEPTH - 1) :
            (path.position \div 2^d) % 2 = (m \div 2^d) % 2,
         PathRoot(leaf, path) = TreeNode(s, TREE_DEPTH, m \div 2^TREE_DEPTH)
  PROVE  /\ leaf = TreeNode(s, 0, m)
         /\ path.siblings[1] = TreeNode(s, 0, Flip(m))
<1>0. TREE_DEPTH \in Nat \ {0}
  BY DepthAssumption
<1>1. PICK cur : Climbs(cur, leaf, path)
  BY PathClimbs
<1> DEFINE D == TREE_DEPTH
           X == {e \in 0..D : cur[D - e] = TreeNode(s, D - e, m \div 2^(D - e))}
<1>2. ASSUME NEW d \in 0..(D - 1), cur[d + 1] = TreeNode(s, d + 1, m \div 2^(d + 1))
      PROVE  /\ cur[d] = TreeNode(s, d, m \div 2^d)
             /\ path.siblings[d + 1] = TreeNode(s, d, Flip(m \div 2^d))
  <2> DEFINE q == m \div 2^d
  <2>1. TreeNode(s, d + 1, m \div 2^(d + 1))
           = IF q % 2 = 0 THEN <<TreeNode(s, d, q), TreeNode(s, d, Flip(q))>>
                          ELSE <<TreeNode(s, d, Flip(q)), TreeNode(s, d, q)>>
    BY NodeAndSibling
  <2>2. cur[d + 1] = IF (path.position \div 2^d) % 2 = 0
                     THEN <<cur[d], path.siblings[d + 1]>>
                     ELSE <<path.siblings[d + 1], cur[d]>>
    BY <1>1 DEF Climbs
  <2>3. (path.position \div 2^d) % 2 = q % 2
    OBVIOUS
  <2> HIDE DEF q
  <2>4. CASE q % 2 = 0
    BY <1>2, <2>1, <2>2, <2>3, <2>4 DEF q
  <2>5. CASE q % 2 # 0
    BY <1>2, <2>1, <2>2, <2>3, <2>5 DEF q
  <2> QED BY <2>4, <2>5
<1>3. 0 \in X
  <2>1. D - 0 = D /\ 0 \in 0..D
    BY <1>0
  <2> QED BY <1>1, <2>1 DEF Climbs
<1>4. ASSUME NEW e \in X, e < D PROVE e + 1 \in X
  <2> DEFINE d == D - (e + 1)
  <2>1. d \in 0..(D - 1) /\ d + 1 = D - e /\ e + 1 \in 0..D
    BY <1>0, <1>4
  <2>2. cur[D - e] = TreeNode(s, D - e, m \div 2^(D - e))
    BY <1>4
  <2> HIDE DEF d, X
  <2>3. cur[d] = TreeNode(s, d, m \div 2^d)
    BY <1>2, <2>1, <2>2
  <2> QED BY <2>1, <2>3 DEF d, X
<1>5. X = 0..D
  <2>1. X \in SUBSET (0..D)
    OBVIOUS
  <2> HIDE DEF X
  <2> QED BY <1>0, <1>3, <1>4, <2>1, UpToInduction
<1>6. \A d \in 0..D : cur[d] = TreeNode(s, d, m \div 2^d)
  <2> TAKE d \in 0..D
  <2>1. D - d \in 0..D /\ D - (D - d) = d
    BY <1>0
  <2>2. D - d \in X
    BY <1>5, <2>1
  <2> QED BY <2>1, <2>2
<1> HIDE DEF X
<1>7. 2^0 = 1 /\ m \div 1 = m
  OBVIOUS
<1>8. 0 \in 0..D /\ 1 \in 0..D /\ 0 \in 0..(D - 1) /\ 0 + 1 = 1
  BY <1>0
<1>9. cur[0] = TreeNode(s, 0, m) /\ cur[0] = leaf
  BY <1>1, <1>6, <1>7, <1>8 DEF Climbs
<1>10. path.siblings[1] = TreeNode(s, 0, Flip(m))
  <2>1. cur[0 + 1] = TreeNode(s, 0 + 1, m \div 2^(0 + 1))
    BY <1>6, <1>8
  <2>2. path.siblings[0 + 1] = TreeNode(s, 0, Flip(m \div 2^0))
    BY <1>2, <1>8, <2>1
  <2> QED BY <1>7, <2>2
<1> QED BY <1>9, <1>10

(* The witness of a position leads any leaf put there up to the node above *)
(* it, in the tree t that has that leaf instead.                           *)
LEMMA PathCloses ==
  ASSUME NEW S, NEW s \in Seq(S), NEW t \in Seq(S), Len(t) = Len(s),
         NEW p \in Nat, p < Len(s),
         \A k \in 1..Len(s) : k # p + 1 => t[k] = s[k]
  PROVE  PathRoot(t[p + 1], Witness(s, p)) = TreeNode(t, TREE_DEPTH, p \div 2^TREE_DEPTH)
<1> DEFINE D == TREE_DEPTH
           path == Witness(s, p)
<1>0. D \in Nat \ {0}
  BY DepthAssumption
<1>1. PICK cur : Climbs(cur, t[p + 1], path)
  BY PathClimbs
<1>2. ASSUME NEW d \in 0..(D - 1)
      PROVE  path.siblings[d + 1] = TreeNode(t, d, Flip(p \div 2^d))
  <2> DEFINE c == 2^d
             f == Flip(p \div c)
  <2>1. c \in Nat \ {0} /\ d \in 0..D
    BY <1>0, PowerPositive
  <2>2. p \div c \in Nat /\ f \in Nat /\ f # p \div c
    BY NodeAndSibling
  <2>3. path.siblings[d + 1] = TreeNode(s, d, f)
    BY WitnessSiblings
  <2> HIDE DEF c, f, path
  <2>4. ASSUME NEW j \in 0..(c - 1)
        PROVE  TreeNode(s, 0, f * c + j) = TreeNode(t, 0, f * c + j)
    <3> DEFINE i == f * c + j
    <3>0. c \in Nat \ {0} /\ f \in Nat /\ j \in 0..(c - 1)
      BY <2>1, <2>2
    <3>1. i \in Nat /\ j \in Nat /\ j < c /\ i = c * f + j
      BY ONLY <3>0
    <3> HIDE DEF i
    <3>2. i \div c = f
      BY <2>1, <2>2, <3>1, DivUnique
    <3>3. i # p
      BY <2>2, <3>2
    <3>4. i < Len(s) => t[i + 1] = s[i + 1]
      BY <3>1, <3>3
    <3>5. TreeNode(s, 0, i) = TreeNode(t, 0, i)
      BY <3>1, <3>4, NodeLeaf
    <3> QED BY <3>5 DEF i
  <2>5. TreeNode(s, d, f) = TreeNode(t, d, f)
    <3>1. TreeNode(s, d, f) = TreeNode(t, d, f) <=> SameLeaves(s, t, d, f, f)
      BY <2>1, <2>2, NodesAgree
    <3> QED BY ONLY <2>4, <3>1 DEF c, SameLeaves
  <2> QED BY <2>3, <2>5 DEF f, c
<1>3. path.position = p
  BY DEF Witness
<1> HIDE DEF path
<1> DEFINE X == {d \in 0..D : cur[d] = TreeNode(t, d, p \div 2^d)}
<1>4. 0 \in X
  <2>1. 2^0 = 1 /\ p \div 1 = p /\ 0 \in 0..D
    BY <1>0
  <2>2. TreeNode(t, 0, p) = t[p + 1]
    BY NodeLeaf
  <2> QED BY <1>1, <2>1, <2>2 DEF Climbs
<1>5. ASSUME NEW d \in X, d < D PROVE d + 1 \in X
  <2> DEFINE q == p \div 2^d
  <2>1. d \in 0..(D - 1) /\ d + 1 \in 0..D /\ cur[d] = TreeNode(t, d, q)
    BY <1>0, <1>5
  <2> HIDE DEF X
  <2>2. TreeNode(t, d + 1, p \div 2^(d + 1))
           = IF q % 2 = 0 THEN <<TreeNode(t, d, q), TreeNode(t, d, Flip(q))>>
                          ELSE <<TreeNode(t, d, Flip(q)), TreeNode(t, d, q)>>
    BY <2>1, NodeAndSibling
  <2>3. cur[d + 1] = IF q % 2 = 0 THEN <<cur[d], path.siblings[d + 1]>>
                                  ELSE <<path.siblings[d + 1], cur[d]>>
    BY <1>1, <1>3, <2>1 DEF Climbs
  <2>4. path.siblings[d + 1] = TreeNode(t, d, Flip(q))
    BY <1>2, <2>1
  <2> HIDE DEF q
  <2>5. cur[d + 1] = TreeNode(t, d + 1, p \div 2^(d + 1))
    BY <2>1, <2>2, <2>3, <2>4
  <2> QED BY <2>1, <2>5 DEF X
<1>6. X = 0..D
  <2>1. X \in SUBSET (0..D)
    OBVIOUS
  <2> HIDE DEF X
  <2> QED BY <1>0, <1>4, <1>5, <2>1, UpToInduction
<1>7. D \in X
  BY <1>0, <1>6
<1> QED BY <1>1, <1>7 DEF Climbs, path

(* The bits of an index below the depth are those of its remainder.        *)
LEMMA LowBits ==
  ASSUME NEW p \in Nat, NEW d \in 0..(TREE_DEPTH - 1)
  PROVE  (p \div 2^d) % 2 = ((p % 2^TREE_DEPTH) \div 2^d) % 2
<1> DEFINE C == 2^TREE_DEPTH
           c == 2^d
           g == TREE_DEPTH - d - 1
           e == 2^g
           q == p \div C
           m == p % C
           a == m \div c
           b == m % c
<1>1. g \in Nat /\ d \in Nat /\ (d + 1) + g = TREE_DEPTH /\ TREE_DEPTH \in Nat
  BY DepthAssumption
<1> HIDE DEF g
<1>2. C = 2^(d + 1) * 2^g /\ 2^(d + 1) = 2 * 2^d
  <2>1. 2^((d + 1) + g) = 2^(d + 1) * 2^g
    BY <1>1, PowerSum
  <2> QED BY <1>1, <2>1, PowerStep
<1>3. C \in Nat \ {0} /\ c \in Nat \ {0} /\ e \in Nat \ {0}
  BY <1>1, PowerPositive
<1>4. C = (2 * c) * e
  BY <1>2
<1> HIDE DEF C, c, e
<1>5. q \in Nat /\ m \in Nat /\ p = C * q + m
  BY <1>3
<1> HIDE DEF q, m
<1>6. a \in Nat /\ b \in Nat /\ b < c /\ m = c * a + b
  BY <1>3, <1>5
<1> HIDE DEF a, b
<1> DEFINE x == e * q
           y == 2 * x + a
<1>7. x \in Nat /\ C * q = c * (2 * x)
  BY <1>3, <1>4, <1>5
<1> HIDE DEF x
<1>8. y \in Nat /\ p = c * y + b
  <2>1. c * y = c * (2 * x) + c * a /\ c * (2 * x) \in Nat /\ c * a \in Nat
    BY <1>3, <1>6, <1>7
  <2>2. y \in Nat
    BY <1>6, <1>7
  <2> DEFINE cy == c * y
             cx == c * (2 * x)
             ca == c * a
             Cq == C * q
  <2>3. cy = cx + ca /\ cx \in Nat /\ ca \in Nat /\ Cq = cx /\ m = ca + b /\ p = Cq + m
    BY <1>5, <1>6, <1>7, <2>1
  <2>4. b \in Nat
    BY <1>6
  <2> HIDE DEF cy, cx, ca, Cq
  <2>5. p = cy + b
    BY ONLY <2>3, <2>4
  <2> QED BY <2>2, <2>5 DEF cy
<1> HIDE DEF y
<1>9. p \div c = y
  BY <1>3, <1>6, <1>8, DivUnique
<1>10. y % 2 = a % 2
  BY <1>6, <1>7 DEF y
<1> QED BY <1>9, <1>10 DEF a, m, c, C

-----------------------------------------------------------------------------
(* A verified path, of any origin, opens the leaf that the anchored tree   *)
(* has in the slot its position stands for.                                *)
LEMMA PathOpensSlot ==
  ASSUME NEW S, NEW s \in Seq(S), NEW leaf, NEW path, path.position \in Nat,
         VerifyPath(leaf, path, MerkleRoot(s))
  PROVE  /\ leaf = TreeNode(s, 0, path.position % Capacity)
         /\ path.siblings[1] = TreeNode(s, 0, Flip(path.position % Capacity))
<1> DEFINE m == path.position % 2^TREE_DEPTH
<1>1. 2^TREE_DEPTH \in Nat \ {0}
  BY DepthAssumption, PowerPositive
<1>2. m \in Nat /\ m < 2^TREE_DEPTH
  BY <1>1
<1>3. m \div 2^TREE_DEPTH = 0
  <2>1. m = 2^TREE_DEPTH * 0 + m
    BY <1>1, <1>2
  <2> QED BY <1>1, <1>2, <2>1, DivUnique
<1>4. PathRoot(leaf, path) = TreeNode(s, TREE_DEPTH, m \div 2^TREE_DEPTH)
  BY <1>3, RootIsNode DEF VerifyPath
<1>5. \A d \in 0..(TREE_DEPTH - 1) : (path.position \div 2^d) % 2 = (m \div 2^d) % 2
  BY LowBits
<1> HIDE DEF m
<1>6. /\ leaf = TreeNode(s, 0, m)
      /\ path.siblings[1] = TreeNode(s, 0, Flip(m))
  BY <1>2, <1>4, <1>5, PathOpens
<1> QED BY <1>6 DEF m, Capacity

(* The witness of a position in the tree verifies under a root exactly if  *)
(* that tree has the same leaves within the capacity.                      *)
LEMMA PathKept ==
  ASSUME NEW S, NEW s \in Seq(S), NEW u \in Seq(S), NEW p \in Nat,
         p < Len(s), p < Capacity
  PROVE  VerifyPath(s[p + 1], Witness(s, p), MerkleRoot(u))
            <=> \A j \in 0..(Capacity - 1) : TreeNode(s, 0, j) = TreeNode(u, 0, j)
<1> DEFINE C == 2^TREE_DEPTH
<1>1. C \in Nat \ {0} /\ TREE_DEPTH \in 0..TREE_DEPTH
  BY DepthAssumption, PowerPositive
<1>2. p \div C = 0
  <2>1. p = C * 0 + p
    BY <1>1
  <2> QED BY <1>1, <2>1, DivUnique DEF Capacity
<1>3. PathRoot(s[p + 1], Witness(s, p)) = TreeNode(s, TREE_DEPTH, 0)
  BY <1>2, PathCloses
<1>4. MerkleRoot(u) = TreeNode(u, TREE_DEPTH, 0)
  BY RootIsNode
<1>5. TreeNode(s, TREE_DEPTH, 0) = TreeNode(u, TREE_DEPTH, 0)
         <=> SameLeaves(s, u, TREE_DEPTH, 0, 0)
  BY <1>1, NodesAgree
<1>6. \A j \in 0..(C - 1) : 0 * C + j = j
  BY <1>1
<1>7. SameLeaves(s, u, TREE_DEPTH, 0, 0)
         <=> \A j \in 0..(C - 1) : TreeNode(s, 0, j) = TreeNode(u, 0, j)
  BY <1>6 DEF SameLeaves
<1> QED BY <1>3, <1>4, <1>5, <1>7 DEF VerifyPath, Capacity

(* The witness of a position verifies under the tree's own root for the    *)
(* leaf at that position and for no other, and not past the capacity.      *)
LEMMA PathBinds ==
  ASSUME NEW S, NEW s \in Seq(S), EmptyLeaf \notin S, NEW leaf \in S, NEW p \in Nat,
         p < Len(s), Len(s) < 2 * Capacity
  PROVE  VerifyPath(leaf, Witness(s, p), MerkleRoot(s)) <=> p < Capacity /\ leaf = s[p + 1]
<1> DEFINE C == 2^TREE_DEPTH
           t == [s EXCEPT ![p + 1] = leaf]
           q == p \div C
           a(j) == TreeNode(t, 0, j)
           b(j) == TreeNode(s, 0, j)
<1>1. C \in Nat \ {0} /\ TREE_DEPTH \in 0..TREE_DEPTH /\ Capacity = C
  BY DepthAssumption, PowerPositive DEF Capacity
<1>2. p + 1 \in 1..Len(s) /\ Len(s) \in Nat
  OBVIOUS
<1>3. t \in Seq(S) /\ Len(t) = Len(s) /\ t[p + 1] = leaf
      /\ \A k \in 1..Len(s) : k # p + 1 => t[k] = s[k]
  BY <1>2, ExceptSeq
<1> HIDE DEF t
<1>4. PathRoot(leaf, Witness(s, p)) = TreeNode(t, TREE_DEPTH, q)
  BY <1>3, PathCloses
<1>5. q \in Nat
  BY <1>1
<1>6. VerifyPath(leaf, Witness(s, p), MerkleRoot(s)) <=> SameLeaves(t, s, TREE_DEPTH, q, 0)
  <2>1. TreeNode(t, TREE_DEPTH, q) = TreeNode(s, TREE_DEPTH, 0)
           <=> SameLeaves(t, s, TREE_DEPTH, q, 0)
    BY <1>1, <1>3, <1>5, NodesAgree
  <2> QED BY <1>4, <2>1, RootIsNode DEF VerifyPath
<1>7. SameLeaves(t, s, TREE_DEPTH, q, 0) <=> \A j \in 0..(C - 1) : a(q * C + j) = b(j)
  <2>1. \A j \in 0..(C - 1) : 0 * C + j = j
    BY <1>1
  <2> QED BY <2>1 DEF SameLeaves
<1>8. \A j \in Nat : /\ a(j) = IF j < Len(s) THEN t[j + 1] ELSE EmptyLeaf
                     /\ b(j) = IF j < Len(s) THEN s[j + 1] ELSE EmptyLeaf
  BY <1>3, NodeLeaf
<1> HIDE DEF C, a, b, q
<1>9. CASE p < C
  <2>1. q = 0
    <3>1. p = C * 0 + p
      BY <1>1
    <3> QED BY <1>1, <1>9, <3>1, DivUnique DEF q
  <2>2. (\A j \in 0..(C - 1) : a(q * C + j) = b(j)) <=> \A j \in 0..(C - 1) : a(j) = b(j)
    <3>1. \A j \in 0..(C - 1) : q * C + j = j
      BY <1>1, <2>1
    <3> QED BY <3>1
  <2>3. a(p) = leaf /\ b(p) = s[p + 1] /\ p \in 0..(C - 1)
    BY <1>1, <1>3, <1>8, <1>9
  <2>4. \A j \in 0..(C - 1) : j # p => a(j) = b(j)
    <3> SUFFICES ASSUME NEW j \in 0..(C - 1), j # p PROVE a(j) = b(j)
      OBVIOUS
    <3>1. j \in Nat /\ j + 1 # p + 1
      BY <1>1
    <3>2. CASE j < Len(s)
      <4>1. j + 1 \in 1..Len(s)
        BY <1>2, <3>1, <3>2
      <4> QED BY <1>3, <1>8, <3>1, <3>2, <4>1
    <3>3. CASE ~ (j < Len(s))
      BY <1>8, <3>1, <3>3
    <3> QED BY <3>2, <3>3
  <2> QED BY <1>1, <1>6, <1>7, <1>9, <2>2, <2>3, <2>4
<1>10. CASE ~ (p < C)
  <2>1. q = 1
    <3>1. p = C * 1 + (p - C) /\ p - C \in Nat /\ p - C < C
      BY <1>1, <1>10
    <3> QED BY <1>1, <3>1, DivUnique DEF q
  <2> DEFINE j == C - 1
  <2>2. j \in 0..(C - 1) /\ j \in Nat /\ q * C + j \in Nat
        /\ j < Len(s) /\ ~ (q * C + j < Len(s))
    BY <1>1, <1>10, <2>1
  <2>3. a(q * C + j) = EmptyLeaf /\ b(j) = s[j + 1]
    BY <1>8, <2>2
  <2>4. s[j + 1] \in S
    BY <2>2
  <2> QED BY <1>1, <1>6, <1>7, <1>10, <2>2, <2>3, <2>4
<1> QED BY <1>9, <1>10
=============================================================================
