------------------------- MODULE RegisterWalkProofs -------------------------
(***************************************************************************)
(* Invariance proofs for RegisterWalk, for every port and every register   *)
(* locator: any number of link and selective blocks, any number of address *)
(* blocks in each, any number of entries.                                  *)
(*                                                                         *)
(* The walks add up the sizes of the blocks they pass; the layout of the   *)
(* capability is the blocks one after the other, FlattenSeq.  The lemmas   *)
(* about FlattenSeq say where in the whole each block begins, and with     *)
(* them the invariant says that the offset of a walk is the beginning of   *)
(* the block at its counter.                                               *)
(***************************************************************************)
EXTENDS RegisterWalk, TLAPS, WellFoundedInduction

-----------------------------------------------------------------------------
(* Induction.                                                              *)

\* Every non-empty set of natural numbers has a least member: the form in
\* which the lemmas below use induction.
LEMMA LeastNat ==
    ASSUME NEW B, B \subseteq Nat, B # {}
    PROVE  \E m \in B : \A n \in B : m <= n
  <1> DEFINE R == {ss \in Nat \X Nat : ss[1] < ss[2]}
  <1>1. IsWellFoundedOn(R, Nat)
    <2>1. IsWellFoundedOn(OpToRel(<, Nat), Nat) BY NatLessThanWellFounded
    <2> QED BY <2>1 DEF OpToRel
  <1>2. PICK m \in B : \A y \in B : ~(<<y, m>> \in R)
    <2> HIDE DEF R
    <2> QED BY <1>1, WFMin
  <1>3. \A y \in B : m <= y
    <2> TAKE y \in B
    <2>1. <<y, m>> \in Nat \X Nat /\ <<y, m>>[1] = y /\ <<y, m>>[2] = m OBVIOUS
    <2>2. ~(y < m) BY <1>2, <2>1
    <2> QED BY <2>2
  <1> HIDE DEF R
  <1> QED BY <1>3

-----------------------------------------------------------------------------
(* Blocks laid one after the other: FlattenSeq.                            *)

\* The equation of the recursive function behind FlattenSeq.
Flattens(s, g, j) == g[j] = IF j = 1 THEN s[j] ELSE g[j - 1] \o s[j]

AllFlatten(s, g, n) == \A j \in 1..n : Flattens(s, g, j)
Agree(s, r, n) == \A j \in 1..n : r[j] = s[j]

\* The recursion has a solution.
LEMMA FlattenExists ==
    ASSUME NEW E, NEW n \in Nat, NEW s \in [1..n -> Seq(E)]
    PROVE  \E g \in [1..n -> Seq(E)] : \A j \in 1..n : Flattens(s, g, j)
  <1> DEFINE P(m) == \E g \in [1..n -> Seq(E)] :
                        \A j \in 1..n : j <= m => Flattens(s, g, j)
             B == {m \in Nat : ~P(m)}
  <1>1. P(0)
    BY DEF Flattens
  <1>2. ASSUME NEW m \in Nat, P(m)
        PROVE  P(m + 1)
    <2>1. PICK g \in [1..n -> Seq(E)] : \A j \in 1..n : j <= m => Flattens(s, g, j)
      BY <1>2
    <2> DEFINE x == IF m = 0 THEN s[1] ELSE g[m] \o s[m + 1]
               h == [g EXCEPT ![m + 1] = x]
    <2>2. CASE m + 1 \in 1..n
      <3>1. x \in Seq(E)
        <4>1. CASE m = 0
          BY <2>2, <4>1
        <4>2. CASE m # 0
          <5>1. g[m] \in Seq(E) /\ s[m + 1] \in Seq(E)
            BY <2>2, <4>2
          <5> QED
            BY <4>2, <5>1
        <4> QED
          BY <4>1, <4>2
      <3>2. x = IF m + 1 = 1 THEN s[m + 1] ELSE g[(m + 1) - 1] \o s[m + 1]
        OBVIOUS
      <3> HIDE DEF x
      <3>3. /\ h \in [1..n -> Seq(E)] /\ h[m + 1] = x
            /\ \A j \in 1..n : j # m + 1 => h[j] = g[j]
        BY <2>2, <3>1
      <3> HIDE DEF h
      <3>4. ASSUME NEW j \in 1..n, j <= m + 1
            PROVE  Flattens(s, h, j)
        <4>1. CASE j = m + 1
          <5>1. CASE m = 0
            BY <3>2, <3>3, <4>1, <5>1 DEF Flattens
          <5>2. CASE m # 0
            <6>1. m \in 1..n /\ h[m] = g[m] /\ j - 1 = m /\ j # 1
              BY <2>2, <3>3, <4>1, <5>2
            <6>2. h[j] = g[m] \o s[j]
              BY <3>3, <4>1, <5>2 DEF x
            <6> QED
              BY <6>1, <6>2 DEF Flattens
          <5> QED
            BY <5>1, <5>2
        <4>2. CASE j <= m
          <5>1. Flattens(s, g, j) /\ h[j] = g[j]
            BY <2>1, <3>3, <4>2
          <5>2. j # 1 => h[j - 1] = g[j - 1]
            BY <3>3, <4>2
          <5> QED
            BY <5>1, <5>2 DEF Flattens
        <4> QED
          BY <3>4, <4>1, <4>2
      <3> QED
        BY <3>3, <3>4
    <2>3. CASE m + 1 \notin 1..n
      <3>1. \A j \in 1..n : j <= m
        BY <2>3
      <3> QED
        BY <2>1, <3>1
    <2> QED
      BY <2>2, <2>3
  <1>3. \A m \in Nat : P(m)
    <2> SUFFICES ASSUME B # {} PROVE FALSE
      OBVIOUS
    <2> HIDE DEF P
    <2>1. PICK m \in B : \A k \in B : m <= k
      <3>1. B \subseteq Nat
        OBVIOUS
      <3> HIDE DEF B
      <3> QED
        BY <3>1, LeastNat
    <2>2. m \in Nat /\ ~P(m) /\ m # 0
      BY <1>1
    <2>3. m - 1 \in Nat /\ m - 1 \notin B
      BY <2>1, <2>2
    <2>4. P((m - 1) + 1)
      BY <1>2, <2>3
    <2> QED
      BY <2>2, <2>4
  <1>4. P(n)
    <2> HIDE DEF P
    <2> QED
      BY <1>3
  <1> QED
    BY <1>4

\* It has no two.
LEMMA FlattenUnique ==
    ASSUME NEW s, NEW r, NEW g, NEW h, NEW n \in Nat,
           Agree(s, r, n), AllFlatten(s, g, n), AllFlatten(r, h, n)
    PROVE  Agree(g, h, n)
  <1> DEFINE B == {j \in 1..n : h[j] # g[j]}
  <1> SUFFICES ASSUME B # {} PROVE FALSE
    BY DEF Agree
  <1>1. B \subseteq Nat
    OBVIOUS
  <1>2. PICK m \in B : \A k \in B : m <= k
    <2> HIDE DEF B
    <2> QED
      BY <1>1, LeastNat
  <1>3. m \in 1..n /\ h[m] # g[m] /\ Flattens(s, g, m) /\ Flattens(r, h, m)
    BY DEF AllFlatten
  <1>4. m # 1
    BY <1>3 DEF Flattens, Agree
  <1>5. m - 1 \in 1..n /\ m - 1 \notin B
    BY <1>2, <1>3, <1>4
  <1>6. h[m - 1] = g[m - 1] /\ r[m] = s[m]
    BY <1>3, <1>5 DEF Agree
  <1> HIDE DEF B
  <1> QED
    BY <1>3, <1>4, <1>6 DEF Flattens

\* FlattenSeq is the last value of the solution.
LEMMA FlattenSolves ==
    ASSUME NEW E, NEW n \in Nat \ {0}, NEW s \in [1..n -> Seq(E)]
    PROVE  \E g \in [1..n -> Seq(E)] : /\ \A j \in 1..n : Flattens(s, g, j)
                                       /\ FlattenSeq(s) = g[n]
  <1> DEFINE Body(g, j) == IF j = 1 THEN s[j] ELSE g[j - 1] \o s[j]
             it == CHOOSE g : g = [j \in 1..n |-> Body(g, j)]
  <1>1. Len(s) = n
    OBVIOUS
  <1>2. FlattenSeq(s) = it[n]
    BY <1>1 DEF FlattenSeq
  <1>3. PICK g \in [1..n -> Seq(E)] : \A j \in 1..n : Flattens(s, g, j)
    BY FlattenExists
  <1>4. \A j \in 1..n : g[j] = Body(g, j)
    BY <1>3 DEF Flattens
  <1>5. it = [j \in 1..n |-> Body(it, j)]
    <2> HIDE DEF Body
    <2>1. g = [j \in 1..n |-> Body(g, j)]
      BY <1>4
    <2> QED
      BY <2>1
  <1>6. \A j \in 1..n : it[j] = Body(it, j)
    <2> HIDE DEF Body, it
    <2> QED
      BY <1>5
  <1>7. \A j \in 1..n : Flattens(s, it, j)
    <2> HIDE DEF it
    <2> QED
      BY <1>6 DEF Flattens
  <1>8. \A j \in 1..n : it[j] = g[j]
    <2> HIDE DEF it
    <2>1. n \in Nat /\ Agree(s, s, n) /\ AllFlatten(s, g, n) /\ AllFlatten(s, it, n)
      BY <1>3, <1>7 DEF Agree, AllFlatten
    <2>2. Agree(g, it, n)
      BY <2>1, FlattenUnique
    <2> QED
      BY <2>2 DEF Agree
  <1>9. FlattenSeq(s) = g[n]
    <2> HIDE DEF it
    <2> QED
      BY <1>2, <1>8
  <1> HIDE DEF it
  <1> QED
    BY <1>3, <1>9

\* Laying one block more.
LEMMA FlattenStep ==
    ASSUME NEW E, NEW n \in Nat, NEW s \in [1..(n + 1) -> Seq(E)],
           NEW r \in [1..n -> Seq(E)], \A j \in 1..n : r[j] = s[j]
    PROVE  /\ FlattenSeq(r) \in Seq(E)
           /\ FlattenSeq(s) \in Seq(E)
           /\ FlattenSeq(s) = FlattenSeq(r) \o s[n + 1]
  <1>1. PICK g \in [1..(n + 1) -> Seq(E)] :
           /\ \A j \in 1..(n + 1) : Flattens(s, g, j)
           /\ FlattenSeq(s) = g[n + 1]
    <2>1. n + 1 \in Nat \ {0}
      OBVIOUS
    <2>2. PICK m \in Nat \ {0} : m = n + 1
      BY <2>1
    <2> QED
      BY <2>2, FlattenSolves
  <1>2. n + 1 \in 1..(n + 1) /\ g[n + 1] \in Seq(E) /\ s[n + 1] \in Seq(E)
    OBVIOUS
  <1>3. Flattens(s, g, n + 1)
    BY <1>1, <1>2
  <1>4. CASE n = 0
    <2>1. r = << >> /\ Len(r) = 0
      BY <1>4
    <2>2. FlattenSeq(r) = << >>
      BY <2>1 DEF FlattenSeq
    <2>3. g[n + 1] = s[n + 1]
      BY <1>3, <1>4 DEF Flattens
    <2> QED
      BY <1>1, <1>2, <2>2, <2>3
  <1>5. CASE n # 0
    <2>1. n \in Nat \ {0}
      BY <1>5
    <2>2. PICK h \in [1..n -> Seq(E)] :
             /\ \A j \in 1..n : Flattens(r, h, j)
             /\ FlattenSeq(r) = h[n]
      BY <2>1, FlattenSolves
    <2>3. AllFlatten(s, g, n) /\ AllFlatten(r, h, n) /\ Agree(s, r, n)
      BY <1>1, <2>2 DEF AllFlatten, Agree
    <2>4. Agree(g, h, n)
      BY <2>3, FlattenUnique
    <2>5. n \in 1..n /\ h[n] = g[n] /\ h[n] \in Seq(E)
      BY <2>1, <2>2, <2>4 DEF Agree
    <2>6. (n + 1) - 1 = n /\ n + 1 # 1
      BY <1>5
    <2>7. g[n + 1] = g[n] \o s[n + 1]
      BY <1>3, <2>6 DEF Flattens
    <2> QED
      BY <1>1, <1>2, <2>2, <2>5, <2>7
  <1> QED
    BY <1>4, <1>5

\* The first k blocks.
Part(s, k) == FlattenSeq([j \in 1..k |-> s[j]])

\* The parts grow block by block, from nothing to the whole.
LEMMA PartFacts ==
    ASSUME NEW E, NEW n \in Nat, NEW s \in [1..n -> Seq(E)]
    PROVE  /\ Part(s, 0) = << >>
           /\ Part(s, n) = FlattenSeq(s)
           /\ \A k \in 0..n : Part(s, k) \in Seq(E)
           /\ \A k \in 1..n : Part(s, k) = Part(s, k - 1) \o s[k]
  <1>1. Part(s, 0) = << >>
    <2>1. [j \in 1..0 |-> s[j]] = << >> /\ Len(<< >>) = 0
      OBVIOUS
    <2> QED
      BY <2>1 DEF Part, FlattenSeq
  <1>2. Part(s, n) = FlattenSeq(s)
    <2>1. [j \in 1..n |-> s[j]] = s
      OBVIOUS
    <2> QED
      BY <2>1 DEF Part
  <1>3. ASSUME NEW k \in 1..n
        PROVE  Part(s, k) \in Seq(E) /\ Part(s, k) = Part(s, k - 1) \o s[k]
    <2>1. PICK m \in Nat : m = k - 1
      OBVIOUS
    <2> DEFINE t == [j \in 1..(m + 1) |-> s[j]]
               r == [j \in 1..m |-> s[j]]
    <2>2. /\ t \in [1..(m + 1) -> Seq(E)] /\ r \in [1..m -> Seq(E)]
          /\ \A j \in 1..m : r[j] = t[j]
          /\ t[m + 1] = s[k] /\ m + 1 = k
      BY <2>1
    <2>3. Part(s, k) = FlattenSeq(t) /\ Part(s, k - 1) = FlattenSeq(r)
      BY <2>1, <2>2 DEF Part
    <2> HIDE DEF t, r
    <2>4. FlattenSeq(t) \in Seq(E) /\ FlattenSeq(t) = FlattenSeq(r) \o t[m + 1]
      BY <2>2, FlattenStep
    <2> QED
      BY <2>2, <2>3, <2>4
  <1>4. ASSUME NEW k \in 0..n
        PROVE  Part(s, k) \in Seq(E)
    <2>1. CASE k = 0
      <3>1. << >> \in Seq(E)
        OBVIOUS
      <3> QED
        BY <1>1, <2>1, <3>1
    <2>2. CASE k \in 1..n
      BY <1>3, <2>2
    <2> QED
      BY <2>1, <2>2
  <1> QED
    BY <1>1, <1>2, <1>3, <1>4

\* Each block begins where the parts before it end.
Placed(s, k) ==
    /\ Len(Part(s, k)) = Len(Part(s, k - 1)) + Len(s[k])
    /\ Len(Part(s, k)) <= Len(FlattenSeq(s))
    /\ Len(Part(s, k - 1)) \in Nat
    /\ \A j \in 1..Len(s[k]) :
          FlattenSeq(s)[Len(Part(s, k - 1)) + j] = s[k][j]

\* Each block is found, unchanged, behind the blocks before it.
LEMMA FlattenPlaces ==
    ASSUME NEW E, NEW n \in Nat, NEW s \in [1..n -> Seq(E)]
    PROVE  /\ FlattenSeq(s) \in Seq(E)
           /\ \A k \in 1..n : Placed(s, k)
  <1> DEFINE InPart(m, k) == /\ Len(Part(s, k)) <= Len(Part(s, m))
                             /\ \A j \in 1..Len(s[k]) :
                                   Part(s, m)[Len(Part(s, k - 1)) + j] = s[k][j]
             P(m) == \A k \in 1..m : InPart(m, k)
             B == {m \in 0..n : ~P(m)}
  <1>0. \A k \in 0..n : Part(s, k) \in Seq(E)
    BY PartFacts
  <1>1. ASSUME NEW k \in 0..n
        PROVE  Part(s, k) \in Seq(E) /\ Len(Part(s, k)) \in Nat
    <2>1. Part(s, k) \in Seq(E)
      BY <1>0
    <2> QED
      BY <2>1
  <1>2. ASSUME NEW k \in 1..n
        PROVE  /\ Len(Part(s, k)) = Len(Part(s, k - 1)) + Len(s[k])
               /\ k - 1 \in 0..n /\ Len(s[k]) \in Nat /\ s[k] \in Seq(E)
               /\ \A q \in 1..Len(Part(s, k - 1)) :
                     Part(s, k)[q] = Part(s, k - 1)[q]
               /\ \A j \in 1..Len(s[k]) :
                     Part(s, k)[Len(Part(s, k - 1)) + j] = s[k][j]
    <2>1. Part(s, k) = Part(s, k - 1) \o s[k]
      BY PartFacts
    <2>2. Part(s, k - 1) \in Seq(E) /\ s[k] \in Seq(E) /\ k - 1 \in 0..n
      BY <1>1
    <2>3. PICK a \in Seq(E) : a = Part(s, k - 1)
      BY <2>2
    <2>4. PICK b \in Seq(E) : b = s[k]
      BY <2>2
    <2>5. /\ Len(a \o b) = Len(a) + Len(b) /\ Len(b) \in Nat /\ Len(a) \in Nat
          /\ \A q \in 1..Len(a) : (a \o b)[q] = a[q]
          /\ \A j \in 1..Len(b) : (a \o b)[Len(a) + j] = b[j]
      OBVIOUS
    <2> QED
      BY <2>1, <2>2, <2>3, <2>4, <2>5
  <1>3. P(0)
    OBVIOUS
  <1>4. ASSUME NEW m \in 0..n, P(m), m + 1 \in 0..n
        PROVE  P(m + 1)
    <2> TAKE k \in 1..(m + 1)
    <2>0. m + 1 \in 1..n /\ (m + 1) - 1 = m /\ k \in 1..n
      BY <1>4
    <2>1. CASE k = m + 1
      <3>1. /\ \A j \in 1..Len(s[m + 1]) :
                  Part(s, m + 1)[Len(Part(s, m)) + j] = s[m + 1][j]
            /\ Len(Part(s, m + 1)) \in Nat
        <4>1. PICK q \in 1..n : q = m + 1 /\ q - 1 = m /\ q \in 0..n
          BY <2>0
        <4>2. /\ \A j \in 1..Len(s[q]) :
                    Part(s, q)[Len(Part(s, q - 1)) + j] = s[q][j]
              /\ Len(Part(s, q)) \in Nat
          BY <4>1, <1>1, <1>2
        <4> QED
          BY <4>1, <4>2
      <3> QED
        BY <2>0, <2>1, <3>1
    <2>2. CASE k \in 1..m
      <3>1. InPart(m, k)
        BY <1>4, <2>2
      <3>2. /\ Len(Part(s, m + 1)) = Len(Part(s, m)) + Len(s[m + 1])
            /\ Len(s[m + 1]) \in Nat /\ Len(Part(s, m)) \in Nat
            /\ \A q \in 1..Len(Part(s, m)) : Part(s, m + 1)[q] = Part(s, m)[q]
        BY <2>0, <1>1, <1>2
      <3>3. /\ Len(Part(s, k)) = Len(Part(s, k - 1)) + Len(s[k])
            /\ Len(s[k]) \in Nat /\ Len(Part(s, k - 1)) \in Nat
            /\ Len(Part(s, k)) \in Nat
        BY <2>0, <1>1, <1>2
      <3>6. Len(Part(s, k)) <= Len(Part(s, m))
        BY <3>1
      <3>7. PICK a \in Nat : a = Len(Part(s, k - 1))
        BY <3>3
      <3>8. PICK b \in Nat : b = Len(s[k])
        BY <3>3
      <3>9. PICK c \in Nat : c = Len(Part(s, m))
        BY <3>2
      <3>10. PICK d \in Nat : d = Len(s[m + 1])
        BY <3>2
      <3>11. a + b <= c
        BY <3>3, <3>6, <3>7, <3>8, <3>9
      <3>4. ASSUME NEW j \in 1..Len(s[k])
            PROVE  Part(s, m + 1)[Len(Part(s, k - 1)) + j] = s[k][j]
        <4>1. Len(Part(s, k - 1)) + j \in 1..Len(Part(s, m))
          <5>1. j \in 1..b
            BY <3>8
          <5>2. a + j \in 1..c
            BY <3>11, <5>1
          <5> QED
            BY <3>7, <3>9, <5>2
        <4> QED
          BY <3>1, <3>2, <4>1
      <3>5. Len(Part(s, k)) <= Len(Part(s, m + 1))
        <4>1. a + b <= c + d
          BY <3>11
        <4> QED
          BY <3>2, <3>3, <3>7, <3>8, <3>9, <3>10, <4>1
      <3> QED
        BY <3>4, <3>5
    <2> HIDE DEF InPart
    <2> QED
      BY <2>0, <2>1, <2>2
  <1>5. \A m \in 0..n : P(m)
    <2> SUFFICES ASSUME B # {} PROVE FALSE
      OBVIOUS
    <2> HIDE DEF P
    <2>1. PICK m \in B : \A k \in B : m <= k
      <3>1. B \subseteq Nat
        OBVIOUS
      <3> HIDE DEF B
      <3> QED
        BY <3>1, LeastNat
    <2>2. m \in 0..n /\ ~P(m) /\ m # 0
      BY <1>3
    <2>3. m - 1 \in 0..n /\ m - 1 \notin B /\ (m - 1) + 1 = m
      BY <2>1, <2>2
    <2>4. P(m - 1)
      BY <2>3
    <2>5. P((m - 1) + 1)
      BY <1>4, <2>2, <2>3, <2>4
    <2> QED
      BY <2>2, <2>3, <2>5
  <1>6. P(n) /\ Part(s, n) = FlattenSeq(s) /\ Part(s, n) \in Seq(E)
    <2>1. P(n)
      <3> HIDE DEF P
      <3> QED
        BY <1>5
    <2> HIDE DEF P
    <2>2. Part(s, n) = FlattenSeq(s)
      BY PartFacts
    <2>3. n \in 0..n
      OBVIOUS
    <2> QED
      BY <2>1, <2>2, <2>3, <1>1
  <1>7. ASSUME NEW k \in 1..n
        PROVE  Placed(s, k)
    <2>1. InPart(n, k)
      BY <1>6
    <2>2. Len(Part(s, k - 1)) \in Nat
      BY <1>1, <1>2
    <2>3. FlattenSeq(s) = Part(s, n)
      BY <1>6
    <2> HIDE DEF P
    <2> QED
      BY <1>2, <2>1, <2>2, <2>3 DEF Placed
  <1> QED
    BY <1>6, <1>7

\* Blocks of the same size.
LEMMA FlattenEven ==
    ASSUME NEW E, NEW n \in Nat, NEW s \in [1..n -> Seq(E)], NEW c \in {2, 3},
           \A k \in 1..n : Len(s[k]) = c
    PROVE  \A k \in 0..n : Len(Part(s, k)) = c * k
  <1> DEFINE B == {k \in 0..n : Len(Part(s, k)) # c * k}
  <1> SUFFICES ASSUME B # {} PROVE FALSE
    OBVIOUS
  <1>1. PICK m \in B : \A k \in B : m <= k
    <2>1. B \subseteq Nat
      OBVIOUS
    <2> HIDE DEF B
    <2> QED
      BY <2>1, LeastNat
  <1>2. m \in 0..n /\ Len(Part(s, m)) # c * m
    OBVIOUS
  <1>3. m # 0
    <2>1. Part(s, 0) = << >>
      BY PartFacts
    <2>2. Len(Part(s, 0)) = 0 /\ c * 0 = 0
      BY <2>1
    <2> QED
      BY <1>2, <2>2
  <1>4. m \in 1..n /\ m - 1 \in 0..n /\ m - 1 \notin B
    BY <1>1, <1>2, <1>3
  <1>5. Len(Part(s, m - 1)) = c * (m - 1)
    BY <1>4
  <1>6. Len(Part(s, m)) = Len(Part(s, m - 1)) + c
    <2>1. Len(s[m]) = c
      BY <1>4
    <2> HIDE DEF B
    <2>2. Len(Part(s, m)) = Len(Part(s, m - 1)) + Len(s[m])
      <3>1. Placed(s, m)
        BY <1>4, FlattenPlaces
      <3> QED
        BY <3>1 DEF Placed
    <2> QED
      BY <2>1, <2>2
  <1> HIDE DEF B
  <1>7. c * (m - 1) + c = c * m
    <2>1. CASE c = 2
      BY <1>4, <2>1
    <2>2. CASE c = 3
      BY <1>4, <2>2
    <2> QED
      BY <2>1, <2>2
  <1> QED
    BY <1>2, <1>5, <1>6, <1>7

-----------------------------------------------------------------------------
(* The layout of the capability.                                           *)

BlockIds == {"header", "link", "sel"} \X Nat
FieldIds == {"header", "cap", "ctrl", "status", "rid1", "rid2",
             "addr1", "addr2", "addr3"} \X Nat
Dwords == {Dword(b, f, a, en, id) : b \in BlockIds, f \in FieldIds, a \in Nat,
                                    en \in BOOLEAN, id \in StreamIds}

\* What the type of the port says of its blocks one by one.
LEMMA PortFacts ==
    ASSUME PortType
    PROVE  /\ Len(links) \in Nat /\ Len(selective) \in Nat /\ Len(kcbar) \in Nat
           /\ Len(entries) \in Nat
           /\ \A k \in 1..Len(links) : links[k].en \in BOOLEAN /\ links[k].id \in StreamIds
           /\ \A k \in 1..Len(selective) : /\ selective[k].en \in BOOLEAN
                                           /\ selective[k].id \in StreamIds
                                           /\ selective[k].addr \in Nat
  <1>1. /\ links \in Seq(Streams) /\ kcbar \in Seq(Streams)
        /\ selective \in Seq([en : BOOLEAN, id : StreamIds, addr : AddrBlocks])
        /\ entries \in Seq({"component", "other"})
    BY DEF PortType
  <1>2. \A x \in Streams : x.en \in BOOLEAN /\ x.id \in StreamIds
    <2> TAKE x \in Streams
    <2>1. CASE x = Off
      BY <2>1, WalkAssumption DEF Off
    <2>2. CASE x \in [en : {TRUE}, id : StreamIds]
      BY <2>2
    <2> QED
      BY <2>1, <2>2 DEF Streams
  <1>3. \A x \in [en : BOOLEAN, id : StreamIds, addr : AddrBlocks] :
           x.en \in BOOLEAN /\ x.id \in StreamIds /\ x.addr \in Nat
    BY WalkAssumption
  <1>4. \A k \in 1..Len(links) : links[k] \in Streams
    BY <1>1
  <1>5. \A k \in 1..Len(selective) :
           selective[k] \in [en : BOOLEAN, id : StreamIds, addr : AddrBlocks]
    <2>1. PICK T : T = [en : BOOLEAN, id : StreamIds, addr : AddrBlocks]
      OBVIOUS
    <2>2. selective \in Seq(T)
      BY <1>1, <2>1
    <2>3. \A k \in 1..Len(selective) : selective[k] \in T
      BY <2>2
    <2> QED
      BY <2>1, <2>3
  <1>6. /\ Len(links) \in Nat /\ Len(selective) \in Nat /\ Len(kcbar) \in Nat
        /\ Len(entries) \in Nat
    BY <1>1
  <1> QED
    BY <1>2, <1>3, <1>4, <1>5, <1>6

\* The dwords of the blocks.
LEMMA DwordTypes ==
    /\ \A b \in BlockIds, f \in FieldIds : Plain(b, f) \in Dwords
    /\ \A b \in BlockIds, n \in Nat : SelCap(b, n) \in Dwords
    /\ \A b \in BlockIds : \A s : s.en \in BOOLEAN /\ s.id \in StreamIds =>
          Control(b, s) \in Dwords
  <1>0. 0 \in Nat /\ FALSE \in BOOLEAN /\ 0 \in StreamIds
    BY WalkAssumption
  <1>5. \A b \in BlockIds, f \in FieldIds, a \in Nat, en \in BOOLEAN, id \in StreamIds :
           Dword(b, f, a, en, id) \in Dwords
    BY DEF Dwords
  <1>1. ASSUME NEW b \in BlockIds, NEW f \in FieldIds
        PROVE  Plain(b, f) \in Dwords
    BY <1>0, <1>5, Zenon DEF Plain
  <1>2. <<"cap", 0>> \in FieldIds /\ <<"ctrl", 0>> \in FieldIds
    BY DEF FieldIds
  <1>3. ASSUME NEW b \in BlockIds, NEW n \in Nat
        PROVE  SelCap(b, n) \in Dwords
    <2>1. (n % 2 = 1) \in BOOLEAN
      BY Zenon
    <2> QED
      BY <1>0, <1>2, <1>5, <2>1, Zenon DEF SelCap
  <1>4. ASSUME NEW b \in BlockIds, NEW s, s.en \in BOOLEAN, s.id \in StreamIds
        PROVE  Control(b, s) \in Dwords
    BY <1>0, <1>2, <1>4 DEF Control, Dwords
  <1> QED
    BY <1>1, <1>3, <1>4

\* A link block: a control register and a status register.
LEMMA LinkBlockFacts ==
    ASSUME PortType, NEW k \in 1..Len(links)
    PROVE  /\ LinkBlock(k) \in Seq(Dwords) /\ Len(LinkBlock(k)) = 2
           /\ LinkBlock(k)[1] = Control(<<"link", k>>, links[k])
  <1>1. links[k].en \in BOOLEAN /\ links[k].id \in StreamIds /\ k \in Nat
    BY PortFacts
  <1>2. PICK b \in BlockIds : b = <<"link", k>>
    BY <1>1 DEF BlockIds
  <1>3. PICK f \in FieldIds : f = <<"status", 0>>
    BY DEF FieldIds
  <1>4. Control(b, links[k]) \in Dwords /\ Plain(b, f) \in Dwords
    BY <1>1, DwordTypes
  <1>5. LinkBlock(k) = <<Control(b, links[k]), Plain(b, f)>>
    BY <1>2, <1>3 DEF LinkBlock
  <1> QED
    BY <1>2, <1>4, <1>5

\* The address association registers of a block.
AddrRegs(k) == [n \in 1 .. selective[k].addr |->
                  [f \in 1 .. 3 |-> Plain(<<"sel", k>>, <<AddrFields[f], n>>)]]

\* Three registers for each address block, the first block first.
LEMMA AddrFacts ==
    ASSUME PortType, NEW k \in 1..Len(selective)
    PROVE  /\ FlattenSeq(AddrRegs(k)) \in Seq(Dwords)
           /\ Len(FlattenSeq(AddrRegs(k))) = 3 * selective[k].addr
           /\ selective[k].addr > 0 =>
                 \A f \in 1..3 : FlattenSeq(AddrRegs(k))[f]
                                    = Plain(<<"sel", k>>, <<AddrFields[f], 1>>)
  <1>1. PICK n \in Nat : n = selective[k].addr
    BY PortFacts
  <1>2. PICK b \in BlockIds : b = <<"sel", k>>
    <2>1. k \in Nat
      BY PortFacts
    <2> QED
      BY <2>1 DEF BlockIds
  <1>3. PICK s : s = AddrRegs(k)
    OBVIOUS
  <1>4. \A f \in 1..3, j \in Nat : <<AddrFields[f], j>> \in FieldIds
    <2>1. /\ AddrFields[1] = "addr1" /\ AddrFields[2] = "addr2"
          /\ AddrFields[3] = "addr3"
      BY DEF AddrFields
    <2>2. \A f \in 1..3 : f = 1 \/ f = 2 \/ f = 3
      OBVIOUS
    <2> QED
      BY <2>1, <2>2 DEF FieldIds
  <1>5. ASSUME NEW j \in 1..n
        PROVE  /\ s[j] \in Seq(Dwords) /\ Len(s[j]) = 3
               /\ \A f \in 1..3 : s[j][f] = Plain(b, <<AddrFields[f], j>>)
    <2> DEFINE t == [f \in 1 .. 3 |-> Plain(b, <<AddrFields[f], j>>)]
    <2>1. s[j] = t
      BY <1>1, <1>2, <1>3 DEF AddrRegs
    <2>2. \A f \in 1..3 : Plain(b, <<AddrFields[f], j>>) \in Dwords
      <3> TAKE f \in 1..3
      <3>1. PICK x \in FieldIds : x = <<AddrFields[f], j>>
        <4>1. j \in Nat
          OBVIOUS
        <4> QED
          BY <1>4, <4>1
      <3> QED
        BY <3>1, DwordTypes
    <2>3. t \in [1..3 -> Dwords] /\ \A f \in 1..3 : t[f] = Plain(b, <<AddrFields[f], j>>)
      BY <2>2
    <2> HIDE DEF t
    <2>4. t \in Seq(Dwords) /\ Len(t) = 3
      <3>1. PICK m \in Nat : m = 3
        OBVIOUS
      <3>2. t \in [1..m -> Dwords]
        BY <2>3, <3>1
      <3>3. t \in Seq(Dwords) /\ Len(t) = m
        BY <3>2
      <3> QED
        BY <3>1, <3>3
    <2> QED
      BY <2>1, <2>3, <2>4
  <1>6. s \in [1..n -> Seq(Dwords)]
    <2>1. s = [j \in 1..n |-> s[j]]
      BY <1>1, <1>3 DEF AddrRegs
    <2> QED
      BY <1>5, <2>1
  <1>7. FlattenSeq(s) \in Seq(Dwords)
    BY <1>6, FlattenPlaces
  <1>8. Len(FlattenSeq(s)) = 3 * n
    <2>1. \A j \in 0..n : Len(Part(s, j)) = 3 * j
      BY <1>5, <1>6, FlattenEven
    <2>2. Part(s, n) = FlattenSeq(s)
      BY <1>6, PartFacts
    <2>3. n \in 0..n
      OBVIOUS
    <2> QED
      BY <2>1, <2>2, <2>3
  <1>9. ASSUME n > 0, NEW f \in 1..3
        PROVE  FlattenSeq(s)[f] = Plain(b, <<AddrFields[f], 1>>)
    <2>1. 1 \in 1..n /\ 1 - 1 = 0
      BY <1>9
    <2>2. Len(Part(s, 0)) = 0
      <3>1. Part(s, 0) = << >>
        BY <1>6, PartFacts
      <3> QED
        BY <3>1
    <2>3. \A j \in 1..Len(s[1]) : FlattenSeq(s)[Len(Part(s, 0)) + j] = s[1][j]
      <3>1. PICK o \in 1..n : o = 1 /\ o - 1 = 0
        BY <2>1
      <3>2. \A j \in 1..Len(s[o]) : FlattenSeq(s)[Len(Part(s, o - 1)) + j] = s[o][j]
        <4>1. Placed(s, o)
          BY <1>6, FlattenPlaces
        <4> QED
          BY <4>1 DEF Placed
      <3> QED
        BY <3>1, <3>2
    <2>4. FlattenSeq(s)[0 + f] = s[1][f]
      BY <1>5, <2>1, <2>2, <2>3
    <2>5. 0 + f = f
      OBVIOUS
    <2> QED
      BY <1>5, <2>1, <2>4, <2>5
  <1> QED
    BY <1>1, <1>2, <1>3, <1>7, <1>8, <1>9

\* The registers of a selective block.
LEMMA SelBlockFacts ==
    ASSUME PortType, NEW k \in 1..Len(selective)
    PROVE  /\ SelBlock(k) \in Seq(Dwords)
           /\ Len(SelBlock(k)) = 5 + 3 * selective[k].addr
           /\ SelBlock(k)[1] = SelCap(<<"sel", k>>, selective[k].addr)
           /\ SelBlock(k)[2] = Control(<<"sel", k>>, selective[k])
           /\ SelBlock(k)[4] = Plain(<<"sel", k>>, <<"rid1", 0>>)
           /\ SelBlock(k)[5] = Plain(<<"sel", k>>, <<"rid2", 0>>)
           /\ selective[k].addr > 0 =>
                 \A f \in 1..3 : SelBlock(k)[5 + f]
                                    = Plain(<<"sel", k>>, <<AddrFields[f], 1>>)
  <1>1. /\ selective[k].en \in BOOLEAN /\ selective[k].id \in StreamIds
        /\ selective[k].addr \in Nat
    BY PortFacts
  <1>2. PICK b \in BlockIds : b = <<"sel", k>>
    <2>1. k \in Nat
      BY PortFacts
    <2> QED
      BY <2>1 DEF BlockIds
  <1>3. PICK a \in Nat : a = selective[k].addr
    BY <1>1
  <1> DEFINE d1 == SelCap(b, selective[k].addr)
             d2 == Control(b, selective[k])
             d3 == Plain(b, <<"status", 0>>)
             d4 == Plain(b, <<"rid1", 0>>)
             d5 == Plain(b, <<"rid2", 0>>)
  <1>4. d1 \in Dwords /\ d2 \in Dwords
    BY <1>1, DwordTypes
  <1>5. d3 \in Dwords /\ d4 \in Dwords /\ d5 \in Dwords
    <2>1. /\ <<"status", 0>> \in FieldIds /\ <<"rid1", 0>> \in FieldIds
          /\ <<"rid2", 0>> \in FieldIds
      BY DEF FieldIds
    <2> QED
      BY <2>1, DwordTypes
  <1>6. PICK t \in Seq(Dwords) : t = FlattenSeq(AddrRegs(k))
    BY AddrFacts
  <1>7. SelBlock(k) = <<d1, d2, d3, d4, d5>> \o t
    BY <1>2, <1>6 DEF SelBlock, AddrRegs
  <1> HIDE DEF d1, d2, d3, d4, d5
  <1>8. PICK h \in Seq(Dwords) : h = <<d1, d2, d3, d4, d5>>
    <2>1. <<d1, d2, d3, d4, d5>> \in Seq(Dwords)
      BY <1>4, <1>5
    <2> QED
      BY <2>1
  <1>9. Len(h) = 5 /\ h[1] = d1 /\ h[2] = d2 /\ h[4] = d4 /\ h[5] = d5
    BY <1>8
  <1>10. Len(t) = 3 * a /\ (a > 0 => \A f \in 1..3 : t[f] = Plain(b, <<AddrFields[f], 1>>))
    BY <1>2, <1>3, <1>6, AddrFacts
  <1>11. /\ h \o t \in Seq(Dwords) /\ Len(h \o t) = 5 + 3 * a
         /\ \A j \in 1..5 : (h \o t)[j] = h[j]
         /\ \A j \in 1..(3 * a) : (h \o t)[5 + j] = t[j]
    <2>1. /\ h \o t \in Seq(Dwords) /\ Len(h \o t) = Len(h) + Len(t)
          /\ \A j \in 1..Len(h) : (h \o t)[j] = h[j]
          /\ \A j \in 1..Len(t) : (h \o t)[Len(h) + j] = t[j]
      OBVIOUS
    <2> QED
      BY <1>9, <1>10, <2>1
  <1>12. a > 0 => \A f \in 1..3 : f \in 1..(3 * a)
    OBVIOUS
  <1>13. a > 0 => \A f \in 1..3 : (h \o t)[5 + f] = Plain(b, <<AddrFields[f], 1>>)
    BY <1>10, <1>11, <1>12
  <1>14. /\ (h \o t)[1] = d1 /\ (h \o t)[2] = d2
         /\ (h \o t)[4] = d4 /\ (h \o t)[5] = d5
    <2>1. PICK g : g = h \o t
      OBVIOUS
    <2>2. \A j \in 1..5 : g[j] = h[j]
      BY <1>11, <2>1
    <2>3. g[1] = h[1] /\ g[2] = h[2] /\ g[4] = h[4] /\ g[5] = h[5]
      BY <2>2
    <2> QED
      BY <1>9, <2>1, <2>3, Zenon
  <1>15. SelBlock(k) = h \o t
    BY <1>7, <1>8
  <1> QED
    BY <1>2, <1>3, <1>11, <1>13, <1>14, <1>15 DEF d1, d2, d4, d5

\* Where the blocks are, and what is there.
LinkThere(k) ==
    /\ LinkStart(k) \in Nat /\ LinkStart(k + 1) = LinkStart(k) + LinkSize
    /\ LinkStart(k + 1) <= Len(Layout)
    /\ Layout[LinkStart(k) + 1] = Control(<<"link", k>>, links[k])
SelThere(k) ==
    /\ SelStart(k) \in Nat
    /\ SelStart(k + 1) = SelStart(k) + (5 + 3 * selective[k].addr)
    /\ SelStart(k + 1) <= Len(Layout)
    /\ \A j \in 1..(5 + 3 * selective[k].addr) :
          Layout[SelStart(k) + j] = SelBlock(k)[j]

\* LinkBlock and SelBlock are where LinkStart and SelStart say.
LEMMA LayoutFacts ==
    ASSUME PortType
    PROVE  /\ Layout \in Seq(Dwords)
           /\ \A k \in 1..Len(links) : LinkThere(k)
           /\ \A k \in 1..Len(selective) : SelThere(k)
           /\ SelStart(1) = HeaderSize + LinkSize * num_lnk_ide
           /\ LinkStart(1) = HeaderSize
  <1>1. PICK l \in Nat : l = Len(links)
    BY PortFacts
  <1>2. PICK m \in Nat : m = Len(selective)
    BY PortFacts
  <1>3. PICK lb : lb = [k \in 1 .. Len(links) |-> LinkBlock(k)]
    OBVIOUS
  <1>4. PICK sb : sb = [k \in 1 .. Len(selective) |-> SelBlock(k)]
    OBVIOUS
  <1>5. lb \in [1..l -> Seq(Dwords)] /\ \A k \in 1..l : Len(lb[k]) = 2 /\ lb[k] = LinkBlock(k)
    BY <1>1, <1>3, LinkBlockFacts
  <1>6. /\ sb \in [1..m -> Seq(Dwords)]
        /\ \A k \in 1..m : /\ Len(sb[k]) = 5 + 3 * selective[k].addr
                           /\ sb[k] = SelBlock(k)
    BY <1>2, <1>4, SelBlockFacts
  <1>7. PICK fl \in Seq(Dwords) : fl = FlattenSeq(lb)
    BY <1>5, FlattenPlaces
  <1>8. PICK fs \in Seq(Dwords) : fs = FlattenSeq(sb)
    BY <1>6, FlattenPlaces
  <1>9. Len(fl) = 2 * l
    <2>1. \A k \in 0..l : Len(Part(lb, k)) = 2 * k
      BY <1>5, FlattenEven
    <2>2. Part(lb, l) = fl
      BY <1>5, <1>7, PartFacts
    <2> QED
      BY <2>1, <2>2
  <1>10. PICK hd : hd = [k \in 1 .. HeaderSize |-> Plain(<<"header", 0>>, <<"header", k>>)]
    OBVIOUS
  <1>11. hd \in Seq(Dwords) /\ Len(hd) = 3
    <2>1. PICK n \in Nat : n = 3
      OBVIOUS
    <2>2. \A k \in 1..n : Plain(<<"header", 0>>, <<"header", k>>) \in Dwords
      <3> TAKE k \in 1..n
      <3>1. <<"header", 0>> \in BlockIds /\ <<"header", k>> \in FieldIds
        BY DEF BlockIds, FieldIds
      <3> QED
        BY <3>1, DwordTypes
    <2>3. hd = [k \in 1..n |-> Plain(<<"header", 0>>, <<"header", k>>)]
      BY <1>10, <2>1 DEF HeaderSize
    <2>4. hd \in [1..n -> Dwords]
      BY <2>2, <2>3
    <2>5. hd \in Seq(Dwords) /\ Len(hd) = n
      BY <2>4
    <2> QED
      BY <2>1, <2>5
  <1>12. Layout = hd \o fl \o fs
    BY <1>3, <1>4, <1>7, <1>8, <1>10 DEF Layout
  <1>13. PICK hf \in Seq(Dwords) : hf = hd \o fl
    <2>1. hd \o fl \in Seq(Dwords)
      BY <1>11
    <2> QED
      BY <2>1
  <1>14. /\ Len(hf) = 3 + 2 * l /\ \A j \in 1..(2 * l) : hf[3 + j] = fl[j]
    <2>0. hd \in Seq(Dwords)
      BY <1>11
    <2>1. /\ Len(hd \o fl) = Len(hd) + Len(fl)
          /\ \A j \in 1..Len(fl) : (hd \o fl)[Len(hd) + j] = fl[j]
      BY <2>0
    <2> QED
      BY <1>9, <1>11, <1>13, <2>1
  <1>15. PICK c \in Nat : c = Len(fs)
    OBVIOUS
  <1>16. /\ Layout \in Seq(Dwords) /\ Len(Layout) = 3 + 2 * l + c
         /\ \A j \in 1..(3 + 2 * l) : Layout[j] = hf[j]
         /\ \A j \in 1..c : Layout[3 + 2 * l + j] = fs[j]
    <2>1. Layout = hf \o fs
      BY <1>12, <1>13
    <2>2. /\ hf \o fs \in Seq(Dwords) /\ Len(hf \o fs) = Len(hf) + Len(fs)
          /\ \A j \in 1..Len(hf) : (hf \o fs)[j] = hf[j]
          /\ \A j \in 1..Len(fs) : (hf \o fs)[Len(hf) + j] = fs[j]
      OBVIOUS
    <2>3. Len(hf) \in Nat
      OBVIOUS
    <2> QED
      BY <1>14, <1>15, <2>1, <2>2, <2>3
  <1>17. ASSUME NEW k \in 1..l
         PROVE  LinkThere(k)
    <2>1. Placed(lb, k)
      BY <1>5, FlattenPlaces
    <2>2. \A q \in 0..l : Len(Part(lb, q)) = 2 * q
      BY <1>5, FlattenEven
    <2>3. Len(Part(lb, k - 1)) = 2 * (k - 1) /\ Len(lb[k]) = 2 /\ lb[k] = LinkBlock(k)
      BY <1>5, <2>2
    <2>4. fl[2 * (k - 1) + 1] = LinkBlock(k)[1]
      BY <1>7, <2>1, <2>3 DEF Placed
    <2>5. 2 * (k - 1) + 1 \in 1..(2 * l)
      OBVIOUS
    <2>6. hf[3 + (2 * (k - 1) + 1)] = LinkBlock(k)[1]
      BY <1>14, <2>4, <2>5
    <2>7. Layout[3 + (2 * (k - 1) + 1)] = LinkBlock(k)[1]
      BY <1>16, <2>5, <2>6
    <2>8. 3 + (2 * (k - 1) + 1) = LinkStart(k) + 1
      BY DEF LinkStart, HeaderSize, LinkSize
    <2>9. LinkBlock(k)[1] = Control(<<"link", k>>, links[k])
      BY <1>1, LinkBlockFacts
    <2>10. /\ LinkStart(k) \in Nat /\ LinkStart(k + 1) = LinkStart(k) + LinkSize
           /\ LinkStart(k + 1) <= 3 + 2 * l
      BY DEF LinkStart, HeaderSize, LinkSize
    <2>11. LinkStart(k + 1) \in Nat
      BY DEF LinkStart, HeaderSize, LinkSize
    <2> QED
      BY <1>16, <2>7, <2>8, <2>9, <2>10, <2>11 DEF LinkThere
  <1>18. \A k \in 1..(m + 1) : SelStart(k) = 3 + 2 * l + Len(Part(sb, k - 1))
    <2> TAKE k \in 1..(m + 1)
    <2>1. [n \in 1 .. k - 1 |-> SelBlock(n)] = [n \in 1 .. k - 1 |-> sb[n]]
      BY <1>6
    <2> QED
      BY <1>1, <2>1 DEF SelStart, Part, HeaderSize, LinkSize, num_lnk_ide
  <1>19. ASSUME NEW k \in 1..m
         PROVE  SelThere(k)
    <2>1. Placed(sb, k)
      BY <1>6, FlattenPlaces
    <2>2. PICK a \in Nat : a = selective[k].addr
      BY <1>2, PortFacts
    <2>3. PICK n \in Nat : n = Len(Part(sb, k - 1))
      BY <2>1 DEF Placed
    <2>4. Len(sb[k]) = 5 + 3 * a /\ sb[k] = SelBlock(k)
      BY <1>6, <2>2
    <2>5. /\ Len(Part(sb, k)) = n + (5 + 3 * a) /\ Len(Part(sb, k)) <= c
          /\ \A j \in 1..(5 + 3 * a) : fs[n + j] = SelBlock(k)[j]
      BY <1>8, <1>15, <2>1, <2>3, <2>4 DEF Placed
    <2>6. SelStart(k) = 3 + 2 * l + n
      BY <1>18, <2>3
    <2>7. SelStart(k + 1) = 3 + 2 * l + (n + (5 + 3 * a))
      <3>1. k + 1 \in 1..(m + 1) /\ (k + 1) - 1 = k
        OBVIOUS
      <3> QED
        BY <1>18, <2>5, <3>1
    <2>8. n + (5 + 3 * a) <= c
      BY <2>5
    <2>9. ASSUME NEW j \in 1..(5 + 3 * a)
          PROVE  Layout[SelStart(k) + j] = SelBlock(k)[j]
      <3>1. n + j \in 1..c
        BY <2>8
      <3>2. Layout[3 + 2 * l + (n + j)] = fs[n + j]
        BY <1>16, <3>1
      <3>3. 3 + 2 * l + (n + j) = SelStart(k) + j
        BY <2>6
      <3> QED
        BY <2>5, <3>2, <3>3
    <2>10. SelStart(k + 1) <= Len(Layout)
      BY <1>16, <2>7, <2>8
    <2>11. SelStart(k) \in Nat /\ SelStart(k + 1) = SelStart(k) + (5 + 3 * a)
      BY <2>6, <2>7
    <2> QED
      BY <2>2, <2>9, <2>10, <2>11 DEF SelThere
  <1>20. SelStart(1) = HeaderSize + LinkSize * num_lnk_ide /\ LinkStart(1) = HeaderSize
    <2>1. Part(sb, 0) = << >>
      BY <1>6, PartFacts
    <2>2. Len(Part(sb, 0)) = 0 /\ 1 - 1 = 0 /\ 1 \in 1..(m + 1)
      BY <2>1
    <2>3. SelStart(1) = 3 + 2 * l + 0
      BY <1>18, <2>2
    <2> QED
      BY <1>1, <2>3 DEF LinkStart, HeaderSize, LinkSize, num_lnk_ide
  <1> QED
    BY <1>1, <1>2, <1>16, <1>17, <1>19, <1>20

-----------------------------------------------------------------------------
(* What the walks read.                                                    *)

\* A dword shows what it was made of.
LEMMA DwordFields ==
    \A b, f, a, en, id :
        /\ Dword(b, f, a, en, id).block = b /\ Dword(b, f, a, en, id).field = f
        /\ Dword(b, f, a, en, id).addr = a /\ Dword(b, f, a, en, id).en = en
        /\ Dword(b, f, a, en, id).id = id
  BY DEF Dword

\* A read at the start of a link block sees that stream's control register.
LEMMA ReadLink ==
    ASSUME PortType, ecap = Layout, NEW k \in 1..Len(links)
    PROVE  /\ Read(LinkStart(k)) = Control(<<"link", k>>, links[k])
           /\ Read(LinkStart(k)).en = links[k].en
           /\ IsStream(Read(LinkStart(k))) <=> IsStream(links[k])
  <1>1. LinkThere(k)
    BY LayoutFacts
  <1>2. PICK o \in Nat : o = LinkStart(k)
    BY <1>1 DEF LinkThere
  <1>3. Len(Layout) \in Nat
    BY LayoutFacts
  <1>4. o < Len(Layout)
    BY <1>1, <1>2, <1>3 DEF LinkThere, LinkSize
  <1>5. Read(o) = Control(<<"link", k>>, links[k])
    BY <1>1, <1>2, <1>4 DEF Read, LinkThere
  <1>6. Read(o).en = links[k].en /\ Read(o).id = links[k].id
    BY <1>5, DwordFields DEF Control
  <1> QED
    BY <1>2, <1>5, <1>6 DEF IsStream

\* Reads in a selective block see its size and its control register.
LEMMA ReadSel ==
    ASSUME PortType, ecap = Layout, NEW k \in 1..Len(selective)
    PROVE  /\ SelSize(Read(SelStart(k))) = 5 + 3 * selective[k].addr
           /\ SelStart(k) + SelSize(Read(SelStart(k))) = SelStart(k + 1)
           /\ Read(SelStart(k) + 1).en = selective[k].en
           /\ IsStream(Read(SelStart(k) + 1)) <=> IsStream(selective[k])
  <1>1. SelThere(k)
    BY LayoutFacts
  <1>2. PICK o \in Nat : o = SelStart(k)
    BY <1>1 DEF SelThere
  <1>3. Len(Layout) \in Nat
    BY LayoutFacts
  <1>4. PICK a \in Nat : a = selective[k].addr
    BY PortFacts
  <1>5. /\ o + (5 + 3 * a) <= Len(Layout) /\ SelStart(k + 1) = o + (5 + 3 * a)
        /\ \A j \in 1..(5 + 3 * a) : Layout[o + j] = SelBlock(k)[j]
    BY <1>1, <1>2, <1>4 DEF SelThere
  <1>6. o < Len(Layout) /\ o + 1 < Len(Layout) /\ 1 \in 1..(5 + 3 * a) /\ 2 \in 1..(5 + 3 * a)
    BY <1>3, <1>5
  <1>7. Read(o) = SelBlock(k)[1]
    BY <1>5, <1>6 DEF Read
  <1>8. Read(o + 1) = SelBlock(k)[2]
    <2>1. (o + 1) + 1 = o + 2
      OBVIOUS
    <2> QED
      BY <1>5, <1>6, <2>1 DEF Read
  <1>9. /\ SelBlock(k)[1] = SelCap(<<"sel", k>>, selective[k].addr)
        /\ SelBlock(k)[2] = Control(<<"sel", k>>, selective[k])
    BY SelBlockFacts
  <1>10. Read(o).addr = a
    BY <1>4, <1>7, <1>9, DwordFields DEF SelCap
  <1>11. Read(o + 1).en = selective[k].en /\ Read(o + 1).id = selective[k].id
    BY <1>8, <1>9, DwordFields DEF Control
  <1>12. SelSize(Read(o)) = 5 + 3 * a
    BY <1>10 DEF SelSize
  <1> QED
    BY <1>2, <1>4, <1>5, <1>11, <1>12 DEF IsStream

\* A sequence of length 0.
LEMMA NoElements ==
    ASSUME NEW S, NEW s \in Seq(S), Len(s) = 0
    PROVE  s = << >>
  OBVIOUS

\* A stream with the id, in one of the three places, or in none.
LEMMA InUseIn ==
    ASSUME PortType
    PROVE  /\ \A k \in 1..Len(links) : IsStream(links[k]) => InUse
           /\ \A k \in 1..Len(selective) : IsStream(selective[k]) => InUse
           /\ \A k \in 1..Len(kcbar) : IsStream(kcbar[k]) => InUse
           /\ NoneIn(links, Len(links)) /\ NoneIn(selective, Len(selective))
              /\ NoneIn(kcbar, Len(kcbar)) => ~InUse
  <1>1. /\ DOMAIN links = 1..Len(links) /\ DOMAIN kcbar = 1..Len(kcbar)
        /\ DOMAIN selective = 1..Len(selective)
    <2>1. PICK T : T = [en : BOOLEAN, id : StreamIds, addr : AddrBlocks]
      OBVIOUS
    <2>2. links \in Seq(Streams) /\ kcbar \in Seq(Streams) /\ selective \in Seq(T)
      BY <2>1 DEF PortType
    <2> QED
      BY <2>2
  <1>2. /\ \A k \in 1..Len(links) : links[k] \in ToSet(links)
        /\ \A k \in 1..Len(selective) : selective[k] \in ToSet(selective)
        /\ \A k \in 1..Len(kcbar) : kcbar[k] \in ToSet(kcbar)
    BY <1>1 DEF ToSet
  <1>3. /\ \A x \in ToSet(links) : \E k \in 1..Len(links) : x = links[k]
        /\ \A x \in ToSet(selective) : \E k \in 1..Len(selective) : x = selective[k]
        /\ \A x \in ToSet(kcbar) : \E k \in 1..Len(kcbar) : x = kcbar[k]
    BY <1>1 DEF ToSet
  <1> QED
    BY <1>2, <1>3 DEF InUse, NoneIn

\* Nothing that is said of the port changes while it is walked.
LEMMA PortKept ==
    ASSUME UNCHANGED port
    PROVE  /\ links' = links /\ selective' = selective /\ kcbar' = kcbar
           /\ stream_id' = stream_id /\ type' = type /\ entries' = entries
           /\ Layout' = Layout /\ num_lnk_ide' = num_lnk_ide
           /\ num_sel_ide' = num_sel_ide
           /\ \A k : SelStart(k)' = SelStart(k) /\ LinkStart(k)' = LinkStart(k)
           /\ \A s, n : NoneIn(s, n)' <=> NoneIn(s, n)
           /\ InUse' <=> InUse
           /\ IdePort' <=> IdePort
  <1>1. /\ links' = links /\ selective' = selective /\ kcbar' = kcbar
        /\ stream_id' = stream_id /\ type' = type /\ entries' = entries
    BY DEF port
  <1>2. num_lnk_ide' = num_lnk_ide /\ num_sel_ide' = num_sel_ide
    BY <1>1 DEF num_lnk_ide, num_sel_ide
  <1>3. \A k : SelBlock(k)' = SelBlock(k) /\ LinkBlock(k)' = LinkBlock(k)
    BY <1>1 DEF SelBlock, LinkBlock
  <1>4. Layout' = Layout
    BY <1>1, <1>3 DEF Layout
  <1>5. \A k : SelStart(k)' = SelStart(k) /\ LinkStart(k)' = LinkStart(k)
    BY <1>2, <1>3 DEF SelStart, LinkStart
  <1>6. \A s, n : NoneIn(s, n)' <=> NoneIn(s, n)
    BY <1>1 DEF NoneIn, IsStream
  <1>7. InUse' <=> InUse
    BY <1>1 DEF InUse, IsStream
  <1>8. IdePort' <=> IdePort
    BY <1>1 DEF IdePort
  <1> QED
    BY <1>1, <1>2, <1>4, <1>5, <1>6, <1>7, <1>8

-----------------------------------------------------------------------------
(* The steps of the walks.                                                 *)

WalkPcs == {"check_kcbar", "check_link", "check_sel", "free_block",
            "free_kcbar", "locate", "refused", "done", "hung"}
SearchPcs == {"locator", "refused", "done"}

\* The type of the port, when only the walk goes on.
LEMMA PortTypeKept ==
    ASSUME PortType, UNCHANGED port, used' \in BOOLEAN,
           IdePort => pc' \in WalkPcs, ~IdePort => pc' \in SearchPcs
    PROVE  PortType'
  <1>1. pc' \in IF IdePort' THEN WalkPcs ELSE SearchPcs
    BY PortKept
  <1> QED
    BY <1>1, PortKept DEF PortType, WalkPcs, SearchPcs

\* What a step in a port's IDE capability need not be asked about.
LEMMA IdeRest ==
    ASSUME Inv, IdePort, UNCHANGED port, pc' \notin {"done", "locator"}
    PROVE  /\ Searching' /\ RightBlock'
           /\ (pc = "done" => IdePort \/ entries # <<>>)'
  <1>1. entries = << >> /\ entries' = << >>
    BY PortKept DEF Inv, PortType
  <1>2. OwnBlock'
    BY DEF OwnBlock
  <1>3. LocatorFinds'
    BY <1>1 DEF LocatorFinds
  <1> QED
    BY <1>2, <1>3 DEF Searching, RightBlock

\* What was found out stays true.
LEMMA SeenKept ==
    ASSUME StreamIdSeen, Checked, UNCHANGED port, used' = used
    PROVE  StreamIdSeen'
  <1>1. (links # <<>> \/ selective = <<>>) => (used <=> InUse)
    BY DEF StreamIdSeen
  <1>2. (links' # <<>> \/ selective' = <<>>) => (used' <=> InUse')
    BY <1>1, PortKept
  <1> QED
    BY <1>2 DEF StreamIdSeen

\* A stream with the id is found.
LEMMA FoundStep ==
    ASSUME Inv, IdePort, Found, UNCHANGED <<port, ecap>>, InUse \/ links = <<>>,
           pc # "done"
    PROVE  Inv'
  <1>1. pc' = "refused" /\ used' = TRUE /\ UNCHANGED port /\ ecap' = ecap
    BY DEF Found
  <1>2. PortType'
    BY <1>1, PortTypeKept DEF Inv, WalkPcs
  <1>3. Checking'
    BY <1>1 DEF Checking
  <1>4. Locating'
    <2>1. ecap' = Layout'
      BY <1>1, PortKept DEF Inv, Locating
    <2> QED
      BY <1>1, <2>1 DEF Locating
  <1>5. StreamIdSeen'
    <2>1. CASE InUse
      <3>1. InUse'
        BY <1>1, <2>1, PortKept
      <3> QED
        BY <1>1, <3>1 DEF StreamIdSeen
    <2>2. CASE links = << >>
      <3>1. selective # << >>
        BY <2>2 DEF IdePort
      <3>2. links' = << >> /\ selective' # << >>
        BY <1>1, <2>2, <3>1, PortKept
      <3> QED
        BY <3>2 DEF StreamIdSeen
    <2> QED
      BY <2>1, <2>2
  <1> QED
    BY <1>1, <1>2, <1>3, <1>4, <1>5, IdeRest DEF Inv

\* check_stream_id_used_in_rootport in the key configuration unit.
LEMMA CheckKcbarStep == ASSUME Inv, CheckKcbar PROVE Inv'
  <1>1. /\ pc = "check_kcbar" /\ UNCHANGED port /\ ecap' = ecap /\ IdePort
        /\ PortType /\ ecap = Layout /\ used = FALSE
        /\ i \in 0..Len(kcbar) /\ NoneIn(kcbar, i)
    BY DEF CheckKcbar, Inv, PortType, Locating, Checking
  <1>2. PICK n \in Nat : n = Len(kcbar)
    BY <1>1, PortFacts
  <1>3. CASE Found
    <2>1. i + 1 \in 1..n /\ IsStream(kcbar[i + 1])
      BY <1>1, <1>2, <1>3 DEF CheckKcbar, Found
    <2>2. InUse
      BY <1>1, <1>2, <2>1, InUseIn
    <2> QED
      BY <1>1, <1>3, <2>2, FoundStep
  <1>4. CASE ~Found
    <2>1. /\ used' = FALSE
          /\ \/ /\ i < n /\ ~IsStream(kcbar[i + 1])
                /\ pc' = "check_kcbar" /\ i' = i + 1
             \/ /\ i = n /\ pc' = "check_link" /\ i' = 0
                /\ num_lnk_ide > 0 => offset' = HeaderSize
      BY <1>1, <1>2, <1>4 DEF CheckKcbar
    <2>2. PortType'
      BY <1>1, <2>1, PortTypeKept DEF WalkPcs
    <2>3. Locating'
      <3>1. ecap' = Layout'
        BY <1>1, PortKept
      <3> QED
        BY <2>1, <3>1 DEF Locating
    <2>4. StreamIdSeen'
      BY <2>1 DEF StreamIdSeen, Checked
    <2>5. Checking'
      <3>1. CASE pc' = "check_kcbar"
        <4>1. i' \in 0..Len(kcbar') /\ i' = i + 1
          BY <1>1, <1>2, <2>1, <3>1, PortKept
        <4>2. NoneIn(kcbar, i + 1)
          BY <1>1, <1>2, <2>1, <3>1 DEF NoneIn
        <4>3. NoneIn(kcbar, i)'
          BY <1>1, <4>1, <4>2, PortKept DEF NoneIn, IsStream
        <4> QED
          BY <2>1, <3>1, <4>1, <4>3 DEF Checking
      <3>2. CASE pc' = "check_link"
        <4>1. i' = 0 /\ NoneIn(kcbar, Len(kcbar))
          BY <1>1, <1>2, <2>1, <3>2
        <4>2. NoneIn(kcbar, Len(kcbar))'
          BY <1>1, <4>1, PortKept DEF NoneIn, IsStream
        <4>3. NoneIn(links, i)' /\ (i \in 0 .. num_lnk_ide)'
          <5>1. num_lnk_ide' \in Nat
            BY <1>1, PortFacts, PortKept DEF num_lnk_ide
          <5> QED
            BY <4>1, <5>1 DEF NoneIn
        <4>4. (num_lnk_ide > 0 => offset = LinkStart(i + 1))'
          <5>1. 0 + 1 = 1 /\ LinkStart(1)' = LinkStart(1) /\ LinkStart(1) = HeaderSize
            BY <1>1, LayoutFacts, PortKept
          <5>2. num_lnk_ide' = num_lnk_ide
            BY <1>1, PortKept
          <5>3. num_lnk_ide' > 0 => offset' = LinkStart(1)'
            BY <2>1, <3>2, <5>1, <5>2
          <5> QED
            BY <4>1, <5>1, <5>3 DEF LinkStart
        <4> QED
          BY <2>1, <3>2, <4>2, <4>3, <4>4 DEF Checking
      <3> QED
        BY <2>1, <3>1, <3>2
    <2> QED
      BY <1>1, <2>1, <2>2, <2>3, <2>4, <2>5, IdeRest DEF Inv
  <1> QED
    BY <1>3, <1>4

\* Its loop over the link blocks.
LEMMA CheckLinkStep == ASSUME Inv, CheckLink PROVE Inv'
  <1>1. /\ pc = "check_link" /\ UNCHANGED port /\ ecap' = ecap /\ IdePort
        /\ PortType /\ ecap = Layout /\ used = FALSE
        /\ i \in 0..num_lnk_ide /\ NoneIn(links, i) /\ NoneIn(kcbar, Len(kcbar))
        /\ num_lnk_ide > 0 => offset = LinkStart(i + 1)
    BY DEF CheckLink, Inv, PortType, Locating, Checking
  <1>2. PICK n \in Nat : n = Len(links) /\ n = num_lnk_ide
    BY <1>1, PortFacts DEF num_lnk_ide
  <1>3. i < n => /\ i + 1 \in 1..n /\ offset = LinkStart(i + 1)
                 /\ IsStream(Read(offset)) <=> IsStream(links[i + 1])
                 /\ offset + LinkSize = LinkStart(i + 2)
    <2> SUFFICES ASSUME i < n
                 PROVE  /\ i + 1 \in 1..n /\ offset = LinkStart(i + 1)
                        /\ IsStream(Read(offset)) <=> IsStream(links[i + 1])
                        /\ offset + LinkSize = LinkStart(i + 2)
      OBVIOUS
    <2>1. i + 1 \in 1..n /\ offset = LinkStart(i + 1)
      BY <1>1, <1>2
    <2>2. IsStream(Read(LinkStart(i + 1))) <=> IsStream(links[i + 1])
      BY <1>1, <1>2, <2>1, ReadLink
    <2>3. LinkStart(i + 1) + LinkSize = LinkStart(i + 2)
      BY <1>1, <1>2 DEF LinkStart, HeaderSize, LinkSize
    <2> QED
      BY <2>1, <2>2, <2>3
  <1>4. CASE Found
    <2>1. i < n /\ IsStream(Read(offset))
      BY <1>1, <1>2, <1>4 DEF CheckLink, Found
    <2>2. InUse
      BY <1>1, <1>2, <1>3, <2>1, InUseIn
    <2> QED
      BY <1>1, <1>4, <2>2, FoundStep
  <1>5. CASE ~Found
    <2>1. /\ used' = FALSE
          /\ \/ /\ i < n /\ ~IsStream(Read(offset))
                /\ pc' = "check_link" /\ i' = i + 1 /\ offset' = offset + LinkSize
             \/ /\ i = n /\ pc' = "check_sel" /\ i' = 0 /\ offset' = offset
      BY <1>1, <1>2, <1>5 DEF CheckLink
    <2>2. PortType'
      BY <1>1, <2>1, PortTypeKept DEF WalkPcs
    <2>3. Locating'
      <3>1. ecap' = Layout'
        BY <1>1, PortKept
      <3> QED
        BY <2>1, <3>1 DEF Locating
    <2>4. StreamIdSeen'
      BY <2>1 DEF StreamIdSeen, Checked
    <2>5. NoneIn(kcbar, Len(kcbar))'
      BY <1>1, PortKept DEF NoneIn, IsStream
    <2>6. num_lnk_ide' = n /\ links' = links
      BY <1>1, <1>2, PortKept
    <2>7. Checking'
      <3>1. CASE pc' = "check_link"
        <4>1. i' = i + 1 /\ i' \in 0..num_lnk_ide' /\ i + 1 \in 1..n
          BY <1>1, <1>2, <2>1, <2>6, <3>1
        <4>2. NoneIn(links, i + 1)
          BY <1>1, <1>2, <1>3, <2>1, <3>1 DEF NoneIn
        <4>3. NoneIn(links, i)'
          BY <1>1, <4>1, <4>2, PortKept DEF NoneIn, IsStream
        <4>4. offset' = LinkStart(i + 1)'
          <5>1. (i + 1) + 1 = i + 2 /\ offset' = LinkStart(i + 2)
            BY <1>1, <1>2, <1>3, <2>1, <3>1
          <5> QED
            BY <4>1, <5>1 DEF LinkStart
        <4> QED
          BY <2>1, <2>5, <3>1, <4>1, <4>3, <4>4 DEF Checking
      <3>2. CASE pc' = "check_sel"
        <4>1. i' = 0 /\ i = n /\ offset' = offset /\ NoneIn(links, n)
          BY <1>1, <1>2, <2>1, <3>2
        <4>2. NoneIn(links, num_lnk_ide)'
          BY <1>1, <2>6, <4>1, PortKept DEF NoneIn, IsStream
        <4>3. (i \in 0..num_sel_ide)' /\ NoneIn(selective, i)'
          <5>1. num_sel_ide' \in Nat
            BY <1>1, PortFacts, PortKept DEF num_sel_ide
          <5> QED
            BY <4>1, <5>1 DEF NoneIn
        <4>4. (num_lnk_ide > 0 => offset = SelStart(i + 1))'
          <5>1. n > 0 => offset' = LinkStart(n + 1)
            BY <1>1, <1>2, <4>1
          <5>2. LinkStart(n + 1) = SelStart(1)
            <6>1. SelStart(1) = HeaderSize + LinkSize * n
              BY <1>1, <1>2, LayoutFacts
            <6>2. (n + 1) - 1 = n
              OBVIOUS
            <6> QED
              BY <6>1, <6>2 DEF LinkStart
          <5>3. SelStart(1)' = SelStart(1)
            BY <1>1, PortKept
          <5>4. i' + 1 = 1
            BY <4>1
          <5>5. SelStart(i + 1)' = SelStart(1)'
            BY <5>4 DEF SelStart
          <5> QED
            BY <2>6, <5>1, <5>2, <5>3, <5>5
        <4> QED
          BY <2>1, <2>5, <3>2, <4>2, <4>3, <4>4 DEF Checking
      <3> QED
        BY <2>1, <3>1, <3>2
    <2> QED
      BY <1>1, <2>1, <2>2, <2>3, <2>4, <2>7, IdeRest DEF Inv
  <1> QED
    BY <1>4, <1>5

\* Its loop over the selective blocks.
LEMMA CheckSelStep == ASSUME Inv, CheckSel PROVE Inv'
  <1>1. /\ pc = "check_sel" /\ UNCHANGED port /\ ecap' = ecap /\ IdePort
        /\ PortType /\ ecap = Layout /\ used = FALSE
        /\ i \in 0..num_sel_ide /\ NoneIn(links, num_lnk_ide)
        /\ NoneIn(kcbar, Len(kcbar))
        /\ num_lnk_ide > 0 => offset = SelStart(i + 1) /\ NoneIn(selective, i)
    BY DEF CheckSel, Inv, PortType, Locating, Checking
  <1>2. PICK n \in Nat : n = Len(selective) /\ n = num_sel_ide
    BY <1>1, PortFacts DEF num_sel_ide
  <1>3. PICK l \in Nat : l = Len(links) /\ l = num_lnk_ide
    BY <1>1, PortFacts DEF num_lnk_ide
  <1>4. ASSUME i < n, l > 0
        PROVE  /\ i + 1 \in 1..n
               /\ IsStream(Read(offset + 1)) <=> IsStream(selective[i + 1])
               /\ offset + SelSize(Read(offset)) = SelStart(i + 2)
    <2>1. i + 1 \in 1..n /\ offset = SelStart(i + 1) /\ (i + 1) + 1 = i + 2
      BY <1>1, <1>2, <1>3, <1>4
    <2>2. PICK k \in 1..Len(selective) : k = i + 1
      BY <1>2, <2>1
    <2>3. /\ IsStream(Read(SelStart(k) + 1)) <=> IsStream(selective[k])
          /\ SelStart(k) + SelSize(Read(SelStart(k))) = SelStart(k + 1)
      BY <1>1, ReadSel
    <2> QED
      BY <2>1, <2>2, <2>3
  <1>5. CASE Found
    <2>1. i < n /\ IsStream(Read(offset + 1))
      BY <1>1, <1>2, <1>5 DEF CheckSel, Found
    <2>2. CASE l > 0
      <3>1. InUse
        BY <1>1, <1>2, <1>4, <2>1, <2>2, InUseIn
      <3> QED
        BY <1>1, <1>5, <3>1, FoundStep
    <2>3. CASE l = 0
      <3>1. links = << >>
        <4>1. links \in Seq(Streams)
          BY <1>1 DEF PortType
        <4> QED
          BY <1>3, <2>3, <4>1, NoElements
      <3> QED
        BY <1>1, <1>5, <3>1, FoundStep
    <2> QED
      BY <2>2, <2>3
  <1>6. CASE ~Found
    <2>1. /\ used' = FALSE
          /\ \/ /\ i < n /\ ~IsStream(Read(offset + 1)) /\ pc' = "check_sel"
                /\ i' = i + 1 /\ offset' = offset + SelSize(Read(offset))
             \/ /\ i = n /\ pc' = "free_block"
                /\ IF type = "link"
                   THEN i' = 0 /\ offset' = HeaderSize
                   ELSE /\ i' = num_lnk_ide
                        /\ offset' = HeaderSize + LinkSize * num_lnk_ide
      BY <1>1, <1>2, <1>6 DEF CheckSel
    <2>2. PortType'
      BY <1>1, <2>1, PortTypeKept DEF WalkPcs
    <2>3. ecap' = Layout'
      BY <1>1, PortKept
    <2>4. num_lnk_ide' = l /\ num_sel_ide' = n /\ type' = type
      BY <1>1, <1>2, <1>3, PortKept
    <2>5. CASE pc' = "check_sel"
      <3>1. Locating'
        BY <2>3, <2>5 DEF Locating
      <3>2. StreamIdSeen'
        BY <2>5 DEF StreamIdSeen, Checked
      <3>3. NoneIn(kcbar, Len(kcbar))' /\ NoneIn(links, num_lnk_ide)'
        BY <1>1, PortKept DEF NoneIn, IsStream
      <3>4. i' = i + 1 /\ (i \in 0..num_sel_ide)'
        BY <1>1, <1>2, <2>1, <2>4, <2>5
      <3>5. ASSUME l > 0
            PROVE  offset' = SelStart(i + 1)' /\ NoneIn(selective, i)'
        <4>1. NoneIn(selective, i + 1)
          BY <1>1, <1>2, <1>3, <1>4, <2>1, <2>5, <3>5 DEF NoneIn
        <4>2. NoneIn(selective, i)'
          BY <1>1, <3>4, <4>1, PortKept DEF NoneIn, IsStream
        <4>3. offset' = SelStart(i + 2)
          BY <1>4, <2>1, <2>5, <3>5
        <4>4. i' + 1 = i + 2
          BY <1>1, <1>2, <3>4
        <4>5. SelStart(i + 1)' = SelStart(i + 2)
          BY <1>1, <4>4, PortKept DEF SelStart, SelBlock
        <4> QED
          BY <4>2, <4>3, <4>5
      <3>6. Checking'
        BY <2>1, <2>4, <2>5, <3>3, <3>4, <3>5 DEF Checking
      <3> QED
        BY <1>1, <2>2, <2>5, <3>1, <3>2, <3>6, IdeRest DEF Inv
    <2>6. CASE pc' = "free_block"
      <3>1. Checking'
        BY <2>6 DEF Checking
      <3>2. AtBlock'
        <4>1. CASE type = "link"
          <5>1. i' = 0 /\ offset' = HeaderSize
            BY <2>1, <2>6, <4>1
          <5>2. LinkStart(i + 1)' = HeaderSize
            BY <5>1 DEF LinkStart, HeaderSize, LinkSize
          <5> QED
            BY <2>4, <4>1, <5>1, <5>2 DEF AtBlock
        <4>2. CASE type = "sel"
          <5>1. i' = l /\ offset' = HeaderSize + LinkSize * num_lnk_ide
            BY <1>3, <2>1, <2>6, <4>2
          <5>2. i' - num_lnk_ide' + 1 = 1
            BY <2>4, <5>1
          <5>3. SelStart(1)' = SelStart(1)
            BY <1>1, PortKept
          <5>4. SelStart(i - num_lnk_ide + 1)' = SelStart(1)'
            BY <5>2 DEF SelStart
          <5>5. offset' = SelStart(1)
            BY <1>1, <5>1, LayoutFacts
          <5>6. type' # "link" /\ (i \in num_lnk_ide .. num_lnk_ide + num_sel_ide)'
            BY <2>4, <4>2, <5>1
          <5> QED
            BY <5>3, <5>4, <5>5, <5>6 DEF AtBlock
        <4> QED
          BY <1>1, <4>1, <4>2 DEF PortType
      <3>3. Locating'
        BY <2>3, <2>6, <3>2 DEF Locating
      <3>4. StreamIdSeen'
        <4>1. CASE l > 0
          <5>1. NoneIn(selective, n)
            BY <1>1, <1>3, <2>1, <2>6, <4>1
          <5>2. ~InUse
            BY <1>1, <1>2, <1>3, <5>1, InUseIn
          <5>3. ~InUse' /\ used' = FALSE
            BY <1>1, <2>1, <5>2, PortKept
          <5> QED
            BY <5>3 DEF StreamIdSeen
        <4>2. CASE l = 0
          <5>1. links = << >> /\ selective # << >>
            <6>1. links \in Seq(Streams)
              BY <1>1 DEF PortType
            <6>2. links = << >>
              BY <1>3, <4>2, <6>1, NoElements
            <6> QED
              BY <1>1, <6>2 DEF IdePort
          <5>2. links' = << >> /\ selective' # << >>
            BY <1>1, <5>1, PortKept
          <5> QED
            BY <5>2 DEF StreamIdSeen
        <4> QED
          BY <4>1, <4>2
      <3> QED
        BY <1>1, <2>2, <2>6, <3>1, <3>3, <3>4, IdeRest DEF Inv
    <2> QED
      BY <2>1, <2>5, <2>6
  <1> QED
    BY <1>5, <1>6

\* The steps after the check: it stays as it is.
LEMMA LaterStep ==
    ASSUME Inv, IdePort, pc \in {"free_block", "free_kcbar", "locate"},
           UNCHANGED <<port, ecap, used>>,
           pc' \in {"free_block", "free_kcbar", "locate", "refused", "hung"},
           pc' \in {"free_block", "locate"} => AtBlock',
           pc' = "free_kcbar" => i' \in 0 .. Len(kcbar),
           pc' \in {"free_kcbar", "locate"} => Taken',
           pc' = "locate" => i' <= ide_id' /\ (type = "link" => i' = ide_id')
    PROVE  Inv'
  <1>1. PortType /\ used \in BOOLEAN /\ UNCHANGED port /\ used' = used
    BY DEF Inv, PortType
  <1>2. PortType'
    BY <1>1, PortTypeKept DEF WalkPcs
  <1>3. Checking'
    BY DEF Checking
  <1>4. Locating'
    <2>1. ecap' = Layout'
      BY <1>1, PortKept DEF Inv, Locating
    <2>2. Len(kcbar') = Len(kcbar) /\ type' = type
      BY <1>1, PortKept
    <2> QED
      BY <2>1, <2>2 DEF Locating
  <1>5. StreamIdSeen'
    BY <1>1, SeenKept DEF Inv, Checked
  <1> QED
    BY <1>1, <1>2, <1>3, <1>4, <1>5, IdeRest DEF Inv

\* What holds at each of them.
LEMMA LaterFacts ==
    ASSUME Inv, pc \in {"free_block", "free_kcbar", "locate"}
    PROVE  /\ PortType /\ IdePort /\ ecap = Layout /\ type \in {"link", "sel"}
           /\ num_lnk_ide = Len(links) /\ num_sel_ide = Len(selective)
           /\ num_lnk_ide \in Nat /\ num_sel_ide \in Nat /\ Len(kcbar) \in Nat
  <1>1. PortType /\ IdePort /\ ecap = Layout /\ type \in {"link", "sel"}
    BY DEF Inv, PortType, Locating
  <1> QED
    BY <1>1, PortFacts DEF num_lnk_ide, num_sel_ide

\* To the next block of the topology's kind.
LEMMA NextBlock ==
    ASSUME Inv, pc \in {"free_block", "locate"}, UNCHANGED port, i' = i + 1, AtBlock,
           \/ type = "link" /\ i < num_lnk_ide /\ offset' = offset + LinkSize
           \/ /\ type = "sel" /\ i < num_lnk_ide + num_sel_ide
              /\ offset' = offset + SelSize(Read(offset))
    PROVE  AtBlock'
  <1>1. PICK l \in Nat : l = num_lnk_ide /\ l = Len(links) /\ l = num_lnk_ide'
    BY LaterFacts, PortKept
  <1>2. PICK n \in Nat : n = num_sel_ide /\ n = Len(selective) /\ n = num_sel_ide'
    BY LaterFacts, PortKept
  <1>3. type' = type /\ PortType /\ ecap = Layout
    BY LaterFacts, PortKept
  <1>4. CASE type = "link"
    <2>1. i \in 0..l /\ i < l /\ offset = LinkStart(i + 1) /\ offset' = offset + LinkSize
      BY <1>1, <1>4 DEF AtBlock
    <2>2. offset' = LinkStart(i + 1)'
      BY <2>1 DEF LinkStart, HeaderSize, LinkSize
    <2> QED
      BY <1>1, <1>3, <1>4, <2>1, <2>2 DEF AtBlock
  <1>5. CASE type = "sel"
    <2>1. /\ i \in l..(l + n) /\ i < l + n /\ offset = SelStart(i - l + 1)
          /\ offset' = offset + SelSize(Read(offset))
      BY <1>1, <1>2, <1>5 DEF AtBlock
    <2>2. PICK k \in 1..Len(selective) : k = i - l + 1 /\ k + 1 = i' - l + 1
      <3>1. PICK k \in 1..n : k = i - l + 1
        BY <2>1
      <3>2. k + 1 = i' - l + 1
        BY <2>1, <3>1
      <3> QED
        BY <1>2, <3>1, <3>2
    <2>3. offset' = SelStart(k + 1)
      BY <1>3, <2>1, <2>2, ReadSel
    <2>4. SelStart(k + 1)' = SelStart(k + 1)
      BY PortKept
    <2>5. i' - num_lnk_ide' + 1 = k + 1
      BY <1>1, <2>2
    <2>6. SelStart(i - num_lnk_ide + 1)' = SelStart(k + 1)'
      BY <2>5 DEF SelStart
    <2>7. (i \in num_lnk_ide .. num_lnk_ide + num_sel_ide)' /\ type' # "link"
      <3>1. i' \in l..(l + n)
        BY <2>1
      <3> QED
        BY <1>1, <1>2, <1>3, <1>5, <3>1
    <2> QED
      BY <2>3, <2>4, <2>6, <2>7 DEF AtBlock
  <1> QED
    BY <1>4, <1>5

\* find_free_rp_stream_index_and_ide_id among the link blocks.
LEMMA FreeLinkStep == ASSUME Inv, FreeLink PROVE Inv'
  <1>1. /\ pc = "free_block" /\ type = "link" /\ i < num_lnk_ide /\ UNCHANGED port
        /\ UNCHANGED <<port, ecap, used>> /\ AtBlock
    BY DEF FreeLink, Inv, Locating
  <1>2. /\ IdePort /\ ecap = Layout /\ PortType /\ num_lnk_ide = Len(links)
        /\ num_lnk_ide \in Nat /\ Len(kcbar) \in Nat
    BY <1>1, LaterFacts
  <1>3. /\ type' = type /\ num_lnk_ide' = num_lnk_ide /\ links' = links
    BY <1>1, PortKept
  <1>4. CASE TakeBlock
    <2>1. ide_id' = i /\ pc' = "free_kcbar" /\ i' = 0
      BY <1>4 DEF TakeBlock
    <2>2. ~Read(offset).en
      BY <1>1, <1>4 DEF FreeLink, TakeBlock
    <2>3. i \in 0 .. num_lnk_ide - 1 /\ offset = LinkStart(i + 1) /\ i + 1 \in 1..Len(links)
      BY <1>1, <1>2 DEF AtBlock
    <2>4. ~links[i + 1].en
      BY <1>2, <2>2, <2>3, ReadLink
    <2>5. Taken'
      BY <1>1, <1>3, <2>1, <2>3, <2>4 DEF Taken
    <2> QED
      BY <1>1, <1>2, <2>1, <2>5, LaterStep
  <1>5. CASE ~TakeBlock
    <2>1. i' = i + 1 /\ offset' = offset + LinkSize /\ pc' = "free_block"
      BY <1>1, <1>5 DEF FreeLink
    <2>2. AtBlock'
      BY <1>1, <2>1, NextBlock
    <2> QED
      BY <1>1, <1>2, <2>1, <2>2, LaterStep
  <1> QED
    BY <1>4, <1>5

\* The same among the selective blocks.
LEMMA FreeSelStep == ASSUME Inv, FreeSel PROVE Inv'
  <1>1. /\ pc = "free_block" /\ type = "sel" /\ i < num_lnk_ide + num_sel_ide
        /\ UNCHANGED port /\ UNCHANGED <<port, ecap, used>> /\ AtBlock
    BY DEF FreeSel, Inv, Locating
  <1>2. IdePort /\ ecap = Layout /\ PortType
    BY <1>1, LaterFacts
  <1>3. /\ type' = type /\ num_lnk_ide' = num_lnk_ide /\ num_sel_ide' = num_sel_ide
        /\ selective' = selective
    BY <1>1, PortKept
  <1>4. PICK l \in Nat : l = num_lnk_ide
    BY <1>1, LaterFacts
  <1>5. PICK n \in Nat : n = num_sel_ide /\ n = Len(selective)
    BY <1>1, LaterFacts
  <1>6. Len(kcbar) \in Nat
    BY <1>1, LaterFacts
  <1>7. CASE TakeBlock
    <2>1. ide_id' = i /\ pc' = "free_kcbar" /\ i' = 0
      BY <1>7 DEF TakeBlock
    <2>2. ~Read(offset + 1).en
      BY <1>1, <1>7 DEF FreeSel, TakeBlock
    <2>3. i \in l .. (l + n - 1) /\ offset = SelStart(i - l + 1)
      BY <1>1, <1>4, <1>5 DEF AtBlock
    <2>4. PICK k \in 1..Len(selective) : k = i - l + 1
      BY <1>5, <2>3
    <2>5. ~selective[k].en
      BY <1>2, <2>2, <2>3, <2>4, ReadSel
    <2>6. ide_id' - num_lnk_ide' + 1 = k
      BY <1>3, <1>4, <2>1, <2>4
    <2>7. (ide_id \in num_lnk_ide .. num_lnk_ide + num_sel_ide - 1)' /\ type' # "link"
      BY <1>1, <1>3, <1>4, <1>5, <2>1, <2>3
    <2>8. Taken'
      BY <1>3, <2>5, <2>6, <2>7 DEF Taken
    <2> QED
      BY <1>1, <1>2, <1>6, <2>1, <2>8, LaterStep
  <1>8. CASE ~TakeBlock
    <2>1. /\ i' = i + 1 /\ offset' = offset + SelSize(Read(offset))
          /\ pc' = "free_block"
      BY <1>1, <1>8 DEF FreeSel
    <2>2. AtBlock'
      BY <1>1, <2>1, NextBlock
    <2> QED
      BY <1>1, <1>2, <2>1, <2>2, LaterStep
  <1> QED
    BY <1>7, <1>8

\* No block is free.
LEMMA NoneFreeStep == ASSUME Inv, NoneFree PROVE Inv'
  <1>1. /\ pc = "free_block" /\ pc' = "refused" /\ UNCHANGED <<port, ecap, used>>
    BY DEF NoneFree
  <1>2. IdePort
    BY <1>1, LaterFacts
  <1> QED
    BY <1>1, <1>2, LaterStep

\* The free stream of the key configuration unit.
LEMMA FreeKcbarStep == ASSUME Inv, FreeKcbar PROVE Inv'
  <1>1. /\ pc = "free_kcbar" /\ UNCHANGED <<port, ecap, used, ide_id>>
        /\ UNCHANGED port /\ Taken /\ i \in 0..Len(kcbar)
    BY DEF FreeKcbar, Inv, Locating
  <1>2. IdePort /\ PortType /\ type \in {"link", "sel"} /\ Len(kcbar) \in Nat
    BY <1>1, LaterFacts
  <1>3. /\ type' = type /\ num_lnk_ide' = num_lnk_ide /\ num_sel_ide' = num_sel_ide
        /\ links' = links /\ selective' = selective /\ ide_id' = ide_id
    BY <1>1, PortKept
  <1>4. PICK l \in Nat : l = num_lnk_ide
    BY <1>1, LaterFacts
  <1>5. PICK n \in Nat : n = num_sel_ide
    BY <1>1, LaterFacts
  <1>6. Taken'
    BY <1>1, <1>3 DEF Taken
  <1>7. CASE pc' = "refused"
    BY <1>1, <1>2, <1>7, LaterStep
  <1>8. CASE pc' = "free_kcbar"
    <2>1. i' = i + 1 /\ i # Len(kcbar)
      BY <1>1, <1>8 DEF FreeKcbar
    <2>2. i' \in 0..Len(kcbar)
      BY <1>1, <1>2, <2>1
    <2> QED
      BY <1>1, <1>2, <1>6, <1>8, <2>2, LaterStep
  <1>9. CASE pc' = "locate"
    <2>1. /\ i' = IF type = "link" THEN ide_id ELSE num_lnk_ide
          /\ offset' = HeaderSize
               + LinkSize * (IF type = "link" THEN ide_id ELSE num_lnk_ide)
      BY <1>1, <1>9 DEF FreeKcbar
    <2>2. CASE type = "link"
      <3>1. i' = ide_id /\ offset' = HeaderSize + LinkSize * ide_id /\ ide_id \in 0..(l - 1)
        BY <1>1, <1>4, <2>1, <2>2 DEF Taken
      <3>2. (i' + 1) - 1 = ide_id
        BY <3>1
      <3>3. offset' = LinkStart(i + 1)'
        BY <3>1, <3>2 DEF LinkStart
      <3>4. AtBlock'
        BY <1>3, <1>4, <2>2, <3>1, <3>3 DEF AtBlock
      <3>5. i' <= ide_id'
        BY <1>3, <3>1
      <3> QED
        BY <1>1, <1>2, <1>3, <1>6, <1>9, <3>1, <3>4, <3>5, LaterStep
    <2>3. CASE type = "sel"
      <3>1. /\ i' = l /\ offset' = HeaderSize + LinkSize * num_lnk_ide
            /\ ide_id \in l..(l + n - 1)
        BY <1>1, <1>4, <1>5, <2>1, <2>3 DEF Taken
      <3>2. i' - num_lnk_ide' + 1 = 1
        BY <1>3, <1>4, <3>1
      <3>3. SelStart(i - num_lnk_ide + 1)' = SelStart(1)'
        BY <3>2 DEF SelStart
      <3>4. SelStart(1)' = SelStart(1)
        BY <1>1, PortKept
      <3>5. offset' = SelStart(1)
        BY <1>2, <3>1, LayoutFacts
      <3>6. (i \in num_lnk_ide .. num_lnk_ide + num_sel_ide)' /\ type' # "link"
        BY <1>3, <1>4, <1>5, <2>3, <3>1
      <3>7. AtBlock'
        BY <3>3, <3>4, <3>5, <3>6 DEF AtBlock
      <3>8. i' <= ide_id'
        BY <1>3, <3>1
      <3> QED
        BY <1>1, <1>2, <1>6, <1>9, <2>3, <3>7, <3>8, LaterStep
    <2> QED
      BY <1>2, <2>2, <2>3
  <1> QED
    BY <1>1, <1>7, <1>8, <1>9 DEF FreeKcbar

\* get_ide_reg_block_offset goes one block further.
LEMMA LocateStep == ASSUME Inv, Locate PROVE Inv'
  <1>1. /\ pc = "locate" /\ i < ide_id /\ UNCHANGED <<port, ecap, used, ide_id>>
        /\ UNCHANGED port /\ Taken /\ AtBlock /\ i <= ide_id
        /\ type = "link" => i = ide_id
    BY DEF Locate, Inv, Locating
  <1>2. IdePort /\ type \in {"link", "sel"}
    BY <1>1, LaterFacts
  <1>3. /\ type' = type /\ num_lnk_ide' = num_lnk_ide /\ num_sel_ide' = num_sel_ide
        /\ links' = links /\ selective' = selective /\ ide_id' = ide_id
    BY <1>1, PortKept
  <1>4. PICK l \in Nat : l = num_lnk_ide
    BY <1>1, LaterFacts
  <1>5. PICK n \in Nat : n = num_sel_ide
    BY <1>1, LaterFacts
  <1>6. Taken'
    BY <1>1, <1>3 DEF Taken
  <1>7. type = "sel" /\ i \in l..(l + n) /\ ide_id \in l..(l + n - 1)
    <2>1. type # "link"
      <3> SUFFICES ASSUME type = "link" PROVE FALSE
        OBVIOUS
      <3>1. i = ide_id /\ i \in 0..l
        BY <1>1, <1>4 DEF AtBlock
      <3> QED
        BY <1>1, <3>1
    <2> QED
      BY <1>1, <1>2, <1>4, <1>5, <2>1 DEF AtBlock, Taken
  <1>8. CASE pc' = "hung"
    BY <1>1, <1>2, <1>8, LaterStep
  <1>9. CASE pc' # "hung"
    <2>1. pc' = "locate" /\ i' = i + 1 /\ offset' = offset + SelSize(Read(offset))
      BY <1>1, <1>9 DEF Locate
    <2>2. i < num_lnk_ide + num_sel_ide /\ i' <= ide_id'
      BY <1>1, <1>3, <1>4, <1>5, <1>7, <2>1
    <2>3. AtBlock'
      BY <1>1, <1>7, <2>1, <2>2, NextBlock
    <2> QED
      BY <1>1, <1>2, <1>6, <1>7, <2>1, <2>2, <2>3, LaterStep
  <1> QED
    BY <1>8, <1>9

-----------------------------------------------------------------------------
(* The registers that are written.                                         *)

\* What the dword at an offset is.
Label(o) == <<Layout[o + 1].block, Layout[o + 1].field>>

\* The write changes no dword but those it is about, and what they are not.
LEMMA WrittenFacts ==
    ASSUME PortType, ecap = Layout, NEW W,
           ecap' = [k \in 1 .. Len(ecap) |->
                      [ecap[k] EXCEPT !.written = k - 1 \in W]]
    PROVE  /\ Len(ecap') = Len(Layout) /\ Len(Layout) \in Nat
           /\ \A q \in 1..Len(Layout) : /\ ecap'[q].written <=> q - 1 \in W
                                        /\ ecap'[q].block = Layout[q].block
                                        /\ ecap'[q].field = Layout[q].field
  <1>1. Layout \in Seq(Dwords)
    BY LayoutFacts
  <1>2. PICK n \in Nat : n = Len(Layout)
    BY <1>1
  <1>3. \A q \in 1..n : Layout[q] \in Dwords
    BY <1>1, <1>2
  <1>4. ASSUME NEW d \in Dwords, NEW p
        PROVE  /\ [d EXCEPT !.written = p].written = p
               /\ [d EXCEPT !.written = p].block = d.block
               /\ [d EXCEPT !.written = p].field = d.field
    <2>1. PICK b \in BlockIds, f \in FieldIds, a \in Nat, en \in BOOLEAN, id \in StreamIds :
             d = Dword(b, f, a, en, id)
      BY DEF Dwords
    <2> QED
      BY <2>1 DEF Dword
  <1>5. ecap' = [k \in 1..n |-> [Layout[k] EXCEPT !.written = k - 1 \in W]]
    BY <1>2
  <1>6. \A q \in 1..n : ecap'[q] = [Layout[q] EXCEPT !.written = q - 1 \in W]
    BY <1>5
  <1>7. Len(ecap') = n
    <2>1. ecap' \in [1..n -> {ecap'[q] : q \in 1..n}]
      BY <1>5
    <2>2. PICK T : T = {ecap'[q] : q \in 1..n}
      OBVIOUS
    <2>3. ecap' \in [1..n -> T]
      BY <2>1, <2>2
    <2> QED
      BY <2>3
  <1>8. ASSUME NEW q \in 1..n
        PROVE  /\ ecap'[q].written <=> q - 1 \in W
               /\ ecap'[q].block = Layout[q].block
               /\ ecap'[q].field = Layout[q].field
    <2>1. PICK d \in Dwords : d = Layout[q]
      BY <1>3
    <2>2. PICK p : p = (q - 1 \in W)
      BY Zenon
    <2>3. PICK e : e = ecap'[q]
      BY Zenon
    <2>4. e = [d EXCEPT !.written = p]
      BY <1>6, <2>1, <2>2, <2>3, Zenon
    <2>5. e.written = p /\ e.block = d.block /\ e.field = d.field
      BY <1>4, <2>4, Zenon
    <2> QED
      BY <2>1, <2>2, <2>3, <2>5, Zenon
  <1> QED
    BY <1>2, <1>7, <1>8

\* The dwords that were written, by what they are.
LEMMA WrittenLabels ==
    ASSUME PortType, ecap = Layout, NEW W,
           ecap' = [k \in 1 .. Len(ecap) |->
                      [ecap[k] EXCEPT !.written = k - 1 \in W]],
           \A o \in W : o \in Nat /\ o < Len(Layout)
    PROVE  {<<ecap'[k].block, ecap'[k].field>> :
                k \in {q \in 1..Len(ecap') : ecap'[q].written}}
              = {Label(o) : o \in W}
  <1>1. PICK n \in Nat : n = Len(Layout) /\ Len(ecap') = n
    BY WrittenFacts
  <1>2. \A q \in 1..n : /\ ecap'[q].written <=> q - 1 \in W
                        /\ ecap'[q].block = Layout[q].block
                        /\ ecap'[q].field = Layout[q].field
    BY <1>1, WrittenFacts
  <1>3. \A o \in W : o + 1 \in 1..n /\ (o + 1) - 1 = o
    BY <1>1
  <1>4. \A q \in 1..n : (q - 1) + 1 = q
    OBVIOUS
  <1>5. ASSUME NEW o \in W
        PROVE  /\ o + 1 \in {q \in 1..n : ecap'[q].written}
               /\ Label(o) = <<ecap'[o + 1].block, ecap'[o + 1].field>>
    BY <1>2, <1>3 DEF Label
  <1>6. ASSUME NEW k \in {q \in 1..n : ecap'[q].written}
        PROVE  /\ k - 1 \in W
               /\ Label(k - 1) = <<ecap'[k].block, ecap'[k].field>>
    BY <1>2, <1>4 DEF Label
  <1> QED
    BY <1>1, <1>5, <1>6

\* In a link block, the control register.
LEMMA LinkWritten ==
    ASSUME PortType, NEW k \in 1..Len(links)
    PROVE  /\ LinkStart(k) \in Nat /\ LinkStart(k) < Len(Layout)
           /\ Label(LinkStart(k)) = <<<<"link", k>>, <<"ctrl", 0>>>>
  <1>1. LinkThere(k) /\ Layout \in Seq(Dwords)
    BY LayoutFacts
  <1>2. PICK o \in Nat : o = LinkStart(k)
    BY <1>1 DEF LinkThere
  <1>3. Len(Layout) \in Nat
    BY <1>1
  <1>4. o < Len(Layout)
    BY <1>1, <1>2, <1>3 DEF LinkThere, LinkSize
  <1>5. Layout[o + 1] = Control(<<"link", k>>, links[k])
    BY <1>1, <1>2 DEF LinkThere
  <1> QED
    BY <1>2, <1>4, <1>5, DwordFields DEF Label, Control

\* In a selective block with address blocks, the control register, the RID
\* association registers and those of the first address block.
LEMMA SelWritten ==
    ASSUME PortType, NEW k \in 1..Len(selective), selective[k].addr > 0,
           NEW s, s = SelStart(k)
    PROVE  /\ s \in Nat /\ s + 7 < Len(Layout)
           /\ Label(s + 1) = <<<<"sel", k>>, <<"ctrl", 0>>>>
           /\ Label(s + 3) = <<<<"sel", k>>, <<"rid1", 0>>>>
           /\ Label(s + 4) = <<<<"sel", k>>, <<"rid2", 0>>>>
           /\ Label(s + 5) = <<<<"sel", k>>, <<"addr1", 1>>>>
           /\ Label(s + 6) = <<<<"sel", k>>, <<"addr2", 1>>>>
           /\ Label(s + 7) = <<<<"sel", k>>, <<"addr3", 1>>>>
  <1>1. SelThere(k) /\ Layout \in Seq(Dwords)
    BY LayoutFacts
  <1>2. s \in Nat
    BY <1>1 DEF SelThere
  <1>3. PICK n \in Nat : n = Len(Layout)
    BY <1>1
  <1>4. PICK a \in Nat : a = selective[k].addr
    BY PortFacts
  <1>5. s + (5 + 3 * a) <= n /\ \A j \in 1..(5 + 3 * a) : Layout[s + j] = SelBlock(k)[j]
    BY <1>1, <1>3, <1>4 DEF SelThere
  <1>6. a >= 1 /\ s + 7 < n
    BY <1>2, <1>4, <1>5
  <1>7. PICK b : b = <<"sel", k>>
    OBVIOUS
  <1>8. /\ SelBlock(k)[2] = Control(b, selective[k])
        /\ SelBlock(k)[4] = Plain(b, <<"rid1", 0>>)
        /\ SelBlock(k)[5] = Plain(b, <<"rid2", 0>>)
        /\ \A f \in 1..3 : SelBlock(k)[5 + f] = Plain(b, <<AddrFields[f], 1>>)
    BY <1>7, SelBlockFacts
  <1>9. /\ SelBlock(k)[6] = Plain(b, <<"addr1", 1>>)
        /\ SelBlock(k)[7] = Plain(b, <<"addr2", 1>>)
        /\ SelBlock(k)[8] = Plain(b, <<"addr3", 1>>)
    <2>1. /\ AddrFields[1] = "addr1" /\ AddrFields[2] = "addr2"
          /\ AddrFields[3] = "addr3"
      BY DEF AddrFields
    <2>2. /\ SelBlock(k)[5 + 1] = Plain(b, <<AddrFields[1], 1>>)
          /\ SelBlock(k)[5 + 2] = Plain(b, <<AddrFields[2], 1>>)
          /\ SelBlock(k)[5 + 3] = Plain(b, <<AddrFields[3], 1>>)
      BY <1>8
    <2>3. 5 + 1 = 6 /\ 5 + 2 = 7 /\ 5 + 3 = 8
      OBVIOUS
    <2> QED
      BY <2>1, <2>2, <2>3
  <1>10. \A j \in 1..8 : Layout[s + j] = SelBlock(k)[j]
    BY <1>5, <1>6
  <1>11. /\ (s + 1) + 1 = s + 2 /\ (s + 3) + 1 = s + 4 /\ (s + 4) + 1 = s + 5
         /\ (s + 5) + 1 = s + 6 /\ (s + 6) + 1 = s + 7 /\ (s + 7) + 1 = s + 8
    BY <1>2
  <1>12. /\ Layout[(s + 1) + 1] = Control(b, selective[k])
         /\ Layout[(s + 3) + 1] = Plain(b, <<"rid1", 0>>)
         /\ Layout[(s + 4) + 1] = Plain(b, <<"rid2", 0>>)
         /\ Layout[(s + 5) + 1] = Plain(b, <<"addr1", 1>>)
         /\ Layout[(s + 6) + 1] = Plain(b, <<"addr2", 1>>)
         /\ Layout[(s + 7) + 1] = Plain(b, <<"addr3", 1>>)
    BY <1>8, <1>9, <1>10, <1>11
  <1>13. \A f : Plain(b, f).block = b /\ Plain(b, f).field = f
    <2> TAKE f
    <2>1. PICK no : no = FALSE
      BY Zenon
    <2>2. PICK p : p = Plain(b, f) /\ p = Dword(b, f, 0, no, 0)
      BY <2>1, Zenon DEF Plain
    <2> QED
      BY <2>2, DwordFields
  <1>14. /\ Control(b, selective[k]).block = b
         /\ Control(b, selective[k]).field = <<"ctrl", 0>>
    BY DwordFields DEF Control
  <1>15. /\ Label(s + 1) = <<b, <<"ctrl", 0>>>> /\ Label(s + 3) = <<b, <<"rid1", 0>>>>
         /\ Label(s + 4) = <<b, <<"rid2", 0>>>> /\ Label(s + 5) = <<b, <<"addr1", 1>>>>
         /\ Label(s + 6) = <<b, <<"addr2", 1>>>> /\ Label(s + 7) = <<b, <<"addr3", 1>>>>
    BY <1>12, <1>13, <1>14, Zenon DEF Label
  <1> QED
    BY <1>2, <1>3, <1>6, <1>7, <1>15

\* The walk that ends at the block writes its registers and no others.
LEMMA SetupOwnBlock ==
    ASSUME Inv, setup_ide_ecap_regs
    PROVE  OwnBlock'
  <1>1. /\ pc = "locate" /\ i = ide_id /\ AtBlock /\ Taken /\ UNCHANGED port
        /\ ide_id' = ide_id
        /\ ecap' = [k \in 1 .. Len(ecap) |->
                      [ecap[k] EXCEPT !.written = k - 1 \in RegsWritten]]
    BY DEF setup_ide_ecap_regs, Inv, Locating
  <1>2. PortType /\ ecap = Layout /\ type \in {"link", "sel"}
    BY <1>1, LaterFacts
  <1>3. /\ type' = type /\ num_lnk_ide' = num_lnk_ide
        /\ links' = links /\ selective' = selective
    BY <1>1, PortKept
  <1>4. PICK l \in Nat : l = num_lnk_ide /\ l = Len(links)
    BY <1>1, LaterFacts
  <1>5. PICK n \in Nat : n = num_sel_ide /\ n = Len(selective)
    BY <1>1, LaterFacts
  <1> DEFINE Marks == {<<ecap'[k].block, ecap'[k].field>> :
                          k \in {q \in 1..Len(ecap') : ecap'[q].written}}
  <1>6. (\A o \in RegsWritten : o \in Nat /\ o < Len(Layout)) =>
           Marks = {Label(o) : o \in RegsWritten}
    BY <1>1, <1>2, WrittenLabels
  <1>7. CASE type = "link"
    <2>1. PICK k \in 1..Len(links) : k = ide_id + 1
      <3>1. ide_id \in 0..(l - 1)
        BY <1>1, <1>4, <1>7 DEF Taken
      <3> QED
        BY <1>4, <3>1
    <2>2. ~links[k].en
      BY <1>1, <1>7, <2>1 DEF Taken
    <2>3. RegsWritten = {LinkStart(k)}
      BY <1>1, <1>7, <2>1 DEF AtBlock, RegsWritten
    <2>4. \A o \in RegsWritten : o \in Nat /\ o < Len(Layout)
      BY <1>2, <2>3, LinkWritten
    <2>5. {Label(o) : o \in RegsWritten} = {<<<<"link", k>>, <<"ctrl", 0>>>>}
      <3>1. Label(LinkStart(k)) = <<<<"link", k>>, <<"ctrl", 0>>>>
        BY <1>2, LinkWritten
      <3> QED
        BY <2>3, <3>1
    <2>6. Marks = {<<<<"link", k>>, <<"ctrl", 0>>>>}
      BY <1>6, <2>4, <2>5
    <2>7. Marks = {<<<<"link", k>>, f>> : f \in {<<"ctrl", 0>>}}
      BY <2>6
    <2> HIDE DEF Marks
    <2>8. <<"link", ide_id' + 1>> = <<"link", k>> /\ <<"link", k>>[2] = k
      BY <1>1, <2>1
    <2> QED
      BY <1>3, <1>7, <2>2, <2>7, <2>8 DEF OwnBlock, Marks
  <1>8. CASE type = "sel"
    <2>1. ide_id \in l..(l + n - 1)
      BY <1>1, <1>4, <1>5, <1>8 DEF Taken
    <2>2. PICK k \in 1..Len(selective) : k = ide_id - l + 1
      BY <1>5, <2>1
    <2>3. ~selective[k].en
      BY <1>1, <1>4, <1>8, <2>2 DEF Taken
    <2>4. PICK s : s = SelStart(k) /\ s = offset
      BY <1>1, <1>4, <1>8, <2>2 DEF AtBlock
    <2>5. ASSUME selective[k].addr > 0
          PROVE  Marks = {<<<<"sel", k>>, f>> :
                             f \in {"ctrl", "rid1", "rid2"} \X {0}
                                   \cup ToSet(AddrFields) \X {1}}
      <3>1. PICK b : b = <<"sel", k>>
        OBVIOUS
      <3>2. /\ s \in Nat /\ s + 7 < Len(Layout)
            /\ Label(s + 1) = <<b, <<"ctrl", 0>>>> /\ Label(s + 3) = <<b, <<"rid1", 0>>>>
            /\ Label(s + 4) = <<b, <<"rid2", 0>>>> /\ Label(s + 5) = <<b, <<"addr1", 1>>>>
            /\ Label(s + 6) = <<b, <<"addr2", 1>>>> /\ Label(s + 7) = <<b, <<"addr3", 1>>>>
        BY <1>2, <2>4, <2>5, <3>1, SelWritten
      <3>3. RegsWritten = {s + 1, s + 3, s + 4, s + 5, s + 6, s + 7}
        <4>1. RegsWritten = {s + 1} \cup (s + 3 .. s + 7)
          BY <1>8, <2>4 DEF RegsWritten
        <4> QED
          BY <3>2, <4>1
      <3>4. \A o \in RegsWritten : o \in Nat /\ o < Len(Layout)
        <4>1. Len(Layout) \in Nat
          <5>1. Layout \in Seq(Dwords)
            BY <1>2, LayoutFacts
          <5> QED
            BY <5>1
        <4> QED
          BY <3>2, <3>3, <4>1
      <3>5. Marks = {Label(s + 1), Label(s + 3), Label(s + 4), Label(s + 5),
                     Label(s + 6), Label(s + 7)}
        <4>1. {Label(o) : o \in RegsWritten}
                 = {Label(s + 1), Label(s + 3), Label(s + 4), Label(s + 5),
                    Label(s + 6), Label(s + 7)}
          BY <3>3, Zenon
        <4> HIDE DEF Marks
        <4> QED
          BY <1>6, <3>4, <4>1
      <3>6. {"ctrl", "rid1", "rid2"} \X {0} \cup ToSet(AddrFields) \X {1}
               = {<<"ctrl", 0>>, <<"rid1", 0>>, <<"rid2", 0>>,
                  <<"addr1", 1>>, <<"addr2", 1>>, <<"addr3", 1>>}
        <4>1. ToSet(AddrFields) = {"addr1", "addr2", "addr3"}
          <5>1. DOMAIN AddrFields = {1, 2, 3}
            BY DEF AddrFields
          <5>2. /\ AddrFields[1] = "addr1" /\ AddrFields[2] = "addr2"
                /\ AddrFields[3] = "addr3"
            BY DEF AddrFields
          <5> QED
            BY <5>1, <5>2 DEF ToSet
        <4>2. {"addr1", "addr2", "addr3"} \X {1}
                 = {<<"addr1", 1>>, <<"addr2", 1>>, <<"addr3", 1>>}
          OBVIOUS
        <4>3. {"ctrl", "rid1", "rid2"} \X {0}
                 = {<<"ctrl", 0>>, <<"rid1", 0>>, <<"rid2", 0>>}
          OBVIOUS
        <4> QED
          BY <4>1, <4>2, <4>3
      <3> HIDE DEF Marks
      <3>7. Marks = {<<b, f>> : f \in {<<"ctrl", 0>>, <<"rid1", 0>>, <<"rid2", 0>>,
                                     <<"addr1", 1>>, <<"addr2", 1>>, <<"addr3", 1>>}}
        <4>1. Marks = {<<b, <<"ctrl", 0>>>>, <<b, <<"rid1", 0>>>>, <<b, <<"rid2", 0>>>>,
                       <<b, <<"addr1", 1>>>>, <<b, <<"addr2", 1>>>>, <<b, <<"addr3", 1>>>>}
          BY <3>2, <3>5
        <4> QED
          BY <4>1, Zenon
      <3> QED
        BY <3>1, <3>6, <3>7
    <2> HIDE DEF Marks
    <2>6. ide_id' - num_lnk_ide' + 1 = k /\ <<"sel", k>>[2] = k
      BY <1>1, <1>3, <1>4, <2>2
    <2>7. type' = "sel" /\ "sel" # "link"
      BY <1>3, <1>8
    <2> QED
      BY <1>3, <2>3, <2>5, <2>6, <2>7 DEF OwnBlock, Marks
  <1> QED
    BY <1>2, <1>7, <1>8

\* setup_ide_ecap_regs.
LEMMA SetupStep == ASSUME Inv, setup_ide_ecap_regs PROVE Inv'
  <1>1. /\ pc = "locate" /\ pc' = "done" /\ UNCHANGED port /\ used' = used
    BY DEF setup_ide_ecap_regs
  <1>2. PortType /\ IdePort /\ used \in BOOLEAN /\ entries = << >>
    BY <1>1, LaterFacts DEF Inv, PortType
  <1>3. PortType'
    BY <1>1, <1>2, PortTypeKept DEF WalkPcs
  <1>4. Checking' /\ Locating' /\ Searching'
    BY <1>1 DEF Checking, Locating, Searching
  <1>5. StreamIdSeen'
    BY <1>1, SeenKept DEF Inv, Checked
  <1>6. entries' = << >> /\ IdePort'
    BY <1>1, <1>2, PortKept
  <1>7. LocatorFinds'
    BY <1>6 DEF LocatorFinds
  <1>8. OwnBlock'
    BY SetupOwnBlock
  <1> QED
    BY <1>3, <1>4, <1>5, <1>6, <1>7, <1>8 DEF Inv, RightBlock

-----------------------------------------------------------------------------
(* The register locator.                                                   *)

\* What holds before each of its steps, and is not touched by them.
LEMMA LocatorFacts ==
    ASSUME Inv, pc = "locator"
    PROVE  /\ PortType /\ ~IdePort /\ used = FALSE /\ ~InUse
           /\ entries \in Seq({"component", "other"}) /\ Len(entries) \in Nat
           /\ i \in 0 .. Len(entries) /\ offset \in Nat
           /\ i < 2 => offset = 0
           /\ \A k \in {1, 2} : k <= i => entries[k] = "other"
  <1>1. /\ PortType /\ ~IdePort /\ used = FALSE /\ kcbar = << >>
        /\ entries \in Seq({"component", "other"})
        /\ i \in 0 .. Len(entries) /\ offset \in Nat
        /\ i < 2 => offset = 0
        /\ \A k \in {1, 2} : k <= i => entries[k] = "other"
    BY DEF Inv, PortType, Searching
  <1>2. Len(links) \in Nat /\ Len(selective) \in Nat /\ Len(entries) \in Nat
    BY <1>1, PortFacts
  <1>3. Len(links) = 0 /\ Len(selective) = 0 /\ Len(kcbar) = 0
    BY <1>1, <1>2 DEF IdePort
  <1>4. ~InUse
    <2>1. /\ NoneIn(links, Len(links)) /\ NoneIn(selective, Len(selective))
          /\ NoneIn(kcbar, Len(kcbar))
      BY <1>3 DEF NoneIn
    <2> QED
      BY <1>1, <2>1, InUseIn
  <1> QED
    BY <1>1, <1>2, <1>4

\* A step of it, where it ends at the first entry if that is one of two.
LEMMA LocatorRest ==
    ASSUME Inv, pc = "locator", UNCHANGED <<port, used>>,
           pc' \in {"locator", "refused", "done"},
           Searching', LocatorFinds', pc' = "done" => entries # <<>>
    PROVE  Inv'
  <1>1. UNCHANGED port /\ used' = used
    OBVIOUS
  <1>2. PortType /\ ~IdePort /\ used = FALSE /\ ~InUse
    BY LocatorFacts
  <1>3. PortType'
    BY <1>1, <1>2, PortTypeKept DEF SearchPcs
  <1>4. ~IdePort' /\ ~InUse' /\ entries' = entries
    BY <1>1, <1>2, PortKept
  <1>5. Checking'
    BY DEF Checking
  <1>6. Locating'
    BY <1>4 DEF Locating
  <1>7. StreamIdSeen'
    BY <1>1, <1>2, <1>4 DEF StreamIdSeen
  <1>8. OwnBlock'
    BY <1>4 DEF OwnBlock
  <1> QED
    BY <1>3, <1>4, <1>5, <1>6, <1>7, <1>8 DEF Inv, RightBlock

\* An entry of the register locator is looked at.
LEMMA LocatorStep == ASSUME Inv, Locator PROVE Inv'
  <1>1. pc = "locator" /\ i < Len(entries) /\ UNCHANGED port /\ UNCHANGED <<port, used>>
    BY DEF Locator
  <1>2. PICK n \in Nat : n = Len(entries)
    BY <1>1, LocatorFacts
  <1>3. /\ i \in 0..n /\ i < n /\ offset \in Nat /\ (i < 2 => offset = 0)
        /\ \A k \in {1, 2} : k <= i => entries[k] = "other"
        /\ entries \in Seq({"component", "other"})
    BY <1>1, <1>2, LocatorFacts
  <1>4. PICK at \in Nat : at = offset + i
    BY <1>3
  <1>5. PICK id \in IF at < n THEN {entries[at + 1]} ELSE {"component", "other"} :
           /\ offset' = at
           /\ IF id = "component"
              THEN pc' = "done" /\ mapped' = at /\ UNCHANGED i
              ELSE i' = i + 1 /\ UNCHANGED <<pc, mapped>>
    BY <1>2, <1>4 DEF Locator
  <1>6. entries' = entries /\ kcbar' = kcbar
    BY <1>1, PortKept
  <1>7. i < 2 => at = i /\ id = entries[i + 1]
    BY <1>3, <1>4, <1>5
  <1>8. i + 1 \in 1..n /\ entries[i + 1] \in {"component", "other"} /\ entries # << >>
    BY <1>2, <1>3
  <1>9. CASE id = "component"
    <2>1. pc' = "done" /\ mapped' = at
      BY <1>5, <1>9
    <2>2. Searching'
      BY <2>1 DEF Searching
    <2>3. ASSUME NEW k \in {1, 2}, k \in 1..n, entries[k] = "component",
                 \A m \in 1 .. k - 1 : entries[m] # "component"
          PROVE  mapped' = k - 1
      <3>1. i < k
        BY <1>3, <2>3
      <3>2. i < 2 /\ entries[i + 1] = "component" /\ at = i
        BY <1>3, <1>7, <1>9, <3>1
      <3>3. ~(i + 1 \in 1 .. k - 1)
        BY <2>3, <3>2
      <3> QED
        BY <1>3, <2>1, <3>1, <3>2, <3>3
    <2>4. LocatorFinds'
      BY <1>2, <1>6, <2>3 DEF LocatorFinds
    <2> QED
      BY <1>1, <1>8, <2>1, <2>2, <2>4, LocatorRest
  <1>10. CASE id # "component"
    <2>1. pc' = "locator" /\ i' = i + 1 /\ offset' = at
      BY <1>1, <1>5, <1>10
    <2>2. i < 2 => entries[i + 1] = "other"
      BY <1>7, <1>8, <1>10
    <2>3. ASSUME NEW k \in {1, 2}, k <= i'
          PROVE  entries[k] = "other"
      <3>1. CASE k <= i
        BY <1>3, <3>1
      <3>2. CASE ~(k <= i)
        <4>1. k = i + 1
          BY <1>3, <2>1, <2>3, <3>2
        <4> QED
          BY <1>3, <2>2, <4>1
      <3> QED
        BY <3>1, <3>2
    <2>4. i' < 2 => offset' = 0
      BY <1>3, <1>4, <2>1
    <2>5. i' \in 0..n /\ offset' \in Nat
      BY <1>3, <2>1
    <2>6. ~used' /\ kcbar' = << >>
      BY <1>1, <1>6 DEF Inv, Searching
    <2>7. Searching'
      BY <1>2, <1>6, <2>3, <2>4, <2>5, <2>6 DEF Searching
    <2>8. LocatorFinds'
      BY <2>1 DEF LocatorFinds
    <2> QED
      BY <1>1, <2>1, <2>7, <2>8, LocatorRest
  <1> QED
    BY <1>9, <1>10

\* No entry was found.
LEMMA LocatorFailsStep == ASSUME Inv, LocatorFails PROVE Inv'
  <1>1. /\ pc = "locator" /\ pc' = "refused" /\ i = Len(entries)
        /\ UNCHANGED port /\ UNCHANGED <<port, used>>
    BY DEF LocatorFails
  <1>2. PICK n \in Nat : n = Len(entries)
    BY <1>1, LocatorFacts
  <1>3. i = n /\ \A k \in {1, 2} : k <= i => entries[k] = "other"
    BY <1>1, <1>2, LocatorFacts
  <1>4. Searching'
    BY <1>1 DEF Searching
  <1>5. \A k \in {1, 2} : k \in 1..n => entries[k] # "component"
    BY <1>3
  <1>6. entries' = entries
    BY <1>1, PortKept
  <1>7. LocatorFinds'
    BY <1>2, <1>5, <1>6 DEF LocatorFinds
  <1> QED
    BY <1>1, <1>4, <1>7, LocatorRest

-----------------------------------------------------------------------------
(* The theorems.                                                           *)

\* What the bounded sequences of the initial states are.
LEMMA SeqOfFacts ==
    ASSUME NEW S, NEW n \in Nat, NEW s \in SeqOf(S, n)
    PROVE  s \in Seq(S) /\ Len(s) \in Nat
  <1>1. PICK m \in 0..n : s \in [1..m -> S]
    BY DEF SeqOf
  <1> QED
    BY <1>1

\* The initial states: a port to be walked, or a register locator.
LEMMA InitInv == ASSUME Init PROVE Inv
  <1>1. /\ offset = 0 /\ used = FALSE /\ mapped = None
        /\ InitIde \/ InitLocator
    BY DEF Init
  <1>2. /\ MaxLink \in Nat /\ MaxSelective \in Nat /\ MaxKcbar \in Nat
        /\ MaxEntries \in Nat /\ 0 \in StreamIds
    BY WalkAssumption
  <1>3. CASE InitIde
    <2>1. /\ links \in SeqOf(Streams, MaxLink) /\ kcbar \in SeqOf(Streams, MaxKcbar)
          /\ selective \in SeqOf([en : BOOLEAN, id : StreamIds, addr : AddrBlocks],
                                 MaxSelective)
          /\ IdePort /\ ecap = Layout /\ stream_id \in StreamIds
          /\ type \in {"link", "sel"} /\ entries = << >> /\ pc = "check_kcbar" /\ i = 0
      BY <1>3 DEF InitIde, IdePort
    <2>2. links \in Seq(Streams) /\ kcbar \in Seq(Streams) /\ Len(kcbar) \in Nat
      BY <1>2, <2>1, SeqOfFacts
    <2>3. selective \in Seq([en : BOOLEAN, id : StreamIds, addr : AddrBlocks])
      BY <1>2, <2>1, SeqOfFacts
    <2>4. entries \in Seq({"component", "other"})
      BY <2>1
    <2>5. PortType
      BY <1>1, <2>1, <2>2, <2>3, <2>4 DEF PortType
    <2>6. Checking
      BY <1>1, <2>1, <2>2 DEF Checking, NoneIn
    <2>7. Locating /\ Searching
      BY <2>1 DEF Locating, Searching
    <2>8. StreamIdSeen /\ RightBlock
      BY <2>1 DEF StreamIdSeen, Checked, RightBlock, OwnBlock, LocatorFinds
    <2> QED
      BY <2>1, <2>5, <2>6, <2>7, <2>8 DEF Inv
  <1>4. CASE InitLocator
    <2>1. /\ links = << >> /\ selective = << >> /\ kcbar = << >> /\ stream_id = 0
          /\ type = "sel" /\ entries \in SeqOf({"component", "other"}, MaxEntries)
          /\ pc = "locator" /\ i = 0
      BY <1>4 DEF InitLocator, FirstEntry
    <2>2. entries \in Seq({"component", "other"}) /\ Len(entries) \in Nat
      BY <1>2, <2>1, SeqOfFacts
    <2>3. ~IdePort
      BY <2>1 DEF IdePort
    <2>4. selective \in Seq([en : BOOLEAN, id : StreamIds, addr : AddrBlocks])
      BY <2>1
    <2>5. links \in Seq(Streams) /\ kcbar \in Seq(Streams)
      BY <2>1
    <2>6. PortType
      BY <1>1, <1>2, <2>1, <2>2, <2>3, <2>4, <2>5 DEF PortType
    <2>7. Checking /\ Locating
      BY <2>1, <2>3 DEF Checking, Locating
    <2>8. Searching
      BY <1>1, <2>1, <2>2 DEF Searching
    <2>9. StreamIdSeen /\ RightBlock
      BY <2>1 DEF StreamIdSeen, Checked, RightBlock, OwnBlock, LocatorFinds
    <2> QED
      BY <2>1, <2>6, <2>7, <2>8, <2>9 DEF Inv
  <1> QED
    BY <1>1, <1>3, <1>4

\* A step that changes nothing.
LEMMA StutterInv == ASSUME Inv, UNCHANGED vars PROVE Inv'
  <1>1. /\ links' = links /\ selective' = selective /\ kcbar' = kcbar
        /\ ecap' = ecap /\ stream_id' = stream_id /\ type' = type /\ pc' = pc
        /\ i' = i /\ offset' = offset /\ used' = used /\ ide_id' = ide_id
        /\ entries' = entries /\ mapped' = mapped
    BY DEF vars
  <1>2. UNCHANGED port
    BY <1>1 DEF port
  <1>3. PortType'
    BY <1>1 DEF Inv, PortType, IdePort
  <1>4. Checking'
    BY <1>1 DEF Inv, Checking, NoneIn, IsStream, LinkStart, SelStart, SelBlock,
                num_lnk_ide, num_sel_ide
  <1>5. Locating'
    <2>1. AtBlock' <=> AtBlock
      BY <1>1 DEF AtBlock, LinkStart, SelStart, SelBlock, num_lnk_ide, num_sel_ide
    <2>2. Taken' <=> Taken
      BY <1>1 DEF Taken, num_lnk_ide, num_sel_ide
    <2>3. Layout' = Layout /\ (IdePort' <=> IdePort)
      BY <1>2, PortKept
    <2> QED
      BY <1>1, <2>1, <2>2, <2>3 DEF Inv, Locating
  <1>6. Searching'
    BY <1>1 DEF Inv, Searching
  <1>7. StreamIdSeen'
    BY <1>1 DEF Inv, StreamIdSeen, Checked, InUse, IsStream
  <1>8. OwnBlock'
    BY <1>1 DEF Inv, RightBlock, OwnBlock, num_lnk_ide
  <1>9. LocatorFinds'
    BY <1>1 DEF Inv, RightBlock, LocatorFinds
  <1>10. (pc = "done" => IdePort \/ entries # <<>>)'
    BY <1>1 DEF Inv, IdePort
  <1> QED
    BY <1>3, <1>4, <1>5, <1>6, <1>7, <1>8, <1>9, <1>10 DEF Inv, RightBlock

\* Every walk keeps its place and what it has found out: the invariant of
\* check_stream_id_used_in_rootport, find_free_rp_stream_index_and_ide_id,
\* get_ide_reg_block_offset and cxl_init_memcache_reg_block.
THEOREM Invariance == Spec => []Inv
  <1>1. Init => Inv
    BY InitInv
  <1>2. Inv /\ [Next]_vars => Inv'
    <2> SUFFICES ASSUME Inv, [Next]_vars PROVE Inv'
      OBVIOUS
    <2>1. CASE CheckKcbar
      BY <2>1, CheckKcbarStep
    <2>2. CASE CheckLink
      BY <2>2, CheckLinkStep
    <2>3. CASE CheckSel
      BY <2>3, CheckSelStep
    <2>4. CASE FreeLink
      BY <2>4, FreeLinkStep
    <2>5. CASE FreeSel
      BY <2>5, FreeSelStep
    <2>6. CASE NoneFree
      BY <2>6, NoneFreeStep
    <2>7. CASE FreeKcbar
      BY <2>7, FreeKcbarStep
    <2>8. CASE Locate
      BY <2>8, LocateStep
    <2>9. CASE setup_ide_ecap_regs
      BY <2>9, SetupStep
    <2>10. CASE Locator
      BY <2>10, LocatorStep
    <2>11. CASE LocatorFails
      BY <2>11, LocatorFailsStep
    <2>12. CASE UNCHANGED vars
      BY <2>12, StutterInv
    <2> QED
      BY <2>1, <2>2, <2>3, <2>4, <2>5, <2>6, <2>7, <2>8, <2>9, <2>10, <2>11, <2>12
         DEF Next
  <1> QED
    BY <1>1, <1>2, PTL DEF Spec

\* check_stream_id_used_in_rootport tells whether the id is in use, for ports
\* with any number of blocks of any size.
THEOREM StreamIdSeenCorrect == Spec => []StreamIdSeen
  <1>1. Inv => StreamIdSeen
    BY DEF Inv
  <1> QED
    BY <1>1, Invariance, PTL

\* setup_ide_ecap_regs writes the registers of the very block that was free
\* when it was looked for, and cxl_init_memcache_reg_block maps the first
\* entry with component registers when it is one of the first two.
THEOREM RightBlockCorrect == Spec => []RightBlock
  <1>1. Inv => RightBlock
    BY DEF Inv
  <1> QED
    BY <1>1, Invariance, PTL
=============================================================================
