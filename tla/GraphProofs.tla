---------------------------- MODULE GraphProofs ----------------------------
(***************************************************************************)
(* Facts about the operators of QbeIR that the proofs of the passes need,  *)
(* for every graph.  ReachIn and PredsOf are recursive functions: what     *)
(* they compute is shown by taking the least index at which a claim fails  *)
(* (LeastNat).                                                             *)
(***************************************************************************)
EXTENDS QbeIR, FiniteSetTheorems, WellFoundedInduction, TLAPS

LEMMA LeastNat ==
  ASSUME NEW S \in SUBSET Nat, S # {}
  PROVE  \E m \in S : \A j \in S : m <= j
<1>1. PICK m \in S : \A j \in S : ~(<<j, m>> \in OpToRel(<, Nat))
  BY NatLessThanWellFounded, WFMin
<1>2. \A j \in S : ~(j < m)
  BY <1>1 DEF OpToRel
<1>3. QED
  BY <1>2

(***************************************************************************)
(* A function defined by its first value and a step exists.                *)
(***************************************************************************)
Follows(h, n, V, v, F) ==
  h \in [0 .. n -> V] /\ h[0] = v /\ \A k \in 1 .. n : h[k] = F[k][h[k - 1]]

LEMMA Recursion ==
  ASSUME NEW n \in Nat, NEW V, NEW v \in V, NEW F \in [1 .. n -> [V -> V]]
  PROVE  \E h : Follows(h, n, V, v, F)
<1> DEFINE Good(m) == \E h : Follows(h, m, V, v, F)
           Bad == {m \in 0 .. n : ~Good(m)}
<1> SUFFICES ASSUME Bad # {} PROVE FALSE
  <2>1. n \in 0 .. n
    OBVIOUS
  <2> HIDE DEF Good
  <2>2. Good(n)
    BY <2>1
  <2>3. QED
    BY <2>2 DEF Good
<1> HIDE DEF Good
<1>1. PICK m \in Bad : \A j \in Bad : m <= j
  <2>1. Bad \subseteq Nat
    OBVIOUS
  <2> HIDE DEF Bad
  <2>2. QED
    BY <2>1, LeastNat
<1>2. CASE m = 0
  <2>1. [i \in 0 .. 0 |-> v] \in [0 .. 0 -> V]
    OBVIOUS
  <2>2. Follows([i \in 0 .. 0 |-> v], 0, V, v, F)
    BY <2>1 DEF Follows
  <2>3. QED
    BY <1>1, <1>2, <2>2 DEF Good
<1>3. CASE m # 0
  <2>1. m \in 1 .. n /\ m - 1 \in 0 .. n
    BY <1>1, <1>3
  <2>2. Good(m - 1)
    BY <1>1, <2>1
  <2>3. PICK h : Follows(h, m - 1, V, v, F)
    BY <2>2 DEF Good
  <2> DEFINE e == [i \in 0 .. m |-> IF i = m THEN F[m][h[m - 1]] ELSE h[i]]
  <2>4. F[m][h[m - 1]] \in V
    <3>1. h[m - 1] \in V
      BY <2>1, <2>3 DEF Follows
    <3>2. F[m] \in [V -> V]
      BY <2>1
    <3>3. QED
      BY <3>1, <3>2
  <2>5. e \in [0 .. m -> V]
    BY <2>1, <2>3, <2>4 DEF Follows
  <2>6. e[0] = v /\ \A k \in 1 .. m : e[k] = F[k][e[k - 1]]
    BY <2>1, <2>3 DEF Follows
  <2>7. Good(m)
    BY <2>5, <2>6 DEF Good, Follows
  <2>8. QED
    BY <1>1, <2>7
<1>4. QED
  BY <1>2, <1>3

-----------------------------------------------------------------------------
(***************************************************************************)
(* The rounds of ReachIn.                                                  *)
(***************************************************************************)
Grown(g, W, some) == some \cup (W \cap (UNION {Succs(g, c) : c \in some}))

Rounds(g, b, W) ==
  LET after[k \in 0 .. g.n] ==
        IF k = 0 THEN {b}
        ELSE LET some == after[k - 1]
             IN  some \cup (W \cap (UNION {Succs(g, c) : c \in some}))
  IN  after

LEMMA RoundsDef ==
  ASSUME NEW g, g.n \in Nat, NEW b, NEW W
  PROVE  /\ ReachIn(g, b, W) = Rounds(g, b, W)[g.n]
         /\ Rounds(g, b, W) = [k \in 0 .. g.n |->
                                 IF k = 0 THEN {b} ELSE Grown(g, W, Rounds(g, b, W)[k - 1])]
<1> DEFINE V == SUBSET ({b} \cup W)
           F == [k \in 1 .. g.n |-> [some \in V |-> Grown(g, W, some)]]
           n == g.n
           v == {b}
<1>1. ReachIn(g, b, W) = Rounds(g, b, W)[g.n]
  BY DEF ReachIn, Rounds
<1> HIDE DEF V, F, n, v
<1>2. F \in [1 .. n -> [V -> V]] /\ v \in V /\ n \in Nat
  BY DEF Grown, V, F, n, v
<1>3. PICK h : Follows(h, n, V, v, F)
  BY <1>2, Recursion
<1> USE DEF V, F, n, v, Follows
<1>4. h = [k \in 0 .. g.n |-> IF k = 0 THEN {b} ELSE Grown(g, W, h[k - 1])]
  <2>1. ASSUME NEW k \in 1 .. g.n
        PROVE  h[k] = Grown(g, W, h[k - 1])
    <3>1. h[k - 1] \in V
      BY <1>3
    <3>2. QED
      BY <1>3, <3>1
  <2>2. QED
    BY <1>3, <2>1
<1>5. QED
  BY <1>1, <1>4 DEF Rounds, Grown

\* What is true of the first round, and kept by a round, is true of the last.
LEMMA ReachLeast ==
  ASSUME NEW g, g.n \in Nat, NEW b, NEW W, NEW S,
         b \in S, \A c \in S : Succs(g, c) \cap W \subseteq S
  PROVE  ReachIn(g, b, W) \subseteq S
<1> DEFINE R == Rounds(g, b, W)
           Bad == {k \in 0 .. g.n : ~(R[k] \subseteq S)}
<1>1. ReachIn(g, b, W) = R[g.n] /\ g.n \in 0 .. g.n
  BY RoundsDef
<1>2. R = [k \in 0 .. g.n |-> IF k = 0 THEN {b} ELSE Grown(g, W, R[k - 1])]
  BY RoundsDef
<1> HIDE DEF R
<1>3. ASSUME Bad # {} PROVE FALSE
  <2>1. PICK m \in Bad : \A j \in Bad : m <= j
    <3>1. Bad \subseteq Nat
      OBVIOUS
    <3> HIDE DEF Bad
    <3>2. QED
      BY <1>3, <3>1, LeastNat
  <2>2. CASE m = 0
    BY <1>2, <2>1, <2>2
  <2>3. CASE m # 0
    <3>1. m - 1 \in 0 .. g.n /\ ~(m <= m - 1)
      BY <2>1, <2>3
    <3>2. R[m - 1] \subseteq S
      BY <2>1, <3>1
    <3>3. R[m] = Grown(g, W, R[m - 1])
      BY <1>2, <2>1, <2>3
    <3>4. R[m] \subseteq S
      BY <3>2, <3>3 DEF Grown
    <3>5. QED
      BY <2>1, <3>4
  <2>4. QED
    BY <2>2, <2>3
<1>4. QED
  BY <1>1, <1>3

\* Paths from b stay in W, but for b itself.
LEMMA ReachInside ==
  ASSUME NEW g, g.n \in Nat, NEW b, NEW W
  PROVE  ReachIn(g, b, W) \subseteq {b} \cup W
<1> DEFINE S == {b} \cup W
<1>1. b \in S /\ \A c \in S : Succs(g, c) \cap W \subseteq S
  OBVIOUS
<1> HIDE DEF S
<1>2. ReachIn(g, b, W) \subseteq S
  BY <1>1, ReachLeast
<1>3. QED
  BY <1>2 DEF S

LEMMA FiniteBlocks ==
  ASSUME NEW g, g.n \in Nat \ {0}
  PROVE  IsFiniteSet(Blocks(g)) /\ Cardinality(Blocks(g)) = g.n
<1> DEFINE m == g.n - 1
<1>1. 0 \in Int /\ m \in Int /\ ~(0 > m) /\ m - 0 + 1 = g.n /\ Blocks(g) = 0 .. m
  BY DEF Blocks
<1> HIDE DEF m
<1>2. QED
  BY <1>1, FS_Interval

(***************************************************************************)
(* The rounds suffice: one that adds nothing is the last that could, and   *)
(* there are as many as blocks.                                            *)
(***************************************************************************)
LEMMA ReachClosed ==
  ASSUME NEW g, g.n \in Nat \ {0}, NEW b \in Blocks(g), NEW W \in SUBSET Blocks(g)
  PROVE  /\ b \in ReachIn(g, b, W)
         /\ \A c \in ReachIn(g, b, W) : Succs(g, c) \cap W \subseteq ReachIn(g, b, W)
<1> DEFINE R == Rounds(g, b, W)
           Full(k) == R[k] \subseteq Blocks(g) /\ b \in R[k] /\
                      (Grown(g, W, R[k]) = R[k] \/ Cardinality(R[k]) >= k + 1)
           Bad == {k \in 0 .. g.n : ~Full(k)}
<1>1. ReachIn(g, b, W) = R[g.n] /\ g.n \in 0 .. g.n
  BY RoundsDef
<1>2. R = [k \in 0 .. g.n |-> IF k = 0 THEN {b} ELSE Grown(g, W, R[k - 1])]
  BY RoundsDef
<1> HIDE DEF R
<1>3. IsFiniteSet(Blocks(g)) /\ Cardinality(Blocks(g)) = g.n
  BY FiniteBlocks
<1>4. ASSUME Bad # {} PROVE FALSE
  <2>1. PICK m \in Bad : \A j \in Bad : m <= j
    <3>1. Bad \subseteq Nat
      OBVIOUS
    <3> HIDE DEF Bad
    <3>2. QED
      BY <1>4, <3>1, LeastNat
  <2>2. CASE m = 0
    <3>1. R[m] = {b}
      BY <1>2, <2>1, <2>2
    <3>2. Cardinality(R[m]) = 1
      BY <3>1, FS_Singleton
    <3>3. QED
      BY <2>1, <2>2, <3>1, <3>2
  <2>3. CASE m # 0
    <3>1. m - 1 \in 0 .. g.n /\ ~(m <= m - 1) /\ m \in Nat
      BY <2>1, <2>3
    <3>2. Full(m - 1)
      BY <2>1, <3>1
    <3>3. R[m] = Grown(g, W, R[m - 1])
      BY <1>2, <2>1, <2>3
    <3>4. R[m - 1] \subseteq R[m] /\ R[m] \subseteq Blocks(g) /\ b \in R[m]
      BY <3>2, <3>3 DEF Grown
    <3>5. CASE Grown(g, W, R[m - 1]) = R[m - 1]
      BY <2>1, <3>3, <3>4, <3>5
    <3>6. CASE Grown(g, W, R[m - 1]) # R[m - 1]
      <4>1. IsFiniteSet(R[m])
        BY <1>3, <3>4, FS_Subset
      <4>2. /\ Cardinality(R[m - 1]) <= Cardinality(R[m])
            /\ Cardinality(R[m - 1]) # Cardinality(R[m])
        BY <3>3, <3>4, <3>6, <4>1, FS_Subset
      <4>3. Cardinality(R[m - 1]) \in Nat /\ Cardinality(R[m]) \in Nat
        BY <3>4, <4>1, FS_Subset, FS_CardinalityType
      <4>4. Cardinality(R[m - 1]) >= m
        BY <3>1, <3>2, <3>6
      <4>5. Cardinality(R[m]) >= m + 1
        BY <3>1, <4>2, <4>3, <4>4
      <4>6. QED
        BY <2>1, <3>4, <4>5
    <3>7. QED
      BY <3>5, <3>6
  <2>4. QED
    BY <2>2, <2>3
<1>5. Full(g.n)
  BY <1>1, <1>4
<1>6. Grown(g, W, R[g.n]) = R[g.n]
  <2>1. IsFiniteSet(R[g.n]) /\ Cardinality(R[g.n]) <= g.n
    BY <1>3, <1>5, FS_Subset
  <2>2. Cardinality(R[g.n]) \in Nat
    BY <2>1, FS_CardinalityType
  <2>3. QED
    BY <1>5, <2>1, <2>2
<1>7. QED
  BY <1>1, <1>5, <1>6 DEF Grown

-----------------------------------------------------------------------------
(***************************************************************************)
(* FillPreds: Pred lists the sources of the edges, and nothing else.       *)
(***************************************************************************)
Upto(g, c) ==
  LET upto[k \in 0 .. g.n] ==
        IF k = 0 THEN <<>> ELSE upto[k - 1] \o Listed(g, k - 1, c)
  IN  upto

LEMMA ElemsConcat ==
  ASSUME NEW V, NEW s \in Seq(V), NEW t \in Seq(V)
  PROVE  s \o t \in Seq(V) /\ Elems(s \o t) = Elems(s) \cup Elems(t)
<1>1. s \o t \in Seq(V) /\ Len(s \o t) = Len(s) + Len(t)
  OBVIOUS
<1>2. Elems(s \o t) \subseteq Elems(s) \cup Elems(t)
  <2> SUFFICES ASSUME NEW i \in DOMAIN (s \o t)
               PROVE  (s \o t)[i] \in Elems(s) \cup Elems(t)
    BY DEF Elems
  <2>1. CASE i <= Len(s)
    BY <1>1, <2>1 DEF Elems
  <2>2. CASE ~(i <= Len(s))
    <3>1. i - Len(s) \in DOMAIN t /\ (s \o t)[i] = t[i - Len(s)]
      BY <1>1, <2>2
    <3>2. QED
      BY <3>1 DEF Elems
  <2>3. QED
    BY <2>1, <2>2
<1>3. Elems(s) \subseteq Elems(s \o t)
  <2> SUFFICES ASSUME NEW i \in DOMAIN s PROVE s[i] \in Elems(s \o t)
    BY DEF Elems
  <2>1. i \in DOMAIN (s \o t) /\ (s \o t)[i] = s[i]
    BY <1>1
  <2>2. QED
    BY <2>1 DEF Elems
<1>4. Elems(t) \subseteq Elems(s \o t)
  <2> SUFFICES ASSUME NEW i \in DOMAIN t PROVE t[i] \in Elems(s \o t)
    BY DEF Elems
  <2>1. Len(s) + i \in DOMAIN (s \o t) /\ (s \o t)[Len(s) + i] = t[i]
    BY <1>1
  <2>2. QED
    BY <2>1 DEF Elems
<1>5. QED
  BY <1>1, <1>2, <1>3, <1>4

LEMMA ListedElems ==
  ASSUME NEW g, NEW p \in Blocks(g), NEW c
  PROVE  /\ Listed(g, p, c) \in Seq(Blocks(g))
         /\ Elems(Listed(g, p, c)) = {q \in {p} : g.s1[q] = c \/ g.s2[q] = c}
<1> DEFINE once(is) == IF is THEN <<p>> ELSE <<>>
<1>1. ASSUME NEW is \in BOOLEAN
      PROVE  once(is) \in Seq(Blocks(g)) /\ Elems(once(is)) = {q \in {p} : is}
  BY DEF Elems
<1>2. Listed(g, p, c) = once(g.s1[p] = c) \o once(g.s2[p] = c)
  BY DEF Listed
<1> HIDE DEF once
<1>3. /\ once(g.s1[p] = c) \in Seq(Blocks(g))
      /\ Elems(once(g.s1[p] = c)) = {q \in {p} : g.s1[p] = c}
  BY <1>1
<1>4. /\ once(g.s2[p] = c) \in Seq(Blocks(g))
      /\ Elems(once(g.s2[p] = c)) = {q \in {p} : g.s2[p] = c}
  BY <1>1
<1>5. QED
  BY <1>2, <1>3, <1>4, ElemsConcat

LEMMA PredsRound ==
  ASSUME NEW g, g.n \in Nat, NEW c
  PROVE  /\ PredsOf(g, c) = Upto(g, c)[g.n]
         /\ Upto(g, c) = [k \in 0 .. g.n |->
                            IF k = 0 THEN <<>> ELSE Upto(g, c)[k - 1] \o Listed(g, k - 1, c)]
<1> DEFINE V == Seq(Blocks(g))
           F == [k \in 1 .. g.n |-> [s \in V |-> s \o Listed(g, k - 1, c)]]
           n == g.n
           v == <<>>
<1>1. PredsOf(g, c) = Upto(g, c)[g.n]
  BY DEF PredsOf, Upto
<1>2. F \in [1 .. n -> [V -> V]] /\ v \in V /\ n \in Nat
  <2>1. ASSUME NEW k \in 1 .. n, NEW s \in V
        PROVE  s \o Listed(g, k - 1, c) \in V
    <3>1. k - 1 \in Blocks(g)
      BY DEF Blocks
    <3>2. QED
      BY <3>1, ListedElems, ElemsConcat
  <2>2. QED
    BY <2>1
<1>3. PICK h : Follows(h, n, V, v, F)
  <2> HIDE DEF V, F, n, v
  <2>1. QED
    BY <1>2, Recursion
<1>4. h = [k \in 0 .. n |-> IF k = 0 THEN <<>> ELSE h[k - 1] \o Listed(g, k - 1, c)]
  <2>1. ASSUME NEW k \in 1 .. n
        PROVE  h[k] = h[k - 1] \o Listed(g, k - 1, c)
    <3>1. h[k - 1] \in V
      BY <1>3 DEF Follows
    <3>2. QED
      BY <1>3, <3>1 DEF Follows
  <2>2. QED
    <3>1. h \in [0 .. n -> V] /\ h[0] = <<>>
      BY <1>3 DEF Follows
    <3> DEFINE step(k) == h[k - 1] \o Listed(g, k - 1, c)
    <3>2. \A k \in 1 .. n : h[k] = step(k)
      BY <2>1
    <3>3. \A k \in 0 .. n : k # 0 => k \in 1 .. n
      BY <1>2
    <3> HIDE DEF step, V, n, F, v
    <3>4. h = [k \in 0 .. n |-> IF k = 0 THEN <<>> ELSE step(k)]
      BY <3>1, <3>2, <3>3
    <3>5. QED
      BY <3>4 DEF step
<1>5. QED
  BY <1>1, <1>4 DEF Upto

(***************************************************************************)
(* PredsMean: what FillPreds writes (cfg.go:77) are the sources of the     *)
(* edges into the block.                                                   *)
(***************************************************************************)
LEMMA PredsMean ==
  ASSUME NEW g, g.n \in Nat \ {0}, NEW c \in Blocks(g)
  PROVE  /\ PredsOf(g, c) \in Seq(Blocks(g))
         /\ Elems(PredsOf(g, c)) = {p \in Blocks(g) : c \in Succs(g, p)}
<1> DEFINE R == Upto(g, c)
           To(p) == g.s1[p] = c \/ g.s2[p] = c
           Right(k) == R[k] \in Seq(Blocks(g)) /\ Elems(R[k]) = {p \in 0 .. k - 1 : To(p)}
           Bad == {k \in 0 .. g.n : ~Right(k)}
<1>0. g.n \in Nat /\ g.n \in 0 .. g.n
  OBVIOUS
<1> HIDE DEF R, To
<1>1. PredsOf(g, c) = R[g.n]
  BY <1>0, PredsRound DEF R
<1>2. R = [k \in 0 .. g.n |-> IF k = 0 THEN <<>> ELSE R[k - 1] \o Listed(g, k - 1, c)]
  BY <1>0, PredsRound DEF R
<1>3. ASSUME Bad # {} PROVE FALSE
  <2>1. PICK m \in Bad : \A j \in Bad : m <= j
    <3>1. Bad \subseteq Nat
      OBVIOUS
    <3> HIDE DEF Bad
    <3>2. QED
      BY <1>3, <3>1, LeastNat
  <2>2. CASE m = 0
    <3>1. R[m] = <<>>
      BY <1>2, <2>1, <2>2
    <3>2. Elems(<<>>) = {} /\ <<>> \in Seq(Blocks(g)) /\ 0 .. 0 - 1 = {}
      BY DEF Elems
    <3>3. QED
      BY <2>1, <2>2, <3>1, <3>2
  <2>3. CASE m # 0
    <3>1. m - 1 \in 0 .. g.n /\ ~(m <= m - 1) /\ m \in Nat /\ m - 1 \in Blocks(g)
      BY <2>1, <2>3 DEF Blocks
    <3>2. Right(m - 1)
      BY <2>1, <3>1
    <3>3. R[m] = R[m - 1] \o Listed(g, m - 1, c)
      BY <1>2, <2>1, <2>3
    <3>4. /\ Listed(g, m - 1, c) \in Seq(Blocks(g))
          /\ Elems(Listed(g, m - 1, c)) = {q \in {m - 1} : To(q)}
      BY <3>1, ListedElems DEF To
    <3>5. R[m] \in Seq(Blocks(g)) /\ Elems(R[m]) = Elems(R[m - 1]) \cup {q \in {m - 1} : To(q)}
      BY <3>2, <3>3, <3>4, ElemsConcat
    <3>6. Elems(R[m]) = {p \in 0 .. m - 1 : To(p)}
      BY <3>1, <3>2, <3>5
    <3>7. QED
      BY <2>1, <3>5, <3>6
  <2>4. QED
    BY <2>2, <2>3
<1>4. Right(g.n)
  BY <1>0, <1>3
<1>5. \A p : To(p) <=> c \in Succs(g, p)
  BY DEF To, Succs, Blocks, Nil
<1>6. QED
  BY <1>1, <1>4, <1>5 DEF Blocks

-----------------------------------------------------------------------------
(***************************************************************************)
(* Dominance of a graph g by its definition, and what FillDom and FillFron *)
(* leave of it: the immediate dominators I, the lists of children D and L, *)
(* the frontiers F, and what IsSdom finds by climbing.                     *)
(***************************************************************************)
Dominates(g, a, b) == a = 0 \/ a = b \/ b \notin ReachIn(g, 0, Blocks(g) \ {a})

SDom(g, a, b) == a # b /\ Dominates(g, a, b)

ClimbsTo(g, I, a, s) ==
  LET up[c \in Blocks(g) \cup {Nil}] == IF c = Nil \/ c <= a THEN c ELSE up[I[c]]
  IN  a # s /\ up[s] = a

LastBelow(I, d, m, v) ==          \* v: the last block before m whose Idom is d
  \/ v = Nil /\ \A c \in 0 .. m - 1 : I[c] # d
  \/ v \in 0 .. m - 1 /\ I[v] = d /\ \A c \in v + 1 .. m - 1 : I[c] # d

OrderOf(g) ==                     \* dominance is an order, and follows the numbers
  /\ \A a, b \in Blocks(g) : Dominates(g, a, b) => a <= b
  /\ \A a, b, c \in Blocks(g) : Dominates(g, a, b) /\ Dominates(g, b, c) => Dominates(g, a, c)

TreeOf(g, I) ==
  /\ I \in [Blocks(g) -> Blocks(g) \cup {Nil}] /\ I[0] = Nil
  /\ \A b \in Blocks(g) \ {0} : I[b] \in Blocks(g) /\ I[b] < b /\ Dominates(g, I[b], b)
  /\ \A a, b \in Blocks(g) : SDom(g, a, b) => b # 0 /\ Dominates(g, a, I[b])

ListsOf(g, I, D, L) ==
  /\ \A d \in Blocks(g) : LastBelow(I, d, g.n, D[d])
  /\ \A b \in Blocks(g) \ {0} : LastBelow(I, I[b], b, L[b])

InFrontier(g, b, s) ==
  (\E p \in Blocks(g) : s \in Succs(g, p) /\ Dominates(g, b, p)) /\ ~SDom(g, b, s)

FrontiersOf(g, F) ==
  /\ F \in [Blocks(g) -> Seq(Blocks(g))]
  /\ \A b \in Blocks(g) : Elems(F[b]) = {s \in Blocks(g) : InFrontier(g, b, s)}
  /\ \A b \in Blocks(g) : \A i, j \in DOMAIN F[b] : F[b][i] = F[b][j] => i = j

DomFacts(g, I, D, L, F) ==
  /\ OrderOf(g) /\ TreeOf(g, I) /\ ListsOf(g, I, D, L) /\ FrontiersOf(g, F)
  /\ \A a, s \in Blocks(g) : ClimbsTo(g, I, a, s) <=> SDom(g, a, s)

(***************************************************************************)
(* Phis suffice.  Lv are the blocks a temporary is live on entry to, Kl    *)
(* those that write it, Ph those that have a phi of it.                    *)
(***************************************************************************)
Flows(g, Lv, Kl) ==
  \A p, s \in Blocks(g) : s \in Succs(g, p) /\ s \in Lv => p \in Lv \cup Kl

PhisClosed(g, F, Lv, Ph, Kl) ==
  \A b \in Ph \cup Kl : \A s \in Elems(F[b]) : s \in Lv => s \in Ph

\* What dominates a block dominates its predecessors, or is the block.
LEMMA DominatesPred ==
  ASSUME NEW g, g.n \in Nat \ {0}, NEW a \in Blocks(g), NEW p \in Blocks(g), NEW c \in Blocks(g),
         c \in Succs(g, p), SDom(g, a, c)
  PROVE  Dominates(g, a, p)
<1> SUFFICES ASSUME a # 0, a # p, p \in ReachIn(g, 0, Blocks(g) \ {a})
             PROVE  FALSE
  BY DEF Dominates
<1>1. 0 \in Blocks(g) /\ Blocks(g) \ {a} \in SUBSET Blocks(g)
  BY DEF Blocks
<1> DEFINE R == ReachIn(g, 0, Blocks(g) \ {a})
<1>2. Succs(g, p) \cap (Blocks(g) \ {a}) \subseteq R
  BY <1>1, ReachClosed
<1>3. c \in R
  BY <1>2 DEF SDom
<1>4. QED
  BY <1>3 DEF SDom, Dominates

\* Where a temporary is live without a phi, it was live, or written, at the Idom.
LEMMA LiveFromAbove ==
  ASSUME NEW g, NEW I, NEW F, NEW Lv, NEW Ph, NEW Kl,
         g.n \in Nat \ {0}, InOrder(g), PredsRight(g),
         \A x \in Blocks(g) : g.pred[x] \in Seq(Blocks(g)),
         OrderOf(g), TreeOf(g, I), FrontiersOf(g, F),
         Flows(g, Lv, Kl), PhisClosed(g, F, Lv, Ph, Kl),
         NEW b \in Blocks(g), b # 0, b \in Lv, b \notin Ph
  PROVE  I[b] \in Lv \cup Kl
<1> DEFINE a == I[b]
           U == {c \in Blocks(g) : SDom(g, a, c) /\ c \in Lv /\ c \notin Ph}
           Q == {c \in U : b \in ReachIn(g, c, U)}
<1>1. a \in Blocks(g) /\ a < b /\ Dominates(g, a, b) /\ Blocks(g) \in SUBSET Nat
  BY DEF TreeOf, Blocks
<1>2. U \in SUBSET Blocks(g) /\ Q \in SUBSET Blocks(g)
  OBVIOUS
<1>3. b \in Q
  <2>1. b \in U
    BY <1>1 DEF SDom
  <2>2. b \in ReachIn(g, b, U)
    BY <1>2, ReachClosed
  <2>3. QED
    BY <2>1, <2>2
<1>4. PICK m \in Q : \A c \in Q : m <= c
  <2>1. Q \in SUBSET Nat /\ Q # {}
    BY <1>1, <1>2, <1>3
  <2> HIDE DEF Q
  <2>2. QED
    BY <2>1, LeastNat
<1>5. m \in Blocks(g) /\ m \in Lv /\ m \notin Ph /\ SDom(g, a, m) /\ b \in ReachIn(g, m, U)
  BY <1>4
<1>6. m # 0
  BY <1>1, <1>5 DEF OrderOf, SDom, Blocks
<1>7. PICK j \in DOMAIN g.pred[m] : g.pred[m][j] < m
  BY <1>5, <1>6 DEF InOrder
<1> DEFINE p == g.pred[m][j]
<1>8. p \in Blocks(g) /\ m \in Succs(g, p)
  <2>1. p \in Elems(g.pred[m])
    BY <1>7 DEF Elems
  <2>2. QED
    BY <1>5, <2>1 DEF PredsRight
<1>9. p \notin Q
  BY <1>1, <1>4, <1>7, <1>8
<1> HIDE DEF p
<1>10. p \in Lv \cup Kl
  BY <1>5, <1>8 DEF Flows
<1>11. CASE p = a
  BY <1>10, <1>11
<1>12. CASE p # a
  <2>1. SDom(g, a, p)
    BY <1>1, <1>5, <1>8, <1>12, DominatesPred DEF SDom
  <2>2. CASE p \notin Kl \cup Ph
    <3>1. p \in U
      BY <1>8, <1>10, <2>1, <2>2
    <3>2. m \in U
      BY <1>4
    <3>3. Succs(g, p) \cap U \subseteq ReachIn(g, p, U) /\ p \in ReachIn(g, p, U)
      BY <1>2, <1>8, ReachClosed
    <3>4. m \in ReachIn(g, p, U)
      BY <1>8, <3>2, <3>3
    <3>5. \A c \in ReachIn(g, p, U) : Succs(g, c) \cap U \subseteq ReachIn(g, p, U)
      BY <1>2, <1>8, ReachClosed
    <3>6. ReachIn(g, m, U) \subseteq ReachIn(g, p, U)
      <4> DEFINE R == ReachIn(g, p, U)
      <4>1. m \in R /\ \A c \in R : Succs(g, c) \cap U \subseteq R
        BY <3>4, <3>5
      <4> HIDE DEF R, U
      <4>2. ReachIn(g, m, U) \subseteq R
        BY <4>1, ReachLeast
      <4>3. QED
        BY <4>2 DEF R
    <3>7. b \in ReachIn(g, p, U)
      BY <1>5, <3>6
    <3>8. QED
      BY <1>9, <3>1, <3>7
  <2>3. CASE p \in Kl \cup Ph
    <3> DEFINE S == {x \in Blocks(g) : SDom(g, p, x)}
    <3>1. ~SDom(g, p, b)
      <4>1. SDom(g, p, b) => Dominates(g, p, a)
        BY <1>8 DEF TreeOf
      <4>2. Dominates(g, p, a) => p <= a
        BY <1>1, <1>8 DEF OrderOf
      <4>3. a <= p
        BY <1>1, <1>8, <2>1 DEF OrderOf, SDom
      <4>4. QED
        BY <1>1, <1>8, <1>12, <4>1, <4>2, <4>3 DEF Blocks
    <3>2. ASSUME NEW x \in Blocks(g), NEW y \in U, y \in Succs(g, x), Dominates(g, p, x)
          PROVE  SDom(g, p, y)
      <4>1. y \in Blocks(g) /\ y \in Lv /\ y \notin Ph
        OBVIOUS
      <4>2. CASE ~SDom(g, p, y)
        <5>1. InFrontier(g, p, y)
          BY <3>2, <4>2 DEF InFrontier
        <5>2. y \in Elems(F[p])
          BY <1>8, <4>1, <5>1 DEF FrontiersOf
        <5>3. y \in Ph
          BY <2>3, <4>1, <5>2 DEF PhisClosed
        <5>4. QED
          BY <4>1, <5>3
      <4>3. QED
        BY <4>2
    <3>3. m \in S
      <4>1. m \in U /\ Dominates(g, p, p)
        BY <1>4 DEF Dominates
      <4>2. QED
        BY <1>5, <1>8, <3>2, <4>1
    <3>4. \A c \in S : Succs(g, c) \cap U \subseteq S
      <4> SUFFICES ASSUME NEW c \in S, NEW y \in U, y \in Succs(g, c)
                   PROVE  SDom(g, p, y)
        BY <1>2
      <4>1. c \in Blocks(g) /\ Dominates(g, p, c)
        BY DEF SDom
      <4>2. QED
        BY <3>2, <4>1
    <3> HIDE DEF S
    <3>5. ReachIn(g, m, U) \subseteq S
      BY <3>3, <3>4, ReachLeast
    <3>6. b \in S
      BY <1>5, <3>5
    <3>7. QED
      BY <3>1, <3>6 DEF S
  <2>4. QED
    BY <2>2, <2>3
<1>13. QED
  BY <1>11, <1>12

(***************************************************************************)
(* If nothing is live on entry to the function, what is live on entry to a *)
(* block has a phi there, or a phi or a write in a block above it.         *)
(***************************************************************************)
LEMMA LiveDefined ==
  ASSUME NEW g, NEW I, NEW F, NEW Lv, NEW Ph, NEW Kl,
         g.n \in Nat \ {0}, InOrder(g), PredsRight(g),
         \A x \in Blocks(g) : g.pred[x] \in Seq(Blocks(g)),
         OrderOf(g), TreeOf(g, I), FrontiersOf(g, F),
         Flows(g, Lv, Kl), PhisClosed(g, F, Lv, Ph, Kl), 0 \notin Lv,
         NEW b \in Blocks(g), b \in Lv, b \notin Ph
  PROVE  \E d \in Blocks(g) : d \in Ph \cup Kl /\ SDom(g, d, b)
<1> DEFINE Above(c) == \E d \in Blocks(g) : d \in Ph \cup Kl /\ SDom(g, d, c)
           Bad == {c \in Blocks(g) : c \in Lv /\ c \notin Ph /\ ~Above(c)}
<1> SUFFICES ASSUME Bad # {} PROVE FALSE
  OBVIOUS
<1>1. Blocks(g) \in SUBSET Nat
  BY DEF Blocks
<1> HIDE DEF Above
<1>2. PICK m \in Bad : \A c \in Bad : m <= c
  <2>1. Bad \in SUBSET Nat
    BY <1>1
  <2> HIDE DEF Bad
  <2>2. QED
    BY <2>1, LeastNat
<1>3. m \in Blocks(g) /\ m \in Lv /\ m \notin Ph /\ ~Above(m) /\ m # 0
  BY <1>2
<1> DEFINE a == I[m]
<1>4. a \in Blocks(g) /\ a < m /\ Dominates(g, a, m)
  BY <1>3 DEF TreeOf
<1>5. a \in Lv \cup Kl
  BY <1>3, LiveFromAbove
<1>6. SDom(g, a, m)
  BY <1>1, <1>4 DEF SDom
<1> HIDE DEF a
<1>7. a \notin Ph \cup Kl
  BY <1>3, <1>4, <1>6 DEF Above
<1>8. a \notin Bad
  BY <1>1, <1>2, <1>3, <1>4
<1>9. Above(a)
  BY <1>4, <1>5, <1>7, <1>8
<1>10. PICK d \in Blocks(g) : d \in Ph \cup Kl /\ SDom(g, d, a)
  BY <1>9 DEF Above
<1>11. SDom(g, d, m)
  <2>1. Dominates(g, d, m) /\ d <= a
    BY <1>3, <1>4, <1>10 DEF OrderOf, SDom
  <2>2. QED
    BY <1>1, <1>3, <1>4, <2>1 DEF SDom
<1>12. QED
  BY <1>3, <1>10, <1>11 DEF Above
-----------------------------------------------------------------------------
\* Finite unions, lists, and the greatest of some numbers.
LEMMA FiniteUnion ==
  ASSUME NEW S, IsFiniteSet(S), NEW F, \A x \in S : IsFiniteSet(F[x])
  PROVE  IsFiniteSet(UNION {F[x] : x \in S})
<1> DEFINE T == {F[x] : x \in S}
           m == [x \in S |-> F[x]]
<1>1. m \in Surjection(S, T)
  BY DEF Surjection
<1>2. \A e \in T : IsFiniteSet(e)
  OBVIOUS
<1> HIDE DEF T, m
<1>3. IsFiniteSet(T)
  BY <1>1, FS_Surjection
<1>4. IsFiniteSet(UNION T)
  BY <1>2, <1>3, FS_UNION
<1>5. QED
  BY <1>4 DEF T

LEMMA NoLarger ==
  ASSUME NEW S, NEW T, IsFiniteSet(T), NEW h \in [S -> T],
         \A a, b \in S : h[a] = h[b] => a = b
  PROVE  IsFiniteSet(S) /\ Cardinality(S) <= Cardinality(T)
<1>1. h \in Injection(S, T)
  BY DEF Injection, IsInjective
<1>2. QED
  BY <1>1, FS_Injection

LEMMA ListFinite ==
  ASSUME NEW V, NEW s \in Seq(V)
  PROVE  IsFiniteSet(DOMAIN s)
<1>1. DOMAIN s = 1 .. Len(s) /\ Len(s) \in Int /\ 1 \in Int
  OBVIOUS
<1>2. QED
  BY <1>1, FS_Interval

LEMMA MaxNat ==
  ASSUME NEW n \in Nat, NEW S \in SUBSET (0 .. n), S # {}
  PROVE  \E m \in S : \A j \in S : j <= m
<1> DEFINE R == {n - j : j \in S}
<1>1. R \in SUBSET Nat /\ R # {}
  <2>1. \A j \in S : n - j \in Nat
    OBVIOUS
  <2>2. QED
    BY <2>1
<1>2. PICK r \in R : \A q \in R : r <= q
  <2> HIDE DEF R
  <2>1. QED
    BY <1>1, LeastNat
<1>3. PICK m \in S : r = n - m
  OBVIOUS
<1>4. \A j \in S : n - m <= n - j
  BY <1>2, <1>3
<1>5. QED
  BY <1>4
=============================================================================
