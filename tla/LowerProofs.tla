----------------------------- MODULE LowerProofs -----------------------------
(***************************************************************************)
(* What PhiElim (src/opt/phi_elim.go) hands to Spill and Allocate, for     *)
(* every function and every order of the edge maps (Ready).  A copy list   *)
(* is kept for an edge that is still there (EdgesInv): a split takes one   *)
(* pointer of a block, so it disturbs no other edge, and what Start leads  *)
(* to is led to through the new block.  When the edges are done every      *)
(* block is still reached, so numbering drops none, and the Pred lists     *)
(* FillPreds has just made stay right when FillRPO renumbers them; that    *)
(* FillRPO orders the blocks is what FillRPOProofs shows of it.  Liveness  *)
(* starts from empty sets, and ends with a sweep that has changed nothing. *)
(***************************************************************************)
EXTENDS Lower, GraphProofs

Numbers == INSTANCE FillRPOProofs WITH pc <- rpc

\* All that paths from Start lead to is all of the function.
Reached(g) ==
  \A S \in SUBSET Blocks(g) :
    0 \in S /\ (\A b \in S : Succs(g, b) \subseteq S) => S = Blocks(g)

Graph(g) ==
  /\ Fields \subseteq DOMAIN g
  /\ g.n \in Nat \ {0}
  /\ g.s1 \in [Blocks(g) -> Blocks(g) \cup {Nil}]
  /\ g.s2 \in [Blocks(g) -> Blocks(g) \cup {Nil}]

Edges(g) == {e \in Blocks(g) \X Blocks(g) : e[2] \in Succs(g, e[1])}

NoPhis(g) == g.phis = [b \in Blocks(g) |-> <<>>]

Waiting == IsFiniteSet(DOMAIN edgeCopies) /\ f.n + Cardinality(DOMAIN edgeCopies) + 1 < Word

\* While the copies are placed.
EdgesInv ==
  /\ Graph(f) /\ Reached(f) /\ NoPhis(f)
  /\ DOMAIN edgeCopies \subseteq Edges(f) /\ Waiting

\* While the blocks are numbered: FillPreds has yet to run, or the walk is as
\* FillRPOProofs describes it and no Pred list names a block that goes.
NumberInv ==
  /\ NoPhis(f)
  /\ rpc = "preds" =>
       /\ Graph(f) /\ Reached(f) /\ f.n + 1 < Word
       /\ id \in [Blocks(f) -> 0 .. Word - 1]
  /\ rpc # "preds" =>
       /\ Numbers!IInv /\ Numbers!BInv
       /\ Numbers!PredLists(f) /\ PredsRight(f)
       /\ rpc # "done" => Reached(f)

\* Once they are numbered.
Numbered ==
  /\ Graph(f) /\ NoPhis(f) /\ PredsRight(f)
  /\ \A p \in Blocks(f) : \A b \in Succs(f, p) :
       p >= b => p \in ReachIn(f, b, b .. f.n - 1)

-----------------------------------------------------------------------------
(***************************************************************************)
(* The operators of the instances are the ones named here.                 *)
(***************************************************************************)
LEMMA SameOperators ==
  /\ Numbers!Nil = Nil /\ Numbers!Fields = Fields
  /\ \A g : Numbers!Blocks(g) = Blocks(g)
  /\ \A g, b : Numbers!Succs(g, b) = Succs(g, b)
  /\ \A s : Numbers!Elems(s) = Elems(s)
  /\ \A g, b, W : Numbers!ReachIn(g, b, W) = ReachIn(g, b, W)
  /\ \A g : Numbers!PredsRight(g) <=> PredsRight(g)
<1>1. Numbers!Nil = Nil /\ Numbers!Fields = Fields
  BY DEF Numbers!Nil, Nil, Numbers!Fields, Fields
<1>2. \A g : Numbers!Blocks(g) = Blocks(g)
  BY DEF Numbers!Blocks, Blocks
<1>3. \A g, b : Numbers!Succs(g, b) = Succs(g, b)
  BY <1>1 DEF Numbers!Succs, Succs
<1>4. \A s : Numbers!Elems(s) = Elems(s)
  BY DEF Numbers!Elems, Elems
<1>5. \A g, b, W : Numbers!ReachIn(g, b, W) = ReachIn(g, b, W)
  BY DEF Numbers!ReachIn, ReachIn, Numbers!Succs, Succs, Numbers!Nil, Nil
<1>6. \A g : Numbers!PredsRight(g) <=> PredsRight(g)
  BY <1>2, <1>3, <1>4 DEF Numbers!PredsRight, PredsRight
<1>7. QED
  BY <1>1, <1>2, <1>3, <1>4, <1>5, <1>6

LEMMA SamePhis ==
  /\ Phis!Nil = Nil
  /\ \A g : Phis!Blocks(g) = Blocks(g)
  /\ \A g, b : Phis!Succs(g, b) = Succs(g, b)
  /\ \A s : Phis!Elems(s) = Elems(s)
<1>1. Phis!Nil = Nil
  BY DEF Phis!Nil, Nil
<1>2. QED
  BY <1>1 DEF Phis!Blocks, Blocks, Phis!Succs, Succs, Phis!Elems, Elems

\* The steps PhiElim takes of FillRPO are those FillRPOProofs speaks of.
LEMMA SameStep ==
  ASSUME Phis!Order!Next
  PROVE  Numbers!Next
<1>1. ASSUME Phis!Order!StartWalk PROVE Numbers!StartWalk
  BY <1>1 DEF Phis!Order!StartWalk, Numbers!StartWalk, Phis!Order!Frame, Numbers!Frame,
     Phis!Order!Visits, Numbers!Visits, Phis!Order!Mark, Numbers!Mark,
     Phis!Order!Unset, Numbers!Unset, Phis!Order!Blocks, Numbers!Blocks,
     Phis!Order!Nil, Numbers!Nil
<1>2. ASSUME Phis!Order!Descend PROVE Numbers!Descend
  BY <1>2 DEF Phis!Order!Descend, Numbers!Descend, Phis!Order!Frame, Numbers!Frame,
     Phis!Order!Visits, Numbers!Visits, Phis!Order!Mark, Numbers!Mark,
     Phis!Order!Unset, Numbers!Unset, Phis!Order!Top, Numbers!Top,
     Phis!Order!Below, Numbers!Below, Phis!Order!New, Numbers!New, Phis!Order!Nil, Numbers!Nil
<1>3. ASSUME Phis!Order!Skip PROVE Numbers!Skip
  BY <1>3 DEF Phis!Order!Skip, Numbers!Skip, Phis!Order!Unset, Numbers!Unset,
     Phis!Order!Top, Numbers!Top, Phis!Order!Below, Numbers!Below,
     Phis!Order!New, Numbers!New, Phis!Order!Nil, Numbers!Nil
<1>4. ASSUME Phis!Order!Leave PROVE Numbers!Leave
  BY <1>4 DEF Phis!Order!Leave, Numbers!Leave, Phis!Order!Dec, Numbers!Dec,
     Phis!Order!Top, Numbers!Top, Phis!Order!Below, Numbers!Below
<1>5. ASSUME Phis!Order!Compact PROVE Numbers!Compact
  BY <1>5 DEF Phis!Order!Compact, Numbers!Compact, Phis!Order!Sorted, Numbers!Sorted,
     Phis!Order!Number, Numbers!Number, Phis!Order!NUnreachable, Numbers!NUnreachable,
     Phis!Order!Unset, Numbers!Unset, Phis!Order!Blocks, Numbers!Blocks,
     Phis!Order!Nil, Numbers!Nil
<1>6. ASSUME Phis!Order!Preds PROVE Numbers!Preds
  BY <1>6 DEF Phis!Order!Preds, Numbers!Preds, Phis!Order!FillPreds, Numbers!FillPreds,
     Phis!Order!PredsOf, Numbers!PredsOf, Phis!Order!Listed, Numbers!Listed,
     Phis!Order!Blocks, Numbers!Blocks, Phis!Order!Nil, Numbers!Nil
<1>7. QED
  BY <1>1, <1>2, <1>3, <1>4, <1>5, <1>6 DEF Phis!Order!Next, Numbers!Next

-----------------------------------------------------------------------------
(***************************************************************************)
(* Graphs.                                                                 *)
(***************************************************************************)
LEMMA GraphShape ==
  ASSUME NEW g, Graph(g)
  PROVE  /\ g.n \in Nat \ {0} /\ Blocks(g) = 0 .. g.n - 1 /\ 0 \in Blocks(g)
         /\ Nil \notin Blocks(g)
         /\ \A b \in Blocks(g) : Succs(g, b) \subseteq Blocks(g)
BY DEF Graph, Blocks, Succs, Nil

\* In a numbered function every block is reached.
LEMMA PreparedReached ==
  ASSUME NEW g, Prepared(g)
  PROVE  Reached(g)
<1>1. g.n \in Nat \ {0} /\ InOrder(g) /\ PredsRight(g)
  BY DEF Prepared, IsFunction
<1> SUFFICES ASSUME NEW S \in SUBSET Blocks(g), 0 \in S,
                    \A b \in S : Succs(g, b) \subseteq S
             PROVE  S = Blocks(g)
  BY DEF Reached
<1> DEFINE Bad == Blocks(g) \ S
<1>2. ASSUME Bad # {} PROVE FALSE
  <2>1. PICK m \in Bad : \A q \in Bad : m <= q
    <3>1. Bad \in SUBSET Nat
      BY DEF Blocks
    <3> HIDE DEF Bad
    <3>2. QED
      BY <1>2, <3>1, LeastNat
  <2>2. m \in Blocks(g) \ {0}
    BY <2>1
  <2>3. PICK k \in DOMAIN g.pred[m] : g.pred[m][k] < m
    BY <1>1, <2>2 DEF InOrder
  <2>4. g.pred[m][k] \in Blocks(g) /\ m \in Succs(g, g.pred[m][k])
    <3>1. g.pred[m][k] \in Elems(g.pred[m])
      BY DEF Elems
    <3>2. QED
      BY <1>1, <2>2, <3>1 DEF PredsRight
  <2>5. g.pred[m][k] \in S
    <3>1. ~(m <= g.pred[m][k])
      BY <2>2, <2>3, <2>4 DEF Blocks
    <3>2. QED
      BY <2>1, <2>4, <3>1
  <2>6. QED
    BY <2>1, <2>4, <2>5
<1>3. QED
  BY <1>2

\* A block has at most two edges.
LEMMA EdgesCount ==
  ASSUME NEW g, Graph(g)
  PROVE  IsFiniteSet(Edges(g)) /\ Cardinality(Edges(g)) <= 2 * g.n
<1> DEFINE E == Edges(g)
           B == Blocks(g)
           T == B \X {1, 2}
           h == [e \in E |-> <<e[1], IF g.s1[e[1]] = e[2] THEN 1 ELSE 2>>]
<1>1. IsFiniteSet(B) /\ Cardinality(B) = g.n /\ g.n \in Nat
  BY FiniteBlocks DEF Graph
<1>2. IsFiniteSet({1, 2}) /\ Cardinality({1, 2}) = 2
  <2>1. IsFiniteSet({}) /\ Cardinality({}) = 0
    BY FS_EmptySet
  <2>2. IsFiniteSet({} \cup {1}) /\ Cardinality({} \cup {1}) = 1
    BY <2>1, FS_AddElement
  <2>3. {} \cup {1} = {1} /\ 2 \notin {1} /\ {1} \cup {2} = {1, 2}
    OBVIOUS
  <2>4. IsFiniteSet({1} \cup {2}) /\ Cardinality({1} \cup {2}) = Cardinality({1}) + 1
    BY <2>2, <2>3, FS_AddElement
  <2>5. QED
    BY <2>2, <2>3, <2>4
<1>3. IsFiniteSet(T) /\ Cardinality(T) = g.n * 2
  BY <1>1, <1>2, FS_Product
<1>4. h \in [E -> T] /\ \A d, e \in E : h[d] = h[e] => d = e
  <2>1. \A e \in E : e = <<e[1], e[2]>> /\ e[1] \in B /\ e[2] \in {g.s1[e[1]], g.s2[e[1]]}
    BY DEF Edges, Succs
  <2> HIDE DEF E, B
  <2>2. h \in [E -> T]
    BY <2>1
  <2>3. ASSUME NEW d \in E, NEW e \in E, h[d] = h[e] PROVE d = e
    <3>1. d[1] = e[1] /\ (g.s1[d[1]] = d[2] <=> g.s1[e[1]] = e[2])
      BY <2>3
    <3>2. d[2] = e[2]
      BY <2>1, <3>1
    <3>3. QED
      BY <2>1, <3>1, <3>2
  <2>4. QED
    BY <2>2, <2>3
<1> HIDE DEF h, E, T, B
<1>5. IsFiniteSet(E) /\ Cardinality(E) <= Cardinality(T)
  BY <1>3, <1>4, NoLarger
<1>6. QED
  BY <1>1, <1>3, <1>5 DEF E

-----------------------------------------------------------------------------
(***************************************************************************)
(* The phis leave.                                                         *)
(***************************************************************************)
LEMMA CollectStep ==
  ASSUME f \in Functions, Phis!Collect
  PROVE  EdgesInv'
<1>1. /\ Prepared(f) /\ Fields \subseteq DOMAIN f /\ 3 * f.n + 1 < Word /\ Word \in Nat
      /\ \A b \in Blocks(f) : \A k \in DOMAIN f.phis[b] :
           Elems(f.phis[b][k].blks) \subseteq Elems(f.pred[b])
  BY FunctionsAssumption
<1>2. IsFunction(f) /\ PredsRight(f)
  BY <1>1 DEF Prepared
<1>3. /\ DOMAIN f' = DOMAIN f /\ f'.n = f.n /\ f'.s1 = f.s1 /\ f'.s2 = f.s2
      /\ f'.phis = [b \in Blocks(f) |-> <<>>]
  BY <1>1, SamePhis DEF Phis!Collect, Fields
<1>4. Graph(f) /\ Reached(f)
  BY <1>1, <1>2, PreparedReached DEF IsFunction, Graph
<1>5. Blocks(f') = Blocks(f) /\ \A b : Succs(f', b) = Succs(f, b)
  BY <1>3 DEF Blocks, Succs
<1>6. Graph(f') /\ Reached(f') /\ NoPhis(f')
  BY <1>3, <1>4, <1>5 DEF Graph, Reached, NoPhis
<1> DEFINE E == {d \in Blocks(f) \X Blocks(f) : Phis!CopiedOn(d[1], d[2])}
<1>7. DOMAIN edgeCopies' = E
  BY SamePhis DEF Phis!Collect
<1>8. E \subseteq Edges(f)
  <2> SUFFICES ASSUME NEW p \in Blocks(f), NEW s \in Blocks(f), Phis!CopiedOn(p, s)
               PROVE  s \in Succs(f, p)
    BY DEF Edges
  <2>1. PICK m \in DOMAIN f.phis[s] :
          \E k \in DOMAIN f.phis[s][m].args : f.phis[s][m].blks[k] = p
    BY SamePhis DEF Phis!CopiedOn, Elems
  <2>2. PICK k \in DOMAIN f.phis[s][m].args : f.phis[s][m].blks[k] = p
    BY <2>1
  <2>3. DOMAIN f.phis[s][m].args = DOMAIN f.phis[s][m].blks
    <3> DEFINE r == f.phis[s][m]
    <3>1. r \in Phi /\ Len(r.args) = Len(r.blks)
      BY <1>2 DEF IsFunction
    <3> HIDE DEF r
    <3>2. r.args \in Seq(Ref) /\ r.blks \in Seq(Nat)
      BY <3>1 DEF Phi
    <3>3. DOMAIN r.args = DOMAIN r.blks
      BY <3>1, <3>2
    <3>4. QED
      BY <3>3 DEF r
  <2>4. p \in Elems(f.phis[s][m].blks)
    BY <2>2, <2>3 DEF Elems
  <2>5. QED
    BY <1>1, <1>2, <2>4 DEF PredsRight
<1> HIDE DEF E
<1>9. Edges(f') = Edges(f)
  BY <1>5 DEF Edges
<1>10. IsFiniteSet(E) /\ Cardinality(E) \in Nat /\ Cardinality(E) <= 2 * f.n
  <2>1. IsFiniteSet(Edges(f)) /\ Cardinality(Edges(f)) <= 2 * f.n
    BY <1>4, EdgesCount
  <2>2. IsFiniteSet(E) /\ Cardinality(E) <= Cardinality(Edges(f))
    BY <1>8, <2>1, FS_Subset
  <2>3. Cardinality(E) \in Nat /\ Cardinality(Edges(f)) \in Nat
    BY <2>1, <2>2, FS_CardinalityType
  <2>4. QED
    BY <1>4, <2>1, <2>2, <2>3 DEF Graph
<1>11. Waiting'
  BY <1>1, <1>3, <1>4, <1>7, <1>10 DEF Waiting, Graph
<1>12. QED
  BY <1>6, <1>7, <1>8, <1>9, <1>11 DEF EdgesInv

(***************************************************************************)
(* An edge gets its copies: at the end of its block, or in a new block.    *)
(***************************************************************************)
IsAtEnd(g, p)    == \E c, m : g = [Phis!AtEnd(p, c) EXCEPT !.ntmp = m]
IsSplit(g, p, s) == \E c, m : g = [Phis!Split(p, s, c) EXCEPT !.ntmp = m]

LEMMA AtEndKeeps ==
  ASSUME NEW p, NEW g, Graph(f), IsAtEnd(g, p)
  PROVE  DOMAIN g = DOMAIN f /\ g.n = f.n /\ g.s1 = f.s1 /\ g.s2 = f.s2 /\ g.phis = f.phis
BY DEF IsAtEnd, Phis!AtEnd, Graph, Fields

LEMMA SplitFields ==
  ASSUME NEW p, NEW s, NEW g, Graph(f), IsSplit(g, p, s)
  PROVE  /\ DOMAIN g = DOMAIN f /\ g.n = f.n + 1
         /\ g.s1 = [b \in 0 .. f.n |-> IF b = f.n THEN s ELSE
                     (IF f.s1[p] = s THEN [f.s1 EXCEPT ![p] = f.n] ELSE f.s1)[b]]
         /\ g.s2 = [b \in 0 .. f.n |-> IF b = f.n THEN Phis!Nil ELSE
                     (IF ~(f.s1[p] = s) /\ f.s2[p] = s THEN [f.s2 EXCEPT ![p] = f.n]
                      ELSE f.s2)[b]]
         /\ g.phis = [b \in 0 .. f.n |-> IF b = f.n THEN <<>> ELSE f.phis[b]]
<1>1. Fields \subseteq DOMAIN f
  BY DEF Graph
<1>2. PICK c, m : g = [Phis!Split(p, s, c) EXCEPT !.ntmp = m]
  BY DEF IsSplit
<1>3. QED
  BY <1>1, <1>2, Zenon DEF Phis!Split, Fields
\* The new block has one edge, to s; p has one to it instead of one to s.
SplitFacts(g, p, s) ==
  /\ Graph(g) /\ g.n = f.n + 1 /\ Blocks(g) = Blocks(f) \cup {f.n}
  /\ g.phis = [b \in Blocks(g) |-> IF b = f.n THEN <<>> ELSE f.phis[b]]
  /\ f.n \notin Blocks(f) /\ Succs(g, f.n) = {s} /\ f.n \in Succs(g, p)
  /\ Succs(f, p) \ {s} \subseteq Succs(g, p)
  /\ \A b \in Blocks(f) \ {p} : Succs(g, b) = Succs(f, b)

LEMMA SplitEdges ==
  ASSUME Graph(f), NEW p \in Blocks(f), NEW s \in Succs(f, p), NEW g, IsSplit(g, p, s)
  PROVE  SplitFacts(g, p, s)
<1>1. PICK N, A, C : N = f.n /\ A = f.s1 /\ C = f.s2
  OBVIOUS
<1>2. /\ N \in Nat \ {0} /\ Blocks(f) = 0 .. N - 1 /\ Nil = -1
      /\ A \in [0 .. N - 1 -> 0 .. N - 1 \cup {Nil}] /\ C \in [0 .. N - 1 -> 0 .. N - 1 \cup {Nil}]
      /\ p \in 0 .. N - 1 /\ s \in 0 .. N - 1 /\ (A[p] = s \/ C[p] = s)
  BY <1>1 DEF Graph, Blocks, Succs, Nil
<1> DEFINE a == IF A[p] = s THEN [A EXCEPT ![p] = N] ELSE A
           d == IF ~(A[p] = s) /\ C[p] = s THEN [C EXCEPT ![p] = N] ELSE C
<1>3. /\ DOMAIN g = DOMAIN f /\ g.n = N + 1
      /\ g.s1 = [b \in 0 .. N |-> IF b = N THEN s ELSE a[b]]
      /\ g.s2 = [b \in 0 .. N |-> IF b = N THEN Nil ELSE d[b]]
      /\ g.phis = [b \in 0 .. N |-> IF b = N THEN <<>> ELSE f.phis[b]]
  <2>1. Phis!Nil = Nil
    BY SamePhis
  <2>2. QED
    BY <1>1, <2>1, SplitFields
<1>4. Blocks(g) = 0 .. N /\ 0 .. N = 0 .. N - 1 \cup {N} /\ N \notin 0 .. N - 1 /\ N # Nil
  BY <1>2, <1>3 DEF Blocks
<1>5. /\ \A b \in 0 .. N - 1 \ {p} : a[b] = A[b] /\ d[b] = C[b]
      /\ \/ A[p] = s /\ a[p] = N /\ d[p] = C[p]
         \/ A[p] # s /\ a[p] = A[p] /\ d[p] = N
      /\ a \in [0 .. N - 1 -> 0 .. N \cup {Nil}] /\ d \in [0 .. N - 1 -> 0 .. N \cup {Nil}]
  BY <1>2, <1>4
<1> HIDE DEF a, d
<1>6. /\ g.s1 \in [0 .. N -> 0 .. N \cup {Nil}] /\ g.s2 \in [0 .. N -> 0 .. N \cup {Nil}]
      /\ g.s1[N] = s /\ g.s2[N] = Nil
      /\ \A b \in 0 .. N - 1 : g.s1[b] = a[b] /\ g.s2[b] = d[b]
  BY <1>2, <1>3, <1>4, <1>5
<1>7. Graph(g)
  <2>1. Fields \subseteq DOMAIN g /\ g.n \in Nat \ {0}
    BY <1>2, <1>3 DEF Graph
  <2>2. QED
    BY <1>4, <1>6, <2>1 DEF Graph
<1>8. Succs(g, N) = {s}
  BY <1>2, <1>6 DEF Succs
<1>9. N \in Succs(g, p) /\ Succs(f, p) \ {s} \subseteq Succs(g, p)
  BY <1>1, <1>2, <1>4, <1>5, <1>6 DEF Succs
<1>10. \A b \in 0 .. N - 1 \ {p} : Succs(g, b) = Succs(f, b)
  BY <1>1, <1>5, <1>6 DEF Succs
<1>11. QED
  BY <1>1, <1>2, <1>3, <1>4, <1>7, <1>8, <1>9, <1>10 DEF SplitFacts

LEMMA SplitReached ==
  ASSUME Graph(f), Reached(f), NEW p \in Blocks(f), NEW s \in Succs(f, p), NEW g,
         IsSplit(g, p, s)
  PROVE  Reached(g)
<1>1. 0 \in Blocks(f) /\ \A b \in Blocks(f) : Succs(f, b) \subseteq Blocks(f)
  BY GraphShape
<1>2. SplitFacts(g, p, s)
  BY SplitEdges
<1> SUFFICES ASSUME NEW S \in SUBSET Blocks(g), 0 \in S,
                    \A b \in S : Succs(g, b) \subseteq S
             PROVE  S = Blocks(g)
  BY DEF Reached
<1> DEFINE R == S \cap Blocks(f)
<1>3. \A b \in R : Succs(f, b) \subseteq R
  BY <1>1, <1>2 DEF SplitFacts
<1>4. R = Blocks(f)
  <2>1. R \in SUBSET Blocks(f) /\ 0 \in R
    BY <1>1
  <2> HIDE DEF R
  <2>2. QED
    BY <1>3, <2>1 DEF Reached
<1>5. QED
  BY <1>1, <1>2, <1>4 DEF SplitFacts

LEMMA PlaceEdgeStep ==
  ASSUME EdgesInv, Word \in Nat, NEW e \in DOMAIN edgeCopies, Phis!PlaceEdge(e)
  PROVE  EdgesInv'
<1>1. /\ Graph(f) /\ Reached(f) /\ NoPhis(f) /\ Waiting
      /\ DOMAIN edgeCopies \subseteq Edges(f) /\ f.n \in Nat
  BY DEF EdgesInv, Graph
<1>2. DOMAIN edgeCopies' = DOMAIN edgeCopies \ {e}
  BY DEF Phis!PlaceEdge
<1>3. /\ IsFiniteSet(DOMAIN edgeCopies')
      /\ Cardinality(DOMAIN edgeCopies) \in Nat /\ Cardinality(DOMAIN edgeCopies') \in Nat
      /\ Cardinality(DOMAIN edgeCopies') = Cardinality(DOMAIN edgeCopies) - 1
  <2> DEFINE D == DOMAIN edgeCopies
  <2>1. IsFiniteSet(D) /\ e \in D
    BY <1>1 DEF Waiting
  <2> HIDE DEF D
  <2>2. IsFiniteSet(D \ {e}) /\ Cardinality(D \ {e}) = Cardinality(D) - 1
    BY <2>1, FS_RemoveElement
  <2>3. Cardinality(D) \in Nat /\ Cardinality(D \ {e}) \in Nat
    BY <2>1, <2>2, FS_CardinalityType
  <2>4. QED
    BY <1>2, <2>2, <2>3 DEF D
<1>4. /\ e[1] \in Blocks(f) /\ e[2] \in Succs(f, e[1]) /\ e = <<e[1], e[2]>>
      /\ \A d \in DOMAIN edgeCopies : /\ d \in Blocks(f) \X Blocks(f)
                                      /\ d[1] \in Blocks(f) /\ d[2] \in Succs(f, d[1])
                                      /\ d = <<d[1], d[2]>>
  BY <1>1 DEF Edges
<1>5. IF f.s2[e[1]] = Nil THEN IsAtEnd(f', e[1]) ELSE IsSplit(f', e[1], e[2])
  <2> DEFINE c == Phis!CopyIns(edgeCopies[e])
             g == IF f.s2[e[1]] = Nil THEN Phis!AtEnd(e[1], c) ELSE Phis!Split(e[1], e[2], c)
  <2>1. f' = [g EXCEPT !.ntmp = g.ntmp + Len(edgeCopies[e])]
    BY SamePhis DEF Phis!PlaceEdge
  <2> HIDE DEF c
  <2>2. QED
    BY <2>1 DEF IsAtEnd, IsSplit
<1>6. CASE f.s2[e[1]] = Nil
  <2>1. /\ DOMAIN f' = DOMAIN f /\ f'.n = f.n /\ f'.s1 = f.s1 /\ f'.s2 = f.s2
        /\ f'.phis = f.phis
    <3>1. PICK g : g = f'
      OBVIOUS
    <3>2. IsAtEnd(g, e[1])
      BY <1>5, <1>6, <3>1
    <3>3. DOMAIN g = DOMAIN f /\ g.n = f.n /\ g.s1 = f.s1 /\ g.s2 = f.s2 /\ g.phis = f.phis
      BY <1>1, <3>2, AtEndKeeps
    <3>4. QED
      BY <3>1, <3>3
  <2>2. Blocks(f') = Blocks(f) /\ \A b : Succs(f', b) = Succs(f, b)
    BY <2>1 DEF Blocks, Succs
  <2>3. Graph(f') /\ Reached(f') /\ NoPhis(f') /\ Edges(f') = Edges(f)
    BY <1>1, <2>1, <2>2 DEF Graph, Reached, NoPhis, Edges
  <2>4. Waiting'
    BY <1>1, <1>3, <2>1 DEF Waiting
  <2>5. QED
    BY <1>1, <1>2, <2>3, <2>4 DEF EdgesInv
<1>7. CASE f.s2[e[1]] # Nil
  <2>1. PICK g : g = f'
    OBVIOUS
  <2>2. IsSplit(g, e[1], e[2])
    BY <1>5, <1>7, <2>1
  <2>3. SplitFacts(g, e[1], e[2])
    BY <1>1, <1>4, <2>2, SplitEdges
  <2>4. Reached(g)
    BY <1>1, <1>4, <2>2, SplitReached
  <2>5. NoPhis(g)
    BY <1>1, <2>3 DEF NoPhis, SplitFacts
  <2>6. \A d \in DOMAIN edgeCopies \ {e} : d[2] \in Succs(g, d[1])
    BY <1>4, <2>3 DEF SplitFacts
  <2>7. DOMAIN edgeCopies \ {e} \subseteq Edges(g)
    BY <1>4, <2>3, <2>6 DEF Edges, SplitFacts
  <2>8. Waiting'
    BY <1>1, <1>3, <2>1, <2>3 DEF Waiting, SplitFacts
  <2>9. Graph(f') /\ Reached(f') /\ NoPhis(f') /\ DOMAIN edgeCopies' \subseteq Edges(f')
    BY <1>2, <2>1, <2>3, <2>4, <2>5, <2>7 DEF SplitFacts
  <2>10. QED
    BY <2>8, <2>9 DEF EdgesInv
<1>8. QED
  BY <1>6, <1>7
-----------------------------------------------------------------------------
(***************************************************************************)
(* The blocks are numbered.                                                *)
(***************************************************************************)
LEMMA EdgesDoneStep ==
  ASSUME EdgesInv, Word \in Nat, rpc = "preds", Phis!EdgesDone
  PROVE  NumberInv'
<1>1. /\ Graph(f) /\ Reached(f) /\ NoPhis(f) /\ Waiting /\ f.n \in Nat
      /\ f' = f /\ rpc' = rpc /\ id' = [b \in Blocks(f) |-> b] /\ DOMAIN edgeCopies = {}
  BY SamePhis DEF EdgesInv, Graph, Phis!EdgesDone
<1>2. f.n + 1 < Word
  <2>1. Cardinality({}) = 0
    BY FS_EmptySet
  <2>2. QED
    BY <1>1, <2>1 DEF Waiting
<1>3. id' \in [Blocks(f) -> 0 .. Word - 1]
  BY <1>1, <1>2 DEF Blocks
<1>4. QED
  BY <1>1, <1>2, <1>3 DEF NumberInv

LEMMA FillPredsStep ==
  ASSUME NumberInv, Word \in Nat, call = 2, Numbers!Preds
  PROVE  NumberInv'
<1>1. /\ rpc = "preds" /\ rpc' = "RPO" /\ f' = Numbers!FillPreds(f) /\ id' = id
      /\ Graph(f) /\ Reached(f) /\ NoPhis(f) /\ f.n + 1 < Word
      /\ id \in [Blocks(f) -> 0 .. Word - 1]
  BY DEF Numbers!Preds, NumberInv
<1>2. /\ DOMAIN f' = DOMAIN f /\ f'.n = f.n /\ f'.s1 = f.s1 /\ f'.s2 = f.s2
      /\ f'.phis = f.phis /\ f'.pred = [c \in Blocks(f) |-> Numbers!PredsOf(f, c)]
  BY <1>1, SameOperators DEF Numbers!FillPreds, Graph, Fields
<1>3. Blocks(f') = Blocks(f) /\ \A b : Succs(f', b) = Succs(f, b)
  BY <1>2 DEF Blocks, Succs
<1>4. Graph(f') /\ Reached(f') /\ NoPhis(f')
  BY <1>1, <1>2, <1>3 DEF Graph, Reached, NoPhis
<1>5. \A c \in Blocks(f) :
        /\ Numbers!PredsOf(f, c) \in Seq(Blocks(f))
        /\ Elems(Numbers!PredsOf(f, c)) = {p \in Blocks(f) : c \in Succs(f, p)}
  <2>1. /\ f.n \in Nat \ {0}
        /\ f.s1 \in [Numbers!Blocks(f) -> Numbers!Blocks(f) \cup {Numbers!Nil}]
        /\ f.s2 \in [Numbers!Blocks(f) -> Numbers!Blocks(f) \cup {Numbers!Nil}]
    BY <1>1, SameOperators DEF Graph
  <2>2. \A c \in Numbers!Blocks(f) :
          /\ Numbers!PredsOf(f, c) \in Seq(Numbers!Blocks(f))
          /\ Numbers!Elems(Numbers!PredsOf(f, c))
               = {p \in Numbers!Blocks(f) : c \in Numbers!Succs(f, p)}
    BY <2>1, Numbers!PredsMean
  <2>3. QED
    BY <2>2, SameOperators
<1>6. Numbers!PredLists(f')
  BY <1>2, <1>3, <1>5, SameOperators DEF Numbers!PredLists
<1>7. PredsRight(f')
  BY <1>2, <1>3, <1>5 DEF PredsRight
<1>8. Numbers!IInv'
  <2>1. Numbers!Shape'
    BY <1>1, <1>2, <1>3, <1>4, SameOperators DEF Numbers!Shape, Numbers!Pointers, Graph
  <2>2. QED
    BY <1>1, <1>2, <1>3, <2>1, SameOperators
       DEF Numbers!IInv, Numbers!Typed, Numbers!EnteredFromBelow, Numbers!Numbered
<1>9. Numbers!BInv'
  BY <1>1 DEF Numbers!BInv, Numbers!Numbered
<1>10. QED
  BY <1>1, <1>4, <1>6, <1>7, <1>8, <1>9 DEF NumberInv

LEMMA CompactStep ==
  ASSUME NumberInv, call = 2, Numbers!Compact
  PROVE  NumberInv'
<1>1. /\ rpc = "compact" /\ rpc' = "done"
      /\ Numbers!IInv /\ Numbers!BInv /\ Numbers!PredLists(f) /\ PredsRight(f)
      /\ Reached(f) /\ NoPhis(f)
  BY DEF Numbers!Compact, NumberInv
<1>2. Numbers!Seen = Blocks(f)
  <2>1. /\ 0 \in Numbers!Seen
        /\ \A b \in Numbers!Seen : Succs(f, b) \subseteq Numbers!Seen
    BY <1>1, SameOperators DEF Numbers!IInv, Numbers!Complete
  <2>2. Numbers!Seen \in SUBSET Blocks(f)
    BY SameOperators DEF Numbers!Seen
  <2> DEFINE S == Numbers!Seen
  <2> HIDE DEF S
  <2>3. S = Blocks(f)
    BY <1>1, <2>1, <2>2 DEF Reached, S
  <2>4. QED
    BY <2>3 DEF S
<1>3. Numbers!PredLists(f') /\ PredsRight(f')
  <2>1. Numbers!PredsRight(f) /\ Numbers!Seen = Numbers!Blocks(f)
    BY <1>1, <1>2, SameOperators
  <2>2. Numbers!PredLists(f') /\ Numbers!PredsRight(f')
    BY <1>1, <2>1, Numbers!PredsMoved
  <2>3. QED
    BY <2>2, SameOperators
<1>4. NoPhis(f')
  <2>1. /\ f'.n = Numbers!Kept
        /\ f'.phis = [i \in 0 .. Numbers!Kept - 1 |->
                         [k \in DOMAIN f.phis[Numbers!At(i)] |->
                            [f.phis[Numbers!At(i)][k] EXCEPT
                               !.blks = [m \in DOMAIN @ |-> Numbers!To(@[m])]]]]
    BY <1>1, Numbers!CompactFields
  <2>2. \A i \in 0 .. Numbers!Kept - 1 : Numbers!At(i) \in Blocks(f)
    BY <1>1, <1>2, Numbers!Renumbering
  <2>3. \A i \in 0 .. Numbers!Kept - 1 : f.phis[Numbers!At(i)] = <<>>
    BY <1>1, <2>2 DEF NoPhis
  <2>4. ASSUME NEW i \in 0 .. Numbers!Kept - 1 PROVE f'.phis[i] = <<>>
    BY <2>1, <2>3
  <2>5. Blocks(f') = 0 .. Numbers!Kept - 1
    BY <2>1 DEF Blocks
  <2>6. QED
    BY <2>1, <2>4, <2>5 DEF NoPhis
<1>5. Numbers!IInv' /\ Numbers!BInv'
  BY <1>1, Numbers!CompactStep, Numbers!CompactBack
<1>6. QED
  BY <1>1, <1>3, <1>4, <1>5 DEF NumberInv

LEMMA OrderStep ==
  ASSUME NumberInv, Word \in Nat, call = 2, Numbers!Next
  PROVE  NumberInv' /\ call' = 2
<1>1. CASE Numbers!Preds
  BY <1>1, FillPredsStep DEF Numbers!Preds, NumberInv
<1>2. CASE Numbers!Compact
  BY <1>2, CompactStep DEF Numbers!Compact
<1>3. CASE Numbers!StartWalk \/ Numbers!Descend \/ Numbers!Skip \/ Numbers!Leave
  <2>1. /\ f' = f /\ call' = call /\ rpc # "preds" /\ rpc # "done"
        /\ rpc' # "preds" /\ rpc' # "done"
    BY <1>3 DEF Numbers!StartWalk, Numbers!Descend, Numbers!Skip, Numbers!Leave
  <2>2. Numbers!IInv /\ Numbers!BInv
    BY <2>1 DEF NumberInv
  <2>3. [Numbers!Next]_(Numbers!vars)
    OBVIOUS
  <2>4. Numbers!IInv' /\ Numbers!BInv'
    BY <2>2, <2>3, Numbers!StepIInv, Numbers!BStep
  <2>5. QED
    BY <2>1, <2>4 DEF NumberInv, Numbers!PredLists
<1>4. QED
  BY <1>1, <1>2, <1>3 DEF Numbers!Next

LEMMA IsNumbered ==
  ASSUME NumberInv, rpc = "done"
  PROVE  Numbered
<1>1. Numbers!IInv /\ Numbers!BInv /\ PredsRight(f) /\ NoPhis(f)
  BY DEF NumberInv
<1>2. Graph(f)
  BY <1>1, SameOperators
     DEF Numbers!IInv, Numbers!Typed, Numbers!Shape, Numbers!Pointers, Graph
<1>3. Numbers!Ordered
  BY <1>1, Numbers!OrderedImplied
<1>4. QED
  BY <1>1, <1>2, <1>3, SameOperators DEF Numbered, Numbers!Ordered, Numbers!Numbered
-----------------------------------------------------------------------------
(***************************************************************************)
(* Liveness of the function that is left.  As in LivenessProofs the flag   *)
(* stands for the blocks this sweep has left settled; here nothing is said *)
(* of what the sets hold.                                                  *)
(***************************************************************************)
Settled(b) ==
  Phis!Live!NewOut(b, in) \subseteq out[b] /\ Phis!Live!NewIn(b, out[b]) \subseteq in[b]

Justified(b) ==
  out[b] \subseteq Phis!Live!NewOut(b, in) /\ in[b] \subseteq Phis!Live!NewIn(b, out[b])

LiveInv ==
  /\ in = [b \in Blocks(f) |-> in[b]] /\ out = [b \in Blocks(f) |-> out[b]]
  /\ lpos \in -1 .. f.n - 1 /\ lchanged \in BOOLEAN /\ lpc \in {"sweep", "done"}
  /\ \A b \in Blocks(f) : Justified(b)
  /\ lpc = "sweep" /\ ~lchanged => \A b \in Blocks(f) : b > lpos => Settled(b)
  /\ lpc = "done" => \A b \in Blocks(f) : Settled(b)

LEMMA OutMonotone ==
  ASSUME Graph(f), NEW b \in Blocks(f), NEW I, NEW J,
         \A c \in Blocks(f) : I[c] \subseteq J[c]
  PROVE  Phis!Live!NewOut(b, I) \subseteq Phis!Live!NewOut(b, J)
<1>1. f.s1[b] \in Blocks(f) \cup {Nil} /\ f.s2[b] \in Blocks(f) \cup {Nil}
  BY DEF Graph
<1>2. ASSUME NEW v, NEW w, v \subseteq w, NEW s \in Blocks(f) \cup {Nil}
      PROVE  Phis!Live!LiveOn(v, b, s, I) \subseteq Phis!Live!LiveOn(w, b, s, J)
  BY <1>2 DEF Phis!Live!LiveOn, Phis!Live!Nil, Nil
<1>3. Phis!Live!LiveOn({}, b, f.s1[b], I) \subseteq Phis!Live!LiveOn({}, b, f.s1[b], J)
  BY <1>1, <1>2
<1>4. QED
  BY <1>1, <1>2, <1>3 DEF Phis!Live!NewOut

LEMMA InMonotone ==
  ASSUME NEW b, NEW o, NEW p, o \subseteq p
  PROVE  Phis!Live!NewIn(b, o) \subseteq Phis!Live!NewIn(b, p)
BY DEF Phis!Live!NewIn

\* The equations of a block mention nothing else that changes.
LEMMA SameEquations ==
  ASSUME f' = f, NEW b
  PROVE  /\ Phis!Live!NewOut(b, in)' = Phis!Live!NewOut(b, in')
         /\ Phis!Live!NewIn(b, out[b])' = Phis!Live!NewIn(b, out'[b])
BY DEF Phis!Live!NewOut, Phis!Live!NewIn, Phis!Live!LiveOn, Phis!Live!Kill, Phis!Live!Gen,
   Phis!Live!KilledBefore, Phis!Live!PhiDefs, Phis!Live!PhiUses

LEMMA VisitStep ==
  ASSUME Graph(f), LiveInv, Phis!Live!Visit, f' = f
  PROVE  LiveInv'
<1> DEFINE o == out[lpos] \cup Phis!Live!NewOut(lpos, in)
           i == in[lpos] \cup Phis!Live!NewIn(lpos, o)
<1>1. /\ lpos \in Blocks(f) /\ lpos \in Int /\ f.n \in Nat
      /\ in = [b \in Blocks(f) |-> in[b]] /\ out = [b \in Blocks(f) |-> out[b]]
      /\ \A b \in Blocks(f) : Justified(b)
      /\ lchanged \in BOOLEAN
  BY DEF LiveInv, Phis!Live!Visit, Blocks, Graph
<1>2. /\ out' = [out EXCEPT ![lpos] = o] /\ in' = [in EXCEPT ![lpos] = i]
      /\ lchanged' = (lchanged \/ o # out[lpos] \/ i # in[lpos])
      /\ lpos' = lpos - 1 /\ lpc' = "sweep" /\ lpc = "sweep"
  BY DEF Phis!Live!Visit
<1> HIDE DEF o, i
<1>3. /\ in' = [b \in Blocks(f) |-> in'[b]] /\ out' = [b \in Blocks(f) |-> out'[b]]
      /\ in'[lpos] = i /\ out'[lpos] = o
      /\ \A b \in Blocks(f) \ {lpos} : in'[b] = in[b] /\ out'[b] = out[b]
  BY <1>1, <1>2
<1>4. \A b \in Blocks(f) : in[b] \subseteq in'[b] /\ out[b] \subseteq out'[b]
  BY <1>3 DEF o, i
<1>5. ASSUME NEW b \in Blocks(f) PROVE Justified(b)'
  <2>1. out[b] \subseteq Phis!Live!NewOut(b, in) /\ in[b] \subseteq Phis!Live!NewIn(b, out[b])
    BY <1>1 DEF Justified
  <2>2. /\ Phis!Live!NewOut(b, in) \subseteq Phis!Live!NewOut(b, in')
        /\ Phis!Live!NewIn(b, out[b]) \subseteq Phis!Live!NewIn(b, out'[b])
    BY <1>4, OutMonotone, InMonotone
  <2>3. /\ out'[b] \subseteq Phis!Live!NewOut(b, in')
        /\ in'[b] \subseteq Phis!Live!NewIn(b, out'[b])
    <3>1. CASE b = lpos
      BY <1>3, <2>1, <2>2, <3>1 DEF o, i
    <3>2. CASE b # lpos
      BY <1>3, <2>1, <2>2, <3>2
    <3>3. QED
      BY <3>1, <3>2
  <2>4. QED
    BY <2>3, SameEquations DEF Justified
<1>6. ASSUME ~lchanged', NEW b \in Blocks(f), b > lpos' PROVE Settled(b)'
  <2>1. o = out[lpos] /\ i = in[lpos] /\ ~lchanged
    BY <1>2, <1>6
  <2>2. out' = out /\ in' = in
    BY <1>1, <1>2, <2>1
  <2>3. Settled(b)
    <3>1. CASE b = lpos
      BY <2>1, <3>1 DEF Settled, o, i
    <3>2. CASE b # lpos
      <4>1. b > lpos
        BY <1>1, <1>2, <1>6, <3>2 DEF Blocks
      <4>2. QED
        BY <1>2, <2>1, <4>1 DEF LiveInv
    <3>3. QED
      BY <3>1, <3>2
  <2>4. QED
    BY <2>2, <2>3, SameEquations DEF Settled
<1>7. lpos' \in -1 .. f'.n - 1 /\ lchanged' \in BOOLEAN
  BY <1>1, <1>2 DEF Blocks
<1>8. QED
  BY <1>2, <1>3, <1>5, <1>6, <1>7 DEF LiveInv

LEMMA EndSweepStep ==
  ASSUME Graph(f), LiveInv, Phis!Live!EndSweep, f' = f
  PROVE  LiveInv'
<1>1. in' = in /\ out' = out /\ lpc = "sweep" /\ lpos < 0 /\ f.n \in Nat /\ lpos \in Int
  BY DEF Phis!Live!EndSweep, LiveInv, Graph
<1>2. \A b \in Blocks(f) : /\ Justified(b)' <=> Justified(b)
                           /\ Settled(b)' <=> Settled(b)
  BY <1>1, SameEquations DEF Justified, Settled
<1>3. \A b \in Blocks(f) : b > lpos
  BY <1>1 DEF Blocks
<1>4. CASE lchanged
  <2>1. lpos' = f.n - 1 /\ lchanged' = FALSE /\ lpc' = lpc
    BY <1>4 DEF Phis!Live!EndSweep
  <2>2. \A b \in Blocks(f) : ~(b > lpos')
    BY <1>1, <2>1 DEF Blocks
  <2>3. lpos' \in -1 .. f.n - 1
    BY <1>1, <2>1
  <2>4. lchanged' \in BOOLEAN /\ lpc' \in {"sweep", "done"}
    BY <1>1, <2>1
  <2>5. /\ in' = [b \in Blocks(f') |-> in'[b]] /\ out' = [b \in Blocks(f') |-> out'[b]]
        /\ \A b \in Blocks(f') : Justified(b)'
    BY <1>1, <1>2 DEF LiveInv
  <2>6. QED
    BY <1>1, <2>1, <2>2, <2>3, <2>4, <2>5 DEF LiveInv
<1>5. CASE ~lchanged
  <2>1. lpos' = lpos /\ lchanged' = lchanged /\ lpc' = "done"
    BY <1>5 DEF Phis!Live!EndSweep
  <2>2. QED
    BY <1>1, <1>2, <1>3, <1>5, <2>1 DEF LiveInv
<1>6. QED
  BY <1>4, <1>5

LEMMA NumberDone ==
  ASSUME NumberInv, rpc = "done", lpc = "sweep", ~lchanged, Phis!Number
  PROVE  Numbered' /\ LiveInv' /\ ppc' = "live"
<1>1. /\ f' = f /\ lpos' = f.n - 1 /\ lpc' = "sweep" /\ lchanged' = lchanged /\ ppc' = "live"
      /\ in' = [b \in Blocks(f) |-> {}] /\ out' = [b \in Blocks(f) |-> {}]
  BY SamePhis DEF Phis!Number
<1>2. Numbered /\ Graph(f) /\ f.n \in Nat
  BY IsNumbered DEF Numbered, Graph
<1>3. Numbered'
  BY <1>1, <1>2 DEF Numbered
<1>4. \A b \in Blocks(f) : Justified(b)' /\ ~(b > lpos')
  BY <1>1, <1>2 DEF Justified, Blocks
<1>5. lpos' \in -1 .. f.n - 1
  BY <1>1, <1>2
<1>6. /\ in' = [b \in Blocks(f) |-> in'[b]] /\ out' = [b \in Blocks(f) |-> out'[b]]
  BY <1>1
<1>7. lchanged' = FALSE
  BY <1>1
<1>8. LiveInv'
  BY <1>1, <1>4, <1>5, <1>6, <1>7 DEF LiveInv
<1>9. QED
  BY <1>1, <1>3, <1>8

-----------------------------------------------------------------------------
(***************************************************************************)
(* The invariant.  Until Spill is called no pass after PhiElim moves, and  *)
(* each phase of PhiElim finds what the one before it has left.            *)
(***************************************************************************)
Fresh == rpc = "preds" /\ call = 2
Unswept == lpc = "sweep" /\ lchanged = FALSE

LInv ==
  spc = "call" =>
    /\ apc = "lower" /\ pc = "block"
    /\ \/ ppc = "collect" /\ f \in Functions /\ Fresh /\ Unswept
       \/ ppc = "edges" /\ EdgesInv /\ Fresh /\ Unswept
       \/ ppc = "number" /\ NumberInv /\ call = 2 /\ Unswept
       \/ ppc = "live" /\ Numbered /\ LiveInv
       \/ ppc = "done" /\ Numbered /\ LiveInv /\ lpc = "done"

LEMMA InitLInv == Init => LInv
BY DEF Init, LInv, Fresh, Unswept, Phis!Start, Phis!Live!Start, Abi!Start, Alloc!Start

LEMMA PhiElimStep ==
  ASSUME LInv, spc = "call", Phis!Step, UNCHANGED <<apc, pc>>
  PROVE  LInv'
<1>1. /\ Word \in Nat /\ apc' = "lower" /\ pc' = "block"
  BY FunctionsAssumption DEF LInv
<1>2. CASE Phis!Collect
  <2>1. f \in Functions /\ Fresh /\ Unswept
    BY <1>2 DEF Phis!Collect, LInv
  <2>2. ppc' = "edges" /\ Fresh' /\ Unswept'
    BY <1>2, <2>1 DEF Phis!Collect, Phis!rpoVars, Phis!liveVars, Fresh, Unswept
  <2>3. EdgesInv'
    BY <1>2, <2>1, CollectStep
  <2>4. QED
    BY <1>1, <2>2, <2>3 DEF LInv
<1>3. CASE \E e \in DOMAIN edgeCopies : Phis!PlaceEdge(e)
  <2>1. PICK e \in DOMAIN edgeCopies : Phis!PlaceEdge(e)
    BY <1>3
  <2>2. EdgesInv /\ Fresh /\ Unswept
    BY <2>1 DEF Phis!PlaceEdge, LInv
  <2>3. ppc' = "edges" /\ Fresh' /\ Unswept'
    BY <2>1, <2>2 DEF Phis!PlaceEdge, Phis!rpoVars, Phis!liveVars, Fresh, Unswept
  <2>4. EdgesInv'
    BY <1>1, <2>1, <2>2, PlaceEdgeStep
  <2>5. QED
    BY <1>1, <2>3, <2>4 DEF LInv
<1>4. CASE Phis!EdgesDone
  <2>1. EdgesInv /\ Fresh /\ Unswept
    BY <1>4 DEF Phis!EdgesDone, LInv
  <2>2. ppc' = "number" /\ call' = 2 /\ Unswept'
    BY <1>4, <2>1 DEF Phis!EdgesDone, Phis!liveVars, Fresh, Unswept
  <2>3. NumberInv'
    BY <1>1, <1>4, <2>1, EdgesDoneStep DEF Fresh
  <2>4. QED
    BY <1>1, <2>2, <2>3 DEF LInv
<1>5. CASE Phis!Number
  <2>1. NumberInv /\ call = 2 /\ Unswept
    BY <1>5 DEF Phis!Number, LInv
  <2>2. CASE rpc = "done"
    <3>1. Numbered' /\ LiveInv' /\ ppc' = "live"
      BY <1>5, <2>1, <2>2, NumberDone DEF Unswept
    <3>2. QED
      BY <1>1, <3>1 DEF LInv
  <2>3. CASE rpc # "done"
    <3>1. Phis!Order!Next /\ ppc' = "number" /\ Unswept'
      BY <1>5, <2>1, <2>3 DEF Phis!Number, Phis!liveVars, Unswept
    <3>2. NumberInv' /\ call' = 2
      BY <1>1, <2>1, <3>1, SameStep, OrderStep
    <3>3. QED
      BY <1>1, <3>1, <3>2 DEF LInv
  <2>4. QED
    BY <2>2, <2>3
<1>6. CASE Phis!Liveness
  <2>1. Numbered /\ LiveInv /\ f' = f
    BY <1>6 DEF Phis!Liveness, LInv
  <2>2. Numbered'
    BY <2>1 DEF Numbered
  <2>3. CASE lpc = "done"
    <3>1. /\ ppc' = "done" /\ in' = in /\ out' = out
          /\ lpos' = lpos /\ lchanged' = lchanged /\ lpc' = lpc
      BY <1>6, <2>3 DEF Phis!Liveness, Phis!liveVars
    <3>2. \A b \in Blocks(f) : /\ Justified(b)' <=> Justified(b)
                               /\ Settled(b)' <=> Settled(b)
      BY <2>1, <3>1, SameEquations DEF Justified, Settled
    <3>3. LiveInv'
      BY <2>1, <3>1, <3>2 DEF LiveInv
    <3>4. QED
      BY <1>1, <2>2, <2>3, <3>1, <3>3 DEF LInv
  <2>4. CASE lpc # "done"
    <3>1. (Phis!Live!Visit \/ Phis!Live!EndSweep) /\ ppc' = "live"
      BY <1>6, <2>4 DEF Phis!Liveness, Phis!Live!Step
    <3>2. Graph(f)
      BY <2>1 DEF Numbered
    <3>3. LiveInv'
      BY <2>1, <3>1, <3>2, VisitStep, EndSweepStep
    <3>4. QED
      BY <1>1, <2>2, <3>1, <3>3 DEF LInv
  <2>5. QED
    BY <2>3, <2>4
<1>7. QED
  BY <1>2, <1>3, <1>4, <1>5, <1>6 DEF Phis!Step

LEMMA StutterLInv ==
  ASSUME LInv, UNCHANGED vars
  PROVE  LInv'
<1>1. /\ f' = f /\ in' = in /\ out' = out /\ edgeCopies' = edgeCopies /\ id' = id
      /\ stack' = stack /\ x' = x /\ call' = call /\ rpc' = rpc /\ lpos' = lpos
      /\ lchanged' = lchanged /\ lpc' = lpc /\ ppc' = ppc /\ apc' = apc /\ pc' = pc
      /\ spc' = spc
  BY DEF vars, phiVars, spillVars, abiVars, raVars
<1>2. EdgesInv => EdgesInv'
  BY <1>1 DEF EdgesInv, Waiting
<1>3. NumberInv => NumberInv'
  <2>1. UNCHANGED Numbers!vars
    BY <1>1 DEF Numbers!vars
  <2>2. [Numbers!Next]_(Numbers!vars)
    BY <2>1
  <2>3. Numbers!IInv /\ Numbers!BInv => Numbers!IInv' /\ Numbers!BInv'
    BY <2>2, Numbers!StepIInv, Numbers!BStep
  <2>4. QED
    BY <1>1, <2>3 DEF NumberInv, Numbers!PredLists
<1>4. LiveInv => LiveInv'
  <2>1. \A b \in Blocks(f) : /\ Justified(b)' <=> Justified(b)
                             /\ Settled(b)' <=> Settled(b)
    BY <1>1, SameEquations DEF Justified, Settled
  <2>2. QED
    BY <1>1, <2>1 DEF LiveInv
<1>5. Numbered => Numbered'
  BY <1>1 DEF Numbered
<1>6. QED
  BY <1>1, <1>2, <1>3, <1>4, <1>5 DEF LInv, Fresh, Unswept

LEMMA NextLInv == LInv /\ [Next]_vars => LInv'
<1> SUFFICES ASSUME LInv, [Next]_vars, spc' = "call" PROVE LInv'
  BY DEF LInv
<1>1. CASE RunPhiElim
  BY <1>1, PhiElimStep DEF RunPhiElim, spillVars, abiVars, raVars
<1>2. CASE CallSpill
  BY <1>2 DEF CallSpill, Spiller!Call
<1>3. CASE RunSpill
  BY <1>3 DEF RunSpill, Spiller!Step, Spiller!EnterBlock, Spiller!Scan, Spiller!LeaveBlock,
     Spiller!StartRewrite, Spiller!RewriteBlock, Spiller!Finish
<1>4. CASE RunABI0
  BY <1>4 DEF RunABI0, spillVars
<1>5. CASE Allocate
  BY <1>5 DEF Allocate, spillVars, LInv
<1>6. CASE RunEmit
  BY <1>6 DEF RunEmit, spillVars, LInv
<1>7. CASE UNCHANGED vars
  BY <1>7, StutterLInv
<1>8. QED
  BY <1>1, <1>2, <1>3, <1>4, <1>5, <1>6, <1>7 DEF Next

LEMMA ReadyImplied == LInv => Ready
<1> SUFFICES ASSUME LInv, PhisLeft PROVE Ready
  BY DEF Ready
<1>1. Numbered /\ LiveInv /\ lpc = "done"
  BY DEF LInv, PhisLeft
<1>2. \A b \in Blocks(f) : /\ f.phis[b] = <<>>
                           /\ Elems(f.pred[b]) = {p \in Blocks(f) : b \in Succs(f, p)}
  BY <1>1 DEF Numbered, NoPhis, PredsRight
<1>3. Phis!Solution
  <2>1. \A b \in Blocks(f) : Justified(b) /\ Settled(b)
    BY <1>1 DEF LiveInv
  <2>2. QED
    BY <2>1, SamePhis DEF Phis!Solution, Justified, Settled
<1>4. QED
  BY <1>1, <1>2, <1>3 DEF Ready, Numbered

(***************************************************************************)
(* Ready holds: whatever the order in which the maps give the edges, Spill *)
(* finds no phi, Pred lists that name the edges as the splits have left    *)
(* them, a backward edge only where there is a loop, and In and Out that   *)
(* solve the equations of the code with the copies in it (PhiElim,         *)
(* phi_elim.go; FillPreds and FillRPO, cfg.go; Liveness, live.go).         *)
(***************************************************************************)
THEOREM ReadyForSpill == Spec => []Ready
<1>1. Init => LInv
  BY InitLInv
<1>2. LInv /\ [Next]_vars => LInv'
  BY NextLInv
<1>3. LInv => Ready
  BY ReadyImplied
<1>4. QED
  BY <1>1, <1>2, <1>3, PTL DEF Spec
=============================================================================
