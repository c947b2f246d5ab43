---------------------------- MODULE FillDomProofs ----------------------------
(***************************************************************************)
(* FillDom never dereferences a nil Idom, for every function whose blocks  *)
(* are in reverse post-order.  The argument: an Idom, once set, is a       *)
(* smaller block that is Start or has an Idom itself; blocks below the one *)
(* being visited all have one; and an intersection, which starts from two  *)
(* such blocks, only ever moves down to others.                            *)
(***************************************************************************)
EXTENDS FillDom, GraphProofs

Idoms == \A b \in Blocks(f) :
           idom[b] # Nil => b # 0 /\ idom[b] < b /\ Processed(idom[b])

Visited == pc \in {"preds", "climb1", "climb2", "met"} =>
             /\ pos \in 1 .. f.n
             /\ \A c \in 0 .. pos - 1 : Processed(c)

\* acc is a processed block no larger than any processed predecessor seen.
AccOK ==
  pc \in {"preds", "climb1", "climb2", "met"} =>
    /\ acc # Nil => acc \in Blocks(f) /\ Processed(acc)
    /\ pos >= f.n => k = 1
    /\ pos < f.n =>
         \A j \in DOMAIN f.pred[pos] :
           j < k /\ Processed(f.pred[pos][j]) => acc # Nil /\ acc <= f.pred[pos][j]

ClimbOK ==
  pc \in {"climb1", "climb2", "met"} =>
    /\ pos < f.n /\ k \in DOMAIN f.pred[pos] /\ acc # Nil
    /\ b1 \in Blocks(f) /\ Processed(b1) /\ b1 <= acc
    /\ b2 \in Blocks(f) /\ Processed(b2) /\ b2 <= f.pred[pos][k]
    /\ pc = "met" => b1 = b2

FronOK ==
  pc \in {"fron", "done"} => /\ k \in {1, 2}
                             /\ pos < f.n => b1 \in Blocks(f) \cup {Nil}

IInv == TypeOK /\ NoPanic /\ Idoms /\ Visited /\ AccOK /\ ClimbOK /\ FronOK

-----------------------------------------------------------------------------
LEMMA Shape ==
  ASSUME IsFunction(f)
  PROVE  /\ f.n \in Nat \ {0} /\ 0 \in Blocks(f) /\ Nil \notin Blocks(f)
         /\ \A b \in Blocks(f) : /\ f.s1[b] \in Blocks(f) \cup {Nil}
                                /\ f.s2[b] \in Blocks(f) \cup {Nil}
                                /\ f.pred[b] \in Seq(Blocks(f))
BY DEF IsFunction, Blocks, Nil

\* The state FillDom begins in, whoever calls it.
Ready == Prepared(f) /\ Start

LEMMA InitReady == Init => Ready
BY FunctionsAssumption DEF Init, Ready

LEMMA ReadyIInv == Ready => IInv
<1> SUFFICES ASSUME Ready PROVE IInv
  OBVIOUS
<1>1. IsFunction(f) /\ InOrder(f) /\ Start
  BY DEF Ready, Prepared
<1>2. f.n \in Nat \ {0} /\ 0 \in Blocks(f) /\ Nil \notin Blocks(f)
  BY <1>1, Shape
<1>3. TypeOK
  BY <1>1, <1>2 DEF Ready, TypeOK, Start, Nil
<1>4. NoPanic /\ Idoms /\ FronOK /\ ClimbOK
  BY <1>1 DEF Start, NoPanic, Idoms, FronOK, ClimbOK
<1>5. Visited /\ AccOK
  <2>1. Visited
    BY <1>1, <1>2 DEF Start, Visited, Processed
  <2>2. pos >= f.n => k = 1
    BY <1>1 DEF Start
  <2>3. ASSUME pos < f.n, NEW j \in DOMAIN f.pred[pos], j < k
        PROVE  FALSE
    <3>1. pos \in Blocks(f) /\ k = 1
      BY <1>1, <1>2, <2>3 DEF Start, Blocks
    <3>2. f.pred[pos] \in Seq(Blocks(f))
      BY <1>1, <3>1, Shape
    <3>3. QED
      BY <2>3, <3>1, <3>2
  <2>4. QED
    BY <1>1, <2>1, <2>2, <2>3 DEF AccOK, Start
<1>6. QED
  BY <1>3, <1>4, <1>5 DEF IInv

(***************************************************************************)
(* Facts every action lemma starts from.                                   *)
(***************************************************************************)
LEMMA Facts ==
  ASSUME IInv
  PROVE  /\ IsFunction(f) /\ f.n \in Nat \ {0} /\ 0 \in Blocks(f) /\ Nil \notin Blocks(f)
         /\ Blocks(f) = 0 .. f.n - 1
         /\ idom \in [Blocks(f) -> Blocks(f) \cup {Nil}]
         /\ pos \in Nat /\ pos <= f.n /\ k \in Nat \ {0}
         /\ pos < f.n => pos \in Blocks(f) /\ f.pred[pos] \in Seq(Blocks(f))
<1>1. IsFunction(f) /\ pos \in 0 .. f.n /\ k \in Nat \ {0}
      /\ idom \in [Blocks(f) -> Blocks(f) \cup {Nil}]
  BY DEF IInv, TypeOK, Prepared
<1>2. f.n \in Nat \ {0} /\ 0 \in Blocks(f) /\ Nil \notin Blocks(f)
  BY <1>1, Shape
<1>3. Blocks(f) = 0 .. f.n - 1
  BY DEF Blocks
<1>4. pos < f.n => pos \in Blocks(f) /\ f.pred[pos] \in Seq(Blocks(f))
  BY <1>1, <1>2, <1>3, Shape
<1>5. QED
  BY <1>1, <1>2, <1>3, <1>4

LEMMA SkipPredStep ==
  ASSUME IInv, SkipPred, UNCHANGED f
  PROVE  IInv'
<1>1. /\ pc = "preds" /\ pos < f.n /\ k <= Len(f.pred[pos]) /\ ~Processed(f.pred[pos][k])
      /\ k' = k + 1
      /\ UNCHANGED <<idom, dom, dlink, fron, pos, acc, b1, b2, changed, pc>>
  BY DEF SkipPred, Pending
<1>2. TypeOK' /\ NoPanic' /\ Idoms' /\ Visited' /\ ClimbOK' /\ FronOK'
  <2>1. k' \in Nat \ {0}
    BY <1>1, Facts
  <2>2. TypeOK'
    BY <1>1, <2>1 DEF IInv, TypeOK
  <2>3. QED
    BY <1>1, <2>2 DEF IInv, NoPanic, Idoms, Visited, ClimbOK, FronOK, Processed
<1>3. AccOK'
  <2>1. ASSUME NEW j \in DOMAIN f.pred[pos], j < k + 1, Processed(f.pred[pos][j])
        PROVE  acc # Nil /\ acc <= f.pred[pos][j]
    <3>1. j < k
      BY <1>1, <2>1, Facts
    <3>2. QED
      BY <1>1, <2>1, <3>1 DEF IInv, AccOK
  <2>2. QED
    BY <1>1, <2>1, Facts DEF IInv, AccOK, Processed
<1>4. QED
  BY <1>2, <1>3 DEF IInv

LEMMA IntersectStep ==
  ASSUME IInv, Intersect, UNCHANGED f
  PROVE  IInv'
<1> DEFINE p == f.pred[pos][k]
<1>1. /\ pc = "preds" /\ pos < f.n /\ k <= Len(f.pred[pos]) /\ Processed(p)
      /\ UNCHANGED <<idom, dom, dlink, fron, pos, changed>>
  BY DEF Intersect, Pending
<1>2. k \in DOMAIN f.pred[pos] /\ p \in Blocks(f)
  <2>1. f.pred[pos] \in Seq(Blocks(f)) /\ k \in 1 .. Len(f.pred[pos])
    BY <1>1, Facts
  <2>2. QED
    BY <2>1
<1>3. Idoms' /\ FronOK'
  BY <1>1 DEF Intersect, IInv, Idoms, FronOK, Processed
<1>4. CASE acc = Nil
  <2>1. acc' = p /\ k' = k + 1 /\ UNCHANGED <<b1, b2, pc>>
    BY <1>4 DEF Intersect
  <2>2. acc' \in -1 .. f.n /\ k' \in Nat \ {0}
    BY <1>2, <2>1, Facts
  <2>3. TypeOK' /\ NoPanic' /\ Visited' /\ ClimbOK'
    BY <1>1, <2>1, <2>2 DEF IInv, TypeOK, NoPanic, Visited, ClimbOK, Processed
  <2>4. ASSUME NEW j \in DOMAIN f.pred[pos], j < k + 1, Processed(f.pred[pos][j])
        PROVE  p # Nil /\ p <= f.pred[pos][j]
    <3>1. CASE j < k
      BY <1>1, <1>4, <2>4, <3>1 DEF IInv, AccOK
    <3>2. CASE j = k
      BY <1>2, <3>2, Facts
    <3>3. QED
      BY <1>1, <2>4, <3>1, <3>2, Facts, SMTT(30)
  <2>5. AccOK'
    BY <1>1, <1>2, <2>1, <2>4, Facts DEF AccOK, Processed
  <2>6. QED
    BY <1>3, <2>3, <2>5 DEF IInv
<1>5. CASE acc # Nil
  <2>1. b1' = acc /\ b2' = p /\ pc' = "climb1" /\ UNCHANGED <<acc, k>>
    BY <1>5 DEF Intersect
  <2>2. acc \in Blocks(f) /\ Processed(acc)
    BY <1>1, <1>5 DEF IInv, AccOK
  <2>3. ClimbOK'
    BY <1>1, <1>2, <1>5, <2>1, <2>2, Facts DEF ClimbOK, Processed
  <2>4. b1' \in -1 .. f.n /\ b2' \in -1 .. f.n
    BY <1>2, <2>1, <2>2, Facts
  <2>5. TypeOK' /\ NoPanic' /\ Visited'
    BY <1>1, <2>1, <2>4 DEF IInv, TypeOK, NoPanic, Visited, Processed
  <2>6. AccOK'
    BY <1>1, <2>1 DEF IInv, AccOK, Processed
  <2>7. QED
    BY <1>3, <2>3, <2>5, <2>6 DEF IInv
<1>6. QED
  BY <1>4, <1>5

(***************************************************************************)
(* A climb: the block it leaves is not the smallest, so it is not Start    *)
(* and has an Idom, which is smaller and processed like it.                *)
(***************************************************************************)
LEMMA Climb ==
  ASSUME IInv, NEW b \in Blocks(f), NEW c \in Blocks(f), Processed(b), b > c
  PROVE  /\ idom[b] # Nil /\ idom[b] \in Blocks(f)
         /\ idom[b] < b /\ Processed(idom[b])
<1>1. b # 0
  BY Facts
<1>2. idom[b] # Nil
  BY <1>1 DEF Processed
<1>3. QED
  BY <1>2, Facts DEF IInv, Idoms

LEMMA Climb1Step ==
  ASSUME IInv, Climb1, UNCHANGED f
  PROVE  IInv'
<1>1. /\ pc = "climb1"
      /\ UNCHANGED <<idom, dom, dlink, fron, pos, k, acc, b2, changed>>
  BY DEF Climb1
<1>2. /\ pos < f.n /\ k \in DOMAIN f.pred[pos] /\ acc # Nil
      /\ b1 \in Blocks(f) /\ Processed(b1) /\ b1 <= acc
      /\ b2 \in Blocks(f) /\ Processed(b2) /\ b2 <= f.pred[pos][k]
  BY <1>1 DEF IInv, ClimbOK
<1>3. acc \in Blocks(f)
  BY <1>1, <1>2 DEF IInv, AccOK
<1>4. /\ b1' \in Blocks(f) /\ Processed(b1)' /\ b1' <= acc
      /\ pc' \in {"climb1", "climb2"}
  <2>1. CASE b1 > b2
    <3>1. b1' = idom[b1] /\ pc' = "climb1"
      BY <1>2, <2>1, Climb DEF Climb1
    <3>2. b1' \in Blocks(f) /\ Processed(b1') /\ b1' < b1
      BY <1>2, <2>1, <3>1, Climb
    <3>3. QED
      BY <1>1, <1>2, <1>3, <3>1, <3>2, Facts DEF Processed
  <2>2. CASE ~(b1 > b2)
    BY <1>1, <1>2, <2>2 DEF Climb1, Processed
  <2>3. QED
    BY <2>1, <2>2
<1>5. ClimbOK'
  BY <1>1, <1>2, <1>4 DEF ClimbOK, Processed
<1>6. b1' \in -1 .. f.n
  BY <1>4, Facts
<1>7. TypeOK' /\ NoPanic' /\ Idoms' /\ Visited' /\ FronOK'
  BY <1>1, <1>4, <1>6 DEF IInv, TypeOK, NoPanic, Idoms, Visited, FronOK, Processed
<1>8. AccOK'
  BY <1>1, <1>4 DEF IInv, AccOK, Processed
<1>9. QED
  BY <1>5, <1>7, <1>8 DEF IInv

LEMMA Climb2Step ==
  ASSUME IInv, Climb2, UNCHANGED f
  PROVE  IInv'
<1>1. /\ pc = "climb2"
      /\ UNCHANGED <<idom, dom, dlink, fron, pos, k, acc, b1, changed>>
  BY DEF Climb2
<1>2. /\ pos < f.n /\ k \in DOMAIN f.pred[pos] /\ acc # Nil
      /\ b1 \in Blocks(f) /\ Processed(b1) /\ b1 <= acc
      /\ b2 \in Blocks(f) /\ Processed(b2) /\ b2 <= f.pred[pos][k]
  BY <1>1 DEF IInv, ClimbOK
<1>3. f.pred[pos][k] \in Blocks(f)
  <2>1. f.pred[pos] \in Seq(Blocks(f))
    BY <1>2, Facts
  <2>2. QED
    BY <1>2, <2>1
<1>4. /\ b2' \in Blocks(f) /\ Processed(b2)' /\ b2' <= f.pred[pos][k]
      /\ pc' \in {"climb1", "climb2", "met"} /\ (pc' = "met" => b1 = b2')
  <2>1. CASE b2 > b1
    <3>1. b2' = idom[b2] /\ pc' = "climb2"
      BY <1>2, <2>1, Climb DEF Climb2
    <3>2. b2' \in Blocks(f) /\ Processed(b2') /\ b2' < b2
      BY <1>2, <2>1, <3>1, Climb
    <3>3. QED
      BY <1>1, <1>2, <1>3, <3>1, <3>2, Facts DEF Processed
  <2>2. CASE ~(b2 > b1)
    BY <1>1, <1>2, <2>2 DEF Climb2, Processed
  <2>3. QED
    BY <2>1, <2>2
<1>5. ClimbOK'
  BY <1>1, <1>2, <1>4 DEF ClimbOK, Processed
<1>6. b2' \in -1 .. f.n
  BY <1>4, Facts
<1>7. TypeOK' /\ NoPanic' /\ Idoms' /\ Visited' /\ FronOK'
  BY <1>1, <1>4, <1>6 DEF IInv, TypeOK, NoPanic, Idoms, Visited, FronOK, Processed
<1>8. AccOK'
  BY <1>1, <1>4 DEF IInv, AccOK, Processed
<1>9. QED
  BY <1>5, <1>7, <1>8 DEF IInv

LEMMA MetStep ==
  ASSUME IInv, Met, UNCHANGED f
  PROVE  IInv'
<1>1. /\ pc = "met" /\ acc' = b1 /\ k' = k + 1 /\ pc' = "preds"
      /\ UNCHANGED <<idom, dom, dlink, fron, pos, b1, b2, changed>>
  BY DEF Met
<1>2. /\ pos < f.n /\ k \in DOMAIN f.pred[pos] /\ acc # Nil
      /\ b1 \in Blocks(f) /\ Processed(b1) /\ b1 <= acc
      /\ b1 <= f.pred[pos][k]
  BY <1>1 DEF IInv, ClimbOK
<1>3. acc \in Blocks(f)
  BY <1>1, <1>2 DEF IInv, AccOK
<1>4. k' \in Nat \ {0} /\ acc' \in -1 .. f.n
  BY <1>1, <1>2, Facts
<1>5. TypeOK' /\ NoPanic' /\ Idoms' /\ Visited' /\ ClimbOK' /\ FronOK'
  BY <1>1, <1>4 DEF IInv, TypeOK, NoPanic, Idoms, Visited, ClimbOK, FronOK, Processed
<1>6. ASSUME NEW j \in DOMAIN f.pred[pos], j < k + 1, Processed(f.pred[pos][j])
      PROVE  b1 # Nil /\ b1 <= f.pred[pos][j]
  <2>1. f.pred[pos][j] \in Blocks(f) /\ j \in Nat
    <3>1. f.pred[pos] \in Seq(Blocks(f))
      BY <1>2, Facts
    <3>2. QED
      BY <3>1
  <2>2. CASE j < k
    <3>1. acc <= f.pred[pos][j]
      BY <1>1, <1>2, <1>6, <2>2 DEF IInv, AccOK
    <3>2. QED
      BY <1>2, <1>3, <2>1, <3>1, Facts
  <2>3. CASE j = k
    BY <1>2, <2>3, Facts
  <2>4. QED
    BY <1>6, <2>1, <2>2, <2>3, Facts
<1>7. AccOK'
  BY <1>1, <1>2, <1>6, Facts DEF AccOK, Processed
<1>8. QED
  BY <1>5, <1>7 DEF IInv

(***************************************************************************)
(* The new Idom is smaller than the block: one of its predecessors is, all *)
(* smaller blocks are processed, and acc is no larger than that one.       *)
(***************************************************************************)
LEMMA SetIdomStep ==
  ASSUME IInv, SetIdom, UNCHANGED f
  PROVE  IInv'
<1>1. /\ pc = "preds" /\ pos < f.n /\ ~(k <= Len(f.pred[pos]))
      /\ idom' = [idom EXCEPT ![pos] = acc]
      /\ changed' = (changed \/ acc # idom[pos])
      /\ pos' = pos + 1 /\ k' = 1 /\ acc' = Nil
      /\ UNCHANGED <<dom, dlink, fron, b1, b2, pc>>
  BY DEF SetIdom, Pending
<1>2. pos \in Blocks(f) /\ pos # 0 /\ pos \in Nat
  BY <1>1, Facts DEF IInv, Visited
<1>3. acc # Nil /\ acc \in Blocks(f) /\ acc < pos /\ Processed(acc)
  <2>1. PICK j \in DOMAIN f.pred[pos] : f.pred[pos][j] < pos
    BY <1>2 DEF IInv, TypeOK, Prepared, InOrder
  <2>2. j < k /\ f.pred[pos][j] \in Blocks(f)
    <3>1. f.pred[pos] \in Seq(Blocks(f)) /\ k \in Nat
      BY <1>2, Facts
    <3>2. j \in 1 .. Len(f.pred[pos])
      BY <2>1, <3>1
    <3>3. QED
      BY <1>1, <3>1, <3>2
  <2>3. Processed(f.pred[pos][j])
    BY <1>1, <1>2, <2>1, <2>2, Facts DEF IInv, Visited
  <2>4. acc # Nil /\ acc <= f.pred[pos][j]
    BY <1>1, <2>2, <2>3 DEF IInv, AccOK
  <2>5. acc \in Blocks(f) /\ Processed(acc)
    BY <1>1, <2>4 DEF IInv, AccOK
  <2>6. QED
    BY <1>2, <2>1, <2>2, <2>4, <2>5, Facts
<1>4. \A b \in Blocks(f) : Processed(b) => Processed(b)'
  BY <1>1, <1>2, <1>3, Facts DEF Processed
<1>5. idom'[pos] = acc
  BY <1>1, <1>2, Facts
<1>6. Idoms'
  <2> SUFFICES ASSUME NEW b \in Blocks(f), idom'[b] # Nil
               PROVE  b # 0 /\ idom'[b] < b /\ Processed(idom[b])'
    BY DEF Idoms
  <2>1. CASE b = pos
    BY <1>2, <1>3, <1>4, <1>5, <2>1 DEF Processed
  <2>2. CASE b # pos
    <3>1. idom'[b] = idom[b]
      BY <1>1, <2>2, Facts
    <3>2. b # 0 /\ idom[b] < b /\ Processed(idom[b]) /\ idom[b] \in Blocks(f)
      BY <3>1, Facts DEF IInv, Idoms
    <3>3. QED
      BY <1>4, <3>1, <3>2 DEF Processed
  <2>3. QED
    BY <2>1, <2>2
<1>7. Visited'
  <2>1. pos' \in 1 .. f.n
    BY <1>1, <1>2, Facts
  <2>2. ASSUME NEW c \in 0 .. pos
        PROVE  Processed(c)'
    <3>1. c = pos \/ (c \in 0 .. pos - 1 /\ c \in Blocks(f))
      BY <1>1, <1>2, Facts
    <3>2. QED
      BY <1>1, <1>3, <1>4, <1>5, <3>1 DEF IInv, Visited, Processed
  <2>3. QED
    BY <1>1, <1>2, <2>1, <2>2 DEF Visited
<1>8. AccOK'
  <2>1. ASSUME pos + 1 < f.n, NEW j \in DOMAIN f.pred[pos + 1]
        PROVE  ~(j < 1)
    <3>1. pos + 1 \in Blocks(f)
      BY <1>2, <2>1, Facts
    <3>2. f.pred[pos + 1] \in Seq(Blocks(f))
      BY <3>1, Facts, Shape
    <3>3. QED
      BY <2>1, <3>2
  <2>2. QED
    BY <1>1, <2>1 DEF AccOK
<1>9. TypeOK'
  <2>1. idom' \in [Blocks(f) -> Blocks(f) \cup {Nil}] /\ changed' \in BOOLEAN
    BY <1>1, <1>3, Facts
  <2>2. pos' \in 0 .. f.n /\ k' \in Nat \ {0} /\ acc' \in -1 .. f.n
    BY <1>1, <1>2, Facts DEF Nil
  <2>3. QED
    BY <1>1, <2>1, <2>2 DEF IInv, TypeOK
<1>10. NoPanic' /\ ClimbOK' /\ FronOK'
  BY <1>1 DEF NoPanic, ClimbOK, FronOK
<1>11. QED
  BY <1>6, <1>7, <1>8, <1>9, <1>10 DEF IInv

LEMMA NoneSeen ==              \* at k = 1 no predecessor has been seen
  ASSUME IInv, NEW b \in Blocks(f), NEW j \in DOMAIN f.pred[b]
  PROVE  ~(j < 1)
<1>1. f.pred[b] \in Seq(Blocks(f))
  BY Facts, Shape
<1>2. QED
  BY <1>1

LEMMA EndSweepStep ==
  ASSUME IInv, EndSweep, UNCHANGED f
  PROVE  IInv'
<1>1. /\ pc = "preds" /\ pc' \in {"preds", "link"}
      /\ UNCHANGED <<idom, dom, dlink, fron, k, acc, b1, b2>>
      /\ changed' \in BOOLEAN
      /\ \/ pos' = 1 /\ pc' = "preds"
         \/ pos' = 0 /\ pc' = "link"
  BY DEF EndSweep, IInv, TypeOK
<1>2. pos' \in 0 .. f.n /\ (pc' = "preds" => pos' \in 1 .. f.n)
  BY <1>1, Facts
<1>3. TypeOK' /\ NoPanic' /\ Idoms' /\ ClimbOK' /\ FronOK'
  BY <1>1, <1>2 DEF IInv, TypeOK, NoPanic, Idoms, ClimbOK, FronOK, Processed
<1>4. Visited'
  <2>1. pc' = "preds" => \A c \in 0 .. pos' - 1 : c = 0
    BY <1>1
  <2>2. QED
    BY <1>1, <1>2, <2>1 DEF Visited, Processed
<1>5. AccOK'
  <2>1. k = 1 /\ (acc # Nil => acc \in Blocks(f) /\ Processed(acc))
    BY <1>1, Facts DEF EndSweep, IInv, AccOK
  <2>2. pos' < f.n => pos' \in Blocks(f)
    BY <1>2, Facts
  <2>3. QED
    BY <1>1, <2>1, <2>2, NoneSeen DEF AccOK, Processed
<1>6. QED
  BY <1>3, <1>4, <1>5 DEF IInv

LEMMA LinkStep ==
  ASSUME IInv, Link, UNCHANGED f
  PROVE  IInv'
<1>1. /\ pc = "link" /\ pos < f.n /\ pos' = pos + 1
      /\ UNCHANGED <<idom, fron, k, acc, b1, b2, changed, pc>>
  BY DEF Link
<1>2. pos' \in 0 .. f.n /\ pos \in Blocks(f)
  BY <1>1, Facts
<1>3. /\ dom' \in [Blocks(f) -> Blocks(f) \cup {Nil}]
      /\ dlink' \in [Blocks(f) -> Blocks(f) \cup {Nil}]
  <2>1. /\ dom \in [Blocks(f) -> Blocks(f) \cup {Nil}]
        /\ dlink \in [Blocks(f) -> Blocks(f) \cup {Nil}]
        /\ idom[pos] \in Blocks(f) \cup {Nil}
    BY <1>2, Facts DEF IInv, TypeOK
  <2>2. CASE idom[pos] = Nil
    BY <2>1, <2>2 DEF Link
  <2>3. CASE idom[pos] # Nil
    BY <1>2, <2>1, <2>3 DEF Link
  <2>4. QED
    BY <2>2, <2>3
<1>4. TypeOK'
  BY <1>1, <1>2, <1>3 DEF IInv, TypeOK
<1>5. NoPanic' /\ Idoms' /\ Visited' /\ AccOK' /\ ClimbOK' /\ FronOK'
  BY <1>1 DEF IInv, NoPanic, Idoms, Visited, AccOK, ClimbOK, FronOK, Processed
<1>6. QED
  BY <1>4, <1>5 DEF IInv

LEMMA StartFronStep ==
  ASSUME IInv, StartFron, UNCHANGED f
  PROVE  IInv'
<1>1. /\ pos' = 0 /\ k' = 1 /\ b1' = 0 /\ pc' = "fron"
      /\ UNCHANGED <<idom, dom, dlink, fron, acc, b2, changed>>
  BY DEF StartFron
<1>2. pos' \in 0 .. f.n /\ b1' \in -1 .. f.n /\ b1' \in Blocks(f)
  BY <1>1, Facts
<1>3. TypeOK'
  BY <1>1, <1>2 DEF IInv, TypeOK
<1>4. NoPanic' /\ Idoms' /\ Visited' /\ AccOK' /\ ClimbOK' /\ FronOK'
  BY <1>1, <1>2 DEF IInv, NoPanic, Idoms, Visited, AccOK, ClimbOK, FronOK, Processed
<1>5. QED
  BY <1>3, <1>4 DEF IInv

LEMMA AddFronStep ==
  ASSUME IInv, AddFron, UNCHANGED f
  PROVE  IInv'
<1>1. /\ pc = "fron" /\ pos < f.n /\ b1 # Nil /\ Succ # Nil /\ b1' = idom[b1]
      /\ UNCHANGED <<idom, dom, dlink, pos, k, acc, b2, changed, pc>>
  BY DEF AddFron, Crawling
<1>2. b1 \in Blocks(f) /\ k \in {1, 2}
  BY <1>1 DEF IInv, FronOK
<1>3. Succ \in Blocks(f)
  BY <1>1, Facts, Shape DEF Succ
<1>4. b1' \in Blocks(f) \cup {Nil} /\ b1' \in -1 .. f.n
  BY <1>1, <1>2, Facts DEF Nil
<1>5. fron' \in [Blocks(f) -> Seq(Blocks(f))]
  <2>1. fron \in [Blocks(f) -> Seq(Blocks(f))]
    BY DEF IInv, TypeOK
  <2>2. Append(fron[b1], Succ) \in Seq(Blocks(f))
    BY <1>2, <1>3, <2>1
  <2>3. QED
    BY <1>2, <2>1, <2>2 DEF AddFron
<1>6. TypeOK'
  BY <1>1, <1>4, <1>5 DEF IInv, TypeOK
<1>7. NoPanic' /\ Idoms' /\ Visited' /\ AccOK' /\ ClimbOK' /\ FronOK'
  BY <1>1, <1>2, <1>4 DEF IInv, NoPanic, Idoms, Visited, AccOK, ClimbOK, FronOK, Processed
<1>8. QED
  BY <1>6, <1>7 DEF IInv

LEMMA NextEdgeStep ==
  ASSUME IInv, NextEdge, UNCHANGED f
  PROVE  IInv'
<1>1. /\ pc = "fron" /\ pos < f.n
      /\ UNCHANGED <<idom, dom, dlink, fron, acc, b2, changed, pc>>
      /\ \/ k' = 2 /\ b1' = pos /\ pos' = pos
         \/ k' = 1 /\ b1' = pos + 1 /\ pos' = pos + 1
  BY DEF NextEdge
<1>2. /\ k' \in {1, 2} /\ k' \in Nat \ {0} /\ pos' \in 0 .. f.n
      /\ b1' \in -1 .. f.n /\ (pos' < f.n => b1' \in Blocks(f))
  BY <1>1, Facts
<1>3. TypeOK'
  BY <1>1, <1>2 DEF IInv, TypeOK
<1>4. NoPanic' /\ Idoms' /\ Visited' /\ AccOK' /\ ClimbOK' /\ FronOK'
  BY <1>1, <1>2 DEF IInv, NoPanic, Idoms, Visited, AccOK, ClimbOK, FronOK, Processed
<1>5. QED
  BY <1>3, <1>4 DEF IInv

LEMMA FinishStep ==
  ASSUME IInv, Finish, UNCHANGED f
  PROVE  IInv'
<1>1. /\ pc = "fron" /\ pc' = "done"
      /\ UNCHANGED <<idom, dom, dlink, fron, pos, k, acc, b1, b2, changed>>
  BY DEF Finish
<1>2. TypeOK'
  BY <1>1 DEF IInv, TypeOK
<1>3. NoPanic' /\ Idoms' /\ Visited' /\ AccOK' /\ ClimbOK' /\ FronOK'
  BY <1>1 DEF IInv, NoPanic, Idoms, Visited, AccOK, ClimbOK, FronOK, Processed
<1>4. QED
  BY <1>2, <1>3 DEF IInv

LEMMA Stutter ==
  ASSUME IInv, UNCHANGED vars
  PROVE  IInv'
BY DEF vars, domVars, IInv, TypeOK, NoPanic, Idoms, Visited, AccOK, ClimbOK, FronOK, Processed

LEMMA IStep == IInv /\ [Next]_vars => IInv'
BY SkipPredStep, IntersectStep, Climb1Step, Climb2Step, MetStep, SetIdomStep,
   EndSweepStep, LinkStep, StartFronStep, AddFronStep, NextEdgeStep, FinishStep,
   Stutter DEF Next, Step

(***************************************************************************)
(* IInvariant: the invariant holds in every reachable state.               *)
(***************************************************************************)
THEOREM IInvariant == Spec => []IInv
BY InitReady, ReadyIInv, IStep, PTL DEF Spec

(***************************************************************************)
(* TypeCorrect: Idom, Dom, DLink and Fron only ever point to blocks of the *)
(* function.                                                               *)
(***************************************************************************)
THEOREM TypeCorrect == Spec => []TypeOK
<1>1. IInv => TypeOK
  BY DEF IInv
<1>2. QED
  BY IInvariant, <1>1, PTL

(***************************************************************************)
(* NeverPanics: no climb of intersect (dom.go:64, dom.go:67) dereferences  *)
(* a nil Idom, in any function that FillRPO and FillPreds have prepared.   *)
(***************************************************************************)
THEOREM NeverPanics == Spec => []NoPanic
<1>1. IInv => NoPanic
  BY DEF IInv
<1>2. QED
  BY IInvariant, <1>1, PTL

-----------------------------------------------------------------------------
(***************************************************************************)
(* StaysInside.  The head of a region is its smallest block, so a climb    *)
(* that stops at a block of the region never starts from the head.  What   *)
(* the climb holds, when the block visited is in the region, is in it too. *)
(***************************************************************************)
Visiting == pc \in {"preds", "climb1", "climb2", "met"}
Climbing == pc \in {"climb1", "climb2", "met"}

AccReset == Visiting /\ pos >= f.n => acc = Nil

Held ==
  \A a \in Blocks(f) : \A S \in SUBSET Blocks(f) :
    Region(a, S) /\ Visiting /\ pos \in S \ {a} =>
      /\ acc # Nil => acc \in S
      /\ Climbing => b1 \in S /\ b2 \in S

RInv == AccReset /\ Held /\ StaysInside

LEMMA HeadLeast ==
  ASSUME IInv, NEW a \in Blocks(f), NEW S \in SUBSET Blocks(f), Region(a, S),
         NEW b \in S
  PROVE  a <= b
<1> SUFFICES ASSUME b < a PROVE FALSE
  BY Facts
<1> DEFINE T == {c \in S : c < a}
<1>1. T \subseteq Nat /\ T # {}
  BY Facts
<1>2. PICK m \in T : \A c \in T : m <= c
  <2> HIDE DEF T
  <2>1. QED
    BY <1>1, LeastNat
<1>3. m \in S \ {a} /\ m # 0 /\ m \in Blocks(f)
  BY Facts DEF Region
<1>4. PICK j \in DOMAIN f.pred[m] : f.pred[m][j] < m
  BY <1>3 DEF IInv, TypeOK, Prepared, InOrder
<1>5. f.pred[m][j] \in S
  BY <1>3, <1>4 DEF Region
<1>6. f.pred[m][j] \in T
  BY <1>3, <1>4, <1>5, Facts
<1>7. QED
  BY <1>2, <1>3, <1>4, <1>6, Facts

LEMMA ReadyRInv == Ready => RInv
<1> SUFFICES ASSUME Ready PROVE RInv
  OBVIOUS
<1>1. Start /\ IInv
  BY ReadyIInv DEF Ready
<1>2. AccReset /\ Held
  BY <1>1 DEF Start, AccReset, Held, Climbing
<1>3. StaysInside
  <2> SUFFICES ASSUME NEW a \in Blocks(f), NEW S \in SUBSET Blocks(f), Region(a, S),
                      NEW b \in S \ {a}
               PROVE  ~Processed(b)
    BY DEF StaysInside
  <2>1. b # 0 /\ b \in Blocks(f)
    BY DEF Region
  <2>2. QED
    BY <1>1, <2>1 DEF Start, Processed
<1>4. QED
  BY <1>2, <1>3 DEF RInv

\* A climb from b, above another block of the region, stays in the region.
LEMMA ClimbInside ==
  ASSUME IInv, RInv, NEW a \in Blocks(f), NEW S \in SUBSET Blocks(f), Region(a, S),
         NEW b \in S, NEW c \in S, b > c, Processed(b)
  PROVE  idom[b] \in S
<1>1. a <= c
  BY HeadLeast
<1>2. b # a
  BY <1>1, Facts
<1>3. QED
  BY <1>2 DEF RInv, StaysInside

\* An action that leaves Idom alone leaves StaysInside alone.
LEMMA SameIdoms ==
  ASSUME RInv, UNCHANGED <<f, idom>>
  PROVE  StaysInside'
BY DEF RInv, StaysInside, Region, Processed

LEMMA IntersectInside ==
  ASSUME IInv, RInv, Intersect, UNCHANGED f
  PROVE  AccReset' /\ Held'
<1>1. /\ pc = "preds" /\ pos < f.n /\ k \in DOMAIN f.pred[pos]
      /\ UNCHANGED pos
  BY Facts DEF Intersect, Pending
<1>2. ASSUME NEW a \in Blocks(f), NEW S \in SUBSET Blocks(f), Region(a, S), pos \in S \ {a}
      PROVE  /\ acc' # Nil => acc' \in S
             /\ Climbing' => b1' \in S /\ b2' \in S
  <2>1. f.pred[pos][k] \in S
    BY <1>1, <1>2 DEF Region
  <2>2. acc # Nil => acc \in S
    BY <1>1, <1>2 DEF RInv, Held, Visiting
  <2>3. CASE acc = Nil
    BY <1>1, <2>1, <2>3 DEF Intersect, Climbing
  <2>4. CASE acc # Nil
    BY <2>1, <2>2, <2>4 DEF Intersect
  <2>5. QED
    BY <2>3, <2>4
<1>3. Held'
  BY <1>1, <1>2 DEF Held, Region
<1>4. AccReset'
  BY <1>1, Facts DEF AccReset
<1>5. QED
  BY <1>3, <1>4

LEMMA ClimbsInside ==
  ASSUME IInv, RInv, Climb1 \/ Climb2, UNCHANGED f
  PROVE  AccReset' /\ Held'
<1>1. /\ Climbing /\ Visiting /\ pos < f.n /\ UNCHANGED <<pos, acc>>
      /\ b1 \in Blocks(f) /\ Processed(b1) /\ b2 \in Blocks(f) /\ Processed(b2)
  BY DEF IInv, ClimbOK, Climb1, Climb2, Climbing, Visiting
<1>2. ASSUME NEW a \in Blocks(f), NEW S \in SUBSET Blocks(f), Region(a, S), pos \in S \ {a}
      PROVE  /\ acc' # Nil => acc' \in S
             /\ b1' \in S /\ b2' \in S
  <2>1. (acc # Nil => acc \in S) /\ b1 \in S /\ b2 \in S
    BY <1>1, <1>2 DEF RInv, Held
  <2>2. b1 > b2 => idom[b1] \in S
    BY <1>1, <1>2, <2>1, ClimbInside
  <2>3. b2 > b1 => idom[b2] \in S
    BY <1>1, <1>2, <2>1, ClimbInside
  <2>4. QED
    BY <1>1, <2>1, <2>2, <2>3 DEF Climb1, Climb2
<1>3. Held'
  BY <1>1, <1>2 DEF Held, Region
<1>4. AccReset'
  BY <1>1, Facts DEF AccReset
<1>5. QED
  BY <1>3, <1>4

LEMMA MetInside ==
  ASSUME IInv, RInv, Met, UNCHANGED f
  PROVE  AccReset' /\ Held'
<1>1. /\ Climbing /\ Visiting /\ pos < f.n /\ UNCHANGED pos
      /\ acc' = b1 /\ pc' = "preds"
  BY DEF IInv, ClimbOK, Met, Climbing, Visiting
<1>2. Held'
  BY <1>1 DEF RInv, Held, Region, Climbing
<1>3. AccReset'
  BY <1>1, Facts DEF AccReset
<1>4. QED
  BY <1>2, <1>3

LEMMA SetIdomInside ==
  ASSUME IInv, RInv, SetIdom, UNCHANGED f
  PROVE  RInv'
<1>1. /\ pc = "preds" /\ Visiting /\ pos < f.n /\ pos \in Blocks(f)
      /\ idom' = [idom EXCEPT ![pos] = acc] /\ acc' = Nil /\ pc' = "preds"
  BY Facts DEF SetIdom, Visiting
<1>2. AccReset' /\ Held'
  BY <1>1 DEF AccReset, Held, Climbing
<1>3. ASSUME NEW a \in Blocks(f), NEW S \in SUBSET Blocks(f), Region(a, S),
             NEW b \in S \ {a}, Processed(b)'
      PROVE  idom'[b] \in S
  <2>0. b # 0 /\ b \in Blocks(f)
    BY <1>3 DEF Region
  <2>1. CASE b = pos
    <3>1. idom'[b] = acc
      BY <1>1, <2>1, Facts
    <3>2. acc # Nil
      BY <1>3, <2>0, <3>1 DEF Processed
    <3>3. QED
      BY <1>1, <1>3, <2>1, <3>1, <3>2 DEF RInv, Held
  <2>2. CASE b # pos
    <3>1. idom'[b] = idom[b]
      BY <1>1, <2>0, <2>2, Facts
    <3>2. Processed(b)
      BY <1>3, <3>1 DEF Processed
    <3>3. QED
      BY <1>3, <3>1, <3>2 DEF RInv, StaysInside
  <2>3. QED
    BY <2>1, <2>2
<1>4. StaysInside'
  BY <1>3 DEF StaysInside, Region
<1>5. QED
  BY <1>2, <1>4 DEF RInv

LEMMA EndSweepInside ==
  ASSUME IInv, RInv, EndSweep, UNCHANGED f
  PROVE  AccReset' /\ Held'
<1>1. pc = "preds" /\ pos >= f.n /\ UNCHANGED acc /\ pc' \in {"preds", "link"}
  BY DEF EndSweep
<1>2. acc' = Nil
  BY <1>1 DEF RInv, AccReset, Visiting
<1>3. QED
  BY <1>1, <1>2 DEF AccReset, Held, Climbing

LEMMA RStep ==
  ASSUME IInv, RInv, [Next]_vars
  PROVE  RInv'
<1>1. CASE SkipPred /\ UNCHANGED f
  <2>1. UNCHANGED <<f, idom, pos, acc, b1, b2, pc>>
    BY <1>1 DEF SkipPred
  <2>2. AccReset' /\ Held'
    BY <2>1 DEF RInv, AccReset, Held, Visiting, Climbing, Region
  <2>3. QED
    BY <2>1, <2>2, SameIdoms DEF RInv
<1>2. CASE Intersect /\ UNCHANGED f
  <2>1. UNCHANGED idom
    BY <1>2 DEF Intersect
  <2>2. QED
    BY <1>2, <2>1, IntersectInside, SameIdoms DEF RInv
<1>3. CASE (Climb1 \/ Climb2) /\ UNCHANGED f
  <2>1. UNCHANGED idom
    BY <1>3 DEF Climb1, Climb2
  <2>2. QED
    BY <1>3, <2>1, ClimbsInside, SameIdoms DEF RInv
<1>4. CASE Met /\ UNCHANGED f
  <2>1. UNCHANGED idom
    BY <1>4 DEF Met
  <2>2. QED
    BY <1>4, <2>1, MetInside, SameIdoms DEF RInv
<1>5. CASE SetIdom /\ UNCHANGED f
  BY <1>5, SetIdomInside
<1>6. CASE EndSweep /\ UNCHANGED f
  <2>1. UNCHANGED idom
    BY <1>6 DEF EndSweep
  <2>2. QED
    BY <1>6, <2>1, EndSweepInside, SameIdoms DEF RInv
<1>7. CASE (Link \/ StartFron \/ AddFron \/ NextEdge \/ Finish) /\ UNCHANGED f
  <2>1. UNCHANGED idom /\ pc' \in {"link", "fron", "done"}
    BY <1>7 DEF Link, StartFron, AddFron, NextEdge, Finish
  <2>2. AccReset' /\ Held'
    BY <2>1 DEF AccReset, Held, Visiting
  <2>3. QED
    BY <1>7, <2>1, <2>2, SameIdoms DEF RInv
<1>8. CASE UNCHANGED vars
  BY <1>8 DEF vars, domVars, RInv, AccReset, Held, StaysInside, Visiting, Climbing,
              Region, Processed
<1>9. QED
  BY <1>1, <1>2, <1>3, <1>4, <1>5, <1>6, <1>7, <1>8 DEF Next, Step

(***************************************************************************)
(* NeverLeaves: the Idom of a block never points above a dominator of it,  *)
(* at any moment of the iteration (dom.go:25-45), in any function in       *)
(* reverse post-order.                                                     *)
(***************************************************************************)
THEOREM NeverLeaves == Spec => []StaysInside
<1>1. IInv /\ RInv /\ [Next]_vars => RInv'
  BY RStep
<1>2. RInv => StaysInside
  BY DEF RInv
<1>3. QED
  BY InitReady, ReadyRInv, IInvariant, <1>1, <1>2, PTL DEF Spec

-----------------------------------------------------------------------------
(***************************************************************************)
(* What FillDom and FillFron compute: the immediate dominators             *)
(* (IdomRight), the lists of children (TreeRight) and the dominance        *)
(* frontiers (FronRight).                                                  *)
(*                                                                         *)
(* Above(a, b) says that Idoms lead from b to a.  A sweep that changes     *)
(* nothing has seen that every Idom is above all of the block's            *)
(* predecessors; then no path goes round an Idom, so what is above a block *)
(* dominates it.  Conversely StaysInside, which holds all along, keeps     *)
(* every dominator of a block above it.  The lists are right because the   *)
(* blocks are linked in order, the frontiers because each edge adds its    *)
(* target to every block from its source up to the target's dominators.    *)
(***************************************************************************)

UpClosed(U) == \A c \in U : idom[c] # Nil => idom[c] \in U

Above(a, b) == \A U \in SUBSET Blocks(f) : UpClosed(U) /\ b \in U => a \in U

Fits(c) == \A j \in DOMAIN f.pred[c] : Processed(f.pred[c][j]) => Above(idom[c], f.pred[c][j])

SeenAbove ==
  Visiting /\ pos < f.n =>
    \A j \in DOMAIN f.pred[pos] :
      j < k /\ Processed(f.pred[pos][j]) => Above(acc, f.pred[pos][j])

ClimbAbove == Climbing => Above(b1, acc) /\ Above(b2, f.pred[pos][k])

SweepFits == Visiting /\ ~changed => \A c \in 1 .. pos - 1 : Fits(c)

AllFit == ~Visiting => \A c \in Blocks(f) : Processed(c) /\ (c # 0 => Fits(c))

DInv == SeenAbove /\ ClimbAbove /\ SweepFits /\ AllFit

-----------------------------------------------------------------------------
LEMMA AboveSelf == \A b : Above(b, b)
BY DEF Above

LEMMA AboveTrans ==
  ASSUME NEW a, NEW b, NEW c, Above(a, b), Above(b, c)
  PROVE  Above(a, c)
BY DEF Above

LEMMA AboveIdom ==
  ASSUME NEW b, idom[b] # Nil
  PROVE  Above(idom[b], b)
BY DEF Above, UpClosed

\* Climbing: what is above b, and not b, is above its Idom.
LEMMA AboveStep ==
  ASSUME IInv, NEW a, NEW b \in Blocks(f), Above(a, b), a # b
  PROVE  idom[b] \in Blocks(f) /\ Above(a, idom[b])
<1>1. idom \in [Blocks(f) -> Blocks(f) \cup {Nil}] /\ Nil \notin Blocks(f)
  BY Facts
<1>2. idom[b] # Nil
  <2> SUFFICES ASSUME idom[b] = Nil PROVE FALSE
    OBVIOUS
  <2>1. UpClosed({b}) /\ {b} \in SUBSET Blocks(f)
    BY DEF UpClosed
  <2>2. QED
    BY <2>1 DEF Above
<1>3. idom[b] \in Blocks(f)
  BY <1>1, <1>2
<1>4. ASSUME NEW U \in SUBSET Blocks(f), UpClosed(U), idom[b] \in U
      PROVE  a \in U
  <2>1. UpClosed(U \cup {b}) /\ U \cup {b} \in SUBSET Blocks(f)
    BY <1>4 DEF UpClosed
  <2>2. QED
    BY <2>1 DEF Above
<1>5. QED
  BY <1>3, <1>4 DEF Above

LEMMA AboveSmaller ==
  ASSUME IInv, NEW a, NEW b \in Blocks(f), Above(a, b)
  PROVE  a \in Blocks(f) /\ a <= b
<1> DEFINE U == {c \in Blocks(f) : c <= b}
<1>1. UpClosed(U)
  <2> SUFFICES ASSUME NEW c \in U, idom[c] # Nil PROVE idom[c] \in U
    BY DEF UpClosed
  <2>1. idom[c] \in Blocks(f) /\ idom[c] < c
    BY Facts DEF IInv, Idoms
  <2>2. QED
    BY <2>1, Facts
<1>2. b \in U
  BY Facts
<1> HIDE DEF U
<1>3. a \in U
  <2>1. U \in SUBSET Blocks(f)
    BY DEF U
  <2>2. QED
    BY <1>1, <1>2, <2>1 DEF Above
<1>4. QED
  BY <1>3 DEF U

\* An action that leaves Idom alone leaves Above and Fits alone.
LEMMA SameAbove ==
  ASSUME UNCHANGED <<f, idom>>
  PROVE  /\ \A a, b : Above(a, b)' <=> Above(a, b)
         /\ \A b : Fits(b)' <=> Fits(b)
         /\ \A b : Processed(b)' <=> Processed(b)
<1>1. \A a, b : Above(a, b)' <=> Above(a, b)
  BY DEF Above, UpClosed
<1>2. QED
  BY <1>1 DEF Fits, Processed

-----------------------------------------------------------------------------
LEMMA ReadyDInv == Ready => DInv
<1> SUFFICES ASSUME Ready PROVE DInv
  OBVIOUS
<1>1. Start /\ IInv
  BY ReadyIInv DEF Ready
<1>2. SeenAbove
  <2> SUFFICES ASSUME pos < f.n, NEW j \in DOMAIN f.pred[pos] PROVE ~(j < k)
    BY DEF SeenAbove
  <2>1. pos \in Blocks(f) /\ k = 1
    BY <1>1, Facts DEF Start
  <2>2. QED
    BY <1>1, <2>1, NoneSeen
<1>3. ClimbAbove /\ SweepFits /\ AllFit
  BY <1>1 DEF Start, ClimbAbove, Climbing, SweepFits, AllFit, Visiting
<1>4. QED
  BY <1>2, <1>3 DEF DInv

LEMMA SkipPredFits ==
  ASSUME IInv, DInv, SkipPred, UNCHANGED f
  PROVE  DInv'
<1>1. /\ pc = "preds" /\ pos < f.n /\ ~Processed(f.pred[pos][k]) /\ k' = k + 1
      /\ UNCHANGED <<idom, pos, acc, b1, b2, changed, pc>>
  BY DEF SkipPred, Pending
<1>2. SeenAbove'
  <2> SUFFICES ASSUME NEW j \in DOMAIN f.pred[pos], j < k + 1, Processed(f.pred[pos][j])
               PROVE  Above(acc, f.pred[pos][j])
    BY <1>1, SameAbove DEF SeenAbove, Visiting
  <2>1. j < k
    BY <1>1, Facts
  <2>2. QED
    BY <1>1, <2>1 DEF DInv, SeenAbove, Visiting
<1>3. ClimbAbove' /\ SweepFits' /\ AllFit'
  BY <1>1, SameAbove DEF DInv, ClimbAbove, Climbing, SweepFits, AllFit, Visiting
<1>4. QED
  BY <1>2, <1>3 DEF DInv

LEMMA IntersectFits ==
  ASSUME IInv, DInv, Intersect, UNCHANGED f
  PROVE  DInv'
<1>1. /\ pc = "preds" /\ pos < f.n /\ k \in DOMAIN f.pred[pos]
      /\ Processed(f.pred[pos][k])
      /\ UNCHANGED <<idom, pos, changed>> /\ pc' \in {"preds", "climb1"}
  BY Facts DEF Intersect, Pending
<1>2. SweepFits' /\ AllFit'
  BY <1>1, SameAbove DEF DInv, SweepFits, AllFit, Visiting
<1>3. CASE acc = Nil
  <2>1. acc' = f.pred[pos][k] /\ k' = k + 1 /\ pc' = "preds"
    BY <1>1, <1>3 DEF Intersect
  <2>2. ASSUME NEW j \in DOMAIN f.pred[pos], j < k + 1, Processed(f.pred[pos][j])
        PROVE  Above(f.pred[pos][k], f.pred[pos][j])
    <3>1. ~(j < k)
      BY <1>1, <1>3, <2>2 DEF IInv, AccOK
    <3>2. j = k
      BY <1>1, <2>2, <3>1, Facts
    <3>3. QED
      BY <3>2, AboveSelf
  <2>3. SeenAbove' /\ ClimbAbove'
    BY <1>1, <2>1, <2>2, SameAbove DEF SeenAbove, ClimbAbove, Climbing, Visiting
  <2>4. QED
    BY <1>2, <2>3 DEF DInv
<1>4. CASE acc # Nil
  <2>1. b1' = acc /\ b2' = f.pred[pos][k] /\ UNCHANGED <<acc, k>>
    BY <1>4 DEF Intersect
  <2>2. ClimbAbove'
    BY <1>1, <2>1, SameAbove, AboveSelf DEF ClimbAbove
  <2>3. SeenAbove'
    BY <1>1, <2>1, SameAbove DEF DInv, SeenAbove, Visiting
  <2>4. QED
    BY <1>2, <2>2, <2>3 DEF DInv
<1>5. QED
  BY <1>3, <1>4

LEMMA ClimbFits ==
  ASSUME IInv, DInv, Climb1 \/ Climb2, UNCHANGED f
  PROVE  DInv'
<1>1. /\ Climbing /\ Visiting /\ UNCHANGED <<idom, pos, k, acc, changed>>
      /\ b1 \in Blocks(f) /\ Processed(b1) /\ b2 \in Blocks(f) /\ Processed(b2)
      /\ Above(b1, acc) /\ Above(b2, f.pred[pos][k])
  BY DEF IInv, DInv, ClimbOK, ClimbAbove, Climb1, Climb2, Climbing, Visiting
<1>2. Above(b1', acc) /\ Above(b2', f.pred[pos][k]) /\ pc' \in {"climb1", "climb2", "met"}
  <2>1. b1 > b2 => idom[b1] # Nil /\ Above(idom[b1], b1)
    BY <1>1, Climb, AboveIdom
  <2>2. b2 > b1 => idom[b2] # Nil /\ Above(idom[b2], b2)
    BY <1>1, Climb, AboveIdom
  <2>3. QED
    BY <1>1, <2>1, <2>2, AboveTrans DEF Climb1, Climb2
<1>3. ClimbAbove' /\ Visiting'
  BY <1>1, <1>2, SameAbove DEF ClimbAbove, Visiting
<1>4. SeenAbove' /\ SweepFits' /\ AllFit'
  BY <1>1, <1>3, SameAbove DEF DInv, SeenAbove, SweepFits, AllFit
<1>5. QED
  BY <1>3, <1>4 DEF DInv

LEMMA MetFits ==
  ASSUME IInv, DInv, Met, UNCHANGED f
  PROVE  DInv'
<1>1. /\ Climbing /\ Visiting /\ acc' = b1 /\ k' = k + 1 /\ pc' = "preds"
      /\ UNCHANGED <<idom, pos, changed>> /\ b1 = b2 /\ pos < f.n
  BY DEF IInv, ClimbOK, Met, Climbing, Visiting
<1>2. SeenAbove'
  <2> SUFFICES ASSUME NEW j \in DOMAIN f.pred[pos], j < k + 1, Processed(f.pred[pos][j])
               PROVE  Above(b1, f.pred[pos][j])
    BY <1>1, SameAbove DEF SeenAbove
  <2>1. Above(b1, acc) /\ Above(b1, f.pred[pos][k])
    BY <1>1 DEF DInv, ClimbAbove
  <2>2. CASE j < k
    BY <1>1, <2>1, <2>2, AboveTrans DEF DInv, SeenAbove
  <2>3. CASE j = k
    BY <2>1, <2>3
  <2>4. j \in Nat
    <3>1. f.pred[pos] \in Seq(Blocks(f))
      BY <1>1, Facts
    <3>2. QED
      BY <3>1
  <2>5. QED
    BY <2>2, <2>3, <2>4, Facts
<1>3. ClimbAbove' /\ SweepFits' /\ AllFit'
  BY <1>1, SameAbove DEF DInv, ClimbAbove, Climbing, SweepFits, AllFit, Visiting
<1>4. QED
  BY <1>2, <1>3 DEF DInv

(***************************************************************************)
(* A block that is given the Idom it has fits: all of Pred has been seen.  *)
(***************************************************************************)
LEMMA SetIdomFits ==
  ASSUME IInv, DInv, SetIdom, UNCHANGED f
  PROVE  DInv'
<1>1. /\ pc = "preds" /\ Visiting /\ pos < f.n /\ pos \in Blocks(f) /\ pos # 0
      /\ ~(k <= Len(f.pred[pos]))
      /\ idom' = [idom EXCEPT ![pos] = acc]
      /\ changed' = (changed \/ acc # idom[pos])
      /\ pos' = pos + 1 /\ k' = 1 /\ pc' = "preds"
  BY Facts DEF SetIdom, Pending, Visiting, IInv, Visited
<1>2. IInv'
  BY SetIdomStep
<1>3. SeenAbove'
  <2>1. ASSUME pos + 1 < f.n, NEW j \in DOMAIN f.pred[pos + 1]
        PROVE  ~(j < 1)
    <3>1. pos + 1 \in Blocks(f)
      BY <1>1, <2>1, Facts
    <3>2. QED
      BY <3>1, NoneSeen
  <2>2. QED
    BY <1>1, <2>1 DEF SeenAbove
<1>4. ClimbAbove' /\ AllFit'
  BY <1>1 DEF ClimbAbove, Climbing, AllFit, Visiting
<1>5. SweepFits'
  <2>0. pos' - 1 = pos
    BY <1>1, Facts
  <2> SUFFICES ASSUME ~changed', NEW c \in 1 .. pos PROVE Fits(c)'
    BY <2>0 DEF SweepFits
  <2>1. acc = idom[pos] /\ ~changed
    BY <1>1 DEF IInv, TypeOK
  <2>2. idom' = idom
    BY <1>1, <2>1, Facts
  <2>3. Fits(c)
    <3>1. CASE c = pos
      <4>1. ASSUME NEW j \in DOMAIN f.pred[pos] PROVE j < k
        <5>1. f.pred[pos] \in Seq(Blocks(f))
          BY <1>1, Facts
        <5>2. QED
          BY <1>1, <5>1, Facts
      <4>2. QED
        BY <1>1, <2>1, <3>1, <4>1 DEF Fits, DInv, SeenAbove
    <3>2. CASE c # pos
      <4>1. c \in 1 .. pos - 1
        BY <1>1, <3>2, Facts
      <4>2. QED
        BY <1>1, <2>1, <4>1 DEF DInv, SweepFits
    <3>3. QED
      BY <3>1, <3>2
  <2>4. QED
    BY <2>2, <2>3, SameAbove
<1>6. QED
  BY <1>3, <1>4, <1>5 DEF DInv

LEMMA EndSweepFits ==
  ASSUME IInv, DInv, EndSweep, UNCHANGED f
  PROVE  DInv'
<1>1. /\ pc = "preds" /\ Visiting /\ pos >= f.n /\ k = 1
      /\ UNCHANGED <<idom, k, acc>>
      /\ \/ changed /\ pos' = 1 /\ pc' = "preds"
         \/ ~changed /\ pc' = "link"
  BY DEF EndSweep, Visiting, IInv, AccOK
<1>2. SeenAbove'
  <2> SUFFICES ASSUME pos' = 1, 1 < f.n, NEW j \in DOMAIN f.pred[1], j < 1 PROVE FALSE
    BY <1>1 DEF SeenAbove, Visiting
  <2>1. 1 \in Blocks(f)
    BY Facts
  <2>2. QED
    BY <2>1, NoneSeen
<1>3. ClimbAbove' /\ SweepFits'
  BY <1>1 DEF ClimbAbove, Climbing, SweepFits, Visiting
<1>4. AllFit'
  <2> SUFFICES ASSUME ~changed, NEW c \in Blocks(f) PROVE Processed(c) /\ (c # 0 => Fits(c))
    BY <1>1, SameAbove DEF AllFit, Visiting
  <2>1. c \in 0 .. pos - 1 /\ (c # 0 => c \in 1 .. pos - 1)
    BY <1>1, Facts
  <2>2. QED
    BY <1>1, <2>1 DEF DInv, SweepFits, IInv, Visited
<1>5. QED
  BY <1>2, <1>3, <1>4 DEF DInv

LEMMA DStep ==
  ASSUME IInv, DInv, [Next]_vars
  PROVE  DInv'
<1>1. CASE (Link \/ StartFron \/ AddFron \/ NextEdge \/ Finish) /\ UNCHANGED f
  <2>1. UNCHANGED idom /\ ~Visiting /\ ~Visiting' /\ ~Climbing'
    BY <1>1 DEF Link, StartFron, AddFron, NextEdge, Finish, Visiting, Climbing
  <2>2. QED
    BY <1>1, <2>1, SameAbove DEF DInv, SeenAbove, ClimbAbove, SweepFits, AllFit
<1>2. CASE UNCHANGED vars
  <2>1. UNCHANGED <<f, idom, pos, k, acc, b1, b2, changed, pc>>
    BY <1>2 DEF vars, domVars
  <2>2. QED
    BY <2>1, SameAbove DEF DInv, SeenAbove, ClimbAbove, SweepFits, AllFit, Visiting, Climbing
<1>3. QED
  BY <1>1, <1>2, SkipPredFits, IntersectFits, ClimbFits, MetFits, SetIdomFits, EndSweepFits
     DEF Next, Step

THEOREM DInvariant == Spec => []DInv
<1>1. IInv /\ DInv /\ [Next]_vars => DInv'
  BY DStep
<1>2. QED
  BY InitReady, ReadyDInv, IInvariant, <1>1, PTL DEF Spec

-----------------------------------------------------------------------------
(***************************************************************************)
(* After the last sweep, what is above a block is what dominates it.       *)
(***************************************************************************)
LEMMA PredIsSource ==
  ASSUME IInv, NEW b \in Blocks(f), NEW p \in Blocks(f), b \in Succs(f, p)
  PROVE  \E j \in DOMAIN f.pred[b] : f.pred[b][j] = p
<1>1. p \in Elems(f.pred[b])
  BY DEF IInv, TypeOK, Prepared, PredsRight
<1>2. QED
  BY <1>1 DEF Elems

LEMMA AboveIsDom ==
  ASSUME IInv, DInv, ~Visiting, NEW d, NEW b \in Blocks(f), Above(d, b)
  PROVE  Dom(d, b)
<1> SUFFICES ASSUME d # 0, d # b PROVE b \notin ReachIn(f, 0, Blocks(f) \ {d})
  BY DEF Dom
<1> DEFINE W == Blocks(f) \ {d}
           S == {c \in Blocks(f) : ~Above(d, c)}
<1>1. 0 \in S
  <2>1. Above(d, 0) => d \in Blocks(f) /\ d <= 0
    BY Facts, AboveSmaller
  <2>2. QED
    BY <2>1, Facts
<1>2. ASSUME NEW c \in S, NEW s \in Succs(f, c) \cap W
      PROVE  s \in S
  <2>1. CASE s = 0
    BY <1>1, <2>1
  <2>2. CASE s # 0
    <3>1. Above(idom[s], c)
      <4>1. PICK j \in DOMAIN f.pred[s] : f.pred[s][j] = c
        BY <1>2, PredIsSource
      <4>2. QED
        BY <1>2, <2>2, <4>1 DEF DInv, AllFit, Fits
    <3>2. ASSUME Above(d, s) PROVE FALSE
      <4>1. Above(d, idom[s])
        BY <1>2, <3>2, AboveStep
      <4>2. QED
        BY <1>2, <3>1, <4>1, AboveTrans
    <3>3. QED
      BY <1>2, <3>2
  <2>3. QED
    BY <2>1, <2>2
<1>3. ReachIn(f, 0, W) \subseteq S
  <2>1. f.n \in Nat
    BY Facts
  <2> HIDE DEF S, W
  <2>2. QED
    BY <1>1, <1>2, <2>1, ReachLeast
<1>4. QED
  BY <1>3

\* Idoms, followed down from a member of U, stay in S until a, the head of S.
LEMMA HeadAbove ==
  ASSUME IInv, NEW a \in Blocks(f), NEW S \in SUBSET Blocks(f),
         \A c \in S \ {a} : idom[c] # Nil /\ idom[c] \in S,
         NEW b \in S
  PROVE  Above(a, b)
<1> SUFFICES ASSUME NEW U \in SUBSET Blocks(f), UpClosed(U), b \in U PROVE a \in U
  BY DEF Above
<1> DEFINE T == U \cap S
<1>1. PICK m \in T : \A c \in T : m <= c
  <2>1. T \in SUBSET Nat /\ T # {}
    BY Facts
  <2> HIDE DEF T
  <2>2. QED
    BY <2>1, LeastNat
<1>2. CASE m = a
  BY <1>1, <1>2
<1>3. CASE m # a
  <2>1. idom[m] \in T
    BY <1>1, <1>3 DEF UpClosed
  <2>2. idom[m] < m
    BY <1>1, <1>3 DEF IInv, Idoms
  <2>3. QED
    BY <1>1, <2>1, <2>2, Facts
<1>4. QED
  BY <1>2, <1>3

LEMMA DomIsAbove ==
  ASSUME IInv, DInv, StaysInside, ~Visiting,
         NEW a \in Blocks(f), NEW b \in Blocks(f), Dom(a, b)
  PROVE  Above(a, b)
<1>0. \A c \in Blocks(f) : idom[c] \in Blocks(f) \cup {Nil} /\ (c # 0 => idom[c] # Nil)
  BY Facts DEF DInv, AllFit, Processed
<1>1. CASE a = 0
  <2>1. Blocks(f) \in SUBSET Blocks(f) /\ \A c \in Blocks(f) \ {a} : idom[c] # Nil /\ idom[c] \in Blocks(f)
    BY <1>0, <1>1
  <2>2. QED
    BY <2>1, HeadAbove
<1>2. CASE a = b
  BY <1>2, AboveSelf
<1>3. CASE a # 0 /\ b \notin ReachIn(f, 0, Blocks(f) \ {a})
  <2> DEFINE W == Blocks(f) \ {a}
             R == ReachIn(f, 0, W)
             S == Blocks(f) \ R
  <2>1. /\ 0 \in R /\ \A c \in R : Succs(f, c) \cap W \subseteq R
        /\ R \subseteq {0} \cup W
    <3>1. f.n \in Nat \ {0} /\ f.n \in Nat /\ 0 \in Blocks(f) /\ W \in SUBSET Blocks(f)
      BY Facts
    <3> HIDE DEF W
    <3>2. QED
      BY <3>1, ReachClosed, ReachInside
  <2> HIDE DEF R
  <2>2. a \in S /\ b \in S
    BY <1>3, <2>1 DEF R
  <2>3. ASSUME NEW c \in S \ {a}, NEW j \in DOMAIN f.pred[c]
        PROVE  c # 0 /\ f.pred[c][j] \in S
    <3>1. c \in W /\ c # 0
      BY <2>1, <2>3
    <3>2. f.pred[c][j] \in Blocks(f) /\ c \in Succs(f, f.pred[c][j])
      BY DEF IInv, TypeOK, Prepared, PredsRight, Elems
    <3>3. QED
      BY <2>1, <2>3, <3>1, <3>2
  <2>4. Region(a, S)
    BY <2>1, <2>2, <2>3 DEF Region
  <2>5. \A c \in S \ {a} : idom[c] # Nil /\ idom[c] \in S
    <3>1. S \in SUBSET Blocks(f)
      OBVIOUS
    <3>2. \A c \in S \ {a} : c # 0 /\ Processed(c)
      BY <2>1 DEF DInv, AllFit
    <3>3. \A c \in S \ {a} : idom[c] \in S
      BY <2>4, <3>1, <3>2 DEF StaysInside
    <3>4. QED
      BY <3>2, <3>3 DEF Processed
  <2>6. QED
    BY <2>2, <2>5, HeadAbove
<1>4. QED
  BY <1>1, <1>2, <1>3 DEF Dom

LEMMA Climbs ==                  \* the tree below Start is the dominator tree
  ASSUME IInv, DInv, StaysInside, ~Visiting
  PROVE  IdomRight
<1>1. idom[0] = Nil
  BY Facts DEF IInv, Idoms
<1>2. ASSUME NEW b \in Blocks(f) \ {0}
      PROVE  idom[b] \in StrictDoms(b) /\ \A a \in StrictDoms(b) : Dom(a, idom[b])
  <2>1. idom[b] # Nil /\ idom[b] \in Blocks(f)
    BY <1>2, Facts DEF DInv, AllFit, Processed
  <2>2. idom[b] # b /\ Dom(idom[b], b)
    <3>1. Above(idom[b], b)
      BY <2>1, AboveIdom
    <3>2. QED
      BY <1>2, <2>1, <3>1, Facts, AboveIsDom DEF IInv, Idoms
  <2>3. ASSUME NEW a \in StrictDoms(b)
        PROVE  Dom(a, idom[b])
    <3>1. a \in Blocks(f) /\ a # b /\ Dom(a, b)
      BY DEF StrictDoms
    <3>2. Above(a, b)
      BY <1>2, <3>1, DomIsAbove
    <3>3. Above(a, idom[b])
      BY <1>2, <3>1, <3>2, AboveStep
    <3>4. QED
      BY <2>1, <3>3, AboveIsDom
  <2>4. QED
    BY <2>1, <2>2, <2>3 DEF StrictDoms
<1>3. QED
  BY <1>1, <1>2 DEF IdomRight

LEMMA IdomsRight == IInv /\ DInv /\ StaysInside => IdomRight
<1>1. Visiting => IdomRight
  BY DEF Visiting, IdomRight
<1>2. QED
  BY <1>1, Climbs

(***************************************************************************)
(* ImmediateDominators: when the iteration of FillDom stops (dom.go:25),   *)
(* the Idom of every block is its closest strict dominator, by the         *)
(* definition over paths, whatever the loops of the function.              *)
(***************************************************************************)
THEOREM ImmediateDominators == Spec => []IdomRight
BY IInvariant, DInvariant, NeverLeaves, IdomsRight, PTL

-----------------------------------------------------------------------------
(***************************************************************************)
(* TreeRight.  Blocks are linked in order, so Dom is the last child linked *)
(* and DLink of a child the one linked before it.                          *)
(***************************************************************************)
LastBefore(d, m, v) ==            \* v: the last block before m whose Idom is d
  \/ v = Nil /\ \A c \in 0 .. m - 1 : idom[c] # d
  \/ v \in 0 .. m - 1 /\ idom[v] = d /\ \A c \in v + 1 .. m - 1 : idom[c] # d

Linked == IF pc = "link" THEN pos ELSE IF Visiting THEN 0 ELSE f.n

TInv ==
  /\ \A d \in Blocks(f) : LastBefore(d, Linked, dom[d])
  /\ \A b \in 0 .. Linked - 1 : idom[b] # Nil => LastBefore(idom[b], b, dlink[b])

LEMMA LinkTree ==
  ASSUME IInv, TInv, Link, UNCHANGED f
  PROVE  TInv'
<1>1. /\ pc = "link" /\ pos < f.n /\ pos' = pos + 1 /\ UNCHANGED <<idom, pc>>
      /\ pos \in Blocks(f) /\ pos \in Nat
      /\ dom \in [Blocks(f) -> Blocks(f) \cup {Nil}]
      /\ dlink \in [Blocks(f) -> Blocks(f) \cup {Nil}]
  BY Facts DEF Link, IInv, TypeOK
<1>2. Linked = pos /\ Linked' = pos + 1
  BY <1>1 DEF Linked
<1>3. /\ \A d \in Blocks(f) : LastBefore(d, pos, dom[d])
      /\ \A b \in 0 .. pos - 1 : idom[b] # Nil => LastBefore(idom[b], b, dlink[b])
  BY <1>2 DEF TInv
<1>5. ASSUME NEW d \in Blocks(f)
      PROVE  LastBefore(d, pos + 1, dom'[d])
  <2>1. CASE idom[pos] = d
    <3>1. dom'[d] = pos
      BY <1>1, <2>1, Facts DEF Link
    <3>2. QED
      BY <1>1, <2>1, <3>1 DEF LastBefore
  <2>2. CASE idom[pos] # d
    <3>1. dom'[d] = dom[d]
      BY <1>1, <2>2, Facts DEF Link
    <3>2. \A c \in 0 .. pos : c \in 0 .. pos - 1 \/ c = pos
      BY <1>1
    <3>3. LastBefore(d, pos, dom[d])
      BY <1>3
    <3>4. QED
      BY <1>1, <2>2, <3>1, <3>2, <3>3 DEF LastBefore
  <2>3. QED
    BY <2>1, <2>2
<1>6. ASSUME NEW b \in 0 .. pos, idom[b] # Nil
      PROVE  LastBefore(idom[b], b, dlink'[b])
  <2>1. b \in Blocks(f) /\ idom[b] \in Blocks(f)
    BY <1>1, <1>6, Facts
  <2>2. CASE b = pos
    <3>1. dlink'[b] = dom[idom[b]]
      BY <1>1, <1>6, <2>2 DEF Link
    <3>2. QED
      BY <1>3, <2>1, <2>2, <3>1
  <2>3. CASE b # pos
    <3>1. dlink'[b] = dlink[b]
      <4>1. CASE idom[pos] = Nil
        BY <4>1 DEF Link
      <4>2. CASE idom[pos] # Nil
        BY <1>1, <2>1, <2>3, <4>2 DEF Link
      <4>3. QED
        BY <4>1, <4>2
    <3>2. QED
      BY <1>1, <1>3, <1>6, <2>3, <3>1
  <2>4. QED
    BY <2>2, <2>3
<1>7. \A d, m, v : LastBefore(d, m, v)' <=> LastBefore(d, m, v)
  BY <1>1 DEF LastBefore
<1>8. pos + 1 - 1 = pos
  BY <1>1
<1>9. QED
  BY <1>1, <1>2, <1>5, <1>6, <1>8 DEF TInv, LastBefore

LEMMA TStep ==
  ASSUME IInv, TInv, [Next]_vars
  PROVE  TInv'
<1>1. CASE (SkipPred \/ Intersect \/ Climb1 \/ Climb2 \/ Met \/ SetIdom \/ EndSweep) /\ UNCHANGED f
  <2>0. pc' # "panic"
    BY <1>1, SkipPredStep, IntersectStep, Climb1Step, Climb2Step, MetStep, SetIdomStep,
       EndSweepStep DEF IInv, NoPanic
  <2>1. /\ Visiting /\ UNCHANGED dom
        /\ Visiting' \/ (pc' = "link" /\ pos' = 0)
    BY <1>1, <2>0 DEF SkipPred, Intersect, Climb1, Climb2, Met, SetIdom, EndSweep, Visiting
  <2>2. Linked = 0 /\ Linked' = 0
    BY <2>1 DEF Linked, Visiting
  <2>3. \A d \in Blocks(f) : dom[d] = Nil
    BY <2>2 DEF TInv, LastBefore
  <2>4. QED
    BY <1>1, <2>1, <2>2, <2>3 DEF TInv, LastBefore
<1>2. CASE Link /\ UNCHANGED f
  BY <1>2, LinkTree
<1>3. CASE (StartFron \/ AddFron \/ NextEdge \/ Finish) /\ UNCHANGED f
  <2>1. UNCHANGED <<idom, dom, dlink>> /\ Linked = f.n /\ Linked' = f.n
    BY <1>3, Facts DEF StartFron, AddFron, NextEdge, Finish, Linked, Visiting
  <2>2. QED
    BY <1>3, <2>1 DEF TInv, LastBefore
<1>4. CASE UNCHANGED vars
  BY <1>4 DEF vars, domVars, TInv, LastBefore, Linked, Visiting
<1>5. QED
  BY <1>1, <1>2, <1>3, <1>4 DEF Next, Step

LEMMA ReadyTInv == Ready => TInv
BY DEF Ready, Start, TInv, LastBefore, Linked, Visiting

THEOREM TInvariant == Spec => []TInv
<1>1. Init => TInv
  BY InitReady, ReadyTInv
<1>2. IInv /\ TInv /\ [Next]_vars => TInv'
  BY TStep
<1>3. QED
  BY IInvariant, <1>1, <1>2, PTL DEF Spec

-----------------------------------------------------------------------------
\* The walk TreeRight speaks of.
LEMMA ListingDef ==
  ASSUME IInv, NEW d \in Blocks(f)
  PROVE  Listing(d) = [i \in 0 .. f.n |->
                         IF i = 0 THEN dom[d]
                         ELSE IF Listing(d)[i - 1] = Nil THEN Nil ELSE dlink[Listing(d)[i - 1]]]
<1> DEFINE V == Blocks(f) \cup {Nil}
           F == [i \in 1 .. f.n |-> [w \in V |-> IF w = Nil THEN Nil ELSE dlink[w]]]
           n == f.n
           v == dom[d]
<1>1. F \in [1 .. n -> [V -> V]] /\ v \in V /\ n \in Nat
  BY Facts DEF IInv, TypeOK
<1>2. PICK h : Follows(h, n, V, v, F)
  <2> HIDE DEF V, F, n, v
  <2>1. QED
    BY <1>1, Recursion
<1>3. h = [i \in 0 .. f.n |->
             IF i = 0 THEN dom[d] ELSE IF h[i - 1] = Nil THEN Nil ELSE dlink[h[i - 1]]]
  <2>1. ASSUME NEW i \in 1 .. f.n
        PROVE  h[i] = IF h[i - 1] = Nil THEN Nil ELSE dlink[h[i - 1]]
    <3>1. h[i - 1] \in V
      BY <1>1, <1>2 DEF Follows
    <3>2. QED
      BY <1>1, <1>2, <3>1 DEF Follows
  <2>2. QED
    BY <1>2, <2>1 DEF Follows
<1>4. QED
  BY <1>3 DEF Listing

LEMMA WalkRight ==
  ASSUME IInv, TInv, pc = "done", NEW d \in Blocks(f), NEW i \in 0 .. f.n
  PROVE  LET stop == Listing(d) IN
         /\ stop[i] \in Blocks(f) \cup {Nil}
         /\ stop[i] # Nil => idom[stop[i]] = d /\ stop[i] <= f.n - 1 - i
         /\ \A b \in Blocks(f) :
              idom[b] = d => (\E j \in 0 .. i : stop[j] = b) \/ (stop[i] # Nil /\ b < stop[i])
         /\ \A j \in 0 .. i - 1 : stop[i] # Nil => stop[j] # Nil /\ stop[i] < stop[j]
<1> DEFINE stop == Listing(d)
           Right(m) ==
             /\ stop[m] \in Blocks(f) \cup {Nil}
             /\ stop[m] # Nil => idom[stop[m]] = d /\ stop[m] <= f.n - 1 - m
             /\ \A b \in Blocks(f) :
                  idom[b] = d => (\E j \in 0 .. m : stop[j] = b) \/ (stop[m] # Nil /\ b < stop[m])
             /\ \A j \in 0 .. m - 1 : stop[m] # Nil => stop[j] # Nil /\ stop[m] < stop[j]
           Bad == {m \in 0 .. f.n : ~Right(m)}
<1>1. stop = [m \in 0 .. f.n |->
                IF m = 0 THEN dom[d] ELSE IF stop[m - 1] = Nil THEN Nil ELSE dlink[stop[m - 1]]]
  BY ListingDef
<1> HIDE DEF stop
<1>2. Linked = f.n /\ f.n \in Nat \ {0} /\ Blocks(f) = 0 .. f.n - 1 /\ Nil \notin Blocks(f)
  BY Facts DEF Linked, Visiting
<1>3. ASSUME Bad # {} PROVE FALSE
  <2>1. PICK m \in Bad : \A j \in Bad : m <= j
    <3>1. Bad \in SUBSET Nat
      OBVIOUS
    <3> HIDE DEF Bad
    <3>2. QED
      BY <1>3, <3>1, LeastNat
  <2>2. m \in 0 .. f.n /\ ~Right(m)
    BY <2>1
  <2>3. CASE m = 0
    <3>1. stop[0] = dom[d] /\ LastBefore(d, f.n, stop[0])
      BY <1>1, <1>2 DEF TInv
    <3>2. CASE stop[0] = Nil /\ \A c \in 0 .. f.n - 1 : idom[c] # d
      <4>1. stop[m] = Nil /\ \A b \in Blocks(f) : idom[b] # d
        BY <1>2, <2>3, <3>2
      <4>2. QED
        BY <2>2, <4>1, Zenon
    <3>3. CASE stop[0] # Nil
      <4>1. /\ stop[0] \in 0 .. f.n - 1 /\ idom[stop[0]] = d
            /\ \A c \in stop[0] + 1 .. f.n - 1 : idom[c] # d
        BY <3>1, <3>3 DEF LastBefore
      <4>2. \A b \in Blocks(f) : idom[b] = d => b = stop[0] \/ b < stop[0]
        BY <1>2, <4>1
      <4>3. stop[0] \in Blocks(f) /\ stop[0] <= f.n - 1 /\ 0 \in 0 .. 0
        BY <1>2, <4>1
      <4>4. \A j \in 0 .. m - 1 : FALSE
        BY <2>3
      <4>5. stop[m] \in Blocks(f) /\ idom[stop[m]] = d /\ stop[m] <= f.n - 1 - m /\ m \in 0 .. m
        BY <1>2, <2>3, <4>1, <4>3
      <4>6. \A b \in Blocks(f) :
              idom[b] = d => (\E j \in 0 .. m : stop[j] = b) \/ (stop[m] # Nil /\ b < stop[m])
        BY <2>3, <3>3, <4>2, <4>5, Zenon
      <4>7. Right(m)
        BY <4>4, <4>5, <4>6, Zenon
      <4> HIDE DEF Right
      <4>8. QED
        BY <2>2, <4>7
    <3>4. Nil \notin 0 .. f.n - 1
      BY <1>2, Zenon
    <3>5. QED
      BY <3>1, <3>2, <3>3, <3>4, Zenon DEF LastBefore
  <2>4. CASE m # 0
    <3> DEFINE w == stop[m - 1]
    <3>1. m - 1 \in 0 .. f.n /\ ~(m <= m - 1) /\ m \in Nat /\ m - 1 \in Nat
      BY <1>2, <2>2, <2>4
    <3>2. Right(m - 1)
      BY <2>1, <3>1
    <3>3. stop[m] = IF w = Nil THEN Nil ELSE dlink[w]
      BY <1>1, <2>2, <2>4
    <3>4. CASE w = Nil
      <4>1. stop[m] = Nil
        BY <3>3, <3>4
      <4>2. \A b \in Blocks(f) : idom[b] = d => \E j \in 0 .. m : stop[j] = b
        <5>1. \A j \in 0 .. m - 1 : j \in 0 .. m
          BY <3>1
        <5>2. QED
          BY <3>2, <3>4, <5>1
      <4>3. QED
        BY <2>2, <4>1, <4>2
    <3>5. CASE w # Nil
      <4>1. w \in Blocks(f) /\ idom[w] = d /\ w <= f.n - 1 - (m - 1)
        BY <3>2, <3>5
      <4>2. LastBefore(d, w, stop[m])
        BY <1>2, <3>3, <3>5, <4>1 DEF TInv
      <4>3. stop[m] # Nil => stop[m] \in 0 .. w - 1 /\ idom[stop[m]] = d
        BY <4>2 DEF LastBefore
      <4>4. /\ stop[m] \in Blocks(f) \cup {Nil}
            /\ stop[m] # Nil => idom[stop[m]] = d /\ stop[m] <= f.n - 1 - m
        BY <1>2, <3>1, <4>1, <4>3
      <4>5. ASSUME NEW b \in Blocks(f), idom[b] = d
            PROVE  (\E j \in 0 .. m : stop[j] = b) \/ (stop[m] # Nil /\ b < stop[m])
        <5>1. CASE \E j \in 0 .. m - 1 : stop[j] = b
          <6>1. \A j \in 0 .. m - 1 : j \in 0 .. m
            BY <3>1
          <6>2. QED
            BY <5>1, <6>1
        <5>2. CASE b < w
          <6>1. b \in 0 .. w - 1
            BY <1>2, <4>1, <5>2
          <6>2. stop[m] # Nil /\ b <= stop[m]
            BY <1>2, <4>1, <4>2, <4>5, <6>1, SMTT(30) DEF LastBefore
          <6>3. stop[m] \in Blocks(f) /\ m \in 0 .. m
            BY <3>1, <4>4, <6>2
          <6>4. QED
            BY <1>2, <6>2, <6>3
        <5>3. QED
          BY <3>2, <4>5, <5>1, <5>2
      <4>6. ASSUME NEW j \in 0 .. m - 1, stop[m] # Nil
            PROVE  stop[j] # Nil /\ stop[m] < stop[j]
        <5>1. stop[m] < w
          BY <1>2, <4>1, <4>3, <4>6
        <5>2. CASE j = m - 1
          BY <3>5, <5>1, <5>2
        <5>3. CASE j # m - 1
          <6>1. j \in 0 .. (m - 1) - 1
            BY <3>1, <5>3
          <6>2. stop[j] # Nil /\ w < stop[j]
            BY <3>2, <3>5, <6>1
          <6>3. stop[j] \in Blocks(f)
            <7>1. j \in 0 .. f.n /\ ~(m <= j)
              BY <1>2, <2>2, <3>1
            <7>2. Right(j)
              BY <2>1, <7>1
            <7>3. QED
              BY <6>2, <7>2
          <6>4. QED
            BY <1>2, <4>1, <4>4, <4>6, <5>1, <6>2, <6>3
        <5>4. QED
          BY <5>2, <5>3
      <4>7. Right(m)
        BY <4>4, <4>5, <4>6
      <4>8. QED
        BY <2>2, <4>7
    <3>6. QED
      BY <3>4, <3>5
  <2>5. QED
    BY <2>3, <2>4
<1>4. Right(i)
  BY <1>3
<1>5. QED
  BY <1>4 DEF stop

LEMMA ListsRight == IInv /\ TInv => TreeRight
<1> SUFFICES ASSUME IInv, TInv, pc = "done", NEW d \in Blocks(f)
             PROVE  LET stop == Listing(d)
                        named == {i \in 0 .. f.n : stop[i] # Nil}
                    IN  /\ {stop[i] : i \in named} = {b \in Blocks(f) : idom[b] = d}
                        /\ \A i, j \in named : stop[i] = stop[j] => i = j
  BY DEF TreeRight
<1> DEFINE stop == Listing(d)
           named == {i \in 0 .. f.n : stop[i] # Nil}
<1>1. f.n \in Nat \ {0} /\ Blocks(f) = 0 .. f.n - 1 /\ f.n \in 0 .. f.n /\ Nil \notin Blocks(f)
  BY Facts
<1>2. \A i \in named : stop[i] \in Blocks(f) /\ idom[stop[i]] = d
  BY WalkRight
<1>3. stop[f.n] = Nil
  <2>1. /\ stop[f.n] \in Blocks(f) \cup {Nil}
        /\ stop[f.n] # Nil => stop[f.n] <= f.n - 1 - f.n
    BY <1>1, WalkRight
  <2>2. QED
    BY <1>1, <2>1
<1>4. ASSUME NEW b \in Blocks(f), idom[b] = d
      PROVE  \E i \in named : stop[i] = b
  <2>1. \E j \in 0 .. f.n : stop[j] = b
    BY <1>1, <1>3, <1>4, WalkRight, SMTT(30)
  <2>2. QED
    BY <1>1, <2>1
<1>5. ASSUME NEW i \in named, NEW j \in named, i < j
      PROVE  stop[i] # stop[j]
  <2>1. j \in 0 .. f.n /\ i \in 0 .. j - 1
    BY <1>1, <1>5
  <2>2. stop[j] < stop[i]
    BY <2>1, WalkRight
  <2>3. QED
    BY <1>1, <1>2, <2>2
<1>6. \A i, j \in named : stop[i] = stop[j] => i = j
  <2>1. \A i, j \in named : i < j \/ j < i \/ i = j
    BY <1>1
  <2>2. QED
    BY <1>5, <2>1
<1>7. QED
  BY <1>2, <1>4, <1>6

(***************************************************************************)
(* ChildrenListed: the lists of children that FillDom leaves (dom.go:48)   *)
(* and rename walks (ssa.go:190) name each block once, under its Idom.     *)
(***************************************************************************)
THEOREM ChildrenListed == Spec => []TreeRight
BY IInvariant, TInvariant, ListsRight, PTL

-----------------------------------------------------------------------------
(***************************************************************************)
(* IsSdom climbs the Idoms: it tells what is above a block.                *)
(***************************************************************************)
SAbove(a, b) == a # b /\ Above(a, b)

Up(a) ==
  LET up[c \in Blocks(f) \cup {Nil}] == IF c = Nil \/ c <= a THEN c ELSE up[idom[c]]
  IN  up

Solves(h, a, m) ==               \* h is Up(a) below m
  /\ h \in [Blocks(f) \cup {Nil} -> Blocks(f) \cup {Nil}]
  /\ \A c \in Blocks(f) \cup {Nil} :
       c < m => h[c] = IF c = Nil \/ c <= a THEN c ELSE h[idom[c]]

LEMMA UpDef ==
  ASSUME IInv, NEW a \in Blocks(f)
  PROVE  Up(a) = [c \in Blocks(f) \cup {Nil} |-> IF c = Nil \/ c <= a THEN c ELSE Up(a)[idom[c]]]
<1> DEFINE V == Blocks(f) \cup {Nil}
           At(h, c) == IF c = Nil \/ c <= a THEN c ELSE h[idom[c]]
           Good(m) == \E h : Solves(h, a, m)
           Bad == {m \in 0 .. f.n : ~Good(m)}
<1>1. /\ V = -1 .. f.n - 1 /\ f.n \in Nat \ {0} /\ Nil = -1 /\ Blocks(f) = 0 .. f.n - 1
      /\ \A c \in Blocks(f) : idom[c] \in V /\ idom[c] < c
  <2>1. f.n \in Nat \ {0} /\ Blocks(f) = 0 .. f.n - 1 /\ Nil = -1
    BY Facts DEF Nil
  <2>2. ASSUME NEW c \in Blocks(f)
        PROVE  idom[c] \in V /\ idom[c] < c
    BY <2>1, Facts DEF IInv, Idoms
  <2>3. QED
    BY <2>1, <2>2
<1> HIDE DEF V
<1>2. ASSUME Bad # {} PROVE FALSE
  <2>1. PICK m \in Bad : \A j \in Bad : m <= j
    <3>1. Bad \in SUBSET Nat
      OBVIOUS
    <3> HIDE DEF Bad
    <3>2. QED
      BY <1>2, <3>1, LeastNat
  <2>2. CASE m = 0
    <3> DEFINE h == [c \in V |-> c]
    <3>1. h \in [V -> V] /\ \A c \in V : c < 0 => h[c] = At(h, c)
      BY <1>1
    <3>2. Solves(h, a, 0)
      BY <3>1 DEF Solves, V
    <3>3. QED
      BY <2>1, <2>2, <3>2
  <2>3. CASE m # 0
    <3> DEFINE l == m - 1
    <3>1. l \in 0 .. f.n /\ ~(m <= l) /\ l \in Blocks(f) /\ l \in V /\ m \in Nat
      BY <1>1, <2>1, <2>3
    <3>2. Good(l)
      BY <2>1, <3>1
    <3>3. PICK h : Solves(h, a, l)
      BY <3>2
    <3>4. h \in [V -> V] /\ \A c \in V : c < l => h[c] = At(h, c)
      BY <3>3 DEF Solves, V
    <3> DEFINE e == [h EXCEPT ![l] = At(h, l)]
    <3>5. At(h, l) \in V
      BY <1>1, <3>1, <3>4
    <3>6. e \in [V -> V]
      BY <3>4, <3>5
    <3>7. ASSUME NEW c \in V, c < m
          PROVE  e[c] = At(e, c)
      <4>1. CASE c = l
        BY <1>1, <3>1, <3>4, <4>1
      <4>2. CASE c # l
        <5>1. c < l
          BY <1>1, <3>1, <3>7, <4>2
        <5>2. e[c] = At(h, c)
          BY <3>4, <4>2, <5>1
        <5>3. c # Nil => idom[c] # l /\ c \in Blocks(f)
          BY <1>1, <3>1, <5>1
        <5>4. QED
          BY <1>1, <3>4, <5>2, <5>3
      <4>3. QED
        BY <4>1, <4>2
    <3> HIDE DEF e
    <3>8. Solves(e, a, m)
      BY <3>6, <3>7 DEF Solves, V
    <3>9. QED
      BY <2>1, <3>8
  <2>4. QED
    BY <2>2, <2>3
<1>3. Good(f.n)
  BY <1>1, <1>2
<1>4. PICK h : Solves(h, a, f.n)
  BY <1>3
<1>5. h = [c \in V |-> At(h, c)]
  <2>1. h \in [V -> V] /\ \A c \in V : c < f.n => h[c] = At(h, c)
    BY <1>4 DEF Solves, V
  <2>2. QED
    BY <1>1, <2>1
<1>6. QED
  BY <1>5 DEF V, Up

LEMMA IsSdomMeans ==
  ASSUME IInv, NEW a \in Blocks(f), NEW s \in Blocks(f)
  PROVE  IsSdom(a, s) <=> SAbove(a, s)
<1> DEFINE up == Up(a)
           Bad == {c \in Blocks(f) : ~(up[c] = a <=> Above(a, c))}
<1>1. IsSdom(a, s) <=> a # s /\ up[s] = a
  BY DEF IsSdom, Up
<1>2. /\ f.n \in Nat \ {0} /\ Blocks(f) = 0 .. f.n - 1 /\ Nil \notin Blocks(f)
      /\ \A c \in Blocks(f) : idom[c] \in Blocks(f) \cup {Nil}
  BY Facts
<1>3. /\ \A c \in Blocks(f) : up[c] = IF c <= a THEN c ELSE up[idom[c]]
      /\ up[Nil] = Nil
  BY UpDef, <1>2
<1> HIDE DEF up
<1>4. ASSUME Bad # {} PROVE FALSE
  <2>1. PICK m \in Bad : \A j \in Bad : m <= j
    <3>1. Bad \in SUBSET Nat
      BY <1>2
    <3> HIDE DEF Bad
    <3>2. QED
      BY <1>4, <3>1, LeastNat
  <2>2. CASE m <= a
    <3>1. up[m] = m
      BY <1>3, <2>1, <2>2
    <3>2. Above(a, m) => a <= m
      BY <2>1, AboveSmaller
    <3>3. QED
      BY <1>2, <2>1, <2>2, <3>1, <3>2, AboveSelf
  <2>3. CASE ~(m <= a)
    <3>1. up[m] = up[idom[m]] /\ m # a
      BY <1>2, <1>3, <2>1, <2>3
    <3>2. CASE idom[m] = Nil
      <4>1. up[m] # a
        BY <1>2, <1>3, <3>1, <3>2
      <4>2. ~Above(a, m)
        BY <1>2, <2>1, <3>1, <3>2, AboveStep
      <4>3. QED
        BY <2>1, <4>1, <4>2
    <3>3. CASE idom[m] # Nil
      <4>1. idom[m] \in Blocks(f) /\ idom[m] < m
        BY <1>2, <2>1, <3>3 DEF IInv, Idoms
      <4>2. up[idom[m]] = a <=> Above(a, idom[m])
        BY <1>2, <2>1, <4>1
      <4>3. Above(a, m) <=> Above(a, idom[m])
        BY <2>1, <3>1, <3>3, AboveStep, AboveIdom, AboveTrans
      <4>4. QED
        BY <2>1, <3>1, <4>2, <4>3
    <3>4. QED
      BY <3>2, <3>3
  <2>4. QED
    BY <2>2, <2>3
<1>5. QED
  BY <1>1, <1>4 DEF SAbove

-----------------------------------------------------------------------------
(***************************************************************************)
(* FronRight.  The crawl from an edge adds the edge's target to everything *)
(* above its source, up to the first block strictly above the target; all  *)
(* that is above that one is strictly above the target too.                *)
(***************************************************************************)
Target(p, i) == IF i = 1 THEN f.s1[p] ELSE f.s2[p]

Crawled(p, i) == p < pos \/ (p = pos /\ i < k)

InFron(b, s) == s \in Elems(fron[b])

Sound ==
  \A b \in Blocks(f) : \A s \in Elems(fron[b]) :
    ~SAbove(b, s) /\ \E p \in Blocks(f) : s \in Succs(f, p) /\ Above(b, p)

NoDoubles == \A b \in Blocks(f) : \A i, j \in DOMAIN fron[b] : fron[b][i] = fron[b][j] => i = j

Complete ==
  \A p \in Blocks(f), i \in {1, 2}, b \in Blocks(f) :
    Crawled(p, i) /\ Target(p, i) # Nil /\ Above(b, p) /\ ~SAbove(b, Target(p, i))
      => InFron(b, Target(p, i))

Crawl ==
  pos < f.n =>
    /\ b1 # Nil => Above(b1, pos)
    /\ Succ # Nil => \A b \in Blocks(f) :
         Above(b, pos) /\ ~SAbove(b, Succ) => InFron(b, Succ) \/ (b1 # Nil /\ Above(b, b1))

FInv ==
  /\ pc \notin {"fron", "done"} => \A b \in Blocks(f) : fron[b] = <<>>
  /\ pc \in {"fron", "done"} => Sound /\ NoDoubles /\ Complete
  /\ pc = "fron" => Crawl
  /\ pc = "done" => pos >= f.n

LEMMA TargetMeans ==
  ASSUME IInv, NEW p \in Blocks(f), NEW s
  PROVE  s \in Succs(f, p) <=> s # Nil /\ \E i \in {1, 2} : Target(p, i) = s
BY DEF Target, Succs

LEMMA TargetBlock ==
  ASSUME IInv, NEW p \in Blocks(f), NEW i, Target(p, i) # Nil
  PROVE  Target(p, i) \in Blocks(f)
BY Facts, Shape DEF Target

LEMMA AddFronFron ==
  ASSUME IInv, FInv, AddFron, UNCHANGED f
  PROVE  FInv'
<1> DEFINE s == Succ
<1>1. /\ pc = "fron" /\ pos < f.n /\ b1 # Nil /\ s # Nil /\ ~IsSdom(b1, s)
      /\ b1' = idom[b1] /\ UNCHANGED <<f, idom, pos, k, pc>>
      /\ fron' = IF s \in Elems(fron[b1]) THEN fron
                 ELSE [fron EXCEPT ![b1] = Append(@, s)]
  BY DEF AddFron, Crawling
<1>2. /\ b1 \in Blocks(f) /\ pos \in Blocks(f) /\ k \in {1, 2}
      /\ fron \in [Blocks(f) -> Seq(Blocks(f))]
  BY <1>1, Facts DEF IInv, FronOK, TypeOK
<1>3. s = Target(pos, k) /\ s \in Blocks(f) /\ s \in Succs(f, pos)
  <2>1. s = Target(pos, k)
    BY <1>2 DEF Target, Succ
  <2>2. QED
    BY <1>1, <1>2, <2>1, TargetMeans, TargetBlock
<1>4. Sound /\ NoDoubles /\ Complete /\ Crawl
  BY <1>1 DEF FInv
<1>5. Above(b1, pos) /\ ~SAbove(b1, s)
  BY <1>1, <1>2, <1>3, <1>4, IsSdomMeans DEF Crawl
<1>6. /\ \A b \in Blocks(f) : b # b1 => fron'[b] = fron[b]
      /\ Elems(fron'[b1]) = Elems(fron[b1]) \cup {s}
  <2>1. CASE s \in Elems(fron[b1])
    BY <1>1, <2>1
  <2>2. CASE s \notin Elems(fron[b1])
    <3>1. fron'[b1] = Append(fron[b1], s) /\ \A b \in Blocks(f) : b # b1 => fron'[b] = fron[b]
      BY <1>1, <1>2, <2>2
    <3>2. fron[b1] \in Seq(Blocks(f))
      BY <1>2
    <3>3. Append(fron[b1], s) = fron[b1] \o <<s>> /\ <<s>> \in Seq(Blocks(f))
      BY <1>3, <3>2
    <3>4. Elems(<<s>>) = {s}
      BY DEF Elems
    <3> DEFINE l == fron[b1]
    <3> HIDE DEF l
    <3>5. Elems(l \o <<s>>) = Elems(l) \cup Elems(<<s>>)
      BY <3>2, <3>3, ElemsConcat DEF l
    <3>6. QED
      BY <3>1, <3>3, <3>4, <3>5 DEF l
  <2>3. QED
    BY <2>1, <2>2
<1> HIDE DEF s
<1>7. Sound'
  <2> SUFFICES ASSUME NEW b \in Blocks(f), NEW t \in Elems(fron'[b])
               PROVE  ~SAbove(b, t) /\ \E p \in Blocks(f) : t \in Succs(f, p) /\ Above(b, p)
    BY <1>1, SameAbove DEF Sound, SAbove, Succs, Blocks
  <2>1. CASE t \in Elems(fron[b])
    BY <1>4, <2>1 DEF Sound
  <2>2. CASE t \notin Elems(fron[b])
    <3>1. b = b1 /\ t = s
      BY <1>6, <2>2
    <3>2. QED
      BY <1>2, <1>3, <1>5, <3>1
  <2>3. QED
    BY <2>1, <2>2
<1>8. NoDoubles'
  <2> SUFFICES ASSUME NEW b \in Blocks(f), NEW i \in DOMAIN fron'[b], NEW j \in DOMAIN fron'[b],
                      fron'[b][i] = fron'[b][j]
               PROVE  i = j
    BY <1>1 DEF NoDoubles
  <2>1. CASE b # b1 \/ s \in Elems(fron[b1])
    BY <1>1, <1>2, <1>4, <1>6, <2>1 DEF NoDoubles
  <2>2. CASE b = b1 /\ s \notin Elems(fron[b1])
    <3> DEFINE l == fron[b1]
    <3>1. fron'[b] = Append(l, s) /\ l \in Seq(Blocks(f))
      BY <1>1, <1>2, <2>2
    <3>2. /\ DOMAIN fron'[b] = 1 .. Len(l) + 1 /\ fron'[b][Len(l) + 1] = s /\ Len(l) \in Nat
          /\ DOMAIN l = 1 .. Len(l) /\ \A m \in 1 .. Len(l) : fron'[b][m] = l[m]
      BY <1>3, <3>1
    <3>3. \A m \in 1 .. Len(l) : l[m] # s
      BY <2>2, <3>2 DEF Elems
    <3>4. \A m, o \in 1 .. Len(l) : l[m] = l[o] => m = o
      BY <1>2, <1>4, <3>2 DEF NoDoubles
    <3>5. QED
      BY <3>2, <3>3, <3>4, SMTT(30)
  <2>3. QED
    BY <2>1, <2>2
<1>9. \A b \in Blocks(f) : Elems(fron[b]) \subseteq Elems(fron'[b])
  BY <1>6
<1>10. Complete'
  <2>1. \A p, i : /\ Crawled(p, i)' <=> Crawled(p, i)
                  /\ Target(p, i)' = Target(p, i)
    BY <1>1 DEF Crawled, Target
  <2>2. QED
    BY <1>1, <1>4, <1>9, <2>1, SameAbove DEF Complete, SAbove, Blocks, InFron
<1>11. Crawl'
  <2>1. Succ' = s
    BY <1>1 DEF Succ, s
  <2>2. b1' # Nil => Above(b1', pos)
    BY <1>1, <1>5, AboveIdom, AboveTrans
  <2>3. ASSUME NEW b \in Blocks(f), Above(b, pos), ~SAbove(b, s)
        PROVE  s \in Elems(fron'[b]) \/ (b1' # Nil /\ Above(b, b1'))
    <3>1. InFron(b, s) \/ Above(b, b1)
      BY <1>1, <1>4, <2>3 DEF Crawl, s
    <3>2. CASE InFron(b, s)
      BY <1>9, <3>2 DEF InFron
    <3>3. CASE b = b1
      BY <1>6, <3>3
    <3>4. CASE Above(b, b1) /\ b # b1
      BY <1>1, <1>2, <3>4, AboveStep, Facts
    <3>5. QED
      BY <3>1, <3>2, <3>3, <3>4
  <2>4. QED
    BY <1>1, <2>1, <2>2, <2>3, SameAbove DEF Crawl, SAbove, Blocks, InFron
<1>12. QED
  BY <1>1, <1>7, <1>8, <1>10, <1>11 DEF FInv

LEMMA NextEdgeFron ==
  ASSUME IInv, FInv, NextEdge, UNCHANGED f
  PROVE  FInv'
<1> DEFINE s == Succ
<1>1. /\ pc = "fron" /\ pos < f.n /\ UNCHANGED <<f, idom, fron, pc>>
      /\ b1 = Nil \/ s = Nil \/ IsSdom(b1, s)
      /\ \/ k = 1 /\ k' = 2 /\ b1' = pos /\ pos' = pos
         \/ k # 1 /\ k' = 1 /\ b1' = pos + 1 /\ pos' = pos + 1
  BY DEF NextEdge, Crawling
<1>2. /\ b1 \in Blocks(f) \cup {Nil} /\ pos \in Blocks(f) /\ k \in {1, 2}
      /\ Blocks(f) \subseteq Nat /\ Nil \notin Blocks(f)
  BY <1>1, Facts DEF IInv, FronOK
<1>3. s = Target(pos, k)
  BY <1>2 DEF Target, Succ
<1>4. Sound /\ NoDoubles /\ Complete /\ Crawl
  BY <1>1 DEF FInv
<1>5. ASSUME NEW b \in Blocks(f), s # Nil, Above(b, pos), ~SAbove(b, s)
      PROVE  InFron(b, s)
  <2>1. s \in Blocks(f)
    BY <1>2, <1>3, <1>5, TargetBlock
  <2>2. InFron(b, s) \/ (b1 # Nil /\ Above(b, b1))
    BY <1>1, <1>4, <1>5 DEF Crawl
  <2>3. ASSUME b1 # Nil, Above(b, b1) PROVE FALSE
    <3>1. b1 \in Blocks(f) /\ SAbove(b1, s)
      BY <1>1, <1>2, <1>5, <2>1, <2>3, IsSdomMeans
    <3>2. b1 <= s /\ b1 # s /\ b <= b1
      BY <2>1, <2>3, <3>1, AboveSmaller DEF SAbove
    <3>3. Above(b, s) /\ b # s
      BY <1>2, <2>1, <2>3, <3>1, <3>2, AboveTrans DEF SAbove
    <3>4. QED
      BY <1>5, <3>3 DEF SAbove
  <2>4. QED
    BY <2>2, <2>3
<1> HIDE DEF s
<1>6. Complete'
  <2> SUFFICES ASSUME NEW p \in Blocks(f), NEW i \in {1, 2}, NEW b \in Blocks(f),
                      Crawled(p, i)', Target(p, i) # Nil, Above(b, p),
                      ~SAbove(b, Target(p, i))
               PROVE  InFron(b, Target(p, i))
    BY <1>1, SameAbove DEF Complete, SAbove, InFron, Target, Blocks
  <2>1. Crawled(p, i) \/ (p = pos /\ i = k)
    BY <1>1, <1>2 DEF Crawled
  <2>2. QED
    BY <1>3, <1>4, <1>5, <2>1 DEF Complete
<1>7. Crawl'
  <2>1. b1' = pos' /\ b1' # Nil
    BY <1>1, <1>2 DEF Nil
  <2>2. QED
    BY <1>1, <2>1, AboveSelf, SameAbove DEF Crawl
<1>8. Sound' /\ NoDoubles'
  BY <1>1, <1>4, SameAbove DEF Sound, NoDoubles, SAbove, Succs, Blocks
<1>9. QED
  BY <1>1, <1>6, <1>7, <1>8 DEF FInv

LEMMA StartFronFron ==
  ASSUME IInv, FInv, StartFron, UNCHANGED f
  PROVE  FInv'
<1>1. /\ pc = "link" /\ pos' = 0 /\ k' = 1 /\ b1' = 0 /\ pc' = "fron"
      /\ UNCHANGED <<f, idom, fron>>
  BY DEF StartFron
<1>2. \A b \in Blocks(f) : fron'[b] = <<>>
  BY <1>1 DEF FInv
<1>3. Sound' /\ NoDoubles'
  BY <1>1, <1>2 DEF Sound, NoDoubles, Elems
<1>4. \A p \in Blocks(f), i \in {1, 2} : ~Crawled(p, i)'
  BY <1>1, Facts DEF Crawled
<1>5. Complete'
  BY <1>1, <1>4 DEF Complete
<1>6. Crawl'
  BY <1>1, AboveSelf, SameAbove DEF Crawl, Nil
<1>7. QED
  BY <1>1, <1>3, <1>5, <1>6 DEF FInv

LEMMA FStep ==
  ASSUME IInv, FInv, [Next]_vars
  PROVE  FInv'
<1>1. CASE (SkipPred \/ Intersect \/ Climb1 \/ Climb2 \/ Met \/ SetIdom \/ EndSweep \/ Link)
           /\ UNCHANGED f
  <2>1. pc \notin {"fron", "done"} /\ pc' \notin {"fron", "done"} /\ UNCHANGED fron
    BY <1>1 DEF SkipPred, Intersect, Climb1, Climb2, Met, SetIdom, EndSweep, Link
  <2>2. QED
    BY <1>1, <2>1 DEF FInv
<1>2. CASE Finish /\ UNCHANGED f
  <2>1. UNCHANGED <<f, idom, fron, pos, k>> /\ pc' = "done" /\ pc = "fron" /\ pos >= f.n
    BY <1>2 DEF Finish
  <2>2. Sound' /\ NoDoubles' /\ Complete'
    BY <2>1, SameAbove
       DEF FInv, Sound, NoDoubles, Complete, SAbove, Crawled, Target, InFron, Succs, Blocks
  <2>3. QED
    BY <2>1, <2>2 DEF FInv
<1>3. CASE UNCHANGED vars
  <2>1. UNCHANGED <<f, idom, fron, pos, k, b1, pc>>
    BY <1>3 DEF vars, domVars
  <2>2. QED
    BY <2>1, SameAbove, SMTT(30) DEF FInv, Sound, NoDoubles, Complete, Crawl, SAbove, Crawled, Target,
       InFron, Succs, Blocks, Succ
<1>4. QED
  BY <1>1, <1>2, <1>3, StartFronFron, AddFronFron, NextEdgeFron DEF Next, Step

LEMMA ReadyFInv == Ready => FInv
BY DEF Ready, Start, FInv

THEOREM FInvariant == Spec => []FInv
<1>1. Init => FInv
  BY InitReady, ReadyFInv
<1>2. IInv /\ FInv /\ [Next]_vars => FInv'
  BY FStep
<1>3. QED
  BY IInvariant, <1>1, <1>2, PTL DEF Spec

LEMMA FronsRight == IInv /\ DInv /\ StaysInside /\ FInv => FronRight
<1> SUFFICES ASSUME IInv, DInv, StaysInside, FInv, pc = "done", NEW b \in Blocks(f)
             PROVE  /\ Elems(fron[b]) = {s \in Blocks(f) :
                           /\ \E p \in Blocks(f) : s \in Succs(f, p) /\ Dom(b, p)
                           /\ b \notin StrictDoms(s)}
                    /\ \A i, j \in DOMAIN fron[b] : fron[b][i] = fron[b][j] => i = j
  BY DEF FronRight
<1>1. ~Visiting /\ Sound /\ NoDoubles /\ Complete
  BY DEF FInv, Visiting
<1>2. \A c \in Blocks(f) : Dom(b, c) <=> Above(b, c)
  BY <1>1, AboveIsDom, DomIsAbove
<1>3. \A c \in Blocks(f) : b \in StrictDoms(c) <=> SAbove(b, c)
  BY <1>2 DEF StrictDoms, SAbove
<1>4. Elems(fron[b]) \subseteq Blocks(f)
  BY DEF IInv, TypeOK, Elems
<1>5. \A s \in Elems(fron[b]) : /\ \E p \in Blocks(f) : s \in Succs(f, p) /\ Dom(b, p)
                                /\ b \notin StrictDoms(s)
  BY <1>1, <1>2, <1>3, <1>4 DEF Sound
<1>6. ASSUME NEW s \in Blocks(f), NEW p \in Blocks(f), s \in Succs(f, p), Dom(b, p),
             b \notin StrictDoms(s)
      PROVE  s \in Elems(fron[b])
  <2>1. PICK i \in {1, 2} : Target(p, i) = s /\ s # Nil
    BY <1>6, TargetMeans
  <2>2. Crawled(p, i)
    BY Facts DEF FInv, Crawled
  <2>3. QED
    BY <1>1, <1>2, <1>3, <1>6, <2>1, <2>2 DEF Complete, InFron
<1>7. QED
  BY <1>1, <1>4, <1>5, <1>6 DEF NoDoubles

(***************************************************************************)
(* Frontiers: Fron, which insertPhis places phis by (ssa.go:118), is the   *)
(* dominance frontier by its definition, each block named once.            *)
(***************************************************************************)
THEOREM Frontiers == Spec => []FronRight
BY IInvariant, DInvariant, NeverLeaves, FInvariant, FronsRight, PTL

-----------------------------------------------------------------------------
(***************************************************************************)
(* All of it, for whoever calls FillDom and FillFron on a function that is *)
(* prepared.                                                               *)
(***************************************************************************)
AInv == IInv /\ RInv /\ DInv /\ TInv /\ FInv

LEMMA ReadyAInv == Ready => AInv
BY ReadyIInv, ReadyRInv, ReadyDInv, ReadyTInv, ReadyFInv DEF AInv

LEMMA AStep == AInv /\ [Next]_vars => AInv'
<1>1. IInv /\ [Next]_vars => IInv'
  BY IStep
<1>2. QED
  BY <1>1, RStep, DStep, TStep, FStep DEF AInv

LEMMA AImplied ==
  AInv => TypeOK /\ NoPanic /\ StaysInside /\ IdomRight /\ TreeRight /\ FronRight
BY IdomsRight, ListsRight, FronsRight DEF AInv, IInv, RInv

(***************************************************************************)
(* What a caller has when FillFron returns, said of the graph.             *)
(***************************************************************************)
LEMMA AboveMeans ==
  ASSUME AInv, pc = "done", NEW a \in Blocks(f), NEW b \in Blocks(f)
  PROVE  Above(a, b) <=> Dominates(f, a, b)
<1>1. IInv /\ DInv /\ StaysInside /\ ~Visiting
  BY DEF AInv, RInv, Visiting
<1>2. Dom(a, b) <=> Dominates(f, a, b)
  BY DEF Dom, Dominates
<1>3. QED
  BY <1>1, <1>2, AboveIsDom, DomIsAbove

LEMMA Leaves ==
  ASSUME AInv, pc = "done"
  PROVE  DomFacts(f, idom, dom, dlink, fron)
<1>1. /\ IInv /\ DInv /\ TInv /\ FronRight /\ ~Visiting
      /\ f.n \in Nat \ {0} /\ Blocks(f) = 0 .. f.n - 1 /\ 0 \in Blocks(f) /\ Nil \notin Blocks(f)
      /\ idom \in [Blocks(f) -> Blocks(f) \cup {Nil}] /\ fron \in [Blocks(f) -> Seq(Blocks(f))]
  BY AImplied, Facts DEF AInv, Visiting, IInv, TypeOK
<1>2. OrderOf(f)
  <2>1. \A a, b \in Blocks(f) : Dominates(f, a, b) => a <= b
    BY <1>1, AboveMeans, AboveSmaller
  <2>2. \A a, b, c \in Blocks(f) : Dominates(f, a, b) /\ Dominates(f, b, c) => Dominates(f, a, c)
    BY AboveMeans, AboveTrans
  <2>3. QED
    BY <2>1, <2>2 DEF OrderOf
<1>3. idom[0] = Nil /\ \A b \in Blocks(f) \ {0} : idom[b] \in Blocks(f) /\ idom[b] < b /\ idom[b] # Nil
  <2>1. idom[0] = Nil /\ \A b \in Blocks(f) \ {0} : idom[b] # Nil
    BY <1>1 DEF IInv, Idoms, DInv, AllFit, Processed
  <2>2. QED
    BY <1>1, <2>1 DEF IInv, Idoms
<1>4. TreeOf(f, idom)
  <2>1. ASSUME NEW b \in Blocks(f) \ {0} PROVE Dominates(f, idom[b], b)
    <3>1. Above(idom[b], b)
      BY <1>3, AboveIdom
    <3>2. QED
      BY <1>3, <3>1, AboveMeans
  <2>2. ASSUME NEW a \in Blocks(f), NEW b \in Blocks(f), SDom(f, a, b)
        PROVE  b # 0 /\ Dominates(f, a, idom[b])
    <3>1. a # b /\ Above(a, b)
      BY <2>2, AboveMeans DEF SDom
    <3>2. idom[b] \in Blocks(f) /\ Above(a, idom[b])
      BY <1>1, <3>1, AboveStep
    <3>3. b # 0
      BY <1>1, <1>3, <3>2
    <3>4. QED
      BY <3>2, <3>3, AboveMeans
  <2>3. QED
    BY <1>1, <1>3, <2>1, <2>2 DEF TreeOf
<1>5. ListsOf(f, idom, dom, dlink)
  <2>1. Linked = f.n
    BY <1>1 DEF Linked
  <2>2. /\ \A d \in Blocks(f) : LastBefore(d, f.n, dom[d])
        /\ \A b \in 0 .. f.n - 1 : idom[b] # Nil => LastBefore(idom[b], b, dlink[b])
    BY <1>1, <2>1 DEF TInv
  <2>3. \A b \in Blocks(f) \ {0} : LastBefore(idom[b], b, dlink[b])
    BY <1>1, <1>3, <2>2
  <2>4. \A d, m, v : LastBefore(d, m, v) <=> LastBelow(idom, d, m, v)
    BY DEF LastBefore, LastBelow
  <2>5. QED
    BY <2>2, <2>3, <2>4 DEF ListsOf
<1>6. FrontiersOf(f, fron)
  <2>1. \A a, b : Dom(a, b) <=> Dominates(f, a, b)
    BY DEF Dom, Dominates
  <2>2. ASSUME NEW b \in Blocks(f)
        PROVE  /\ Elems(fron[b]) = {s \in Blocks(f) : InFrontier(f, b, s)}
               /\ \A i, j \in DOMAIN fron[b] : fron[b][i] = fron[b][j] => i = j
    <3>1. \A s \in Blocks(f) : b \notin StrictDoms(s) <=> ~SDom(f, b, s)
      BY <2>1 DEF StrictDoms, SDom
    <3>2. /\ Elems(fron[b]) = {s \in Blocks(f) :
                             /\ \E p \in Blocks(f) : s \in Succs(f, p) /\ Dom(b, p)
                             /\ b \notin StrictDoms(s)}
          /\ \A i, j \in DOMAIN fron[b] : fron[b][i] = fron[b][j] => i = j
      BY <1>1 DEF FronRight
    <3>3. QED
      BY <2>1, <3>1, <3>2 DEF InFrontier
  <2>3. QED
    BY <1>1, <2>2 DEF FrontiersOf
<1>7. ASSUME NEW a \in Blocks(f), NEW s \in Blocks(f)
      PROVE  ClimbsTo(f, idom, a, s) <=> SDom(f, a, s)
  <2>1. ClimbsTo(f, idom, a, s) <=> IsSdom(a, s)
    BY DEF ClimbsTo, IsSdom
  <2>2. QED
    BY <1>1, <2>1, IsSdomMeans, AboveMeans DEF SAbove, SDom
<1>8. QED
  BY <1>2, <1>4, <1>5, <1>6, <1>7 DEF DomFacts
=============================================================================
