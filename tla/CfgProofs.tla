------------------------------ MODULE CfgProofs ------------------------------
(***************************************************************************)
(* The analyses one after the other, from a function as the builder leaves *)
(* it: nothing is assumed of what FillDom is given, because what FillRPO   *)
(* and FillPreds leave is what FillDom needs.  The two halves are proved   *)
(* in FillRPOProofs and FillDomProofs; here the one is shown to hand over  *)
(* to the other, neither to disturb it, and FillLoop, run on what they     *)
(* leave, to count the loops.                                              *)
(***************************************************************************)
EXTENDS Cfg, FillDomProofs

Proved == INSTANCE FillRPOProofs WITH f <- raw, pc <- rpc, Functions <- Built

\* The numbering is as FillRPOProofs describes it until its function is passed on.
NInv ==
  rpc = "passed" \/ (Proved!IInv /\ Proved!PInv /\ Proved!BInv /\ Proved!SInv)

-----------------------------------------------------------------------------
(***************************************************************************)
(* FillLoop.  The blocks marked with the head at hand are in its loop, and *)
(* the marks are closed under predecessors, but for the calls still to be  *)
(* made: when none is left, they are the loop.                             *)
(***************************************************************************)
Has(q) == q < lpos \/ visit[q] = lpos \/ q \in Elems(todo)

InLoop(h, b) == b >= h /\ \E p \in ReachIn(f, b, h .. f.n - 1) : h \in Succs(f, p)

LoopsBelow(m, b) == {h \in Blocks(f) : h < m /\ InLoop(h, b)}

LoopTypes ==
  /\ PredsRight(f)
  /\ loop \in [Blocks(f) -> Nat] /\ visit \in [Blocks(f) -> Blocks(f) \cup {Nil}]
  /\ todo \in Seq(Blocks(f)) /\ lpos \in 0 .. f.n /\ lk \in Nat \ {0}
  /\ lpc = "done" => lpos = f.n
  /\ lpos = f.n => todo = <<>>

LoopSound ==
  /\ \A b \in Blocks(f) : visit[b] <= lpos /\ (visit[b] = lpos => InLoop(lpos, b))
  /\ \A b \in Elems(todo) : b < lpos \/ InLoop(lpos, b)

LoopClosed ==
  /\ \A b, q \in Blocks(f) : visit[b] = lpos /\ b \in Succs(f, q) => Has(q)
  /\ lpos < f.n => \A j \in DOMAIN f.pred[lpos] : j < lk => Has(f.pred[lpos][j])

Times(b) == Cardinality(LoopsBelow(lpos, b)) + (IF visit[b] = lpos THEN 1 ELSE 0)

LoopCount == \A b \in Blocks(f) : loop[b] = Loops!Power(Times(b))

LInv == LoopTypes /\ LoopSound /\ LoopClosed /\ LoopCount

-----------------------------------------------------------------------------
LEMMA SameLoops ==
  /\ \A g : Loops!Blocks(g) = Blocks(g)
  /\ \A h, b : Loops!InLoopOf(h, b) <=> InLoop(h, b)
  /\ \A b : Loops!Depth(b) = Cardinality({h \in Blocks(f) : InLoop(h, b)})
<1>1. \A g : Loops!Blocks(g) = Blocks(g)
  BY DEF Loops!Blocks, Blocks
<1>2. \A g, b : Loops!Succs(g, b) = Succs(g, b)
  BY DEF Loops!Succs, Succs, Loops!Nil, Nil
<1>3. \A g, b, W : Loops!ReachIn(g, b, W) = ReachIn(g, b, W)
  BY DEF Loops!ReachIn, ReachIn, Loops!Succs, Succs, Loops!Nil, Nil
<1>4. \A h, b : Loops!InLoopOf(h, b) <=> InLoop(h, b)
  BY <1>2, <1>3 DEF Loops!InLoopOf, InLoop
<1>5. \A S : Loops!Cardinality(S) = Cardinality(S)
  BY DEF Loops!Cardinality, Cardinality, Loops!IsFiniteSet, IsFiniteSet
<1>6. \A b : Loops!Depth(b) = Cardinality({h \in Blocks(f) : InLoop(h, b)})
  BY <1>1, <1>4, <1>5 DEF Loops!Depth
<1>7. QED
  BY <1>1, <1>4, <1>6

LEMMA LoopShape ==
  ASSUME AInv
  PROVE  /\ f.n \in Nat \ {0} /\ Blocks(f) = 0 .. f.n - 1 /\ Nil = -1
         /\ 0 \in Blocks(f) /\ Nil \notin Blocks(f)
         /\ f.pred \in [Blocks(f) -> Seq(Blocks(f))]
         /\ \A b \in Blocks(f) : Succs(f, b) \subseteq Blocks(f)
<1>1. IsFunction(f)
  BY Facts DEF AInv
<1>2. QED
  BY <1>1, Shape DEF IsFunction, Succs, Blocks, Nil

LEMMA InWord ==
  ASSUME Word \in Nat \ {0}
  PROVE  \A v \in Nat : (10 * v) % Word \in Nat
OBVIOUS

LEMMA PowerIs ==
  ASSUME f.n \in Nat, Word \in Nat \ {0}
  PROVE  /\ Loops!Power(0) = 1
         /\ \A d \in 0 .. f.n : Loops!Power(d) \in Nat
         /\ \A d \in 1 .. f.n : Loops!Power(d) = (10 * Loops!Power(d - 1)) % Word
<1> DEFINE T == [j \in 1 .. f.n |-> [v \in Nat |-> (10 * v) % Word]]
           tens[j \in 0 .. f.n] == IF j = 0 THEN 1 ELSE (10 * tens[j - 1]) % Word
<1>1. PICK h : Follows(h, f.n, Nat, 1, T)
  <2>1. T \in [1 .. f.n -> [Nat -> Nat]]
    <3>1. \A v \in Nat : (10 * v) % Word \in Nat
      BY InWord
    <3>2. QED
      BY <3>1
  <2> HIDE DEF T
  <2>2. QED
    BY <2>1, Recursion
<1>2. h \in [0 .. f.n -> Nat] /\ h[0] = 1 /\ \A j \in 1 .. f.n : h[j] = (10 * h[j - 1]) % Word
  <2>1. \A j \in 1 .. f.n : h[j - 1] \in Nat
    BY <1>1 DEF Follows
  <2>2. QED
    BY <1>1, <2>1 DEF Follows
<1>3. h = [j \in 0 .. f.n |-> IF j = 0 THEN 1 ELSE (10 * h[j - 1]) % Word]
  <2>1. \A j \in 0 .. f.n : j # 0 => j \in 1 .. f.n
    OBVIOUS
  <2>2. QED
    BY <1>2, <2>1
<1>4. tens = [j \in 0 .. f.n |-> IF j = 0 THEN 1 ELSE (10 * tens[j - 1]) % Word]
  BY <1>3
<1>5. \A d : Loops!Power(d) = tens[d]
  BY DEF Loops!Power
<1> HIDE DEF tens
<1>6. tens = h
  <2> DEFINE Bad == {m \in 0 .. f.n : tens[m] # h[m]}
  <2>1. ASSUME Bad # {} PROVE FALSE
    <3>1. Bad \in SUBSET Nat
      OBVIOUS
    <3>2. PICK m \in Bad : \A j \in Bad : m <= j
      <4> HIDE DEF Bad
      <4>1. QED
        BY <2>1, <3>1, LeastNat
    <3>3. m # 0 => m - 1 \in 0 .. f.n /\ ~(m <= m - 1) /\ m \in 1 .. f.n
      OBVIOUS
    <3>4. m # 0 => tens[m - 1] = h[m - 1]
      BY <3>2, <3>3
    <3>5. QED
      BY <1>2, <1>4, <3>2, <3>3, <3>4
  <2>2. QED
    BY <1>2, <1>4, <2>1
<1>7. QED
  BY <1>2, <1>5, <1>6

\* The loop of a head holds the sources of its edges back, and what leads into the loop.
LEMMA LoopGrows ==
  ASSUME AInv, NEW h \in Blocks(f), NEW b \in Blocks(f), b >= h
  PROVE  /\ h \in Succs(f, b) => InLoop(h, b)
         /\ \A c \in Blocks(f) : c \in Succs(f, b) /\ InLoop(h, c) => InLoop(h, b)
<1> DEFINE W == h .. f.n - 1
           R == ReachIn(f, b, W)
<1>1. f.n \in Nat \ {0} /\ W \in SUBSET Blocks(f) /\ b \in Int /\ h \in Int
  BY LoopShape
<1>2. \A c \in Blocks(f) : c >= h => c \in W
  BY LoopShape
<1> HIDE DEF W, R
<1>3. b \in R /\ \A c \in R : Succs(f, c) \cap W \subseteq R
  BY <1>1, ReachClosed DEF R
<1>4. h \in Succs(f, b) => InLoop(h, b)
  BY <1>3 DEF InLoop, R, W
<1>5. ASSUME NEW c \in Blocks(f), c \in Succs(f, b), InLoop(h, c)
      PROVE  InLoop(h, b)
  <2>1. PICK p \in ReachIn(f, c, W) : h \in Succs(f, p)
    BY <1>5 DEF InLoop, W
  <2>2. c \in R
    BY <1>2, <1>3, <1>5 DEF InLoop
  <2>3. ReachIn(f, c, W) \subseteq R
    BY <1>1, <1>3, <2>2, ReachLeast
  <2>4. QED
    BY <2>1, <2>3 DEF InLoop, R, W
<1>6. QED
  BY <1>4, <1>5

\* When no call is left the blocks with the mark are the loop.
LEMMA LoopMarked ==
  ASSUME AInv, LoopTypes, LoopSound, LoopClosed, todo = <<>>, lpos < f.n, lk > Len(f.pred[lpos])
  PROVE  \A b \in Blocks(f) : visit[b] = lpos <=> InLoop(lpos, b)
<1>1. /\ f.n \in Nat \ {0} /\ Blocks(f) = 0 .. f.n - 1 /\ lpos \in Blocks(f) /\ lpos \in Nat
      /\ f.pred[lpos] \in Seq(Blocks(f)) /\ lk \in Nat
  BY LoopShape DEF LoopTypes
<1>2. \A q \in Blocks(f) : Has(q) => q < lpos \/ visit[q] = lpos
  BY DEF Has, Elems
<1> SUFFICES ASSUME NEW b \in Blocks(f), InLoop(lpos, b), visit[b] # lpos
             PROVE  FALSE
  BY DEF LoopSound
<1> DEFINE W == lpos .. f.n - 1
           U == {c \in W : visit[c] # lpos}
<1>3. b \in U
  BY <1>1 DEF InLoop
<1>4. \A c \in U : Succs(f, c) \cap W \subseteq U
  <2> SUFFICES ASSUME NEW c \in U, NEW d \in Succs(f, c), d \in W, visit[d] = lpos
               PROVE  FALSE
    OBVIOUS
  <2>1. c \in Blocks(f) /\ d \in Blocks(f) /\ ~(c < lpos) /\ visit[c] # lpos
    BY <1>1
  <2>2. Has(c)
    BY <2>1 DEF LoopClosed
  <2>3. QED
    BY <1>2, <2>1, <2>2
<1> HIDE DEF W, U
<1>5. ReachIn(f, b, W) \subseteq U
  BY <1>1, <1>3, <1>4, ReachLeast
<1>6. PICK p \in U : lpos \in Succs(f, p)
  BY <1>5 DEF InLoop, W
<1>7. p \in Blocks(f) /\ ~(p < lpos) /\ visit[p] # lpos
  BY <1>1 DEF U, W
<1>8. p \in Elems(f.pred[lpos])
  BY <1>1, <1>6, <1>7 DEF LoopTypes, PredsRight
<1>9. PICK j \in DOMAIN f.pred[lpos] : p = f.pred[lpos][j]
  BY <1>8 DEF Elems
<1>10. j < lk
  BY <1>1, <1>9
<1>11. QED
  BY <1>1, <1>2, <1>7, <1>9, <1>10 DEF LoopClosed

LEMMA TimesBound ==
  ASSUME AInv, NEW m \in 0 .. f.n, NEW b
  PROVE  /\ IsFiniteSet(LoopsBelow(m, b))
         /\ Cardinality(LoopsBelow(m, b)) \in 0 .. m
<1>1. m \in Nat /\ LoopsBelow(m, b) \subseteq 0 .. m - 1
  BY LoopShape DEF LoopsBelow
<1>2. IsFiniteSet(0 .. m - 1) /\ Cardinality(0 .. m - 1) = m
  BY <1>1, FS_Interval
<1>3. /\ IsFiniteSet(LoopsBelow(m, b))
      /\ Cardinality(LoopsBelow(m, b)) <= Cardinality(0 .. m - 1)
  BY <1>1, <1>2, FS_Subset
<1>4. Cardinality(LoopsBelow(m, b)) \in Nat
  BY <1>3, FS_CardinalityType
<1>5. QED
  BY <1>1, <1>2, <1>3, <1>4

LEMMA TimesNext ==
  ASSUME AInv, NEW m \in 0 .. f.n - 1, NEW b
  PROVE  Cardinality(LoopsBelow(m + 1, b))
           = Cardinality(LoopsBelow(m, b)) + (IF InLoop(m, b) THEN 1 ELSE 0)
<1>1. m \in Blocks(f) /\ m \in 0 .. f.n /\ m \in Nat /\ \A h \in Blocks(f) : h < m + 1 <=> h < m \/ h = m
  BY LoopShape
<1>2. IsFiniteSet(LoopsBelow(m, b)) /\ m \notin LoopsBelow(m, b)
  <2>1. ~(m < m)
    BY <1>1
  <2>2. QED
    BY <1>1, <2>1, TimesBound, Zenon DEF LoopsBelow
<1>3. CASE InLoop(m, b)
  <2>1. LoopsBelow(m + 1, b) = LoopsBelow(m, b) \cup {m}
    BY <1>1, <1>3 DEF LoopsBelow
  <2>2. QED
    BY <1>2, <1>3, <2>1, FS_AddElement
<1>4. CASE ~InLoop(m, b)
  <2>1. LoopsBelow(m + 1, b) = LoopsBelow(m, b)
    BY <1>1, <1>4 DEF LoopsBelow
  <2>2. QED
    BY <1>2, <1>4, <2>1, FS_CardinalityType
<1>5. QED
  BY <1>3, <1>4

-----------------------------------------------------------------------------
LEMMA LoopStart ==
  ASSUME AInv, PredsRight(f), Loops!Start
  PROVE  LInv
<1>1. /\ loop = [b \in Blocks(f) |-> 1] /\ visit = [b \in Blocks(f) |-> Nil]
      /\ todo = <<>> /\ lpos = 0 /\ lk = 1 /\ lpc = "loops"
  BY SameLoops DEF Loops!Start, Loops!Nil, Nil
<1>2. f.n \in Nat \ {0} /\ 0 \in Blocks(f) /\ Nil = -1 /\ \A b \in Blocks(f) : visit[b] = Nil
  BY <1>1, LoopShape
<1>3. LoopTypes
  BY <1>1, <1>2 DEF LoopTypes
<1>4. LoopSound /\ LoopClosed
  <2>1. Elems(todo) = {}
    BY <1>1 DEF Elems
  <2>2. \A j \in DOMAIN f.pred[0] : ~(j < 1)
    BY <1>2, LoopShape
  <2>3. QED
    BY <1>1, <1>2, <2>1, <2>2 DEF LoopSound, LoopClosed
<1>5. LoopCount
  <2>1. \A b : LoopsBelow(0, b) = {}
    BY LoopShape DEF LoopsBelow
  <2>2. \A b \in Blocks(f) : Times(b) = 0
    <3>1. Cardinality({}) = 0 /\ lpos = 0 /\ Nil # 0
      BY <1>1, <1>2, FS_EmptySet
    <3>2. \A b \in Blocks(f) : Cardinality(LoopsBelow(lpos, b)) = 0 /\ visit[b] # lpos
      BY <1>1, <1>2, <2>1, <3>1
    <3>3. QED
      BY <3>2 DEF Times
  <2>3. QED
    BY <1>1, <1>2, <2>2, PowerIs, WordAssumption DEF LoopCount
<1>6. QED
  BY <1>3, <1>4, <1>5 DEF LInv

\* The marks and counts of other blocks stay while a call of loopMark is made.
LEMMA LoopTurn ==
  ASSUME AInv, LInv, Loops!Step, UNCHANGED <<domVars, rpoVars>>
  PROVE  LInv'
<1>1. /\ f.n \in Nat \ {0} /\ Blocks(f) = 0 .. f.n - 1 /\ Nil = -1 /\ f' = f
      /\ f.pred \in [Blocks(f) -> Seq(Blocks(f))] /\ Nil \notin Blocks(f)
      /\ \A b \in Blocks(f) : Succs(f, b) \subseteq Blocks(f)
  BY LoopShape DEF Loops!Step, Loops!NextPred, Loops!NextBlock, Loops!LoopMark, Loops!Finish
<1>2. /\ loop \in [Blocks(f) -> Nat] /\ visit \in [Blocks(f) -> Blocks(f) \cup {Nil}]
      /\ todo \in Seq(Blocks(f)) /\ lpos \in Nat /\ lpos <= f.n /\ lk \in Nat \ {0}
      /\ \A b \in Blocks(f) : visit[b] \in Int
      /\ PredsRight(f) /\ lpc = "loops" /\ (lpos = f.n => todo = <<>>)
  <2>1. /\ loop \in [Blocks(f) -> Nat] /\ visit \in [Blocks(f) -> Blocks(f) \cup {Nil}]
        /\ todo \in Seq(Blocks(f)) /\ lpos \in 0 .. f.n /\ lk \in Nat \ {0} /\ PredsRight(f)
        /\ (lpos = f.n => todo = <<>>)
    BY DEF LInv, LoopTypes
  <2>2. lpc = "loops"
    BY DEF Loops!Step, Loops!NextPred, Loops!NextBlock, Loops!LoopMark, Loops!Finish
  <2>3. \A b \in Blocks(f) : visit[b] \in Blocks(f) \cup {Nil}
    BY <2>1
  <2>4. \A b \in Blocks(f) : visit[b] \in Int
    BY <1>1, <2>3
  <2>5. lpos \in Nat /\ lpos <= f.n
    BY <1>1, <2>1
  <2>6. QED
    BY <2>1, <2>2, <2>4, <2>5
<1>3. \A h, b : InLoop(h, b)' <=> InLoop(h, b)
  BY <1>1 DEF InLoop
<1>4. \A h, b : LoopsBelow(h, b)' = LoopsBelow(h, b)
  BY <1>1, <1>3 DEF LoopsBelow
<1>5. \A d : Loops!Power(d)' = Loops!Power(d)
  BY <1>1 DEF Loops!Power
<1>6. CASE Loops!NextPred
  <2>0. PICK p : p = f.pred[lpos][lk]
    OBVIOUS
  <2>1. /\ todo = <<>> /\ lpos < f.n /\ lk <= Len(f.pred[lpos])
        /\ todo' = (IF p >= lpos THEN <<p>> ELSE <<>>) /\ lk' = lk + 1
        /\ UNCHANGED <<loop, visit, lpos, lpc>>
    BY <1>6, <2>0 DEF Loops!NextPred
  <2>2. /\ lpos \in Blocks(f) /\ f.pred[lpos] \in Seq(Blocks(f)) /\ lk \in DOMAIN f.pred[lpos]
        /\ p \in Blocks(f) /\ p \in Elems(f.pred[lpos])
    <3>1. lpos \in Blocks(f) /\ f.pred[lpos] \in Seq(Blocks(f))
      BY <1>1, <1>2, <2>1
    <3>2. lk \in DOMAIN f.pred[lpos]
      BY <1>2, <2>1, <3>1
    <3>3. QED
      BY <2>0, <3>1, <3>2 DEF Elems
  <2>3. lpos \in Succs(f, p)
    BY <1>2, <2>2 DEF PredsRight
  <2>4. Elems(todo) = {} /\ Elems(todo') = IF p >= lpos THEN {p} ELSE {}
    BY <2>1 DEF Elems
  <2>5. \A q : Has(q) => Has(q)'
    BY <2>1, <2>4 DEF Has
  <2>6. LoopTypes'
    BY <1>1, <1>2, <2>1, <2>2 DEF LoopTypes
  <2>7. LoopSound'
    <3>1. p >= lpos => InLoop(lpos, p)
      BY <2>2, <2>3, LoopGrows
    <3>2. QED
      BY <1>1, <1>3, <2>1, <2>4, <3>1 DEF LInv, LoopSound
  <2>8. LoopClosed'
    <3>1. Has(p)'
      BY <1>1, <1>2, <2>1, <2>2, <2>4 DEF Has
    <3>2. \A j \in DOMAIN f.pred[lpos] : j < lk + 1 => j < lk \/ f.pred[lpos][j] = p
      BY <1>2, <2>0, <2>2
    <3>3. \A q : Has(q)' <=> q < lpos \/ visit[q] = lpos \/ q \in Elems(todo')
      BY <2>1 DEF Has
    <3>4. \A q : Has(q) => Has(q)'
      BY <2>5
    <3>5. \A j \in DOMAIN f.pred[lpos] : j < lk => Has(f.pred[lpos][j])
      BY <2>1 DEF LInv, LoopClosed
    <3>6. \A j \in DOMAIN f.pred[lpos] : \A q : j < lk + 1 /\ q = f.pred[lpos][j] => Has(q)'
      BY <3>1, <3>2, <3>4, <3>5
    <3>7. \A b, q \in Blocks(f) : visit[b] = lpos /\ b \in Succs(f, q) => Has(q)'
      BY <2>5 DEF LInv, LoopClosed
    <3>8. QED
      BY <1>1, <2>1, <3>6, <3>7 DEF LoopClosed
  <2>9. LoopCount'
    BY <1>1, <1>4, <1>5, <2>1 DEF LInv, LoopCount, Times
  <2>10. QED
    BY <2>6, <2>7, <2>8, <2>9 DEF LInv
<1>7. CASE Loops!NextBlock
  <2>1. /\ todo = <<>> /\ lpos < f.n /\ lk > Len(f.pred[lpos])
        /\ lpos' = lpos + 1 /\ lk' = 1 /\ UNCHANGED <<loop, visit, todo, lpc>>
    BY <1>7 DEF Loops!NextBlock
  <2>2. \A b \in Blocks(f) : visit[b] = lpos <=> InLoop(lpos, b)
    BY <2>1, LoopMarked DEF LInv
  <2>3. \A b \in Blocks(f) : visit[b] <= lpos /\ visit[b] # lpos + 1 /\ visit[b] <= lpos + 1
    BY <1>2 DEF LInv, LoopSound
  <2>4. Elems(todo) = {}
    BY <2>1 DEF Elems
  <2>5. LoopTypes'
    BY <1>1, <1>2, <2>1 DEF LoopTypes
  <2>6. LoopSound'
    BY <1>1, <2>1, <2>3, <2>4 DEF LoopSound
  <2>7. LoopClosed'
    <3>1. lpos + 1 < f.n => \A j \in DOMAIN f.pred[lpos + 1] : ~(j < 1)
      <4> SUFFICES ASSUME lpos + 1 < f.n, NEW j \in DOMAIN f.pred[lpos + 1]
                   PROVE  ~(j < 1)
        OBVIOUS
      <4>1. lpos + 1 \in Blocks(f)
        BY <1>1, <1>2
      <4>2. f.pred[lpos + 1] \in Seq(Blocks(f))
        BY <1>1, <4>1
      <4>3. QED
        BY <4>2
    <3>2. QED
      BY <1>1, <2>1, <2>3, <3>1 DEF LoopClosed
  <2>8. \A b \in Blocks(f) : Times(b)' = Times(b)
    <3> TAKE b \in Blocks(f)
    <3>1. Cardinality(LoopsBelow(lpos + 1, b))
            = Cardinality(LoopsBelow(lpos, b)) + (IF visit[b] = lpos THEN 1 ELSE 0)
      <4>1. lpos \in 0 .. f.n - 1
        BY <1>1, <1>2, <2>1
      <4>2. QED
        BY <1>1, <2>2, <4>1, TimesNext
    <3>2. Cardinality(LoopsBelow(lpos + 1, b)) \in Nat
      <4>1. lpos + 1 \in 0 .. f.n
        BY <1>1, <1>2, <2>1
      <4>2. Cardinality(LoopsBelow(lpos + 1, b)) \in 0 .. lpos + 1
        BY <4>1, TimesBound
      <4>3. QED
        BY <1>2, <4>2
    <3>3. Times(b)' = Cardinality(LoopsBelow(lpos + 1, b)) + (IF visit[b] = lpos + 1 THEN 1 ELSE 0)
      BY <1>4, <2>1 DEF Times
    <3>4. QED
      BY <2>3, <3>1, <3>2, <3>3 DEF Times
  <2>9. LoopCount'
    BY <1>1, <1>5, <2>1, <2>8 DEF LInv, LoopCount
  <2>10. QED
    BY <2>5, <2>6, <2>7, <2>9 DEF LInv
<1>8. CASE Loops!LoopMark
  <2>0. PICK b : b = Head(todo)
    OBVIOUS
  <2>1. /\ todo # <<>> /\ lpos < f.n /\ UNCHANGED <<lpos, lk, lpc>>
    <3>1. todo # <<>> /\ UNCHANGED <<lpos, lk, lpc>>
      BY <1>8 DEF Loops!LoopMark
    <3>2. lpos # f.n
      BY <1>2, <3>1
    <3>3. QED
      BY <1>1, <1>2, <3>1, <3>2
  <2>2. /\ b \in Blocks(f) /\ Tail(todo) \in Seq(Blocks(f)) /\ lpos \in Blocks(f)
        /\ f.pred[b] \in Seq(Blocks(f)) /\ b \in Elems(todo) /\ Elems(todo) = {b} \cup Elems(Tail(todo))
    <3>1. b \in Blocks(f) /\ Tail(todo) \in Seq(Blocks(f)) /\ lpos \in Blocks(f)
      BY <1>1, <1>2, <2>0, <2>1
    <3>2. Elems(todo) = {b} \cup Elems(Tail(todo))
      <4>1. /\ Len(todo) \in Nat \ {0} /\ Len(Tail(todo)) = Len(todo) - 1
            /\ DOMAIN todo = 1 .. Len(todo) /\ DOMAIN Tail(todo) = 1 .. Len(todo) - 1
            /\ b = todo[1]
            /\ \A j \in 1 .. Len(todo) - 1 : Tail(todo)[j] = todo[j + 1]
        BY <1>2, <2>0, <2>1
      <4>2. \A j \in 1 .. Len(todo) : j = 1 \/ (j - 1 \in 1 .. Len(todo) - 1 /\ (j - 1) + 1 = j)
        BY <4>1
      <4>3. \A j \in 1 .. Len(todo) - 1 : j + 1 \in 1 .. Len(todo)
        BY <4>1
      <4>4. 1 \in 1 .. Len(todo)
        BY <4>1
      <4>5. Elems(todo) \subseteq {b} \cup Elems(Tail(todo))
        <5> SUFFICES ASSUME NEW j \in 1 .. Len(todo)
                     PROVE  todo[j] = b \/ todo[j] \in Elems(Tail(todo))
          BY <4>1 DEF Elems
        <5>1. CASE j = 1
          BY <4>1, <5>1
        <5>2. CASE j - 1 \in 1 .. Len(todo) - 1
          <6>1. Tail(todo)[j - 1] = todo[j]
            BY <4>1, <5>2
          <6>2. QED
            BY <4>1, <5>2, <6>1 DEF Elems
        <5>3. QED
          BY <4>2, <5>1, <5>2
      <4>6. {b} \cup Elems(Tail(todo)) \subseteq Elems(todo)
        BY <4>1, <4>3, <4>4 DEF Elems
      <4>7. QED
        BY <4>5, <4>6
    <3>3. QED
      BY <1>1, <3>1, <3>2
  <2>3. b < lpos \/ InLoop(lpos, b)
    BY <2>2 DEF LInv, LoopSound
  <2>4. CASE Loops!Outside(b)
    <3>1. (b < lpos \/ visit[b] = lpos) /\ todo' = Tail(todo) /\ UNCHANGED <<loop, visit>>
      BY <1>8, <2>0, <2>4 DEF Loops!LoopMark, Loops!Outside
    <3>2. \A q : Has(q) => Has(q)'
      BY <2>1, <2>2, <3>1 DEF Has
    <3>3. LoopTypes'
      BY <1>1, <1>2, <2>1, <2>2, <3>1, SMTT(30) DEF LoopTypes
    <3>4. LoopSound'
      BY <1>1, <1>3, <2>1, <2>2, <3>1 DEF LInv, LoopSound
    <3>5. LoopClosed'
      BY <1>1, <2>1, <3>1, <3>2 DEF LInv, LoopClosed
    <3>6. LoopCount'
      BY <1>1, <1>4, <1>5, <2>1, <3>1 DEF LInv, LoopCount, Times
    <3>7. QED
      BY <3>3, <3>4, <3>5, <3>6 DEF LInv
  <2>5. CASE ~Loops!Outside(b)
    <3>1. /\ ~(b < lpos) /\ visit[b] # lpos
          /\ visit' = [visit EXCEPT ![b] = lpos] /\ loop' = [loop EXCEPT ![b] = (10 * @) % Word]
          /\ todo' = f.pred[b] \o Tail(todo)
      BY <1>8, <2>0, <2>5 DEF Loops!LoopMark, Loops!Outside
    <3>2. /\ visit'[b] = lpos /\ loop'[b] = (10 * loop[b]) % Word
          /\ \A c \in Blocks(f) \ {b} : visit'[c] = visit[c] /\ loop'[c] = loop[c]
      BY <1>2, <2>2, <3>1
    <3>3. Elems(todo') = Elems(f.pred[b]) \cup Elems(Tail(todo))
      <4> DEFINE s == f.pred[b]
                 t == Tail(todo)
      <4>1. /\ s \in Seq(Blocks(f)) /\ t \in Seq(Blocks(f)) /\ todo' = s \o t
        BY <2>2, <3>1
      <4> HIDE DEF s, t
      <4>2. /\ Len(s) \in Nat /\ Len(t) \in Nat /\ DOMAIN s = 1 .. Len(s) /\ DOMAIN t = 1 .. Len(t)
            /\ DOMAIN (s \o t) = 1 .. Len(s) + Len(t)
            /\ \A j \in 1 .. Len(s) + Len(t) :
                 (s \o t)[j] = IF j <= Len(s) THEN s[j] ELSE t[j - Len(s)]
        BY <4>1
      <4>3. \A j \in 1 .. Len(s) + Len(t) : j \in 1 .. Len(s) \/ (~(j <= Len(s)) /\ j - Len(s) \in 1 .. Len(t))
        BY <4>2
      <4>4. \A j \in 1 .. Len(s) : j \in 1 .. Len(s) + Len(t) /\ j <= Len(s)
        BY <4>2
      <4>5. \A j \in 1 .. Len(t) : j + Len(s) \in 1 .. Len(s) + Len(t) /\ ~(j + Len(s) <= Len(s))
                                   /\ (j + Len(s)) - Len(s) = j
        BY <4>2
      <4>6. Elems(s \o t) \subseteq Elems(s) \cup Elems(t)
        BY <4>2, <4>3 DEF Elems
      <4>7. Elems(s) \subseteq Elems(s \o t)
        BY <4>2, <4>4 DEF Elems
      <4>8. Elems(t) \subseteq Elems(s \o t)
        BY <4>2, <4>5 DEF Elems
      <4>9. QED
        BY <4>1, <4>6, <4>7, <4>8 DEF s, t
    <3>4. Elems(f.pred[b]) = {q \in Blocks(f) : b \in Succs(f, q)}
      BY <1>2, <2>2 DEF PredsRight
    <3>5. InLoop(lpos, b)
      BY <2>3, <3>1
    <3>6. \A q \in Blocks(f) : Has(q) => Has(q)'
      BY <2>1, <2>2, <3>2, <3>3 DEF Has
    <3>7. LoopTypes'
      <4>1. todo' \in Seq(Blocks(f)) /\ visit' \in [Blocks(f) -> Blocks(f) \cup {Nil}]
        BY <1>2, <2>2, <3>1
      <4>2. loop' \in [Blocks(f) -> Nat]
        <5>1. (10 * loop[b]) % Word \in Nat
          BY <1>2, <2>2, InWord, WordAssumption
        <5>2. QED
          BY <1>2, <2>2, <3>1, <5>1
      <4>3. QED
        BY <1>1, <1>2, <2>1, <4>1, <4>2 DEF LoopTypes
    <3>8. LoopSound'
      <4>1. \A c \in Blocks(f) : visit'[c] <= lpos /\ (visit'[c] = lpos => InLoop(lpos, c))
        BY <1>2, <3>2, <3>5 DEF LInv, LoopSound
      <4>2. ASSUME NEW c \in Elems(f.pred[b]) PROVE c < lpos \/ InLoop(lpos, c)
        <5>1. c \in Blocks(f) /\ b \in Succs(f, c)
          BY <3>4, <4>2
        <5>2. CASE c >= lpos
          BY <2>2, <3>5, <5>1, <5>2, LoopGrows
        <5>3. QED
          BY <1>1, <1>2, <5>1, <5>2
      <4>3. \A c \in Elems(todo') : c < lpos \/ InLoop(lpos, c)
        BY <2>2, <3>3, <4>2 DEF LInv, LoopSound
      <4>4. QED
        BY <1>1, <1>3, <2>1, <4>1, <4>3 DEF LoopSound
    <3>9. LoopClosed'
      <4>1. ASSUME NEW c \in Blocks(f), NEW q \in Blocks(f), visit'[c] = lpos, c \in Succs(f, q)
            PROVE  Has(q)'
        <5>1. CASE c = b
          BY <3>3, <3>4, <4>1, <5>1 DEF Has
        <5>2. CASE c # b
          BY <3>2, <3>6, <4>1, <5>2 DEF LInv, LoopClosed
        <5>3. QED
          BY <5>1, <5>2
      <4>2. \A j \in DOMAIN f.pred[lpos] : \A q : j < lk /\ q = f.pred[lpos][j] => Has(q)'
        <5>1. f.pred[lpos] \in Seq(Blocks(f))
          BY <1>1, <2>2
        <5>2. \A j \in DOMAIN f.pred[lpos] : f.pred[lpos][j] \in Blocks(f)
          BY <5>1
        <5>3. \A j \in DOMAIN f.pred[lpos] : j < lk => Has(f.pred[lpos][j])
          BY <2>1 DEF LInv, LoopClosed
        <5>4. QED
          BY <3>6, <5>2, <5>3
      <4>3. QED
        BY <1>1, <2>1, <4>1, <4>2 DEF LoopClosed
    <3>10. LoopCount'
      <4>0. PICK m : m = Cardinality(LoopsBelow(lpos, b))
        OBVIOUS
      <4>1. m \in 0 .. lpos
        BY <1>1, <1>2, <2>1, <4>0, TimesBound
      <4>2. Times(b) = m /\ Times(b)' = m + 1
        BY <1>2, <1>4, <2>1, <3>1, <3>2, <4>0, <4>1 DEF Times
      <4>3. \A c \in Blocks(f) \ {b} : Times(c)' = Times(c)
        BY <1>4, <2>1, <3>2 DEF Times
      <4>4. m + 1 \in 1 .. f.n /\ (m + 1) - 1 = m
        BY <1>1, <1>2, <2>1, <4>1
      <4>5. Loops!Power(m + 1) = (10 * Loops!Power(m)) % Word
        BY <1>1, <4>4, PowerIs, WordAssumption
      <4>6. loop'[b] = Loops!Power(Times(b)')
        BY <2>2, <3>2, <4>2, <4>5 DEF LInv, LoopCount
      <4>7. \A c \in Blocks(f) \ {b} : loop'[c] = Loops!Power(Times(c)')
        BY <3>2, <4>3 DEF LInv, LoopCount
      <4>8. QED
        BY <1>1, <1>5, <4>6, <4>7 DEF LoopCount
    <3>11. QED
      BY <3>7, <3>8, <3>9, <3>10 DEF LInv
  <2>6. QED
    BY <2>4, <2>5
<1>9. CASE Loops!Finish
  <2>1. /\ todo = <<>> /\ lpos >= f.n /\ UNCHANGED <<loop, visit, todo, lpos, lk>> /\ lpc' = "done"
    BY <1>9 DEF Loops!Finish
  <2>2. LoopTypes'
    BY <1>1, <1>2, <2>1 DEF LoopTypes
  <2>3. LoopSound' /\ LoopClosed'
    BY <1>1, <1>3, <2>1 DEF LInv, LoopSound, LoopClosed, Has
  <2>4. LoopCount'
    BY <1>1, <1>4, <1>5, <2>1 DEF LInv, LoopCount, Times
  <2>5. QED
    BY <2>2, <2>3, <2>4 DEF LInv
<1>10. QED
  BY <1>6, <1>7, <1>8, <1>9 DEF Loops!Step

LEMMA LoopStays ==
  ASSUME LInv, UNCHANGED <<f, loopVars>>
  PROVE  LInv'
<1>1. UNCHANGED <<f, loop, visit, todo, lpos, lk, lpc>>
  BY DEF loopVars
<1>2. \A h, b : InLoop(h, b)' <=> InLoop(h, b)
  BY <1>1 DEF InLoop
<1>3. \A h, b : LoopsBelow(h, b)' = LoopsBelow(h, b)
  BY <1>1, <1>2 DEF LoopsBelow
<1>4. \A d : Loops!Power(d)' = Loops!Power(d)
  BY <1>1 DEF Loops!Power
<1>5. LoopTypes' /\ LoopSound' /\ LoopClosed'
  BY <1>1, <1>2 DEF LInv, LoopTypes, LoopSound, LoopClosed, Has
<1>6. LoopCount'
  BY <1>1, <1>3, <1>4 DEF LInv, LoopCount, Times
<1>7. QED
  BY <1>5, <1>6 DEF LInv

\* When it is done, every head has been counted.
LEMMA LoopImplied ==
  ASSUME AInv, LInv
  PROVE  LoopRight
<1> SUFFICES ASSUME lpc = "done", NEW b \in Blocks(f)
             PROVE  loop[b] = Loops!Power(Loops!Depth(b))
  BY DEF LoopRight
<1>1. lpos = f.n /\ f.n \in Nat /\ \A h \in Blocks(f) : h < f.n /\ h # f.n
  BY LoopShape DEF LInv, LoopTypes
<1>2. LoopsBelow(lpos, b) = {h \in Blocks(f) : InLoop(h, b)}
  BY <1>1 DEF LoopsBelow
<1>3. visit[b] # lpos
  <2>1. visit[b] \in Blocks(f) \cup {Nil}
    BY DEF LInv, LoopTypes
  <2>2. QED
    BY <1>1, <2>1, LoopShape
<1>4. Cardinality(LoopsBelow(lpos, b)) \in Nat
  BY <1>1, TimesBound
<1>5. Times(b) = Loops!Depth(b)
  BY <1>2, <1>3, <1>4, SameLoops DEF Times
<1>6. QED
  BY <1>5 DEF LInv, LoopCount

-----------------------------------------------------------------------------
\* FillDom is as FillDomProofs describes it, FillLoop as above, and neither has begun
\* before its function is there.
CfgIInv ==
  /\ NInv /\ AInv /\ LInv
  /\ rpc # "passed" => f = Empty /\ Start /\ Loops!Start

\* The two instances of FillRPO have the same actions.
LEMMA SameStep ==
  ASSUME Numbering!Next
  PROVE  Proved!Next
<1>1. ASSUME Numbering!StartWalk PROVE Proved!StartWalk
  BY <1>1 DEF Numbering!StartWalk, Proved!StartWalk, Numbering!Frame, Proved!Frame,
     Numbering!Visits, Proved!Visits, Numbering!Mark, Proved!Mark, Numbering!Unset, Proved!Unset,
     Numbering!Blocks, Proved!Blocks, Numbering!Nil, Proved!Nil
<1>2. ASSUME Numbering!Descend PROVE Proved!Descend
  BY <1>2 DEF Numbering!Descend, Proved!Descend, Numbering!Frame, Proved!Frame,
     Numbering!Visits, Proved!Visits, Numbering!Mark, Proved!Mark, Numbering!Unset, Proved!Unset,
     Numbering!Top, Proved!Top, Numbering!Below, Proved!Below, Numbering!New, Proved!New,
     Numbering!Nil, Proved!Nil
<1>3. ASSUME Numbering!Skip PROVE Proved!Skip
  BY <1>3 DEF Numbering!Skip, Proved!Skip, Numbering!Unset, Proved!Unset,
     Numbering!Top, Proved!Top, Numbering!Below, Proved!Below, Numbering!New, Proved!New,
     Numbering!Nil, Proved!Nil
<1>4. ASSUME Numbering!Leave PROVE Proved!Leave
  BY <1>4 DEF Numbering!Leave, Proved!Leave, Numbering!Dec, Proved!Dec,
     Numbering!Top, Proved!Top, Numbering!Below, Proved!Below
<1>5. ASSUME Numbering!Compact PROVE Proved!Compact
  BY <1>5 DEF Numbering!Compact, Proved!Compact, Numbering!Sorted, Proved!Sorted,
     Numbering!Number, Proved!Number, Numbering!NUnreachable, Proved!NUnreachable,
     Numbering!Unset, Proved!Unset,
     Numbering!Blocks, Proved!Blocks, Numbering!Nil, Proved!Nil
<1>6. ASSUME Numbering!Preds PROVE Proved!Preds
  BY <1>6 DEF Numbering!Preds, Proved!Preds,
     Numbering!FillPreds, Proved!FillPreds, Numbering!PredsOf, Proved!PredsOf, Numbering!Listed, Proved!Listed, Numbering!Blocks, Proved!Blocks, Numbering!Nil, Proved!Nil
<1>7. QED
  BY <1>1, <1>2, <1>3, <1>4, <1>5, <1>6 DEF Numbering!Next, Proved!Next

\* And the same functions.
LEMMA SameFunctions ==
  \A g : /\ Numbering!Blocks(g) = Blocks(g) /\ Proved!Blocks(g) = Blocks(g)
         /\ Numbering!IsFunction(g) <=> IsFunction(g)
         /\ Proved!IsFunction(g) <=> IsFunction(g)
         /\ \A b : Proved!Succs(g, b) = Succs(g, b)
         /\ \A s : Proved!Elems(s) = Elems(s)
<1>1. \A g : /\ Proved!Blocks(g) = Blocks(g)
             /\ Proved!IsFunction(g) <=> IsFunction(g)
             /\ \A b : Proved!Succs(g, b) = Succs(g, b)
             /\ \A s : Proved!Elems(s) = Elems(s)
  <2>1. Proved!Ref = Ref /\ Proved!Opcodes = Opcodes /\ Proved!Nil = Nil
    BY DEF Proved!Ref, Ref, Proved!RefKinds, RefKinds, Proved!Nil, Nil,
       Proved!Opcodes, Opcodes, Proved!Stores, Stores, Proved!Allocs, Allocs, Proved!Calls, Calls,
       Proved!VarArg, VarArg, Proved!Pures, Pures, Proved!Loads, Loads, Proved!Params, Params,
       Proved!IntOps, IntOps, Proved!Divisions, Divisions, Proved!Narrow, Narrow,
       Proved!Orders, Orders, Proved!Extensions, Extensions
  <2>2. Proved!Phi = Phi /\ Proved!Instruction = Instruction /\ Proved!Jump = Jump
    BY <2>1 DEF Proved!Phi, Phi, Proved!Instruction, Instruction, Proved!Jump, Jump
  <2>3. \A h : Proved!Blocks(h) = Blocks(h)
    BY DEF Proved!Blocks, Blocks
  <2>4. \A s : Proved!Elems(s) = Elems(s)
    BY DEF Proved!Elems, Elems
  <2>5. \A h, r : Proved!RefOK(h, r) <=> RefOK(h, r)
    BY <2>1 DEF Proved!RefOK, RefOK, Proved!IsTmp, IsTmp, Proved!Temps, Temps
  <2>6. \A h : Proved!IsFunction(h) <=> IsFunction(h)
    BY <2>1, <2>2, <2>3, <2>4, <2>5 DEF Proved!IsFunction, IsFunction
  <2>7. \A h, b : Proved!Succs(h, b) = Succs(h, b)
    BY <2>1 DEF Proved!Succs, Succs
  <2>8. QED
    BY <2>3, <2>4, <2>6, <2>7
<1>2. \A g : /\ Numbering!Blocks(g) = Blocks(g)
             /\ Numbering!IsFunction(g) <=> IsFunction(g)
  <2>1. Numbering!Ref = Ref /\ Numbering!Opcodes = Opcodes /\ Numbering!Nil = Nil
    BY DEF Numbering!Ref, Ref, Numbering!RefKinds, RefKinds, Numbering!Nil, Nil,
       Numbering!Opcodes, Opcodes, Numbering!Stores, Stores, Numbering!Allocs, Allocs, Numbering!Calls, Calls,
       Numbering!VarArg, VarArg, Numbering!Pures, Pures, Numbering!Loads, Loads, Numbering!Params, Params,
       Numbering!IntOps, IntOps, Numbering!Divisions, Divisions, Numbering!Narrow, Narrow,
       Numbering!Orders, Orders, Numbering!Extensions, Extensions
  <2>2. Numbering!Phi = Phi /\ Numbering!Instruction = Instruction /\ Numbering!Jump = Jump
    BY <2>1 DEF Numbering!Phi, Phi, Numbering!Instruction, Instruction, Numbering!Jump, Jump
  <2>3. \A h : Numbering!Blocks(h) = Blocks(h)
    BY DEF Numbering!Blocks, Blocks
  <2>4. \A s : Numbering!Elems(s) = Elems(s)
    BY DEF Numbering!Elems, Elems
  <2>5. \A h, r : Numbering!RefOK(h, r) <=> RefOK(h, r)
    BY <2>1 DEF Numbering!RefOK, RefOK, Numbering!IsTmp, IsTmp, Numbering!Temps, Temps
  <2>6. \A h : Numbering!IsFunction(h) <=> IsFunction(h)
    BY <2>1, <2>2, <2>3, <2>4, <2>5 DEF Numbering!IsFunction, IsFunction
  <2>7. \A h, b : Numbering!Succs(h, b) = Succs(h, b)
    BY <2>1 DEF Numbering!Succs, Succs
  <2>8. QED
    BY <2>3, <2>4, <2>6, <2>7
<1>3. QED
  BY <1>1, <1>2

LEMMA CfgInitNInv ==
  ASSUME CfgInit
  PROVE  NInv
<1>1. Numbering!Init /\ Numbering!Buildable
  BY BuiltAssumption DEF CfgInit
<1>2. Proved!Buildable
  BY <1>1, SameFunctions DEF Numbering!Buildable, Proved!Buildable, Numbering!Fields,
     Proved!Fields
<1>3. Proved!Init
  BY <1>1 DEF Numbering!Init, Proved!Init, Numbering!Blocks, Proved!Blocks
<1>4. QED
  BY <1>2, <1>3, Proved!BuildableShape, Proved!InitIInv, Proved!PInit, Proved!BInit,
     Proved!SInit DEF NInv

\* The function known before the numbering is done is one that FillDom can have.
LEMMA EmptyPrepared == Prepared(Empty)
<1>1. Empty.n = 1 /\ Blocks(Empty) = {0} /\ Nil \notin Blocks(Empty)
  BY DEF Empty, Blocks, Nil
<1>2. /\ Empty.ntmp = 0 /\ Empty.s1 = [b \in {0} |-> Nil] /\ Empty.s2 = [b \in {0} |-> Nil]
      /\ Empty.pred = [b \in {0} |-> <<>>] /\ Empty.phis = [b \in {0} |-> <<>>]
      /\ Empty.ins = [b \in {0} |-> <<>>]
      /\ Empty.jmp = [b \in {0} |-> [type |-> "ret", arg |-> Undef]]
  BY DEF Empty
<1>3. Undef \in Ref /\ ~IsTmp(Undef) /\ [type |-> "ret", arg |-> Undef] \in Jump
  BY DEF Undef, Con, Ref, RefKinds, IsTmp, Jump
<1>4. IsFunction(Empty)
  BY <1>1, <1>2, <1>3 DEF IsFunction, RefOK
<1>5. PredsRight(Empty)
  BY <1>1, <1>2 DEF PredsRight, Succs, Elems
<1>6. QED
  BY <1>1, <1>4, <1>5 DEF Prepared, InOrder

LEMMA CfgInitIInv ==
  ASSUME CfgInit
  PROVE  CfgIInv
<1>1. f = Empty /\ Start
  BY DEF CfgInit
<1>2. Ready
  BY <1>1, EmptyPrepared DEF Ready
<1>3. AInv /\ PredsRight(f) /\ Loops!Start
  BY <1>2, ReadyAInv DEF CfgInit, Ready, Prepared
<1>4. QED
  BY <1>1, <1>3, CfgInitNInv, LoopStart DEF CfgIInv

\* FillDom is called in the state it begins in.
LEMMA CallReady ==
  ASSUME CfgIInv, CallFillDom
  PROVE  Ready'
<1>1. /\ rpc = "done" /\ f' = raw
      /\ idom' = [b \in Blocks(raw) |-> Nil]
      /\ dom' = [b \in Blocks(raw) |-> Nil] /\ dlink' = [b \in Blocks(raw) |-> Nil]
      /\ fron' = [b \in Blocks(raw) |-> <<>>]
      /\ UNCHANGED <<pos, k, acc, b1, b2, changed, pc>>
  BY DEF CallFillDom
<1>2. Start
  BY <1>1 DEF CfgIInv
<1>3. Start'
  BY <1>1, <1>2 DEF Start
<1>4. Proved!Prepared(raw)
  BY <1>1, Proved!LeavesPrepared DEF CfgIInv, NInv
<1>5. Prepared(raw)
  BY <1>4, SameFunctions DEF Proved!Prepared, Proved!InOrder, Proved!PredsRight,
     Prepared, InOrder, PredsRight
<1>6. QED
  BY <1>1, <1>3, <1>5 DEF Ready

LEMMA Unread == Next => f' = f
BY DEF Next

LEMMA CfgStepIInv ==
  ASSUME CfgIInv, [CfgNext]_cfgVars
  PROVE  CfgIInv'
<1>1. CASE RunFillRPO
  <2>1. Numbering!Next /\ UNCHANGED <<f, domVars>>
    BY <1>1 DEF RunFillRPO
  <2>2. rpc # "passed"
    BY <2>1 DEF Numbering!Next, Numbering!StartWalk, Numbering!Descend, Numbering!Skip,
       Numbering!Leave, Numbering!Compact, Numbering!Preds
  <2>3. Proved!Next
    BY <2>1, SameStep
  <2>4. NInv'
    BY <2>2, <2>3, Proved!StepIInv, Proved!PStep, Proved!BStep, Proved!SStep DEF CfgIInv, NInv
  <2>5. AInv'
    BY <2>1, AStep DEF CfgIInv, vars
  <2>6. LInv' /\ (Loops!Start => Loops!Start')
    BY <1>1, <2>1, LoopStays DEF CfgIInv, RunFillRPO, loopVars, Loops!Start, Loops!Blocks
  <2>7. QED
    BY <2>1, <2>2, <2>4, <2>5, <2>6 DEF CfgIInv, Start, domVars
<1>2. CASE CallFillDom
  <2>1. Ready' => AInv'
    BY ReadyAInv, PTL
  <2>2. Ready' /\ AInv' /\ PredsRight(f)' /\ rpc' = "passed"
    BY <1>2, <2>1, CallReady DEF CallFillDom, Ready, Prepared
  <2>3. Loops!Start'
    BY <1>2, SameLoops DEF CallFillDom, CfgIInv, Loops!Start, Loops!Nil, Nil, Loops!Blocks, Blocks
  <2>4. AInv' /\ PredsRight(f)' /\ Loops!Start' => LInv'
    BY LoopStart, PTL
  <2>5. QED
    BY <2>2, <2>3, <2>4 DEF CfgIInv, NInv
<1>3. CASE RunFillDom
  <2>1. rpc = "passed" /\ rpc' = "passed" /\ Next
    BY <1>3 DEF RunFillDom, rpoVars
  <2>2. f' = f /\ UNCHANGED loopVars
    BY <1>3, <2>1, Unread DEF RunFillDom
  <2>3. QED
    BY <2>1, <2>2, AStep, LoopStays DEF CfgIInv, NInv
<1>4. CASE RunFillLoop \/ UNCHANGED cfgVars
  <2>1. UNCHANGED <<f, domVars, rpoVars>>
    BY <1>4 DEF RunFillLoop, cfgVars, Loops!Step, Loops!NextPred, Loops!NextBlock,
       Loops!LoopMark, Loops!Finish
  <2>2. UNCHANGED Proved!vars /\ rpc' = rpc
    BY <2>1 DEF rpoVars, Proved!vars
  <2>3. NInv'
    BY <2>2, Proved!StepIInv, Proved!PStep, Proved!BStep, Proved!SStep DEF CfgIInv, NInv
  <2>4. AInv'
    BY <2>1, AStep DEF CfgIInv, vars
  <2>5. LInv'
    BY <1>4, <2>1, LoopTurn, LoopStays DEF CfgIInv, RunFillLoop, cfgVars
  <2>6. rpc # "passed" => UNCHANGED cfgVars
    BY <1>4 DEF CfgIInv, Start, RunFillLoop
  <2>7. rpc # "passed" => f' = Empty /\ Start' /\ Loops!Start'
    BY <2>1, <2>6 DEF CfgIInv, Start, domVars, cfgVars, loopVars, Loops!Start, Loops!Blocks
  <2>8. QED
    BY <2>2, <2>3, <2>4, <2>5, <2>7 DEF CfgIInv
<1>5. QED
  BY <1>1, <1>2, <1>3, <1>4 DEF CfgNext

LEMMA CfgInvariant == CfgSpec => []CfgIInv
BY CfgInitIInv, CfgStepIInv, PTL DEF CfgSpec

(***************************************************************************)
(* At every moment of the analyses the numbers that FillRPO has given are  *)
(* the ones from nblk-1 down to x+1, once each, and no block is open       *)
(* twice, for any set of functions of fewer than 2^32 - 1 blocks.          *)
(***************************************************************************)
THEOREM NoHoles == CfgSpec => []Consecutive
<1>1. CfgIInv => Consecutive
  <2>1. Proved!IInv => Proved!Consecutive
    BY Proved!Implied
  <2>2. Proved!Consecutive <=> Numbering!Consecutive
    BY DEF Proved!Consecutive, Numbering!Consecutive, Proved!Open, Numbering!Open,
       Proved!Unset, Numbering!Unset,
     Numbering!Blocks, Proved!Blocks
  <2>3. QED
    BY <2>1, <2>2 DEF CfgIInv, NInv, Consecutive
<1>2. QED
  BY <1>1, CfgInvariant, PTL

(***************************************************************************)
(* Once FillRPO is done, every block but Start has a predecessor with a    *)
(* smaller number, which FillDom rests on to handle the blocks in order;   *)
(* and an edge that does not go up closes a cycle among blocks numbered no *)
(* lower than its target, which FillLoop takes it for.                     *)
(***************************************************************************)
THEOREM OrderRight == CfgSpec => []Ordered
<1>1. CfgIInv => Ordered
  <2>1. Proved!IInv /\ Proved!BInv => Proved!Ordered
    BY Proved!OrderedImplied
  <2>2. Proved!Ordered <=> Numbering!Ordered
    BY DEF Proved!Ordered, Numbering!Ordered, Proved!EnteredFromBelow,
       Numbering!EnteredFromBelow, Proved!Numbered, Numbering!Numbered, Proved!Blocks,
       Numbering!Blocks, Proved!Succs, Numbering!Succs, Proved!Nil, Numbering!Nil,
       Proved!ReachIn, Numbering!ReachIn
  <2>3. QED
    BY <2>1, <2>2 DEF CfgIInv, NInv, Ordered
<1>2. QED
  BY <1>1, CfgInvariant, PTL

(***************************************************************************)
(* FillRPO keeps the blocks that some path from Start leads to, and drops  *)
(* every other, in both of its calls.                                      *)
(***************************************************************************)
THEOREM ReachedKept == CfgSpec => KeepsReachable
<1>1. ASSUME CfgIInv, [CfgNext]_cfgVars
      PROVE  [rpc = "compact" =>
                LET reached == ReachIn(raw, 0, Blocks(raw)) IN
                /\ {b \in Blocks(raw) : id[b] # Numbering!Unset} = reached
                /\ raw'.n = Cardinality(reached)]_cfgVars
  <2> SUFFICES ASSUME CfgNext, rpc = "compact"
               PROVE  LET reached == ReachIn(raw, 0, Blocks(raw)) IN
                      /\ {b \in Blocks(raw) : id[b] # Numbering!Unset} = reached
                      /\ raw'.n = Cardinality(reached)
    BY <1>1
  <2>1. RunFillRPO
    BY <1>1 DEF CfgNext, CallFillDom, RunFillDom, RunFillLoop, CfgIInv, Start
  <2>2. Proved!Next
    BY <2>1, SameStep DEF RunFillRPO
  <2>3. Proved!Compact
    BY <2>2 DEF Proved!Next, Proved!StartWalk, Proved!Descend, Proved!Skip, Proved!Leave,
       Proved!Preds
  <2>4. Proved!IInv
    BY <1>1 DEF CfgIInv, NInv
  <2>5. Proved!Blocks(raw) = Blocks(raw) /\ Proved!Unset = Numbering!Unset
    BY DEF Proved!Blocks, Blocks, Proved!Unset, Numbering!Unset
  <2>6. Proved!ReachIn(raw, 0, Blocks(raw)) = ReachIn(raw, 0, Blocks(raw))
    BY DEF Proved!ReachIn, ReachIn, Proved!Succs, Succs, Proved!Nil, Nil
  <2>7. /\ {b \in Proved!Blocks(raw) : id[b] # Proved!Unset}
             = Proved!ReachIn(raw, 0, Proved!Blocks(raw))
        /\ raw'.n = Proved!Cardinality(Proved!ReachIn(raw, 0, Proved!Blocks(raw)))
    BY <2>3, <2>4, Proved!KeepsStep
  <2>8. \A S : Proved!Cardinality(S) = Cardinality(S)
    BY DEF Proved!Cardinality, Cardinality, Proved!IsFiniteSet, IsFiniteSet
  <2>9. QED
    BY <2>5, <2>6, <2>7, <2>8
<1>2. QED
  BY <1>1, CfgInvariant, PTL DEF CfgSpec, KeepsReachable

(***************************************************************************)
(* The second numbering, which SSA asks for after it has filled Pred,      *)
(* changes nothing: it leaves every block where it was, whatever the graph *)
(* and the loop depths that decide which successor is visited first.       *)
(***************************************************************************)
THEOREM NumberedOnce == CfgSpec => Stable
<1>1. ASSUME CfgIInv, [CfgNext]_cfgVars
      PROVE  [rpc = "compact" /\ call = 2 => raw' = raw]_cfgVars
  <2> SUFFICES ASSUME CfgNext, rpc = "compact", call = 2
               PROVE  raw' = raw
    BY <1>1
  <2>1. RunFillRPO
    BY <1>1 DEF CfgNext, CallFillDom, RunFillDom, RunFillLoop, CfgIInv, Start
  <2>2. Proved!Next
    BY <2>1, SameStep DEF RunFillRPO
  <2>3. Proved!IInv /\ Proved!PInv /\ Proved!SInv
    BY <1>1 DEF CfgIInv, NInv
  <2>4. QED
    BY <2>2, <2>3, Proved!StableStep
<1>2. QED
  BY <1>1, CfgInvariant, PTL DEF CfgSpec, Stable

(***************************************************************************)
(* From the builder's function on, with no assumption on what FillDom is   *)
(* given: the pointers are blocks of the function or nil, no climb follows *)
(* a nil Idom, and no Idom ever leaves a region its block is dominated in. *)
(***************************************************************************)
THEOREM ClimbsSafe == CfgSpec => [](TypeOK /\ NoPanic /\ StaysInside)
<1>1. CfgIInv => TypeOK /\ NoPanic /\ StaysInside
  BY AImplied DEF CfgIInv
<1>2. QED
  BY <1>1, CfgInvariant, PTL

(***************************************************************************)
(* From the builder's function on: the Idoms are the closest strict        *)
(* dominators, Dom and DLink list the blocks that each block immediately   *)
(* dominates, and Fron is the dominance frontier.                          *)
(***************************************************************************)
THEOREM DominanceRight == CfgSpec => [](IdomRight /\ TreeRight /\ FronRight)
<1>1. CfgIInv => IdomRight /\ TreeRight /\ FronRight
  BY AImplied DEF CfgIInv
<1>2. QED
  BY <1>1, CfgInvariant, PTL

(***************************************************************************)
(* When FillLoop is done, the depth of every block is the power of ten of  *)
(* the number of loops it is in, for every graph: overlapping loops that   *)
(* overwrite one another's marks, doubled edges and irreducible regions    *)
(* included.                                                               *)
(***************************************************************************)
THEOREM LoopsCounted == CfgSpec => []LoopRight
<1>1. CfgIInv => LoopRight
  BY LoopImplied DEF CfgIInv
<1>2. QED
  BY <1>1, CfgInvariant, PTL
=============================================================================
