--------------------------- MODULE OptimizeProofs ---------------------------
(***************************************************************************)
(* Proofs about constant propagation, for every function in SSA form and   *)
(* whatever temporary the runtime takes from its map: lattice values only  *)
(* go down, the walk visits the blocks that can be reached and no other,   *)
(* and when nothing waits the values are the greatest solution of the      *)
(* equations of the visited code.  The order on values is Below.  All of   *)
(* it rests on ValueFalls: the value of an item falls when the values of   *)
(* what it reads do.  At the end, proofs about dead code elimination, for  *)
(* every function and all Out sets: DInv.                                  *)
(***************************************************************************)
EXTENDS Optimize, GraphProofs

Top == Constant!Top
Bot == Constant!Bot

Below(a, b) == a = b \/ b = Top \/ a = Bot

LEMMA TopIsNotBot == Top # Bot
BY DEF Top, Bot, Constant!Top, Constant!Bot

LEMMA BelowBoth ==
  ASSUME NEW a, NEW b, Below(a, b), Below(b, a)
  PROVE  a = b
BY TopIsNotBot DEF Below

LEMMA BelowBelow ==
  ASSUME NEW a, NEW b, NEW c, Below(a, b), Below(b, c)
  PROVE  Below(a, c)
BY TopIsNotBot DEF Below

(***************************************************************************)
(* Merge is the greatest value below both.                                 *)
(***************************************************************************)
LEMMA MergeIs ==
  ASSUME NEW s, NEW r
  PROVE  Constant!Merge(s, r)
           = IF s = Bot \/ r = Bot THEN Bot ELSE IF s = Top THEN r
             ELSE IF r = Top \/ r = s THEN s ELSE Bot
BY DEF Constant!Merge, Top, Bot

LEMMA MergeFalls ==
  ASSUME NEW a, NEW b, NEW c, NEW d, Below(a, b), Below(c, d)
  PROVE  Below(Constant!Merge(a, c), Constant!Merge(b, d))
<1>1. CASE a = Bot \/ c = Bot
  BY <1>1, MergeIs DEF Below
<1>2. CASE a # Bot /\ c # Bot /\ a = b
  <2>1. CASE c = d
    BY <1>2, <2>1, MergeIs DEF Below
  <2>2. CASE d = Top
    <3>1. Constant!Merge(b, d) = b
      BY <1>2, <2>2, TopIsNotBot, MergeIs
    <3>2. QED
      BY <1>2, <3>1, TopIsNotBot, MergeIs DEF Below
  <2>3. QED
    BY <1>2, <2>1, <2>2 DEF Below
<1>3. CASE a # Bot /\ c # Bot /\ b = Top
  <2>1. Constant!Merge(b, d) = d
    BY <1>3, TopIsNotBot, MergeIs
  <2>2. CASE d = Top
    BY <2>1, <2>2 DEF Below
  <2>3. CASE c = d
    BY <1>3, <2>1, <2>3, TopIsNotBot, MergeIs DEF Below
  <2>4. QED
    BY <1>3, <2>2, <2>3 DEF Below
<1>4. QED
  BY <1>1, <1>2, <1>3 DEF Below

(***************************************************************************)
(* The rounds of visitPhi.                                                 *)
(***************************************************************************)
MergedUpto(g, l, p) ==
  LET upto[k \in 0 .. Len(p.args)] ==
        IF k = 0 THEN Top ELSE Constant!Merge(upto[k - 1], Constant!LatOf(g, l, p.args[k]))
  IN  upto

LEMMA PhiRounds ==
  ASSUME NEW g, NEW l, NEW p, Len(p.args) \in Nat
  PROVE  /\ Constant!PhiLat(g, l, p) = MergedUpto(g, l, p)[Len(p.args)]
         /\ MergedUpto(g, l, p) =
              [k \in 0 .. Len(p.args) |->
                 IF k = 0 THEN Top
                 ELSE Constant!Merge(MergedUpto(g, l, p)[k - 1], Constant!LatOf(g, l, p.args[k]))]
<1> DEFINE n == Len(p.args)
           arg(k) == Constant!LatOf(g, l, p.args[k])
           V == {Top, Bot} \cup {arg(k) : k \in 1 .. n}
           F == [k \in 1 .. n |-> [s \in V |-> Constant!Merge(s, arg(k))]]
           v == Top
<1>1. Constant!PhiLat(g, l, p) = MergedUpto(g, l, p)[Len(p.args)]
  BY DEF Constant!PhiLat, MergedUpto, Top
<1>2. F \in [1 .. n -> [V -> V]]
  <2> SUFFICES ASSUME NEW k \in 1 .. n, NEW s \in V PROVE Constant!Merge(s, arg(k)) \in V
    OBVIOUS
  <2>1. Constant!Merge(s, arg(k)) \in {Bot, arg(k), s}
    BY MergeIs
  <2>2. Bot \in V /\ arg(k) \in V
    OBVIOUS
  <2>3. QED
    BY <2>1, <2>2
<1>3. v \in V /\ n \in Nat
  OBVIOUS
<1> HIDE DEF V, F, n, v
<1>4. PICK h : Follows(h, n, V, v, F)
  BY <1>2, <1>3, Recursion
<1>5. h = [k \in 0 .. n |-> IF k = 0 THEN Top ELSE Constant!Merge(h[k - 1], arg(k))]
  <2>1. ASSUME NEW k \in 1 .. n
        PROVE  h[k] = Constant!Merge(h[k - 1], arg(k))
    <3>1. h[k - 1] \in V
      BY <1>3, <1>4 DEF Follows
    <3>2. h[k] = F[k][h[k - 1]]
      BY <1>4 DEF Follows
    <3>3. QED
      BY <3>1, <3>2 DEF F
  <2>2. h \in [0 .. n -> V] /\ h[0] = Top
    BY <1>4 DEF Follows, v
  <2> HIDE DEF arg
  <2>3. QED
    BY <1>3, <2>1, <2>2
<1>6. QED
  BY <1>1, <1>5 DEF MergedUpto, n

LEMMA PhiFalls ==
  ASSUME NEW g, NEW l, NEW m, NEW p, Len(p.args) \in Nat,
         \A k \in 1 .. Len(p.args) :
           Below(Constant!LatOf(g, l, p.args[k]), Constant!LatOf(g, m, p.args[k]))
  PROVE  Below(Constant!PhiLat(g, l, p), Constant!PhiLat(g, m, p))
<1> DEFINE n == Len(p.args)
           L == MergedUpto(g, l, p)
           M == MergedUpto(g, m, p)
           Bad == {k \in 0 .. n : ~Below(L[k], M[k])}
<1>1. /\ Constant!PhiLat(g, l, p) = L[n] /\ Constant!PhiLat(g, m, p) = M[n]
      /\ L[0] = Top /\ M[0] = Top
      /\ \A k \in 1 .. n : /\ L[k] = Constant!Merge(L[k - 1], Constant!LatOf(g, l, p.args[k]))
                           /\ M[k] = Constant!Merge(M[k - 1], Constant!LatOf(g, m, p.args[k]))
  <2>1. Constant!PhiLat(g, l, p) = L[n] /\ Constant!PhiLat(g, m, p) = M[n]
    BY PhiRounds
  <2>2. L = [k \in 0 .. n |-> IF k = 0 THEN Top
                              ELSE Constant!Merge(L[k - 1], Constant!LatOf(g, l, p.args[k]))]
    BY PhiRounds
  <2>3. M = [k \in 0 .. n |-> IF k = 0 THEN Top
                              ELSE Constant!Merge(M[k - 1], Constant!LatOf(g, m, p.args[k]))]
    BY PhiRounds
  <2>4. n \in Nat
    OBVIOUS
  <2> HIDE DEF L, M, n
  <2>5. L[0] = Top /\ M[0] = Top
    BY <2>2, <2>3, <2>4
  <2>6. ASSUME NEW k \in 1 .. n
        PROVE  /\ L[k] = Constant!Merge(L[k - 1], Constant!LatOf(g, l, p.args[k]))
               /\ M[k] = Constant!Merge(M[k - 1], Constant!LatOf(g, m, p.args[k]))
    <3>1. k \in 0 .. n /\ k # 0
      BY <2>4
    <3>2. QED
      BY <2>2, <2>3, <3>1
  <2>7. QED
    BY <2>1, <2>5, <2>6
<1> HIDE DEF L, M
<1>2. SUFFICES ASSUME Bad # {} PROVE FALSE
  BY <1>1
<1>3. Bad \subseteq Nat
  OBVIOUS
<1>4. PICK k \in Bad : \A j \in Bad : k <= j
  <2> HIDE DEF Bad
  <2>1. QED
    BY <1>2, <1>3, LeastNat
<1>5. k # 0
  BY <1>1, <1>4 DEF Below
<1>6. k \in 1 .. n /\ Below(L[k - 1], M[k - 1])
  BY <1>4, <1>5
<1>7. Below(L[k], M[k])
  BY <1>1, <1>6, MergeFalls
<1>8. QED
  BY <1>4, <1>7

-----------------------------------------------------------------------------
(***************************************************************************)
(* The value of an item depends on the temporaries it reads only.  When    *)
(* their values fall so does it: an operation has one result for constant  *)
(* operands, and none that is above Bot for one that is Bot.               *)
(***************************************************************************)
Shaped(x) ==
  IF Constant!IsPhi(x) THEN x.args \in Seq(Ref) ELSE x.arg \in Seq(Ref) /\ Len(x.arg) = 3

LEMMA LatFalls ==
  ASSUME NEW g, NEW l, NEW m, NEW r, r.kind = "RTmp" => Below(l[r.val], m[r.val])
  PROVE  Below(Constant!LatOf(g, l, r), Constant!LatOf(g, m, r))
BY DEF Constant!LatOf, Constant!IsTmp, Below

LEMMA InsFalls ==
  ASSUME NEW g, NEW l, NEW m, NEW ins,
         Below(Constant!LatOf(g, l, ins.arg[1]), Constant!LatOf(g, m, ins.arg[1])),
         Below(Constant!LatOf(g, l, ins.arg[2]), Constant!LatOf(g, m, ins.arg[2]))
  PROVE  Below(Constant!InsLat(g, l, ins), Constant!InsLat(g, m, ins))
<1> DEFINE binary == ~Constant!IsUndef(ins.arg[2])
           first(k)  == Constant!LatOf(g, k, ins.arg[1])
           second(k) == IF binary THEN Constant!LatOf(g, k, ins.arg[2]) ELSE Constant!Is(0)
           folded(s, r) == Constant!FoldInt(Constant!Unclassed(ins.op), Constant!IsWide(ins.op),
                                            s[2], r[2])
           result(s, r) == IF s = Bot \/ r = Bot THEN Bot ELSE IF s = Top \/ r = Top THEN Top
                           ELSE IF folded(s, r) = Constant!NoFold THEN Bot
                           ELSE Constant!Is(folded(s, r))
<1>1. \A k : Constant!InsLat(g, k, ins) = result(first(k), second(k))
  BY DEF Constant!InsLat, Top, Bot
<1>2. Below(first(l), first(m)) /\ Below(second(l), second(m))
  BY DEF Below
<1> HIDE DEF first, second, folded
<1>3. Below(result(first(l), second(l)), result(first(m), second(m)))
  BY <1>2, TopIsNotBot DEF Below
<1> HIDE DEF result
<1>4. QED
  BY <1>1, <1>3

LEMMA ValueFalls ==
  ASSUME NEW g, NEW l, NEW m, NEW x, Shaped(x),
         \A t \in Nat : Constant!Reads(x, t) => Below(l[t], m[t])
  PROVE  Below(Constant!ValueOf(g, l, x), Constant!ValueOf(g, m, x))
<1> DEFINE refs == IF Constant!IsPhi(x) THEN x.args ELSE x.arg
<1>1. ASSUME NEW k \in DOMAIN refs, refs \in Seq(Ref)
      PROVE  Below(Constant!LatOf(g, l, refs[k]), Constant!LatOf(g, m, refs[k]))
  <2> DEFINE r == refs[k]
  <2>1. r \in Ref
    BY <1>1
  <2>2. r \in Constant!Elems(refs)
    BY DEF Constant!Elems
  <2>3. ASSUME r.kind = "RTmp" PROVE Below(l[r.val], m[r.val])
    <3> HIDE DEF refs
    <3>1. r.val \in Nat /\ r = Constant!Tmp(r.val)
      BY <2>1, <2>3 DEF Ref, Constant!Tmp
    <3> HIDE DEF r
    <3>2. Constant!Reads(x, r.val)
      BY <2>2, <3>1 DEF Constant!Reads, refs
    <3>3. QED
      BY <3>1, <3>2
  <2> HIDE DEF r
  <2>4. QED
    BY <2>3, LatFalls DEF r
<1>2. CASE Constant!IsPhi(x)
  <2>1. refs = x.args /\ refs \in Seq(Ref)
    BY <1>2 DEF Shaped
  <2>2. Len(x.args) \in Nat /\ DOMAIN refs = 1 .. Len(x.args)
    BY <2>1
  <2> HIDE DEF refs
  <2>3. \A k \in 1 .. Len(x.args) :
          Below(Constant!LatOf(g, l, x.args[k]), Constant!LatOf(g, m, x.args[k]))
    BY <1>1, <2>1, <2>2
  <2>4. QED
    BY <1>2, <2>2, <2>3, PhiFalls DEF Constant!ValueOf
<1>3. CASE ~Constant!IsPhi(x)
  <2>1. refs = x.arg /\ refs \in Seq(Ref)
    BY <1>3 DEF Shaped
  <2>2. 1 \in DOMAIN refs /\ 2 \in DOMAIN refs
    BY <1>3, <2>1 DEF Shaped
  <2> HIDE DEF refs
  <2>3. QED
    BY <1>1, <1>3, <2>1, <2>2, InsFalls DEF Constant!ValueOf
<1>4. QED
  BY <1>2, <1>3

LEMMA ValueKept ==
  ASSUME NEW g, NEW l, NEW m, NEW x, Shaped(x),
         \A t \in Nat : Constant!Reads(x, t) => l[t] = m[t]
  PROVE  Constant!ValueOf(g, l, x) = Constant!ValueOf(g, m, x)
<1>1. \A t \in Nat : Constant!Reads(x, t) => Below(l[t], m[t]) /\ Below(m[t], l[t])
  BY DEF Below
<1>2. /\ Below(Constant!ValueOf(g, l, x), Constant!ValueOf(g, m, x))
      /\ Below(Constant!ValueOf(g, m, x), Constant!ValueOf(g, l, x))
  BY <1>1, ValueFalls
<1>3. QED
  BY <1>2, BelowBoth

(***************************************************************************)
(* FlattenSeq joins sequences: the result holds what they hold.            *)
(***************************************************************************)
Joined(s) ==
  LET flatten[j \in 1 .. Len(s)] == IF j = 1 THEN s[j] ELSE flatten[j - 1] \o s[j]
  IN  flatten

LEMMA JoinedRounds ==
  ASSUME NEW V, NEW s \in Seq(Seq(V)), Len(s) # 0
  PROVE  /\ Constant!Join!FlattenSeq(s) = Joined(s)[Len(s)]
         /\ Joined(s) = [j \in 1 .. Len(s) |->
                           IF j = 1 THEN s[j] ELSE Joined(s)[j - 1] \o s[j]]
<1> DEFINE n == Len(s)
           F == [k \in 1 .. n |-> [r \in Seq(V) |-> r \o s[k]]]
<1>1. Constant!Join!FlattenSeq(s) = Joined(s)[n]
  BY DEF Constant!Join!FlattenSeq, Joined
<1>2. n \in Nat /\ \A k \in 1 .. n : s[k] \in Seq(V)
  OBVIOUS
<1>3. F \in [1 .. n -> [Seq(V) -> Seq(V)]] /\ <<>> \in Seq(V)
  BY <1>2
<1> HIDE DEF F, n
<1>4. PICK h : Follows(h, n, Seq(V), <<>>, F)
  BY <1>2, <1>3, Recursion
<1>5. \A k \in 1 .. n : h[k] = h[k - 1] \o s[k] /\ h[k - 1] \in Seq(V)
  <2> SUFFICES ASSUME NEW k \in 1 .. n
               PROVE  h[k] = h[k - 1] \o s[k] /\ h[k - 1] \in Seq(V)
    OBVIOUS
  <2>1. h[k - 1] \in Seq(V) /\ h[k] = F[k][h[k - 1]]
    BY <1>2, <1>4 DEF Follows
  <2>2. F[k] = [r \in Seq(V) |-> r \o s[k]]
    BY DEF F
  <2>3. QED
    BY <2>1, <2>2
<1> DEFINE e == [j \in 1 .. n |-> h[j]]
<1>6. e = [j \in 1 .. n |-> IF j = 1 THEN s[j] ELSE e[j - 1] \o s[j]]
  <2>1. ASSUME NEW j \in 1 .. n PROVE e[j] = IF j = 1 THEN s[j] ELSE e[j - 1] \o s[j]
    <3>1. CASE j = 1
      <4>1. h[1] = h[0] \o s[1] /\ s[1] \in Seq(V)
        <5>1. 1 \in 1 .. n /\ 1 - 1 = 0
          BY <3>1
        <5>2. h[1] = h[1 - 1] \o s[1] /\ s[1] \in Seq(V)
          BY <1>2, <1>5, <5>1
        <5>3. QED
          BY <5>1, <5>2
      <4>2. h[0] = <<>>
        BY <1>4 DEF Follows
      <4>3. h[1] = s[1]
        BY <4>1, <4>2
      <4>4. QED
        BY <3>1, <4>3
    <3>2. CASE j # 1
      <4>1. j - 1 \in 1 .. n
        BY <1>2, <3>2
      <4>2. QED
        BY <1>5, <3>2, <4>1
    <3>3. QED
      BY <3>1, <3>2
  <2> DEFINE w == [j \in 1 .. n |-> IF j = 1 THEN s[j] ELSE e[j - 1] \o s[j]]
  <2>2. \A j \in 1 .. n : e[j] = w[j]
    BY <2>1
  <2>3. DOMAIN e = 1 .. n /\ DOMAIN w = 1 .. n /\ e = [j \in 1 .. n |-> e[j]] /\ w = [j \in 1 .. n |-> w[j]]
    OBVIOUS
  <2> HIDE DEF e, w
  <2>4. e = w
    BY <2>2, <2>3
  <2>5. QED
    BY <2>4 DEF w
<1> HIDE DEF e
<1>7. QED
  BY <1>1, <1>6 DEF Joined, n

LEMMA FlattenHolds ==
  ASSUME NEW V, NEW s \in Seq(Seq(V))
  PROVE  /\ Constant!Join!FlattenSeq(s) \in Seq(V)
         /\ Elems(Constant!Join!FlattenSeq(s)) = UNION {Elems(s[j]) : j \in DOMAIN s}
<1>1. CASE Len(s) = 0
  <2>1. Constant!Join!FlattenSeq(s) = s
    BY <1>1 DEF Constant!Join!FlattenSeq
  <2>2. s = <<>> /\ DOMAIN s = {}
    BY <1>1
  <2>3. s \in Seq(V) /\ Elems(s) = {} /\ UNION {Elems(s[j]) : j \in DOMAIN s} = {}
    BY <2>2 DEF Elems
  <2>4. QED
    BY <2>1, <2>3
<1>2. CASE Len(s) # 0
  <2> DEFINE J == Joined(s)
             n == Len(s)
             Good(k) == J[k] \in Seq(V) /\ Elems(J[k]) = UNION {Elems(s[j]) : j \in 1 .. k}
             Bad == {k \in 1 .. n : ~Good(k)}
  <2>1. Constant!Join!FlattenSeq(s) = J[n] /\ n \in Nat /\ n # 0
    <3>1. Constant!Join!FlattenSeq(s) = J[n]
      BY <1>2, JoinedRounds
    <3>2. n \in Nat /\ n # 0
      BY <1>2
    <3>3. QED
      BY <3>1, <3>2
  <2>2. J = [j \in 1 .. n |-> IF j = 1 THEN s[j] ELSE J[j - 1] \o s[j]]
    BY <1>2, JoinedRounds
  <2>3. (\A j \in 1 .. n : s[j] \in Seq(V)) /\ DOMAIN s = 1 .. n
    OBVIOUS
  <2> HIDE DEF J, n
  <2>4. Bad = {}
    <3> SUFFICES ASSUME Bad # {} PROVE FALSE
      OBVIOUS
    <3>1. Bad \subseteq Nat
      BY <2>1
    <3> HIDE DEF Bad
    <3>2. PICK k \in Bad : \A j \in Bad : k <= j
      BY <3>1, LeastNat
    <3> USE DEF Bad
    <3>3. k \in 1 .. n /\ ~Good(k)
      BY <3>2
    <3>4. CASE k = 1
      <4>1. J[1] = s[1] /\ 1 .. 1 = {1}
        BY <2>2, <3>3, <3>4
      <4>2. QED
        BY <2>3, <3>3, <3>4, <4>1
    <3>5. CASE k # 1
      <4>1. k - 1 \in 1 .. n /\ 1 .. k = (1 .. k - 1) \cup {k}
        BY <2>1, <3>3, <3>5
      <4>2. Good(k - 1)
        <5> HIDE DEF Good
        <5>1. ~(k <= k - 1)
          BY <2>1, <3>3
        <5>2. QED
          BY <3>2, <4>1, <5>1
      <4>3. J[k] = J[k - 1] \o s[k]
        BY <2>2, <3>3, <3>5
      <4>4. J[k] \in Seq(V) /\ Elems(J[k]) = Elems(J[k - 1]) \cup Elems(s[k])
        BY <2>3, <3>3, <4>2, <4>3, ElemsConcat
      <4>5. UNION {Elems(s[j]) : j \in 1 .. k}
              = (UNION {Elems(s[j]) : j \in 1 .. k - 1}) \cup Elems(s[k])
        BY <4>1
      <4>6. QED
        BY <3>3, <4>2, <4>4, <4>5
    <3>6. QED
      BY <3>4, <3>5
  <2>5. n \in 1 .. n
    BY <2>1
  <2>6. Good(n)
    BY <2>4, <2>5
  <2>7. QED
    BY <2>1, <2>3, <2>6
<1>3. QED
  BY <1>1, <1>2

-----------------------------------------------------------------------------
(***************************************************************************)
(* What there is to visit in the blocks of B.                              *)
(***************************************************************************)
Work(g, B) == UNION {Elems(Constant!ItemsOf(g, b)) : b \in B}

InSSA(g) == IsFunction(g) /\ ThreeArgs(g) /\ SingleDefs(g)

LEMMA ItemsMean ==
  ASSUME NEW g, InSSA(g), NEW b \in Blocks(g)
  PROVE  /\ Constant!ItemsOf(g, b) \in Seq(Phi \cup Instruction)
         /\ Elems(Constant!ItemsOf(g, b)) = Elems(g.phis[b]) \cup Elems(g.ins[b])
<1>1. g.phis[b] \in Seq(Phi) /\ g.ins[b] \in Seq(Instruction)
  BY DEF InSSA, IsFunction
<1>2. g.phis[b] \in Seq(Phi \cup Instruction) /\ g.ins[b] \in Seq(Phi \cup Instruction)
  BY <1>1
<1>3. QED
  BY <1>2, ElemsConcat DEF Constant!ItemsOf

LEMMA ItemShaped ==
  ASSUME NEW g, InSSA(g), NEW b \in Blocks(g), NEW x \in Elems(Constant!ItemsOf(g, b))
  PROVE  /\ Shaped(x)
         /\ Constant!IsTmp(x.to) => x.to.val \in Temps(g) /\ x.to = Tmp(x.to.val)
         /\ \A t \in Nat : Constant!Reads(x, t) => t \in Temps(g)
<1>1. CASE x \in Elems(g.phis[b])
  <2>1. PICK k \in DOMAIN g.phis[b] : x = g.phis[b][k]
    BY <1>1 DEF Elems
  <2>2. x \in Phi
    BY <2>1 DEF InSSA, IsFunction
  <2>3. \A r \in Elems(x.args) \cup {x.to} : RefOK(g, r)
    BY <2>1 DEF InSSA, IsFunction
  <2>4. Constant!IsPhi(x) /\ x.args \in Seq(Ref) /\ x.to \in Ref
    BY <2>2 DEF Phi, Constant!IsPhi
  <2>5. QED
    BY <2>3, <2>4 DEF Shaped, RefOK, IsTmp, Constant!IsTmp, Constant!Reads, Constant!Tmp, Tmp, Ref,
                      Elems, Constant!Elems
<1>2. CASE x \in Elems(g.ins[b])
  <2>1. PICK k \in DOMAIN g.ins[b] : x = g.ins[b][k]
    BY <1>2 DEF Elems
  <2>2. x \in Instruction
    BY <2>1 DEF InSSA, IsFunction
  <2>3. \A r \in Elems(x.arg) \cup {x.to} : RefOK(g, r)
    BY <2>1 DEF InSSA, IsFunction
  <2>4. ~Constant!IsPhi(x) /\ x.arg \in Seq(Ref) /\ x.to \in Ref
    BY <2>2 DEF Instruction, Constant!IsPhi
  <2>5. Len(x.arg) = 3
    BY <1>2 DEF InSSA, ThreeArgs
  <2>6. QED
    BY <2>3, <2>4, <2>5 DEF Shaped, RefOK, IsTmp, Constant!IsTmp, Constant!Reads, Constant!Tmp, Tmp,
                            Ref, Elems, Constant!Elems
<1>3. QED
  BY <1>1, <1>2, ItemsMean

LEMMA InWork ==
  ASSUME NEW g, InSSA(g), NEW B \in SUBSET Blocks(g), NEW b \in B
  PROVE  Constant!ItemsOf(g, b) \in Seq(Work(g, B))
<1> DEFINE s == Constant!ItemsOf(g, b)
<1>1. s \in Seq(Phi \cup Instruction)
  BY ItemsMean
<1>2. \A k \in DOMAIN s : s[k] \in Work(g, B)
  BY DEF Work, Elems
<1> HIDE DEF s
<1>3. s \in Seq(Work(g, B))
  BY <1>1, <1>2
<1>4. QED
  BY <1>3 DEF s

(***************************************************************************)
(* The lists that VisitUses and VisitBlock write.                          *)
(***************************************************************************)
LEMMA VisitedMean ==
  ASSUME InSSA(f), blockExec \subseteq Blocks(f), NEW V, NEW part \in [Blocks(f) -> Seq(V)]
  PROVE  /\ Constant!InVisited(part) \in Seq(V)
         /\ Elems(Constant!InVisited(part)) = UNION {Elems(part[b]) : b \in blockExec}
<1> DEFINE s == [k \in 1 .. f.n |-> IF k - 1 \in blockExec THEN part[k - 1] ELSE <<>>]
<1>1. f.n \in Nat
  BY DEF InSSA, IsFunction
<1>2. \A k \in 1 .. f.n : k - 1 \in Blocks(f)
  BY <1>1 DEF Blocks
<1>3. s \in Seq(Seq(V)) /\ DOMAIN s = 1 .. f.n
  <2> DEFINE m == f.n
  <2>1. \A k \in 1 .. f.n : s[k] \in Seq(V)
    BY <1>2
  <2>2. m \in Nat /\ s = [k \in 1 .. m |-> s[k]] /\ \A k \in 1 .. m : s[k] \in Seq(V)
    BY <1>1, <2>1
  <2> HIDE DEF s, m
  <2>3. s \in Seq(Seq(V)) /\ DOMAIN s = 1 .. m
    BY <2>2
  <2>4. QED
    BY <2>3 DEF m
<1>4. UNION {Elems(s[k]) : k \in DOMAIN s} = UNION {Elems(part[b]) : b \in blockExec}
  <2>1. ASSUME NEW k \in DOMAIN s, NEW y \in Elems(s[k])
        PROVE  \E b \in blockExec : y \in Elems(part[b])
    BY <2>1, <1>3 DEF Elems
  <2>2. ASSUME NEW b \in blockExec, NEW y \in Elems(part[b])
        PROVE  \E k \in DOMAIN s : y \in Elems(s[k])
    <3>1. b + 1 \in 1 .. f.n /\ (b + 1) - 1 = b
      BY <1>1 DEF Blocks
    <3>2. s[b + 1] = part[b]
      BY <3>1
    <3>3. QED
      BY <1>3, <2>2, <3>1, <3>2
  <2> DEFINE A == UNION {Elems(s[k]) : k \in DOMAIN s}
             B == UNION {Elems(part[b]) : b \in blockExec}
  <2> HIDE DEF s
  <2>3. \A y \in A : y \in B
    BY <2>1
  <2>4. \A y \in B : y \in A
    BY <2>2
  <2> HIDE DEF A, B
  <2>5. A = B
    BY <2>3, <2>4
  <2>6. QED
    BY <2>5 DEF A, B
<1>5. Constant!InVisited(part) = Constant!Join!FlattenSeq(s)
  BY DEF Constant!InVisited
<1> HIDE DEF s
<1>6. QED
  BY <1>3, <1>4, <1>5, FlattenHolds

LEMMA UsedByMean ==
  ASSUME InSSA(f), NEW b \in Blocks(f), NEW t
  PROVE  /\ Constant!UsedBy(t, b) \in Seq(Elems(Constant!ItemsOf(f, b)))
         /\ Elems(Constant!UsedBy(t, b))
              = {x \in Elems(Constant!ItemsOf(f, b)) : Constant!Reads(x, t)}
<1> DEFINE I == Constant!ItemsOf(f, b)
           once(x) == IF Constant!Reads(x, t) THEN <<x>> ELSE <<>>
           s == [k \in DOMAIN I |-> once(I[k])]
<1>1. I \in Seq(Phi \cup Instruction)
  BY ItemsMean
<1>2. Constant!UsedBy(t, b) = Constant!Join!FlattenSeq(s)
  BY DEF Constant!UsedBy
<1> HIDE DEF I
<1>3. ASSUME NEW x \in Elems(I)
      PROVE  once(x) \in Seq(Elems(I)) /\ Elems(once(x)) = {y \in {x} : Constant!Reads(y, t)}
  <2> DEFINE V == Elems(I)
  <2>1. x \in V
    OBVIOUS
  <2> HIDE DEF V
  <2>2. CASE Constant!Reads(x, t)
    <3>1. once(x) = <<x>> /\ <<x>> \in Seq(V) /\ Elems(<<x>>) = {x}
      BY <2>1, <2>2 DEF Elems
    <3>2. {y \in {x} : Constant!Reads(y, t)} = {x}
      BY <2>2
    <3>3. QED
      BY <3>1, <3>2 DEF V
  <2>3. CASE ~Constant!Reads(x, t)
    <3>1. once(x) = <<>> /\ <<>> \in Seq(V) /\ Elems(<<>>) = {}
      BY <2>3 DEF Elems
    <3>2. {y \in {x} : Constant!Reads(y, t)} = {}
      BY <2>3
    <3>3. QED
      BY <3>1, <3>2 DEF V
  <2>4. QED
    BY <2>2, <2>3
<1> HIDE DEF once
<1>4. \A k \in DOMAIN I : I[k] \in Elems(I)
  BY DEF Elems
<1>5. s \in Seq(Seq(Elems(I))) /\ DOMAIN s = DOMAIN I
  BY <1>1, <1>3, <1>4
<1>6. UNION {Elems(s[k]) : k \in DOMAIN s} = {x \in Elems(I) : Constant!Reads(x, t)}
  <2>1. \A k \in DOMAIN s : Elems(s[k]) = {y \in {I[k]} : Constant!Reads(y, t)}
    BY <1>3, <1>4, <1>5
  <2>2. \A x \in Elems(I) : \E k \in DOMAIN s : x = I[k]
    BY <1>5 DEF Elems
  <2> HIDE DEF s
  <2>3. QED
    BY <1>4, <1>5, <2>1, <2>2
<1> HIDE DEF s
<1>7. QED
  BY <1>2, <1>5, <1>6, FlattenHolds DEF I

LEMMA UsesMean ==
  ASSUME InSSA(f), blockExec \subseteq Blocks(f), NEW t
  PROVE  /\ Constant!UsesOf(t) \in Seq(Work(f, blockExec))
         /\ \A x \in Work(f, blockExec) : Constant!Reads(x, t) => x \in Elems(Constant!UsesOf(t))
<1> DEFINE part == [b \in Blocks(f) |-> Constant!UsedBy(t, b)]
           V == UNION {Elems(Constant!ItemsOf(f, b)) : b \in Blocks(f)}
<1>1. part \in [Blocks(f) -> Seq(V)]
  <2>1. \A b \in Blocks(f) : Constant!UsedBy(t, b) \in Seq(V)
    <3> SUFFICES ASSUME NEW b \in Blocks(f) PROVE Constant!UsedBy(t, b) \in Seq(V)
      OBVIOUS
    <3>1. Elems(Constant!ItemsOf(f, b)) \subseteq V
      OBVIOUS
    <3> HIDE DEF V
    <3>2. QED
      BY <3>1, UsedByMean
  <2>2. QED
    BY <2>1
<1>2. Constant!UsesOf(t) = Constant!InVisited(part)
  BY DEF Constant!UsesOf, Constant!Blocks, Blocks
<1>3. \A b \in blockExec :
        Elems(part[b]) = {x \in Elems(Constant!ItemsOf(f, b)) : Constant!Reads(x, t)}
  BY UsedByMean
<1> HIDE DEF part, V
<1>4. Constant!UsesOf(t) \in Seq(V) /\ Elems(Constant!UsesOf(t)) = UNION {Elems(part[b]) : b \in blockExec}
  BY <1>1, <1>2, VisitedMean
<1>5. Elems(Constant!UsesOf(t)) \subseteq Work(f, blockExec)
  BY <1>3, <1>4 DEF Work
<1>6. \A k \in DOMAIN Constant!UsesOf(t) : Constant!UsesOf(t)[k] \in Work(f, blockExec)
  BY <1>5 DEF Elems
<1>7. Constant!UsesOf(t) \in Seq(Work(f, blockExec))
  BY <1>4, <1>6
<1>8. QED
  BY <1>3, <1>4, <1>7 DEF Work

LEMMA JumpsToMean ==
  ASSUME InSSA(f), NEW b \in Blocks(f)
  PROVE  /\ Constant!JumpsTo(b) \in Seq(Blocks(f))
         /\ Elems(Constant!JumpsTo(b)) = Succs(f, b)
<1> DEFINE one(c) == IF c = Nil THEN <<>> ELSE <<c>>
<1>1. Constant!JumpsTo(b) = one(f.s1[b]) \o one(f.s2[b])
  BY DEF Constant!JumpsTo, Constant!Nil, Nil
<1>2. ASSUME NEW c \in Blocks(f) \cup {Nil}
      PROVE  one(c) \in Seq(Blocks(f)) /\ Elems(one(c)) = {c} \ {Nil}
  BY DEF Elems
<1>3. f.s1[b] \in Blocks(f) \cup {Nil} /\ f.s2[b] \in Blocks(f) \cup {Nil}
  BY DEF InSSA, IsFunction
<1> HIDE DEF one
<1>4. QED
  BY <1>1, <1>2, <1>3, ElemsConcat DEF Succs

LEMMA JumpsOnMean ==
  ASSUME InSSA(f), blockExec \subseteq Blocks(f), NEW t
  PROVE  /\ Constant!JumpsOn(t) \in Seq(Blocks(f))
         /\ Elems(Constant!JumpsOn(t)) \subseteq UNION {Succs(f, b) : b \in blockExec}
<1> DEFINE part == [b \in Blocks(f) |->
                      IF f.jmp[b].arg = Constant!Tmp(t) THEN Constant!JumpsTo(b) ELSE <<>>]
<1>1. part \in [Blocks(f) -> Seq(Blocks(f))]
  BY JumpsToMean
<1>2. Constant!JumpsOn(t) = Constant!InVisited(part)
  BY DEF Constant!JumpsOn, Constant!Blocks, Blocks
<1>3. \A b \in blockExec : Elems(part[b]) \subseteq Succs(f, b)
  <2> SUFFICES ASSUME NEW b \in blockExec PROVE Elems(part[b]) \subseteq Succs(f, b)
    OBVIOUS
  <2>1. b \in Blocks(f) /\ (part[b] = <<>> \/ part[b] = Constant!JumpsTo(b))
    OBVIOUS
  <2>2. Elems(<<>>) = {} /\ Elems(Constant!JumpsTo(b)) = Succs(f, b)
    BY <2>1, JumpsToMean DEF Elems
  <2> HIDE DEF part
  <2>3. QED
    BY <2>1, <2>2
<1> HIDE DEF part
<1>4. /\ Constant!JumpsOn(t) \in Seq(Blocks(f))
      /\ Elems(Constant!JumpsOn(t)) = UNION {Elems(part[b]) : b \in blockExec}
  BY <1>1, <1>2, VisitedMean
<1>5. QED
  BY <1>3, <1>4

-----------------------------------------------------------------------------
(***************************************************************************)
(* The invariant of the propagation.                                       *)
(***************************************************************************)
Settles(g, l, x) == Constant!IsTmp(x.to) => l[x.to.val] = Constant!ValueOf(g, l, x)

Solves(g, l) == \A x \in Work(g, ReachIn(g, 0, Blocks(g))) : Settles(g, l, x)

Reachable == ReachIn(source, 0, Blocks(source))

\* Types, and that the function is the one the pass was given until it is rewritten.
STyped ==
  /\ InSSA(source)
  /\ spc \in {"flow", "transform", "done"}
  /\ spc = "flow" => f = source
  /\ spc # "flow" => todo = <<>> /\ flowWL = <<>> /\ ssaWL = {}
  /\ lat = [t \in Temps(source) |-> lat[t]]
  /\ flowWL \in Seq(Blocks(source)) /\ blockExec \subseteq Blocks(source)
  /\ ssaWL \subseteq Temps(source)
  /\ todo \in Seq(Work(source, blockExec))

\* No visit can raise a value.
Falling ==
  \A x \in Work(source, Blocks(source)) :
    Constant!IsTmp(x.to) => Below(Constant!ValueOf(source, lat, x), lat[x.to.val])

\* What does not have its value yet is still to be visited, or reads what waits.
Waiting ==
  \A x \in Work(source, blockExec) :
    \/ Settles(source, lat, x)
    \/ x \in Elems(todo)
    \/ \E t \in ssaWL : Constant!Reads(x, t)

\* Every solution is below the values, so none is given up for the order of the visits.
Greatest == \A l : Solves(source, l) => \A t \in Temps(source) : Below(l[t], lat[t])

\* The blocks visited or waiting are reachable, and hold the successors of the visited.
Explored ==
  /\ 0 \in blockExec \cup Elems(flowWL)
  /\ \A b \in blockExec : Succs(source, b) \subseteq blockExec \cup Elems(flowWL)
  /\ blockExec \cup Elems(flowWL) \subseteq Reachable

SInv == STyped /\ Falling /\ Waiting /\ Greatest /\ Explored

LEMMA HeadElems ==
  ASSUME NEW V, NEW s \in Seq(V), s # <<>>
  PROVE  /\ Head(s) \in V /\ Tail(s) \in Seq(V) /\ Head(s) \in Elems(s)
         /\ Elems(s) = {Head(s)} \cup Elems(Tail(s))
<1>1. Len(s) \in Nat /\ Len(s) # 0 /\ DOMAIN s = 1 .. Len(s) /\ Head(s) = s[1]
  OBVIOUS
<1>2. Head(s) \in V /\ Tail(s) \in Seq(V) /\ Head(s) \in Elems(s)
  BY <1>1 DEF Elems
<1>3. \A y \in Elems(s) : y \in {Head(s)} \cup Elems(Tail(s))
  <2> SUFFICES ASSUME NEW k \in 1 .. Len(s), k # 1
               PROVE  s[k] \in Elems(Tail(s))
    BY <1>1 DEF Elems
  <2>1. k - 1 \in DOMAIN Tail(s) /\ Tail(s)[k - 1] = s[k]
    BY <1>1
  <2>2. QED
    BY <2>1 DEF Elems
<1>4. \A y \in Elems(Tail(s)) : y \in Elems(s)
  <2> SUFFICES ASSUME NEW k \in DOMAIN Tail(s) PROVE Tail(s)[k] \in Elems(s)
    BY DEF Elems
  <2>1. k + 1 \in DOMAIN s /\ Tail(s)[k] = s[k + 1]
    BY <1>1
  <2>2. QED
    BY <2>1 DEF Elems
<1>5. QED
  BY <1>2, <1>3, <1>4

LEMMA WorkFacts ==
  ASSUME NEW g, InSSA(g), NEW B \in SUBSET Blocks(g), NEW x \in Work(g, B)
  PROVE  /\ x \in Work(g, Blocks(g)) /\ Shaped(x)
         /\ Constant!IsTmp(x.to) => x.to.val \in Temps(g) /\ x.to = Tmp(x.to.val)
         /\ \A t \in Nat : Constant!Reads(x, t) => t \in Temps(g)
         /\ \A y \in Work(g, Blocks(g)) :
              Constant!IsTmp(x.to) /\ Constant!IsTmp(y.to) /\ x.to.val = y.to.val => x = y
<1>1. PICK b \in B : x \in Elems(Constant!ItemsOf(g, b))
  BY DEF Work
<1>2. /\ x \in Work(g, Blocks(g)) /\ Shaped(x)
      /\ Constant!IsTmp(x.to) => x.to.val \in Temps(g) /\ x.to = Tmp(x.to.val)
      /\ \A t \in Nat : Constant!Reads(x, t) => t \in Temps(g)
  BY <1>1, ItemShaped DEF Work
<1>3. ASSUME NEW y \in Work(g, Blocks(g)),
             Constant!IsTmp(x.to), Constant!IsTmp(y.to), x.to.val = y.to.val
      PROVE  x = y
  <2>1. PICK c \in Blocks(g) : y \in Elems(Constant!ItemsOf(g, c))
    BY DEF Work
  <2>2. y.to = Tmp(y.to.val)
    BY <1>3, <2>1, ItemShaped
  <2>3. x.to = y.to
    BY <1>2, <1>3, <2>2
  <2>4. b \in Blocks(g) /\ IsTmp(x.to)
    BY <1>3 DEF IsTmp, Constant!IsTmp
  <2>5. QED
    BY <1>1, <2>1, <2>3, <2>4 DEF InSSA, SingleDefs, Constant!ItemsOf
<1>4. QED
  BY <1>2, <1>3

(***************************************************************************)
(* A visit.                                                                *)
(***************************************************************************)
LEMMA VisitKeeps ==
  ASSUME SInv, Constant!Visit, UNCHANGED source
  PROVE  SInv'
<1> DEFINE x == Head(todo)
           k == x.to.val
           v == Constant!ValueOf(source, lat, x)
           all == Work(source, Blocks(source))
<1>1. /\ STyped /\ Falling /\ Waiting /\ Greatest /\ Explored
      /\ spc = "flow" /\ f = source /\ todo # <<>> /\ todo' = Tail(todo)
      /\ UNCHANGED <<f, flowWL, blockExec, spc>>
  BY DEF SInv, STyped, Constant!Visit
<1>2. IF ~Constant!IsTmp(x.to) \/ v = lat[k] THEN UNCHANGED <<lat, ssaWL>>
      ELSE lat' = [lat EXCEPT ![k] = v] /\ ssaWL' = ssaWL \cup {k}
  BY <1>1 DEF Constant!Visit
<1>3. /\ x \in Work(source, blockExec) /\ todo' \in Seq(Work(source, blockExec))
      /\ \A y \in Elems(todo) : y = x \/ y \in Elems(todo')
  BY <1>1, HeadElems DEF STyped
<1>4. /\ x \in all /\ Shaped(x) /\ (Constant!IsTmp(x.to) => k \in Temps(source))
      /\ \A y \in all : Constant!IsTmp(x.to) /\ Constant!IsTmp(y.to) /\ y.to.val = k => y = x
      /\ \A t \in Nat : Constant!Reads(x, t) => t \in Temps(source)
  BY <1>1, <1>3, WorkFacts DEF STyped
<1>5. Explored'
  BY <1>1 DEF Explored, Reachable
<1>6. CASE UNCHANGED <<lat, ssaWL>> /\ (~Constant!IsTmp(x.to) \/ v = lat[k])
  <2>1. STyped'
    BY <1>1, <1>3, <1>6 DEF STyped
  <2>2. Falling' /\ Greatest'
    BY <1>1, <1>6 DEF Falling, Greatest
  <2>3. Waiting'
    <3> SUFFICES ASSUME NEW y \in Work(source, blockExec)
                 PROVE  \/ Settles(source, lat, y) \/ y \in Elems(todo')
                        \/ \E t \in ssaWL : Constant!Reads(y, t)
      BY <1>1, <1>6 DEF Waiting
    <3>1. Settles(source, lat, x)
      BY <1>6 DEF Settles
    <3> HIDE DEF x
    <3>2. QED
      BY <1>1, <1>3, <3>1 DEF Waiting
  <2>4. QED
    BY <1>5, <2>1, <2>2, <2>3 DEF SInv
<1>7. CASE /\ lat' = [lat EXCEPT ![k] = v] /\ ssaWL' = ssaWL \cup {k}
           /\ Constant!IsTmp(x.to)
  <2>1. STyped'
    BY <1>1, <1>3, <1>4, <1>7 DEF STyped
  <2>2. /\ lat'[k] = v /\ Below(v, lat[k])
        /\ \A t \in Temps(source) \ {k} : lat'[t] = lat[t]
    BY <1>1, <1>4, <1>7 DEF STyped, Falling
  <2>3. \A t \in Temps(source) : Below(lat'[t], lat[t])
    BY <2>2 DEF Below
  <2>4. ASSUME NEW y \in all
        PROVE  Below(Constant!ValueOf(source, lat', y), Constant!ValueOf(source, lat, y))
    <3>1. Shaped(y) /\ \A t \in Nat : Constant!Reads(y, t) => t \in Temps(source)
      BY <1>1, WorkFacts DEF STyped
    <3>2. QED
      BY <2>3, <3>1, ValueFalls
  <2>5. Falling'
    <3> SUFFICES ASSUME NEW y \in all, Constant!IsTmp(y.to)
                 PROVE  Below(Constant!ValueOf(source, lat', y), lat'[y.to.val])
      BY DEF Falling
    <3>1. CASE y.to.val = k
      BY <1>4, <1>7, <2>2, <2>4, <3>1
    <3>2. CASE y.to.val # k
      <4>1. y.to.val \in Temps(source)
        BY <1>1, WorkFacts DEF STyped
      <4>2. lat'[y.to.val] = lat[y.to.val] /\ Below(Constant!ValueOf(source, lat, y), lat[y.to.val])
        BY <1>1, <2>2, <3>2, <4>1 DEF Falling
      <4>3. QED
        BY <2>4, <4>2, BelowBelow
    <3>3. QED
      BY <3>1, <3>2
  <2>6. Waiting'
    <3> SUFFICES ASSUME NEW y \in Work(source, blockExec)
                 PROVE  \/ Settles(source, lat', y) \/ y \in Elems(todo')
                        \/ \E t \in ssaWL' : Constant!Reads(y, t)
      BY <1>1 DEF Waiting
    <3>1. CASE Constant!Reads(y, k)
      BY <1>7, <3>1
    <3>2. CASE ~Constant!Reads(y, k) /\ y = x
      <4>1. Constant!ValueOf(source, lat', x) = v
        BY <1>4, <2>2, <3>2, ValueKept
      <4>2. QED
        BY <2>2, <3>2, <4>1 DEF Settles
    <3>3. CASE ~Constant!Reads(y, k) /\ y # x
      <4>1. /\ y \in all /\ Shaped(y) /\ (Constant!IsTmp(y.to) => y.to.val \in Temps(source))
            /\ \A t \in Nat : Constant!Reads(y, t) => t \in Temps(source)
        BY <1>1, WorkFacts DEF STyped
      <4>2. Constant!ValueOf(source, lat', y) = Constant!ValueOf(source, lat, y)
        BY <2>2, <3>3, <4>1, ValueKept
      <4>3. Constant!IsTmp(y.to) => lat'[y.to.val] = lat[y.to.val]
        BY <1>4, <1>7, <2>2, <3>3, <4>1
      <4>4. Settles(source, lat, y) => Settles(source, lat', y)
        BY <4>2, <4>3 DEF Settles
      <4>5. \/ Settles(source, lat, y) \/ y \in Elems(todo)
            \/ \E t \in ssaWL : Constant!Reads(y, t)
        BY <1>1 DEF Waiting
      <4>6. QED
        BY <1>3, <1>7, <3>3, <4>4, <4>5
    <3>4. QED
      BY <3>1, <3>2, <3>3
  <2>7. Greatest'
    <3> SUFFICES ASSUME NEW l, Solves(source, l), NEW t \in Temps(source)
                 PROVE  Below(l[t], lat'[t])
      BY <1>1 DEF Greatest
    <3>1. \A u \in Temps(source) : Below(l[u], lat[u])
      BY <1>1 DEF Greatest
    <3>2. l[k] = Constant!ValueOf(source, l, x)
      <4>1. x \in Work(source, Reachable)
        BY <1>1, <1>3 DEF Work, Explored
      <4>2. QED
        BY <1>7, <4>1 DEF Solves, Settles, Reachable
    <3>3. Below(Constant!ValueOf(source, l, x), v)
      BY <1>4, <3>1, ValueFalls
    <3>4. QED
      BY <2>2, <3>1, <3>2, <3>3
  <2>8. QED
    BY <1>5, <2>1, <2>5, <2>6, <2>7 DEF SInv
<1>8. QED
  BY <1>2, <1>6, <1>7

(***************************************************************************)
(* The steps that take a block from the queue.                             *)
(***************************************************************************)
LEMMA SkipKeeps ==
  ASSUME SInv, Constant!SkipBlock, UNCHANGED source
  PROVE  SInv'
<1>1. /\ STyped /\ Falling /\ Waiting /\ Greatest /\ Explored
      /\ flowWL # <<>> /\ Head(flowWL) \in blockExec /\ flowWL' = Tail(flowWL)
      /\ spc = "flow" /\ UNCHANGED <<f, lat, ssaWL, todo, blockExec, spc>>
  BY DEF SInv, Constant!SkipBlock, Constant!Idle
<1>2. /\ flowWL' \in Seq(Blocks(source))
      /\ Elems(flowWL) = {Head(flowWL)} \cup Elems(flowWL')
  BY <1>1, HeadElems DEF STyped
<1>3. STyped'
  BY <1>1, <1>2 DEF STyped
<1>4. Falling' /\ Waiting' /\ Greatest'
  BY <1>1 DEF Falling, Waiting, Greatest
<1>5. Explored'
  BY <1>1, <1>2 DEF Explored, Reachable
<1>6. QED
  BY <1>3, <1>4, <1>5 DEF SInv

LEMMA VisitBlockKeeps ==
  ASSUME SInv, Constant!VisitBlock, UNCHANGED source
  PROVE  SInv'
<1> DEFINE b == Head(flowWL)
<1>1. /\ STyped /\ Falling /\ Waiting /\ Greatest /\ Explored
      /\ flowWL # <<>> /\ todo = <<>> /\ blockExec' = blockExec \cup {b}
      /\ todo' = Constant!ItemsOf(source, b) /\ flowWL' = Tail(flowWL) \o Constant!JumpsTo(b)
      /\ spc = "flow" /\ f = source /\ UNCHANGED <<f, lat, ssaWL, spc>>
  BY DEF SInv, STyped, Constant!VisitBlock, Constant!Idle
<1>2. /\ b \in Blocks(source) /\ b \in Elems(flowWL) /\ Tail(flowWL) \in Seq(Blocks(source))
      /\ Elems(flowWL) = {b} \cup Elems(Tail(flowWL))
  BY <1>1, HeadElems DEF STyped
<1>3. InSSA(source) /\ source.n \in Nat \ {0}
  BY <1>1 DEF STyped, InSSA, IsFunction
<1>4. /\ flowWL' \in Seq(Blocks(source))
      /\ Elems(flowWL') = Elems(Tail(flowWL)) \cup Succs(source, b)
  <2>1. /\ Constant!JumpsTo(b) \in Seq(Blocks(source))
        /\ Elems(Constant!JumpsTo(b)) = Succs(source, b)
    BY <1>1, <1>2, <1>3, JumpsToMean
  <2>2. /\ Tail(flowWL) \o Constant!JumpsTo(b) \in Seq(Blocks(source))
        /\ Elems(Tail(flowWL) \o Constant!JumpsTo(b))
             = Elems(Tail(flowWL)) \cup Elems(Constant!JumpsTo(b))
    <3> DEFINE p == Tail(flowWL)
               q == Constant!JumpsTo(b)
    <3>1. p \in Seq(Blocks(source)) /\ q \in Seq(Blocks(source))
      BY <1>2, <2>1
    <3> HIDE DEF p, q
    <3>2. p \o q \in Seq(Blocks(source)) /\ Elems(p \o q) = Elems(p) \cup Elems(q)
      BY <3>1, ElemsConcat
    <3>3. QED
      BY <3>2 DEF p, q
  <2> HIDE DEF b
  <2>3. QED
    BY <1>1, <2>1, <2>2
<1>5. blockExec' \subseteq Blocks(source) /\ b \in blockExec'
  BY <1>1, <1>2 DEF STyped
<1>6. STyped'
  <2>1. todo' \in Seq(Work(source, blockExec'))
    BY <1>1, <1>3, <1>5, InWork
  <2>2. QED
    BY <1>1, <1>4, <1>5, <2>1 DEF STyped
<1>7. Falling' /\ Greatest'
  BY <1>1 DEF Falling, Greatest
<1>8. Waiting'
  <2> SUFFICES ASSUME NEW y \in Work(source, blockExec')
               PROVE  \/ Settles(source, lat, y) \/ y \in Elems(todo')
                      \/ \E t \in ssaWL : Constant!Reads(y, t)
    BY <1>1 DEF Waiting
  <2>1. y \in Work(source, blockExec) \/ y \in Elems(todo')
    BY <1>1 DEF Work
  <2>2. Elems(todo) = {}
    BY <1>1 DEF Elems
  <2>3. QED
    BY <1>1, <2>1, <2>2 DEF Waiting
<1>9. Explored'
  <2>1. b \in Reachable /\ Succs(source, b) \subseteq Reachable
    <3>1. 0 \in Blocks(source) /\ Succs(source, b) \subseteq Blocks(source)
      BY <1>2, <1>3 DEF Blocks, Succs, InSSA, IsFunction
    <3>2. b \in Reachable
      BY <1>1, <1>2 DEF Explored
    <3>3. Succs(source, b) \cap Blocks(source) \subseteq Reachable
      BY <1>3, <3>1, <3>2, ReachClosed DEF Reachable
    <3>4. QED
      BY <3>1, <3>2, <3>3
  <2>2. UNCHANGED Reachable
    BY DEF Reachable
  <2>3. QED
    BY <1>1, <1>2, <1>4, <2>1, <2>2 DEF Explored
<1>10. QED
  BY <1>6, <1>7, <1>8, <1>9 DEF SInv

(***************************************************************************)
(* The step that takes a temporary from the map.                           *)
(***************************************************************************)
LEMMA VisitUsesKeeps ==
  ASSUME SInv, NEW t \in ssaWL, Constant!VisitUses(t), UNCHANGED source
  PROVE  SInv'
<1>1. /\ STyped /\ Falling /\ Waiting /\ Greatest /\ Explored
      /\ flowWL = <<>> /\ todo = <<>> /\ ssaWL' = ssaWL \ {t}
      /\ todo' = Constant!UsesOf(t) /\ flowWL' = Constant!JumpsOn(t)
      /\ spc = "flow" /\ f = source /\ UNCHANGED <<f, lat, blockExec, spc>>
  BY DEF SInv, STyped, Constant!VisitUses, Constant!Idle
<1>2. InSSA(f) /\ blockExec \subseteq Blocks(f)
  BY <1>1 DEF STyped
<1>3. /\ todo' \in Seq(Work(source, blockExec))
      /\ \A x \in Work(source, blockExec) : Constant!Reads(x, t) => x \in Elems(todo')
  BY <1>1, <1>2, UsesMean
<1>4. STyped'
  <2>1. flowWL' \in Seq(Blocks(source))
    BY <1>1, <1>2, JumpsOnMean
  <2>2. QED
    BY <1>1, <1>3, <2>1 DEF STyped
<1>5. Falling' /\ Greatest'
  BY <1>1 DEF Falling, Greatest
<1>6. Waiting'
  <2>1. Elems(todo) = {}
    BY <1>1 DEF Elems
  <2>2. QED
    BY <1>1, <1>3, <2>1 DEF Waiting
<1>7. Explored'
  <2>1. Elems(flowWL) = {}
    BY <1>1 DEF Elems
  <2>2. \A b \in blockExec : Succs(source, b) \subseteq blockExec
    BY <1>1, <2>1 DEF Explored
  <2>3. Elems(flowWL') \subseteq blockExec
    BY <1>1, <1>2, <2>2, JumpsOnMean
  <2>4. QED
    BY <1>1, <2>1, <2>3 DEF Explored, Reachable
<1>8. QED
  BY <1>4, <1>5, <1>6, <1>7 DEF SInv

(***************************************************************************)
(* The end of the propagation, and transform, which reads the values.      *)
(***************************************************************************)
LEMMA TransformKeeps ==
  ASSUME SInv, Constant!Propagated \/ Constant!TransformBlock \/ Constant!Finish,
         UNCHANGED source
  PROVE  SInv'
<1>1. /\ STyped /\ Falling /\ Waiting /\ Greatest /\ Explored
      /\ todo = <<>> /\ flowWL = <<>> /\ ssaWL = {}
      /\ spc' \in {"transform", "done"} /\ UNCHANGED <<lat, flowWL, ssaWL, todo, blockExec>>
  BY DEF SInv, STyped, Constant!Propagated, Constant!TransformBlock, Constant!Finish, Constant!Idle
<1>2. STyped'
  BY <1>1 DEF STyped
<1>3. Falling' /\ Waiting' /\ Greatest' /\ Explored'
  BY <1>1 DEF Falling, Waiting, Greatest, Explored, Reachable
<1>4. QED
  BY <1>2, <1>3 DEF SInv

(***************************************************************************)
(* The invariant holds of every run of SCCP; the other passes leave the    *)
(* lattice and the worklists as they were at first.                        *)
(***************************************************************************)
AInv == (pass = "SCCP" => SInv) /\ (pass # "SCCP" => spc = "flow")

THEOREM SInvariant == Spec => []AInv
<1>1. Init => AInv
  <2> SUFFICES ASSUME Init, pass = "SCCP" PROVE SInv
    BY DEF AInv, Init, Constant!Start
  <2>1. PICK input \in Inputs : f = input.fn /\ pass = input.pass
    BY DEF Init
  <2>2. source = f /\ InSSA(source)
    BY <2>1, InputsAssumption DEF Init, InSSA
  <2>3. /\ lat = [t \in Temps(source) |-> Top]
        /\ flowWL = <<0>> /\ ssaWL = {} /\ todo = <<>> /\ blockExec = {} /\ spc = "flow"
    BY <2>2 DEF Init, Constant!Start, Constant!Temps, Temps, Top
  <2>4. source.n \in Nat \ {0} /\ 0 \in Blocks(source)
    BY <2>2 DEF InSSA, IsFunction, Blocks
  <2>5. Elems(flowWL) = {0} /\ flowWL \in Seq(Blocks(source))
    BY <2>3, <2>4 DEF Elems
  <2>6. STyped
    BY <2>2, <2>3, <2>5 DEF STyped
  <2>7. Falling
    BY <2>2, <2>3, WorkFacts DEF Falling, Below
  <2>8. Waiting
    BY <2>3 DEF Waiting, Work
  <2>9. Greatest
    BY <2>3 DEF Greatest, Below
  <2>10. Explored
    BY <2>3, <2>4, <2>5, ReachClosed DEF Explored, Reachable
  <2>11. QED
    BY <2>6, <2>7, <2>8, <2>9, <2>10 DEF SInv
<1>2. AInv /\ [Next]_vars => AInv'
  <2> SUFFICES ASSUME AInv, [Next]_vars PROVE AInv'
    OBVIOUS
  <2>1. CASE RunSCCP
    <3>1. SInv /\ UNCHANGED <<pass, source>> /\ Constant!Step /\ pass = "SCCP"
      BY <2>1 DEF RunSCCP, AInv
    <3> SUFFICES SInv'
      BY <3>1 DEF AInv
    <3>2. CASE Constant!Visit
      BY <3>1, <3>2, VisitKeeps
    <3>3. CASE Constant!SkipBlock
      BY <3>1, <3>3, SkipKeeps
    <3>4. CASE Constant!VisitBlock
      BY <3>1, <3>4, VisitBlockKeeps
    <3>5. CASE \E t \in ssaWL : Constant!VisitUses(t)
      BY <3>1, <3>5, VisitUsesKeeps
    <3>6. CASE Constant!Propagated \/ Constant!TransformBlock \/ Constant!Finish
      BY <3>1, <3>6, TransformKeeps
    <3>7. QED
      BY <3>1, <3>2, <3>3, <3>4, <3>5, <3>6 DEF Constant!Step
  <2>2. CASE RunCopyProp \/ RunGVN \/ RunDCE
    BY <2>2 DEF RunCopyProp, RunGVN, RunDCE, AInv, sccpVars
  <2>3. CASE UNCHANGED vars
    BY <2>3 DEF vars, sccpVars, AInv, SInv, STyped, Falling, Waiting, Greatest, Explored, Reachable
  <2>4. QED
    BY <2>1, <2>2, <2>3 DEF Next
<1>3. QED
  BY <1>1, <1>2, PTL DEF Spec

(***************************************************************************)
(* What SCCP knows of a temporary only goes down: a second constant makes  *)
(* it Bot, and nothing brings it back (visitPhi and visitIns write states  *)
(* without comparing, sccp.go:95 and 142).                                 *)
(***************************************************************************)
THEOREM NeverRises == Spec => Descends
<1>1. ASSUME AInv, [Next]_vars
      PROVE  [\A t \in Temps(f) : lat'[t] = lat[t] \/ lat[t] = <<"top">> \/ lat'[t] = <<"bot">>]_vars
  <2> SUFFICES ASSUME Next, NEW t \in Temps(f), lat'[t] # lat[t]
               PROVE  lat[t] = Top \/ lat'[t] = Bot
    BY <1>1 DEF Top, Bot, Constant!Top, Constant!Bot
  <2>1. SInv /\ Constant!Step
    BY <1>1 DEF AInv, Next, RunSCCP, RunCopyProp, RunGVN, RunDCE, sccpVars
  <2>2. Constant!Visit
    BY <2>1 DEF Constant!Step, Constant!SkipBlock, Constant!VisitBlock, Constant!VisitUses,
                Constant!Propagated, Constant!TransformBlock, Constant!Finish
  <2> DEFINE x == Head(todo)
  <2>3. /\ STyped /\ Falling /\ todo # <<>> /\ f = source
    BY <2>1, <2>2 DEF SInv, STyped, Constant!Visit
  <2>4. Constant!IsTmp(x.to) /\ lat' = [lat EXCEPT ![x.to.val] = Constant!ValueOf(source, lat, x)]
    BY <2>2, <2>3 DEF Constant!Visit
  <2>5. x \in Work(source, Blocks(source)) /\ InSSA(source)
    <3>1. x \in Work(source, blockExec)
      BY <2>3, HeadElems DEF STyped
    <3>2. QED
      BY <2>3, <3>1, WorkFacts DEF STyped
  <2>6. Below(Constant!ValueOf(source, lat, x), lat[x.to.val])
    BY <2>3, <2>4, <2>5 DEF Falling
  <2>7. t = x.to.val /\ lat'[t] = Constant!ValueOf(source, lat, x)
    BY <2>3, <2>4 DEF STyped
  <2>8. QED
    BY <2>6, <2>7 DEF Below
<1>2. QED
  BY <1>1, SInvariant, PTL DEF Spec, Descends

(***************************************************************************)
(* When nothing waits, the visited blocks are those that a path from Start *)
(* leads to: transform empties no block that can run, and leaves none that *)
(* cannot.                                                                 *)
(***************************************************************************)
VisitsReachable == spc # "flow" => blockExec = Reachable

THEOREM VisitsRight == Spec => []VisitsReachable
<1>1. AInv => VisitsReachable
  <2> SUFFICES ASSUME SInv, spc # "flow" PROVE blockExec = Reachable
    BY DEF VisitsReachable, AInv
  <2>1. STyped /\ Explored /\ flowWL = <<>>
    BY DEF SInv, STyped
  <2>2. Elems(flowWL) = {} /\ source.n \in Nat
    BY <2>1 DEF Elems, STyped, InSSA, IsFunction
  <2>3. 0 \in blockExec /\ \A b \in blockExec : Succs(source, b) \subseteq blockExec
    BY <2>1, <2>2 DEF Explored
  <2>4. Reachable \subseteq blockExec
    BY <2>2, <2>3, ReachLeast DEF Reachable
  <2>5. QED
    BY <2>1, <2>4 DEF Explored
<1>2. QED
  BY <1>1, SInvariant, PTL

(***************************************************************************)
(* When nothing waits, every phi and instruction of a block that can run   *)
(* has the value of its operands, and no assignment of values that solves  *)
(* the equations of the function is above the one found, anywhere: SCCP    *)
(* gives up no constant for the order in which Go hands out the keys of    *)
(* the map, and leaves no change without a visit of its uses.              *)
(***************************************************************************)
GreatestSolution ==
  spc # "flow" =>
    /\ \A x \in Work(source, Reachable) : Settles(source, lat, x)
    /\ \A l : Solves(source, l) => \A t \in Temps(source) : Below(l[t], lat[t])

THEOREM OrderFree == Spec => []GreatestSolution
<1>1. AInv /\ VisitsReachable => GreatestSolution
  <2> SUFFICES ASSUME SInv, VisitsReachable, spc # "flow"
               PROVE  /\ \A x \in Work(source, Reachable) : Settles(source, lat, x)
                      /\ \A l : Solves(source, l) => \A t \in Temps(source) : Below(l[t], lat[t])
    BY DEF GreatestSolution, AInv
  <2>1. blockExec = Reachable /\ Waiting /\ Greatest /\ todo = <<>> /\ ssaWL = {}
    BY DEF VisitsReachable, SInv, STyped
  <2>2. Elems(todo) = {}
    BY <2>1 DEF Elems
  <2>3. \A x \in Work(source, Reachable) : Settles(source, lat, x)
    BY <2>1, <2>2 DEF Waiting
  <2>4. QED
    BY <2>1, <2>3 DEF Greatest
<1>2. QED
  BY <1>1, SInvariant, VisitsRight, PTL

-----------------------------------------------------------------------------
(***************************************************************************)
(* Solution, the reference, computes by rounds what SCCP computes by       *)
(* worklists.  Its rounds go down too, and there are enough of them: one   *)
(* that changes something lowers a temporary.                              *)
(***************************************************************************)
Live(g) == Work(g, ReachIn(g, 0, Blocks(g)))

LEMMA LiveFacts ==
  ASSUME NEW g, InSSA(g), NEW x \in Live(g)
  PROVE  /\ Shaped(x)
         /\ Constant!IsTmp(x.to) => x.to.val \in Temps(g) /\ x.to = Tmp(x.to.val)
         /\ \A t \in Nat : Constant!Reads(x, t) => t \in Temps(g)
         /\ \A y \in Live(g) :
              Constant!IsTmp(x.to) /\ Constant!IsTmp(y.to) /\ x.to.val = y.to.val => x = y
<1>1. g.n \in Nat /\ 0 \in Blocks(g)
  BY DEF InSSA, IsFunction, Blocks
<1>2. ReachIn(g, 0, Blocks(g)) \subseteq Blocks(g)
  BY <1>1, ReachInside
<1>3. x \in Work(g, Blocks(g)) /\ \A y \in Live(g) : y \in Work(g, Blocks(g))
  BY <1>2 DEF Live, Work
<1>4. QED
  BY <1>3, WorkFacts

LEMMA EvaluatedMeans ==
  ASSUME NEW g, InSSA(g), NEW l
  PROVE  /\ Constant!Evaluated(g, l) = [t \in Temps(g) |-> Constant!Evaluated(g, l)[t]]
         /\ \A x \in Live(g) : Constant!IsTmp(x.to) =>
              Constant!Evaluated(g, l)[x.to.val] = Constant!ValueOf(g, l, x)
         /\ \A t \in Temps(g) :
              \/ \E x \in Live(g) : Constant!IsTmp(x.to) /\ x.to.val = t
              \/ Constant!Evaluated(g, l)[t] = Top
<1> DEFINE items == Constant!Work(g, Constant!ReachIn(g, 0, Constant!Blocks(g)))
           defs(t) == {x \in items : x.to = Constant!Tmp(t)}
           value(t) == IF defs(t) = {} THEN Top
                       ELSE Constant!ValueOf(g, l, CHOOSE x \in defs(t) : TRUE)
<1>1. items = Live(g)
  <2>1. Constant!Blocks(g) = Blocks(g)
    BY DEF Constant!Blocks, Blocks
  <2>2. Constant!ReachIn(g, 0, Blocks(g)) = ReachIn(g, 0, Blocks(g))
    BY DEF Constant!ReachIn, ReachIn, Constant!Succs, Succs, Constant!Nil, Nil
  <2>3. \A B : Constant!Work(g, B) = Work(g, B)
    BY DEF Constant!Work, Work, Constant!Elems, Elems
  <2>4. QED
    BY <2>1, <2>2, <2>3 DEF Live
<1>2. Constant!Evaluated(g, l) = [t \in Temps(g) |-> value(t)]
  BY DEF Constant!Evaluated, Constant!Temps, Temps, Top
<1> HIDE DEF items
<1>3. ASSUME NEW x \in Live(g), Constant!IsTmp(x.to)
      PROVE  value(x.to.val) = Constant!ValueOf(g, l, x)
  <2>1. x.to = Constant!Tmp(x.to.val)
    BY <1>3, LiveFacts DEF Tmp, Constant!Tmp
  <2>2. x \in defs(x.to.val)
    BY <1>1, <2>1
  <2>3. \A y \in defs(x.to.val) : y = x
    <3> SUFFICES ASSUME NEW y \in defs(x.to.val) PROVE y = x
      OBVIOUS
    <3>1. y \in Live(g) /\ y.to = x.to
      BY <1>1, <2>1
    <3>2. QED
      BY <1>3, <3>1, LiveFacts
  <2> HIDE DEF defs
  <2>4. QED
    BY <2>2, <2>3
<1>4. ASSUME NEW t \in Temps(g), ~\E x \in Live(g) : Constant!IsTmp(x.to) /\ x.to.val = t
      PROVE  value(t) = Top
  <2>1. defs(t) = {}
    BY <1>1, <1>4 DEF Constant!IsTmp, Constant!Tmp
  <2>2. QED
    BY <2>1
<1>5. \A x \in Live(g) : Constant!IsTmp(x.to) => x.to.val \in Temps(g)
  BY LiveFacts
<1> HIDE DEF value
<1>6. QED
  BY <1>2, <1>3, <1>4, <1>5

LEMMA EvaluatedFalls ==
  ASSUME NEW g, InSSA(g), NEW l, NEW m, \A t \in Temps(g) : Below(l[t], m[t]),
         NEW t \in Temps(g)
  PROVE  Below(Constant!Evaluated(g, l)[t], Constant!Evaluated(g, m)[t])
<1>1. CASE \E x \in Live(g) : Constant!IsTmp(x.to) /\ x.to.val = t
  <2>1. PICK x \in Live(g) : Constant!IsTmp(x.to) /\ x.to.val = t
    BY <1>1
  <2>2. /\ Constant!Evaluated(g, l)[t] = Constant!ValueOf(g, l, x)
        /\ Constant!Evaluated(g, m)[t] = Constant!ValueOf(g, m, x)
    BY <2>1, EvaluatedMeans
  <2>3. Shaped(x) /\ \A u \in Nat : Constant!Reads(x, u) => u \in Temps(g)
    BY LiveFacts
  <2>4. QED
    BY <2>2, <2>3, ValueFalls
<1>2. CASE ~\E x \in Live(g) : Constant!IsTmp(x.to) /\ x.to.val = t
  BY <1>2, EvaluatedMeans DEF Below
<1>3. QED
  BY <1>1, <1>2

(***************************************************************************)
(* How far down the values are.                                            *)
(***************************************************************************)
NotTop(g, l) == {t \in Temps(g) : l[t] # Top}
AtBot(g, l)  == {t \in Temps(g) : l[t] = Bot}
Depth(g, l)  == Cardinality(NotTop(g, l)) + Cardinality(AtBot(g, l))

LEMMA TempsFinite ==
  ASSUME NEW g, InSSA(g)
  PROVE  IsFiniteSet(Temps(g)) /\ Cardinality(Temps(g)) = g.ntmp
<1>1. g.ntmp \in Nat
  BY DEF InSSA, IsFunction
<1>2. CASE g.ntmp = 0
  <2>1. Temps(g) = {}
    BY <1>2 DEF Temps
  <2>2. QED
    BY <1>2, <2>1, FS_EmptySet
<1>3. CASE g.ntmp # 0
  <2> DEFINE m == g.ntmp - 1
  <2>1. 0 \in Int /\ m \in Int /\ ~(0 > m) /\ m - 0 + 1 = g.ntmp /\ Temps(g) = 0 .. m
    BY <1>1, <1>3 DEF Temps
  <2> HIDE DEF m
  <2>2. QED
    BY <2>1, FS_Interval
<1>4. QED
  BY <1>2, <1>3

LEMMA DepthBounded ==
  ASSUME NEW g, InSSA(g), NEW l
  PROVE  Depth(g, l) \in Nat /\ Depth(g, l) <= 2 * g.ntmp
<1>1. g.ntmp \in Nat /\ IsFiniteSet(Temps(g)) /\ Cardinality(Temps(g)) = g.ntmp
  BY TempsFinite DEF InSSA, IsFunction
<1>2. NotTop(g, l) \subseteq Temps(g) /\ AtBot(g, l) \subseteq Temps(g)
  BY DEF NotTop, AtBot
<1>3. /\ Cardinality(NotTop(g, l)) \in Nat /\ Cardinality(NotTop(g, l)) <= g.ntmp
      /\ Cardinality(AtBot(g, l)) \in Nat /\ Cardinality(AtBot(g, l)) <= g.ntmp
  BY <1>1, <1>2, FS_Subset, FS_CardinalityType
<1>4. QED
  BY <1>1, <1>3 DEF Depth

LEMMA DepthGrows ==
  ASSUME NEW g, InSSA(g), NEW l, NEW m, \A t \in Temps(g) : Below(m[t], l[t]),
         NEW u \in Temps(g), m[u] # l[u]
  PROVE  Depth(g, m) > Depth(g, l)
<1>1. IsFiniteSet(Temps(g))
  BY TempsFinite
<1>2. /\ NotTop(g, l) \subseteq NotTop(g, m) /\ NotTop(g, m) \subseteq Temps(g)
      /\ AtBot(g, l) \subseteq AtBot(g, m) /\ AtBot(g, m) \subseteq Temps(g)
  BY TopIsNotBot DEF NotTop, AtBot, Below
<1>3. NotTop(g, l) # NotTop(g, m) \/ AtBot(g, l) # AtBot(g, m)
  BY TopIsNotBot DEF NotTop, AtBot, Below
<1>4. IsFiniteSet(NotTop(g, m)) /\ IsFiniteSet(AtBot(g, m))
  BY <1>1, <1>2, FS_Subset
<1> DEFINE a == Cardinality(NotTop(g, l))
           b == Cardinality(NotTop(g, m))
           c == Cardinality(AtBot(g, l))
           d == Cardinality(AtBot(g, m))
<1>5. /\ a \in Nat /\ b \in Nat /\ c \in Nat /\ d \in Nat
      /\ a <= b /\ c <= d /\ (a # b \/ c # d)
  <2>1. IsFiniteSet(NotTop(g, l)) /\ a <= b /\ (a = b => NotTop(g, l) = NotTop(g, m))
    BY <1>2, <1>4, FS_Subset
  <2>2. IsFiniteSet(AtBot(g, l)) /\ c <= d /\ (c = d => AtBot(g, l) = AtBot(g, m))
    BY <1>2, <1>4, FS_Subset
  <2>3. QED
    BY <1>3, <1>4, <2>1, <2>2, FS_CardinalityType
<1> HIDE DEF a, b, c, d
<1>6. b + d > a + c
  BY <1>5
<1>7. QED
  BY <1>6 DEF Depth, a, b, c, d

(***************************************************************************)
(* The rounds of Solution.                                                 *)
(***************************************************************************)
RoundsOf(g) ==
  LET round[k \in 0 .. 2 * g.ntmp] ==
        IF k = 0 THEN [t \in Temps(g) |-> Top] ELSE Constant!Evaluated(g, round[k - 1])
  IN  round

IsRounds(h, g, n) ==
  h = [k \in 0 .. n |-> IF k = 0 THEN [t \in Temps(g) |-> Top] ELSE Constant!Evaluated(g, h[k - 1])]

LEMMA SolutionRounds ==
  ASSUME NEW g, InSSA(g)
  PROVE  /\ Constant!Solution(g) = RoundsOf(g)[2 * g.ntmp]
         /\ IsRounds(RoundsOf(g), g, 2 * g.ntmp)
<1> DEFINE n == 2 * g.ntmp
           top == [t \in Temps(g) |-> Top]
           Good(m) == \E h : IsRounds(h, g, m)
           Bad == {m \in 0 .. n : ~Good(m)}
<1>1. n \in Nat /\ n \in 0 .. n
  BY DEF InSSA, IsFunction
<1>2. Constant!Solution(g) = RoundsOf(g)[n]
  BY DEF Constant!Solution, RoundsOf, Top, Constant!Temps, Temps
<1> HIDE DEF n, Good
<1>3. Good(n)
  <2> SUFFICES ASSUME Bad # {} PROVE FALSE
    BY <1>1
  <2>1. Bad \subseteq Nat
    BY <1>1
  <2>2. PICK m \in Bad : \A j \in Bad : m <= j
    <3> HIDE DEF Bad
    <3>1. QED
      BY <2>1, LeastNat
  <2>3. m \in 0 .. n /\ m \in Nat /\ ~Good(m)
    BY <1>1, <2>2
  <2> USE DEF Good
  <2>4. CASE m = 0
    <3> DEFINE h == [k \in 0 .. 0 |-> top]
    <3>1. IsRounds(h, g, 0)
      BY DEF IsRounds
    <3> HIDE DEF h
    <3>2. QED
      BY <2>3, <2>4, <3>1
  <2>5. CASE m # 0
    <3>1. m - 1 \in 0 .. n
      BY <1>1, <2>3, <2>5
    <3>2. Good(m - 1)
      <4> HIDE DEF Good
      <4>1. ~(m <= m - 1)
        BY <2>3
      <4>2. QED
        BY <2>2, <3>1, <4>1
    <3>3. PICK h : IsRounds(h, g, m - 1)
      BY <3>2
    <3> DEFINE e == [k \in 0 .. m |-> IF k = m THEN Constant!Evaluated(g, h[m - 1]) ELSE h[k]]
               w == [k \in 0 .. m |-> IF k = 0 THEN top ELSE Constant!Evaluated(g, e[k - 1])]
    <3>4. ASSUME NEW k \in 0 .. m PROVE e[k] = w[k]
      <4>1. CASE k = 0
        <5>1. 0 \in 0 .. m - 1 /\ e[0] = h[0] /\ w[0] = top
          BY <2>3, <2>5, <4>1
        <5>2. h[0] = top
          BY <3>3, <5>1 DEF IsRounds
        <5>3. QED
          BY <4>1, <5>1, <5>2
      <4>2. CASE k = m
        <5>1. m - 1 \in 0 .. m /\ m - 1 # m
          BY <2>3, <2>5
        <5>2. e[m - 1] = h[m - 1] /\ e[m] = Constant!Evaluated(g, h[m - 1])
          BY <2>3, <5>1
        <5>3. w[m] = Constant!Evaluated(g, e[m - 1])
          BY <2>3, <2>5
        <5>4. QED
          BY <4>2, <5>2, <5>3
      <4>3. CASE k # 0 /\ k # m
        <5>1. k \in 0 .. m - 1 /\ k - 1 \in 0 .. m /\ k - 1 # m
          BY <2>3, <4>3
        <5>2. e[k] = h[k] /\ e[k - 1] = h[k - 1] /\ w[k] = Constant!Evaluated(g, e[k - 1])
          BY <4>3, <5>1
        <5>3. h[k] = Constant!Evaluated(g, h[k - 1])
          BY <3>3, <4>3, <5>1 DEF IsRounds
        <5>4. QED
          BY <5>2, <5>3
      <4>4. QED
        BY <4>1, <4>2, <4>3
    <3>5. DOMAIN e = 0 .. m /\ DOMAIN w = 0 .. m
      OBVIOUS
    <3>6. e = [k \in 0 .. m |-> e[k]] /\ w = [k \in 0 .. m |-> w[k]]
      OBVIOUS
    <3>7. e = w
      <4> HIDE DEF e, w
      <4>1. QED
        BY <3>4, <3>6
    <3>8. IsRounds(e, g, m)
      <4> HIDE DEF e
      <4>1. QED
        BY <3>7 DEF IsRounds
    <3> HIDE DEF e
    <3>9. QED
      BY <2>3, <3>8
  <2>6. QED
    BY <2>4, <2>5
<1>4. \E h : IsRounds(h, g, n)
  BY <1>3 DEF Good
<1>5. IsRounds(RoundsOf(g), g, n)
  BY <1>4 DEF IsRounds, RoundsOf, n
<1>6. QED
  BY <1>2, <1>5 DEF n

LEMMA SolutionSolves ==
  ASSUME NEW g, InSSA(g)
  PROVE  /\ Constant!Evaluated(g, Constant!Solution(g)) = Constant!Solution(g)
         /\ Constant!Solution(g) = [t \in Temps(g) |-> Constant!Solution(g)[t]]
<1> DEFINE n == 2 * g.ntmp
           R == RoundsOf(g)
           E(l) == Constant!Evaluated(g, l)
           Fixed(k) == E(R[k]) = R[k]
           Good(k) == /\ R[k] = [t \in Temps(g) |-> R[k][t]]
                      /\ \A t \in Temps(g) : Below(E(R[k])[t], R[k][t])
                      /\ Fixed(k) \/ Depth(g, R[k]) >= k
           Bad == {k \in 0 .. n : ~Good(k)}
<1>1. n \in Nat /\ n \in 0 .. n /\ Constant!Solution(g) = R[n]
  BY SolutionRounds DEF InSSA, IsFunction
<1>2. R[0] = [t \in Temps(g) |-> Top] /\ \A k \in 1 .. n : R[k] = E(R[k - 1])
  <2>1. R = [k \in 0 .. n |-> IF k = 0 THEN [t \in Temps(g) |-> Top] ELSE E(R[k - 1])]
    BY SolutionRounds DEF IsRounds
  <2> HIDE DEF R, n, E
  <2>2. QED
    BY <1>1, <2>1
<1>3. \A l : E(l) = [t \in Temps(g) |-> E(l)[t]]
  BY EvaluatedMeans
<1>4. \A l, m : (\A t \in Temps(g) : Below(l[t], m[t])) =>
                  \A t \in Temps(g) : Below(E(l)[t], E(m)[t])
  BY EvaluatedFalls
<1>5. \A l : Depth(g, l) \in Nat /\ Depth(g, l) <= n
  BY DepthBounded
<1> HIDE DEF R, E, n
<1>6. ASSUME NEW l, l = [t \in Temps(g) |-> l[t]], E(l) # l,
             \A t \in Temps(g) : Below(E(l)[t], l[t])
      PROVE  Depth(g, E(l)) > Depth(g, l)
  <2>1. PICK u \in Temps(g) : E(l)[u] # l[u]
    <3> SUFFICES ASSUME \A u \in Temps(g) : E(l)[u] = l[u] PROVE E(l) = l
      BY <1>6
    <3>1. QED
      BY <1>3, <1>6
  <2>2. QED
    BY <1>6, <2>1, DepthGrows
<1>7. Bad = {}
  <2> SUFFICES ASSUME Bad # {} PROVE FALSE
    OBVIOUS
  <2>1. Bad \subseteq Nat
    BY <1>1
  <2>2. PICK k \in Bad : \A j \in Bad : k <= j
    <3> HIDE DEF Bad
    <3>1. QED
      BY <2>1, LeastNat
  <2>3. k \in 0 .. n /\ k \in Nat /\ ~Good(k)
    BY <1>1, <2>2
  <2>4. CASE k = 0
    <3>1. R[0] = [t \in Temps(g) |-> R[0][t]] /\ \A t \in Temps(g) : Below(E(R[0])[t], R[0][t])
      BY <1>2 DEF Below
    <3>2. Depth(g, R[0]) >= 0
      BY <1>5
    <3>3. QED
      BY <2>3, <2>4, <3>1, <3>2
  <2>5. CASE k # 0
    <3>1. k \in 1 .. n /\ k - 1 \in 0 .. n
      BY <1>1, <2>3, <2>5
    <3>2. Good(k - 1)
      <4> HIDE DEF Good
      <4>1. ~(k <= k - 1)
        BY <2>3
      <4>2. QED
        BY <2>2, <3>1, <4>1
    <3> DEFINE l == R[k - 1]
    <3>3. R[k] = E(l)
      BY <1>2, <3>1
    <3>4. E(l) = [t \in Temps(g) |-> E(l)[t]]
      BY <1>3
    <3>5. \A t \in Temps(g) : Below(E(E(l))[t], E(l)[t])
      BY <1>4, <3>2
    <3>6. Fixed(k) \/ Depth(g, R[k]) >= k
      <4>1. CASE E(l) = l
        BY <3>3, <4>1
      <4>2. CASE E(l) # l
        <5>1. Depth(g, l) >= k - 1
          BY <3>2, <4>2
        <5>2. Depth(g, E(l)) > Depth(g, l)
          BY <1>6, <3>2, <4>2
        <5>3. Depth(g, l) \in Nat /\ Depth(g, E(l)) \in Nat
          BY <1>5
        <5>4. QED
          BY <2>3, <3>3, <5>1, <5>2, <5>3
      <4>3. QED
        BY <4>1, <4>2
    <3>7. QED
      BY <2>3, <3>3, <3>4, <3>5, <3>6
  <2>6. QED
    BY <2>4, <2>5
<1>8. Good(n)
  <2> HIDE DEF Good
  <2>1. QED
    BY <1>1, <1>7
<1>9. Fixed(n)
  <2> SUFFICES ASSUME ~Fixed(n) PROVE FALSE
    OBVIOUS
  <2>1. Depth(g, R[n]) >= n /\ Depth(g, E(R[n])) > Depth(g, R[n])
    BY <1>6, <1>8
  <2>2. /\ Depth(g, R[n]) \in Nat /\ Depth(g, E(R[n])) \in Nat
        /\ Depth(g, E(R[n])) <= n
    BY <1>5
  <2>3. QED
    BY <1>1, <2>1, <2>2
<1>10. QED
  BY <1>1, <1>8, <1>9 DEF E

LEMMA SolutionAbove ==
  ASSUME NEW g, InSSA(g), NEW l, Solves(g, l), NEW t \in Temps(g)
  PROVE  Below(l[t], Constant!Solution(g)[t])
<1> DEFINE n == 2 * g.ntmp
           R == RoundsOf(g)
           Good(k) == \A u \in Temps(g) : Below(l[u], R[k][u])
           Bad == {k \in 0 .. n : ~Good(k)}
<1>1. n \in Nat /\ n \in 0 .. n /\ Constant!Solution(g) = R[n]
  <2>1. n \in Nat /\ n \in 0 .. n
    BY DEF InSSA, IsFunction
  <2>2. QED
    BY <2>1, SolutionRounds
<1>2. R = [k \in 0 .. n |-> IF k = 0 THEN [u \in Temps(g) |-> Top]
                                     ELSE Constant!Evaluated(g, R[k - 1])]
  BY SolutionRounds DEF IsRounds
<1>3. ASSUME NEW m, \A u \in Temps(g) : Below(l[u], m[u]), NEW u \in Temps(g)
      PROVE  Below(l[u], Constant!Evaluated(g, m)[u])
  <2>1. CASE \E x \in Live(g) : Constant!IsTmp(x.to) /\ x.to.val = u
    <3>1. PICK x \in Live(g) : Constant!IsTmp(x.to) /\ x.to.val = u
      BY <2>1
    <3>2. /\ l[u] = Constant!ValueOf(g, l, x)
          /\ Constant!Evaluated(g, m)[u] = Constant!ValueOf(g, m, x)
      BY <3>1, EvaluatedMeans DEF Solves, Settles, Live
    <3>3. Shaped(x) /\ \A v \in Nat : Constant!Reads(x, v) => v \in Temps(g)
      BY LiveFacts
    <3>4. QED
      BY <1>3, <3>2, <3>3, ValueFalls
  <2>2. CASE ~\E x \in Live(g) : Constant!IsTmp(x.to) /\ x.to.val = u
    BY <2>2, EvaluatedMeans DEF Below
  <2>3. QED
    BY <2>1, <2>2
<1> HIDE DEF R, n
<1>4. Bad = {}
  <2> SUFFICES ASSUME Bad # {} PROVE FALSE
    OBVIOUS
  <2>1. Bad \subseteq Nat
    BY <1>1
  <2>2. PICK k \in Bad : \A j \in Bad : k <= j
    <3> HIDE DEF Bad
    <3>1. QED
      BY <2>1, LeastNat
  <2>3. k \in 0 .. n /\ k \in Nat /\ ~Good(k)
    BY <1>1, <2>2
  <2>4. CASE k = 0
    BY <1>2, <2>3, <2>4 DEF Below
  <2>5. CASE k # 0
    <3>1. k - 1 \in 0 .. n /\ R[k] = Constant!Evaluated(g, R[k - 1])
      BY <1>1, <1>2, <2>3, <2>5
    <3>2. Good(k - 1)
      <4> HIDE DEF Good
      <4>1. ~(k <= k - 1)
        BY <2>3
      <4>2. QED
        BY <2>2, <3>1, <4>1
    <3>3. Good(k)
      BY <1>3, <3>1, <3>2
    <3>4. QED
      BY <2>3, <3>3
  <2>6. QED
    BY <2>4, <2>5
<1>5. Good(n)
  <2> HIDE DEF Good
  <2>1. QED
    BY <1>1, <1>4
<1>6. QED
  BY <1>1, <1>5

(***************************************************************************)
(* Whichever temporary the runtime takes from the map each time, SCCP ends *)
(* with the same values: those that rounds over the code compute, too.     *)
(***************************************************************************)
THEOREM SameValues == Spec => []Confluent
<1>1. AInv /\ GreatestSolution => Confluent
  <2> SUFFICES ASSUME SInv, GreatestSolution, spc # "flow"
               PROVE  lat = Constant!Solution(source)
    BY DEF Confluent, AInv
  <2> DEFINE S == Constant!Solution(source)
  <2>1. InSSA(source) /\ lat = [t \in Temps(source) |-> lat[t]]
    BY DEF SInv, STyped
  <2>2. Solves(source, lat) /\ \A l : Solves(source, l) =>
                                     \A t \in Temps(source) : Below(l[t], lat[t])
    BY DEF GreatestSolution, Solves, Reachable
  <2>3. Solves(source, S)
    BY <2>1, SolutionSolves, EvaluatedMeans DEF Solves, Settles, Live
  <2>4. S = [t \in Temps(source) |-> S[t]]
    BY <2>1, SolutionSolves
  <2>5. \A t \in Temps(source) : Below(S[t], lat[t]) /\ Below(lat[t], S[t])
    BY <2>1, <2>2, <2>3, SolutionAbove
  <2> HIDE DEF S
  <2>6. \A t \in Temps(source) : S[t] = lat[t]
    BY <2>5, BelowBoth
  <2>7. lat = S
    BY <2>1, <2>4, <2>6
  <2>8. QED
    BY <2>7 DEF S
<1>2. QED
  BY <1>1, SInvariant, OrderFree, PTL

-----------------------------------------------------------------------------
(***************************************************************************)
(* Dead code elimination.  Without(s, D) holds what is not in D, once      *)
(* each and in order: the k-th is the one up to which k are kept.          *)
(***************************************************************************)
KeptUpto(D, j) == Cardinality((1 .. j) \ D)

Picks(m, s, D, r) ==
  /\ m \in [DOMAIN r -> DOMAIN s \ D]
  /\ \A k \in DOMAIN r : r[k] = s[m[k]] /\ KeptUpto(D, m[k]) = k
  /\ \A k, l \in DOMAIN r : k < l => m[k] < m[l]
  /\ \A j \in DOMAIN s \ D : \E k \in DOMAIN r : m[k] = j

LEMMA KeptCounts ==
  ASSUME NEW D
  PROVE  /\ KeptUpto(D, 0) = 0
         /\ \A j \in Nat : KeptUpto(D, j) \in Nat
         /\ \A j \in Nat : KeptUpto(D, j + 1) <= KeptUpto(D, j) + 1
         /\ \A j \in Nat : j + 1 \in D => KeptUpto(D, j + 1) = KeptUpto(D, j)
         /\ \A j, l \in Nat : j < l /\ l \notin D => KeptUpto(D, j) < KeptUpto(D, l)
         /\ \A j, l \in Nat : j <= l => KeptUpto(D, j) <= KeptUpto(D, l)
<1> DEFINE K(j) == (1 .. j) \ D
<1>1. \A j \in Nat : IsFiniteSet(1 .. j)
  BY FS_Interval
<1>2. \A j \in Nat : IsFiniteSet(K(j)) /\ Cardinality(K(j)) \in Nat
  BY <1>1, FS_Subset, FS_CardinalityType
<1>3. K(0) = {} /\ Cardinality(K(0)) = 0
  BY FS_EmptySet
<1>4. ASSUME NEW j \in Nat, j + 1 \in D
      PROVE  K(j + 1) = K(j)
  BY <1>4
<1>5. ASSUME NEW j \in Nat, j + 1 \notin D
      PROVE  Cardinality(K(j + 1)) = Cardinality(K(j)) + 1
  <2>1. K(j + 1) = K(j) \cup {j + 1} /\ j + 1 \notin K(j)
    BY <1>5
  <2>2. QED
    BY <1>2, <2>1, FS_AddElement
<1>6. ASSUME NEW j \in Nat, NEW l \in Nat, j <= l
      PROVE  Cardinality(K(j)) <= Cardinality(K(l))
  <2>1. K(j) \subseteq K(l)
    BY <1>6
  <2>2. QED
    BY <1>2, <2>1, FS_Subset
<1> HIDE DEF K
<1>7. ASSUME NEW j \in Nat, NEW l \in Nat, j < l, l \notin D
      PROVE  Cardinality(K(j)) < Cardinality(K(l))
  <2>1. l - 1 \in Nat /\ j <= l - 1 /\ (l - 1) + 1 = l
    BY <1>7
  <2>2. PICK h \in Nat : h = l - 1
    BY <2>1
  <2>3. Cardinality(K(h + 1)) = Cardinality(K(h)) + 1 /\ Cardinality(K(j)) <= Cardinality(K(h))
    BY <1>5, <1>6, <1>7, <2>1, <2>2
  <2>4. h + 1 = l
    BY <2>1, <2>2
  <2>5. QED
    BY <1>2, <1>7, <2>3, <2>4
<1>8. ASSUME NEW j \in Nat
      PROVE  Cardinality(K(j + 1)) <= Cardinality(K(j)) + 1
  <2>1. CASE j + 1 \in D
    BY <1>2, <1>4, <2>1
  <2>2. CASE j + 1 \notin D
    BY <1>2, <1>5, <2>2
  <2>3. QED
    BY <2>1, <2>2
<1>9. \A j : KeptUpto(D, j) = Cardinality(K(j))
  BY DEF KeptUpto, K
<1>10. QED
  BY <1>2, <1>3, <1>4, <1>6, <1>7, <1>8, <1>9

LEMMA WithoutIs ==
  ASSUME NEW s, NEW D
  PROVE  Dead!Without(s, D) =
           [k \in 1 .. Cardinality(DOMAIN s \ D) |->
              s[CHOOSE j \in DOMAIN s \ D : Cardinality((1 .. j) \ D) = k]]
BY DEF Dead!Without, Dead!Cardinality, Cardinality, Dead!IsFiniteSet, IsFiniteSet

LEMMA WithoutPicks ==
  ASSUME NEW V, NEW s \in Seq(V), NEW D
  PROVE  /\ Dead!Without(s, D) \in Seq(V)
         /\ \E m : Picks(m, s, D, Dead!Without(s, D))
<1> DEFINE n == Len(s)
           c(j) == KeptUpto(D, j)
           place(k) == CHOOSE j \in DOMAIN s \ D : Cardinality((1 .. j) \ D) = k
           m == [k \in 1 .. c(n) |-> place(k)]
           r == Dead!Without(s, D)
<1>1. n \in Nat /\ DOMAIN s = 1 .. n
  OBVIOUS
<1>2. r = [k \in 1 .. c(n) |-> s[m[k]]]
  <2>1. r = [k \in 1 .. Cardinality(DOMAIN s \ D) |-> s[place(k)]]
    BY WithoutIs
  <2>2. Cardinality(DOMAIN s \ D) = c(n)
    BY <1>1 DEF KeptUpto
  <2> HIDE DEF place, r, c
  <2>3. QED
    BY <2>1, <2>2
<1>3. \A j, l \in DOMAIN s \ D : c(j) = c(l) => j = l
  <2> SUFFICES ASSUME NEW j \in DOMAIN s \ D, NEW l \in DOMAIN s \ D, c(j) = c(l) PROVE j = l
    OBVIOUS
  <2>1. j \in Nat /\ l \in Nat /\ j \notin D /\ l \notin D
    BY <1>1
  <2> HIDE DEF c
  <2>2. ~(c(j) < c(l)) /\ ~(c(l) < c(j))
    <3>1. c(j) \in Nat
      BY <2>1, KeptCounts DEF c
    <3>2. QED
      BY <3>1
  <2>3. ~(j < l) /\ ~(l < j)
    BY <2>1, <2>2, KeptCounts DEF c
  <2>4. QED
    BY <2>1, <2>3
<1>4. ASSUME NEW k \in 1 .. c(n)
      PROVE  \E j \in DOMAIN s \ D : c(j) = k
  <2> DEFINE Enough == {j \in Nat : j <= n /\ k <= c(j)}
  <2>1. n \in Enough /\ Enough \subseteq Nat
    BY <1>1, <1>4
  <2>2. PICK j \in Enough : \A l \in Enough : j <= l
    <3> HIDE DEF Enough
    <3>1. QED
      BY <2>1, LeastNat
  <2>3. j \in Nat /\ j <= n /\ k <= c(j) /\ k \in Nat /\ k > 0 /\ c(j) \in Nat /\ c(0) = 0
    BY <1>1, <2>2, KeptCounts
  <2> HIDE DEF c
  <2>4. j # 0
    BY <2>3
  <2>5. PICK h \in Nat : h + 1 = j
    <3>1. j - 1 \in Nat /\ (j - 1) + 1 = j
      BY <2>3, <2>4
    <3>2. QED
      BY <3>1
  <2>6. ~(k <= c(h)) /\ c(h) \in Nat
    <3>1. h < j /\ h <= n
      BY <1>1, <2>3, <2>5
    <3>2. h \notin Enough
      BY <2>2, <2>3, <2>5, <3>1
    <3>3. c(h) \in Nat
      BY <2>5, KeptCounts DEF c
    <3>4. QED
      BY <2>5, <3>1, <3>2, <3>3
  <2>7. c(j) <= c(h) + 1 /\ (j \in D => c(j) = c(h))
    BY <2>5, KeptCounts DEF c
  <2>8. c(j) = k /\ j \notin D
    BY <2>3, <2>6, <2>7
  <2>9. j \in DOMAIN s \ D
    BY <1>1, <2>3, <2>4, <2>8
  <2>10. QED
    BY <2>8, <2>9
<1>5. \A k \in 1 .. c(n) : m[k] \in DOMAIN s \ D /\ c(m[k]) = k
  <2> SUFFICES ASSUME NEW k \in 1 .. c(n) PROVE m[k] \in DOMAIN s \ D /\ c(m[k]) = k
    OBVIOUS
  <2>1. PICK j \in DOMAIN s \ D : Cardinality((1 .. j) \ D) = k
    BY <1>4 DEF KeptUpto
  <2>2. place(k) \in DOMAIN s \ D /\ Cardinality((1 .. place(k)) \ D) = k
    BY <2>1, Zenon
  <2>3. QED
    BY <2>2 DEF KeptUpto
<1> HIDE DEF m, r, c
<1>6. DOMAIN r = 1 .. c(n) /\ c(n) \in Nat
  BY <1>1, <1>2, KeptCounts DEF c
<1>7. r \in Seq(V)
  <2>1. \A k \in 1 .. c(n) : s[m[k]] \in V
    BY <1>5
  <2>2. QED
    BY <1>2, <1>6, <2>1
<1>8. \A k, l \in 1 .. c(n) : k < l => m[k] < m[l]
  <2> SUFFICES ASSUME NEW k \in 1 .. c(n), NEW l \in 1 .. c(n), k < l PROVE m[k] < m[l]
    OBVIOUS
  <2>1. m[k] \in Nat /\ m[l] \in Nat /\ c(m[k]) = k /\ c(m[l]) = l /\ k \in Nat /\ l \in Nat
    BY <1>1, <1>5, <1>6
  <2>2. ~(m[l] <= m[k])
    <3>1. m[l] <= m[k] => c(m[l]) <= c(m[k])
      BY <2>1, KeptCounts DEF c
    <3>2. QED
      BY <2>1, <3>1
  <2>3. QED
    BY <2>1, <2>2
<1>9. ASSUME NEW j \in DOMAIN s \ D
      PROVE  \E k \in 1 .. c(n) : m[k] = j
  <2>1. j \in Nat /\ j <= n /\ 0 < j /\ j \notin D
    BY <1>1
  <2>2. c(j) \in 1 .. c(n)
    <3>1. c(0) = 0 /\ c(0) < c(j) /\ c(j) <= c(n) /\ c(j) \in Nat /\ c(n) \in Nat
      BY <1>1, <2>1, KeptCounts DEF c
    <3>2. QED
      BY <3>1
  <2>3. m[c(j)] = j
    BY <1>3, <1>5, <2>2
  <2>4. QED
    BY <2>2, <2>3
<1>10. m \in [1 .. c(n) -> DOMAIN s \ D]
  BY <1>5 DEF m
<1>11. Picks(m, s, D, r)
  BY <1>2, <1>5, <1>6, <1>8, <1>9, <1>10 DEF Picks, c
<1>12. QED
  BY <1>7, <1>11 DEF r

\* Without what is not there it is the same.
LEMMA WithoutNone ==
  ASSUME NEW V, NEW s \in Seq(V)
  PROVE  Dead!Without(s, {}) = s
<1> DEFINE r == Dead!Without(s, {})
           n == Len(s)
<1>1. PICK m : Picks(m, s, {}, r)
  BY WithoutPicks
<1>2. r \in Seq(V)
  BY WithoutPicks
<1>3. n \in Nat /\ DOMAIN s = 1 .. n
  OBVIOUS
<1>4. \A j \in Nat : KeptUpto({}, j) = j
  <2> SUFFICES ASSUME NEW j \in Nat PROVE KeptUpto({}, j) = j
    OBVIOUS
  <2>1. (1 .. j) \ {} = 1 .. j
    OBVIOUS
  <2>2. Cardinality(1 .. j) = j
    BY FS_Interval
  <2>3. QED
    BY <2>1, <2>2 DEF KeptUpto
<1>5. DOMAIN r = 1 .. n
  <2>1. DOMAIN r = 1 .. Cardinality(DOMAIN s \ {})
    BY WithoutIs
  <2>2. Cardinality(DOMAIN s \ {}) = n
    BY <1>3, <1>4 DEF KeptUpto
  <2>3. QED
    BY <2>1, <2>2
<1> HIDE DEF r
<1>6. \A k \in 1 .. n : r[k] = s[k]
  <2> SUFFICES ASSUME NEW k \in 1 .. n PROVE r[k] = s[k]
    OBVIOUS
  <2>1. r[k] = s[m[k]] /\ KeptUpto({}, m[k]) = k /\ m[k] \in DOMAIN s
    BY <1>1, <1>5 DEF Picks
  <2>2. m[k] = k
    BY <1>3, <1>4, <2>1
  <2>3. QED
    BY <2>1, <2>2
<1>7. r = s
  BY <1>2, <1>3, <1>5, <1>6
<1>8. QED
  BY <1>7 DEF r

\* The operators of DCE are those of the module it is composed in.
LEMMA SameInDCE ==
  /\ \A g : Dead!Blocks(g) = Blocks(g)
  /\ \A s : Dead!Elems(s) = Elems(s)
  /\ \A s : Dead!TmpsOf(s) = TmpsOf(s)
  /\ \A x : Dead!Defs(x) = Defs(x) /\ Dead!Uses(x) = Uses(x)
  /\ \A x : Dead!HasSideEffects(x) <=> HasSideEffects(x)
<1>1. /\ \A g : Dead!Blocks(g) = Blocks(g)
      /\ \A s : Dead!Elems(s) = Elems(s)
      /\ \A s : Dead!TmpsOf(s) = TmpsOf(s)
  BY DEF Dead!Blocks, Blocks, Dead!Elems, Elems, Dead!TmpsOf, TmpsOf, Dead!IsTmp, IsTmp
<1>2. \A x : Dead!Defs(x) = Defs(x) /\ Dead!Uses(x) = Uses(x)
  BY <1>1 DEF Dead!Defs, Defs, Dead!Uses, Uses
<1>3. \A x : Dead!HasSideEffects(x) <=> HasSideEffects(x)
  BY DEF Dead!HasSideEffects, HasSideEffects, Dead!Stores, Stores, Dead!Calls, Calls,
     Dead!VarArg, VarArg, Dead!Allocs, Allocs
<1>4. QED
  BY <1>1, <1>2, <1>3

(***************************************************************************)
(* LiveAfter goes back from the end of the block, as the scan does.        *)
(***************************************************************************)
AtEnd(b) == out[b] \cup TmpsOf({f.jmp[b].arg})

BackOver(v, x) == (v \ Defs(x)) \cup Uses(x)

LEMMA LiveAfterMeans ==
  ASSUME NEW b, Len(f.ins[b]) \in Nat
  PROVE  /\ Dead!LiveAfter(b, Len(f.ins[b])) = AtEnd(b)
         /\ \A n \in 0 .. Len(f.ins[b]) - 1 :
              Dead!LiveAfter(b, n) = BackOver(Dead!LiveAfter(b, n + 1), f.ins[b][n + 1])
<1> DEFINE L == Len(f.ins[b])
           x(j) == f.ins[b][j]
           V == SUBSET (AtEnd(b) \cup UNION {Uses(x(j)) : j \in 1 .. L})
           v == AtEnd(b)
           F == [k \in 1 .. L |-> [s \in V |-> BackOver(s, x(L - k + 1))]]
           From(n, u) == u = [j \in n .. L |-> IF j = L THEN AtEnd(b) ELSE BackOver(u[j + 1], x(j + 1))]
<1>1. F \in [1 .. L -> [V -> V]] /\ v \in V
  <2>1. ASSUME NEW k \in 1 .. L, NEW s \in V
        PROVE  BackOver(s, x(L - k + 1)) \in V
    <3>1. L - k + 1 \in 1 .. L
      OBVIOUS
    <3>2. PICK j \in 1 .. L : j = L - k + 1
      BY <3>1
    <3>3. Uses(x(j)) \subseteq UNION {Uses(x(l)) : l \in 1 .. L}
      OBVIOUS
    <3> HIDE DEF x
    <3>4. QED
      BY <3>2, <3>3 DEF BackOver
  <2>2. QED
    BY <2>1
<1> HIDE DEF V, F, v, x
<1>2. PICK h : Follows(h, L, V, v, F)
  BY <1>1, Recursion
<1>3. /\ h[0] = AtEnd(b)
      /\ \A k \in 1 .. L : h[k] = BackOver(h[k - 1], x(L - k + 1))
  <2>1. ASSUME NEW k \in 1 .. L PROVE h[k] = BackOver(h[k - 1], x(L - k + 1))
    <3>1. h[k] = F[k][h[k - 1]] /\ h[k - 1] \in V
      BY <1>2 DEF Follows
    <3>2. QED
      BY <3>1 DEF F
  <2>2. QED
    BY <1>2, <2>1 DEF Follows, v
<1> DEFINE w(j) == h[L - j]
<1>4. /\ w(L) = AtEnd(b)
      /\ \A j \in 0 .. L - 1 : w(j) = BackOver(w(j + 1), x(j + 1))
  <2>1. w(L) = AtEnd(b)
    BY <1>3
  <2>2. ASSUME NEW j \in 0 .. L - 1 PROVE w(j) = BackOver(w(j + 1), x(j + 1))
    <3>1. PICK k \in 1 .. L : k = L - j
      <4>1. L - j \in 1 .. L
        OBVIOUS
      <4>2. QED
        BY <4>1, Zenon
    <3>2. k - 1 = L - (j + 1) /\ L - k + 1 = j + 1
      BY <3>1
    <3>3. h[k] = BackOver(h[k - 1], x(L - k + 1))
      BY <1>3
    <3>4. QED
      BY <3>1, <3>2, <3>3
  <2>3. QED
    BY <2>1, <2>2
<1> HIDE DEF w
<1>5. ASSUME NEW n \in 0 .. L
      PROVE  Dead!LiveAfter(b, n) = w(n)
  <2> DEFINE g == [j \in n .. L |-> w(j)]
             u == CHOOSE z : From(n, z)
  <2>1. Dead!LiveAfter(b, n) = u[n]
    BY SameInDCE DEF Dead!LiveAfter, AtEnd, BackOver, x
  <2>2. From(n, g)
    <3>1. \A j \in n .. L : j # L => j \in 0 .. L - 1 /\ j + 1 \in n .. L
      OBVIOUS
    <3>2. \A j \in n .. L : w(j) = IF j = L THEN AtEnd(b) ELSE BackOver(w(j + 1), x(j + 1))
      BY <1>4, <3>1
    <3>3. \A j \in n .. L : w(j) = IF j = L THEN AtEnd(b) ELSE BackOver(g[j + 1], x(j + 1))
      BY <3>1, <3>2
    <3>4. QED
      BY <3>3
  <2>3. From(n, u)
    <3> HIDE DEF From, g
    <3>1. QED
      BY <2>2, Zenon
  <2> HIDE DEF u, g
  <2>4. \A j \in n .. L : u[j] = IF j = L THEN AtEnd(b) ELSE BackOver(u[j + 1], x(j + 1))
    BY <2>3
  <2> DEFINE Bad == {k \in Nat : k <= L - n /\ u[L - k] # w(L - k)}
  <2>5. SUFFICES ASSUME Bad # {} PROVE FALSE
    <3>1. Bad = {} => L - n \notin Bad
      OBVIOUS
    <3>2. PICK k \in Nat : k = L - n
      <4>1. L - n \in Nat
        OBVIOUS
      <4>2. QED
        BY <4>1, Zenon
    <3>3. L - k = n
      BY <3>2
    <3>4. QED
      BY <2>1, <3>1, <3>2, <3>3
  <2>6. PICK k \in Bad : \A l \in Bad : k <= l
    <3>1. Bad \subseteq Nat
      OBVIOUS
    <3> HIDE DEF Bad
    <3>2. QED
      BY <2>5, <3>1, LeastNat
  <2>7. k # 0
    <3>1. L \in n .. L /\ L - 0 = L
      OBVIOUS
    <3>2. u[L] = w(L)
      BY <1>4, <2>4, <3>1
    <3>3. QED
      BY <2>6, <3>1, <3>2
  <2>8. PICK j \in n .. L : j = L - k
    BY <2>6
  <2>9. j # L /\ j \in 0 .. L - 1 /\ L - (k - 1) = j + 1 /\ k - 1 \in Nat /\ k - 1 <= L - n
    BY <2>6, <2>7, <2>8
  <2>10. k - 1 \notin Bad
    <3>1. k \in Nat /\ ~(k <= k - 1)
      BY <2>6
    <3> HIDE DEF Bad
    <3>2. QED
      BY <2>6, <3>1
  <2>11. u[j + 1] = w(j + 1)
    BY <2>9, <2>10
  <2>12. u[j] = w(j)
    BY <1>4, <2>4, <2>9, <2>11
  <2>13. QED
    BY <2>6, <2>8, <2>12
<1>6. \A n \in 0 .. L - 1 : n \in 0 .. L /\ n + 1 \in 0 .. L
  OBVIOUS
<1>7. Dead!LiveAfter(b, L) = AtEnd(b)
  BY <1>4, <1>5
<1>8. \A n \in 0 .. L - 1 : Dead!LiveAfter(b, n) = BackOver(Dead!LiveAfter(b, n + 1), x(n + 1))
  BY <1>4, <1>5, <1>6
<1>9. QED
  BY <1>7, <1>8 DEF x

(***************************************************************************)
(* The invariant of DCE.  The function has the shape it had, and lacks     *)
(* only code without effects (Thinned).  The scan has no dead instruction  *)
(* behind it that it has not noted, and as long as it has noted none, what *)
(* it holds for live is LiveAfter.  While the sweep has removed nothing,   *)
(* there was nothing to remove in the blocks behind it (Clean).            *)
(***************************************************************************)
Thinned(s, r) ==
  \E m \in [DOMAIN r -> DOMAIN s] :
    /\ \A k \in DOMAIN r : r[k] = s[m[k]]
    /\ \A k, l \in DOMAIN r : k < l => m[k] < m[l]
    /\ \A j \in DOMAIN s : HasSideEffects(s[j]) => \E k \in DOMAIN r : m[k] = j

OnlyThinner(g, h) ==
  /\ g = [h EXCEPT !.ins = g.ins, !.phis = g.phis]
  /\ DOMAIN g.ins = DOMAIN h.ins /\ DOMAIN g.phis = DOMAIN h.phis
  /\ \A b \in DOMAIN h.ins : Thinned(h.ins[b], g.ins[b])
  /\ \A b \in DOMAIN h.phis : Elems(g.phis[b]) \subseteq Elems(h.phis[b])

Clean(b) ==
  /\ \A n \in DOMAIN f.ins[b] : ~Dead!IsDead(f.ins[b][n], Dead!LiveAfter(b, n))
  /\ \A p \in Elems(f.phis[b]) : Defs(p) \subseteq Dead!LiveAfter(b, 0)

Scanning ==
  LET L == Len(f.ins[pos]) IN
  /\ pos \in Blocks(f) /\ i \in 0 .. L /\ dead \subseteq i + 1 .. L
  /\ \A n \in dead : ~HasSideEffects(f.ins[pos][n])
  /\ dead # {} => changed
  /\ dead = {} =>
       /\ live = Dead!LiveAfter(pos, i)
       /\ \A n \in i + 1 .. L : ~Dead!IsDead(f.ins[pos][n], Dead!LiveAfter(pos, n))

DInv ==
  /\ IsFunction(f) /\ HasFields(f)
  /\ IsFunction(source) /\ OnlyThinner(f, source)
  /\ dpc \in {"block", "scan", "done"} /\ pos \in 0 .. f.n /\ changed \in BOOLEAN
  /\ dpc = "scan" => Scanning
  /\ dpc # "done" /\ ~changed => \A b \in 0 .. pos - 1 : Clean(b)
  /\ dpc = "done" => \A b \in Blocks(f) : Clean(b)

\* What is thinned twice is thinned.
LEMMA ThinnedAgain ==
  ASSUME NEW s \in Seq(Instruction), NEW r \in Seq(Instruction), Thinned(s, r), NEW D,
         \A k \in D \cap DOMAIN r : ~HasSideEffects(r[k])
  PROVE  Thinned(s, Dead!Without(r, D))
<1> DEFINE q == Dead!Without(r, D)
<1>1. PICK m \in [DOMAIN r -> DOMAIN s] :
        /\ \A k \in DOMAIN r : r[k] = s[m[k]]
        /\ \A k, l \in DOMAIN r : k < l => m[k] < m[l]
        /\ \A j \in DOMAIN s : HasSideEffects(s[j]) => \E k \in DOMAIN r : m[k] = j
  BY DEF Thinned
<1>2. PICK h : Picks(h, r, D, q)
  BY WithoutPicks
<1> HIDE DEF q
<1> DEFINE t == [k \in DOMAIN q |-> m[h[k]]]
<1>3. t \in [DOMAIN q -> DOMAIN s]
  BY <1>2 DEF Picks
<1>4. \A k \in DOMAIN q : q[k] = s[t[k]]
  BY <1>1, <1>2 DEF Picks
<1>5. \A k, l \in DOMAIN q : k < l => t[k] < t[l]
  BY <1>1, <1>2 DEF Picks
<1>6. ASSUME NEW j \in DOMAIN s, HasSideEffects(s[j])
      PROVE  \E k \in DOMAIN q : t[k] = j
  <2>1. PICK l \in DOMAIN r : m[l] = j
    BY <1>1, <1>6
  <2>2. l \notin D
    BY <1>1, <1>6, <2>1
  <2>3. PICK k \in DOMAIN q : h[k] = l
    BY <1>2, <2>1, <2>2 DEF Picks
  <2>4. QED
    BY <2>1, <2>3
<1> HIDE DEF t
<1>7. QED
  BY <1>3, <1>4, <1>5, <1>6 DEF Thinned, q

LEMMA ThinnedNot ==
  ASSUME NEW s \in Seq(Instruction)
  PROVE  Thinned(s, s)
<1> DEFINE m == [k \in DOMAIN s |-> k]
<1>1. m \in [DOMAIN s -> DOMAIN s]
  OBVIOUS
<1>2. QED
  BY <1>1 DEF Thinned

\* What stands there stays an instruction or phi of the function.
LEMMA WithoutElems ==
  ASSUME NEW V, NEW s \in Seq(V), NEW D
  PROVE  /\ Dead!Without(s, D) \in Seq(V)
         /\ Elems(Dead!Without(s, D)) \subseteq Elems(s)
<1>1. PICK m : Picks(m, s, D, Dead!Without(s, D))
  BY WithoutPicks
<1>2. QED
  BY <1>1, WithoutPicks DEF Picks, Elems

LEMMA FunctionFacts ==
  ASSUME IsFunction(f), NEW b \in Blocks(f)
  PROVE  /\ f.n \in Nat \ {0}
         /\ f.ins[b] \in Seq(Instruction) /\ f.phis[b] \in Seq(Phi)
         /\ Len(f.ins[b]) \in Nat /\ DOMAIN f.ins[b] = 1 .. Len(f.ins[b])
<1>1. f.ins[b] \in Seq(Instruction) /\ f.phis[b] \in Seq(Phi) /\ f.n \in Nat \ {0}
  BY DEF IsFunction
<1>2. QED
  BY <1>1

\* What is said of the blocks speaks of f and the Out sets only.
LEMMA SaidOf ==
  ASSUME UNCHANGED <<f, out>>
  PROVE  /\ \A b, n : Dead!LiveAfter(b, n)' = Dead!LiveAfter(b, n)
         /\ \A b : Clean(b)' <=> Clean(b)
<1>1. \A b, n : Dead!LiveAfter(b, n)' = Dead!LiveAfter(b, n)
  BY DEF Dead!LiveAfter
<1>2. \A b : Clean(b)' <=> Clean(b)
  BY <1>1 DEF Clean
<1>3. QED
  BY <1>1, <1>2

LEMMA EnterKeeps ==
  ASSUME DInv, Dead!EnterBlock, UNCHANGED source
  PROVE  DInv'
<1> DEFINE L == Len(f.ins[pos])
<1>1. /\ dpc = "block" /\ pos < f.n /\ dpc' = "scan" /\ UNCHANGED <<f, out, pos, changed, source>>
      /\ live' = out[pos] \cup Dead!TmpsOf({f.jmp[pos].arg}) /\ i' = L /\ dead' = {}
  BY DEF Dead!EnterBlock
<1>2. pos \in Blocks(f) /\ L \in Nat
  BY <1>1, FunctionFacts DEF DInv, Blocks, IsFunction
<1>3. live' = Dead!LiveAfter(pos, L)
  BY <1>1, <1>2, SameInDCE, LiveAfterMeans DEF AtEnd
<1>4. Scanning'
  <2>1. /\ pos' \in Blocks(f)' /\ Len(f.ins[pos])' = L /\ i' = L /\ dead' = {}
        /\ live' = Dead!LiveAfter(pos, i)'
    BY <1>1, <1>2, <1>3, SaidOf
  <2>2. i' \in 0 .. L /\ i' + 1 .. L = {}
    BY <1>2, <2>1
  <2> HIDE DEF L
  <2>3. QED
    BY <2>1, <2>2 DEF Scanning
<1>5. IsFunction(f)' /\ OnlyThinner(f, source)' /\ Blocks(f)' = Blocks(f)
  BY <1>1 DEF DInv
<1>6. QED
  BY <1>1, <1>4, <1>5, SaidOf DEF DInv

LEMMA ScanKeeps ==
  ASSUME DInv, Dead!Scan, UNCHANGED source
  PROVE  DInv'
<1> DEFINE L == Len(f.ins[pos])
           x == f.ins[pos][i]
<1>1. /\ dpc = "scan" /\ i > 0 /\ i' = i - 1 /\ UNCHANGED <<f, out, pos, dpc, source>>
      /\ IF Dead!IsDead(x, live)
           THEN dead' = dead \cup {i} /\ changed' = TRUE /\ live' = live
           ELSE live' = (live \ Dead!Defs(x)) \cup Dead!Uses(x) /\ dead' = dead /\ changed' = changed
  BY DEF Dead!Scan
<1>2. Scanning /\ pos \in Blocks(f) /\ L \in Nat /\ changed \in BOOLEAN
  <2>1. Scanning /\ changed \in BOOLEAN /\ IsFunction(f)
    BY <1>1 DEF DInv
  <2>2. pos \in Blocks(f)
    BY <2>1 DEF Scanning
  <2>3. QED
    BY <2>1, <2>2, FunctionFacts
<1>3. /\ i \in 0 .. L /\ dead \subseteq i + 1 .. L /\ \A n \in dead : ~HasSideEffects(f.ins[pos][n])
      /\ dead # {} => changed
      /\ dead = {} =>
           /\ live = Dead!LiveAfter(pos, i)
           /\ \A n \in i + 1 .. L : ~Dead!IsDead(f.ins[pos][n], Dead!LiveAfter(pos, n))
  BY <1>2 DEF Scanning
<1>4. PICK h \in 0 .. L - 1 : h = i - 1 /\ h + 1 = i
  <2>1. i - 1 \in 0 .. L - 1 /\ (i - 1) + 1 = i
    BY <1>1, <1>2, <1>3
  <2>2. QED
    BY <2>1, Zenon
<1>5. h + 1 .. L = {i} \cup (i + 1 .. L)
  BY <1>2, <1>4
<1> HIDE DEF L, x
<1>6. IsFunction(f)' /\ OnlyThinner(f, source)' /\ Blocks(f)' = Blocks(f) /\ Len(f.ins[pos])' = L
  BY <1>1 DEF DInv, L
<1>7. /\ dead' \subseteq h + 1 .. L /\ \A n \in dead' : ~HasSideEffects(f.ins[pos][n])
      /\ dead' # {} => changed'
      /\ dead' = {} =>
           /\ live' = Dead!LiveAfter(pos, h)
           /\ \A n \in h + 1 .. L : ~Dead!IsDead(f.ins[pos][n], Dead!LiveAfter(pos, n))
  <2>1. CASE Dead!IsDead(x, live)
    <3>1. ~HasSideEffects(f.ins[pos][i])
      BY <2>1, SameInDCE DEF Dead!IsDead, x
    <3>2. QED
      BY <1>1, <1>3, <1>5, <2>1, <3>1
  <2>2. CASE ~Dead!IsDead(x, live)
    <3>1. live' = BackOver(live, x)
      BY <1>1, <2>2, SameInDCE DEF BackOver
    <3>2. Dead!LiveAfter(pos, h) = BackOver(Dead!LiveAfter(pos, h + 1), f.ins[pos][h + 1])
      BY <1>2, <1>4, LiveAfterMeans DEF L
    <3>3. dead = {} => live' = Dead!LiveAfter(pos, h)
      BY <1>3, <1>4, <3>1, <3>2 DEF x
    <3>4. dead = {} => ~Dead!IsDead(f.ins[pos][i], Dead!LiveAfter(pos, i))
      BY <1>3, <2>2 DEF x
    <3>5. dead' = dead /\ changed' = changed
      BY <1>1, <2>2
    <3>6. QED
      BY <1>3, <1>5, <3>3, <3>4, <3>5
  <2>3. QED
    BY <2>1, <2>2
<1>8. Scanning'
  <2>1. \A n : Dead!LiveAfter(pos, n)' = Dead!LiveAfter(pos, n)
    BY <1>1, SaidOf
  <2>2. i' = h /\ h \in 0 .. L
    BY <1>1, <1>2, <1>4
  <2>3. live' = Dead!LiveAfter(pos, h) => live' = Dead!LiveAfter(pos, i)'
    BY <1>1, <2>2, SaidOf
  <2>4. QED
    BY <1>1, <1>2, <1>6, <1>7, <2>1, <2>2, <2>3 DEF Scanning
<1>9. ~changed' => ~changed
  BY <1>1, <1>2
<1>10. QED
  BY <1>1, <1>6, <1>7, <1>8, <1>9, SaidOf DEF DInv

LEMMA EndKeeps ==
  ASSUME DInv, Dead!EndSweep, UNCHANGED source
  PROVE  DInv'
<1>1. /\ dpc = "block" /\ pos >= f.n /\ UNCHANGED <<f, out, i, live, dead, source>>
      /\ IF changed THEN pos' = 0 /\ changed' = FALSE /\ dpc' = dpc
                    ELSE dpc' = "done" /\ pos' = pos /\ changed' = changed
  BY DEF Dead!EndSweep
<1>2. IsFunction(f)' /\ OnlyThinner(f, source)' /\ Blocks(f)' = Blocks(f) /\ f.n \in Nat
      /\ (f.n)' = f.n
  BY <1>1 DEF DInv, IsFunction
<1>3. CASE changed
  <2>1. 0 .. pos' - 1 = {} /\ pos' \in 0 .. f.n
    BY <1>1, <1>2, <1>3
  <2>2. QED
    BY <1>1, <1>2, <1>3, <2>1 DEF DInv
<1>4. CASE ~changed
  <2>1. pos = f.n /\ \A b \in 0 .. pos - 1 : Clean(b)
    BY <1>1, <1>2, <1>4 DEF DInv
  <2>2. \A b \in Blocks(f) : Clean(b)
    BY <2>1 DEF Blocks
  <2>3. QED
    BY <1>1, <1>2, <1>4, <2>2, SaidOf DEF DInv
<1>5. QED
  BY <1>3, <1>4

\* A function with fewer instructions and phis in a block is one.
Put(g, c, A, B) == [g EXCEPT !.ins[c] = A, !.phis[c] = B]

Fewer(g, c, A, B) ==
  /\ IsFunction(g) /\ HasFields(g) /\ c \in Blocks(g)
  /\ A \in Seq(Instruction) /\ Elems(A) \subseteq Elems(g.ins[c])
  /\ B \in Seq(Phi) /\ Elems(B) \subseteq Elems(g.phis[c])

ButFor(h, g, c, A, B) ==
  /\ DOMAIN h = DOMAIN g /\ h.n = g.n /\ Blocks(h) = Blocks(g)
  /\ h.ins = [g.ins EXCEPT ![c] = A] /\ h.phis = [g.phis EXCEPT ![c] = B]
  /\ \A x \in DOMAIN g : x \notin {"ins", "phis"} => h[x] = g[x]

LEMMA FewerInBlock ==
  ASSUME NEW g, NEW c, NEW A, NEW B, Fewer(g, c, A, B)
  PROVE  /\ IsFunction(Put(g, c, A, B)) /\ HasFields(Put(g, c, A, B))
         /\ ButFor(Put(g, c, A, B), g, c, A, B)
<1> DEFINE h == Put(g, c, A, B)
<1>0. /\ IsFunction(g) /\ HasFields(g) /\ c \in Blocks(g)
      /\ A \in Seq(Instruction) /\ Elems(A) \subseteq Elems(g.ins[c])
      /\ B \in Seq(Phi) /\ Elems(B) \subseteq Elems(g.phis[c])
  BY DEF Fewer
<1>1. /\ h.n = g.n /\ h.ntmp = g.ntmp /\ h.s1 = g.s1 /\ h.s2 = g.s2 /\ h.pred = g.pred
      /\ h.jmp = g.jmp /\ DOMAIN h = DOMAIN g
      /\ h.ins = [g.ins EXCEPT ![c] = A] /\ h.phis = [g.phis EXCEPT ![c] = B]
      /\ \A x \in DOMAIN g : x \notin {"ins", "phis"} => h[x] = g[x]
  <2>1. DOMAIN h = DOMAIN g
    BY DEF Put
  <2>2. \A x \in DOMAIN g : x \notin {"ins", "phis"} => h[x] = g[x]
    BY DEF Put
  <2>3. h.ins = [g.ins EXCEPT ![c] = A] /\ h.phis = [g.phis EXCEPT ![c] = B]
    BY <1>0 DEF HasFields, Fields, Put
  <2> HIDE DEF h
  <2>4. QED
    BY <1>0, <2>1, <2>2, <2>3 DEF HasFields, Fields
<1> HIDE DEF h
<1>2. Blocks(h) = Blocks(g) /\ \A r : RefOK(h, r) <=> RefOK(g, r)
  BY <1>1 DEF Blocks, RefOK, Temps
<1>3. /\ g.ins \in [Blocks(g) -> Seq(Instruction)] /\ g.phis \in [Blocks(g) -> Seq(Phi)]
      /\ \A b \in Blocks(g) : \A j \in DOMAIN g.ins[b] :
           \A r \in Elems(g.ins[b][j].arg) \cup {g.ins[b][j].to} : RefOK(g, r)
      /\ \A b \in Blocks(g) : \A j \in DOMAIN g.phis[b] :
           /\ Len(g.phis[b][j].args) = Len(g.phis[b][j].blks)
           /\ \A r \in Elems(g.phis[b][j].args) \cup {g.phis[b][j].to} : RefOK(g, r)
  BY <1>0 DEF IsFunction
<1>4. h.ins \in [Blocks(h) -> Seq(Instruction)] /\ h.phis \in [Blocks(h) -> Seq(Phi)]
  BY <1>0, <1>1, <1>2, <1>3
<1>5. ASSUME NEW b \in Blocks(h), NEW j \in DOMAIN h.ins[b]
      PROVE  \A r \in Elems(h.ins[b][j].arg) \cup {h.ins[b][j].to} : RefOK(h, r)
  <2>1. h.ins[b][j] \in Elems(g.ins[b])
    <3>1. b \in Blocks(g) /\ h.ins[b] = IF b = c THEN A ELSE g.ins[b]
      BY <1>1, <1>2, <1>3
    <3>2. h.ins[b][j] \in Elems(h.ins[b])
      BY DEF Elems
    <3>3. QED
      BY <1>0, <3>1, <3>2
  <2>2. PICK l \in DOMAIN g.ins[b] : h.ins[b][j] = g.ins[b][l]
    BY <2>1 DEF Elems
  <2>3. QED
    BY <1>2, <1>3, <2>2
<1>6. ASSUME NEW b \in Blocks(h), NEW j \in DOMAIN h.phis[b]
      PROVE  /\ Len(h.phis[b][j].args) = Len(h.phis[b][j].blks)
             /\ \A r \in Elems(h.phis[b][j].args) \cup {h.phis[b][j].to} : RefOK(h, r)
  <2>1. h.phis[b][j] \in Elems(g.phis[b])
    <3>1. b \in Blocks(g) /\ h.phis[b] = IF b = c THEN B ELSE g.phis[b]
      BY <1>1, <1>2, <1>3
    <3>2. h.phis[b][j] \in Elems(h.phis[b])
      BY DEF Elems
    <3>3. QED
      BY <1>0, <3>1, <3>2
  <2>2. PICK l \in DOMAIN g.phis[b] : h.phis[b][j] = g.phis[b][l]
    BY <2>1 DEF Elems
  <2>3. QED
    BY <1>2, <1>3, <2>2
<1>7. IsFunction(h)
  BY <1>0, <1>1, <1>2, <1>4, <1>5, <1>6 DEF IsFunction
<1>8. QED
  <2>1. HasFields(h)
    <3>1. h = [x \in DOMAIN h |-> h[x]]
      BY <1>0 DEF h, Put
    <3>2. QED
      BY <1>0, <1>1, <3>1 DEF HasFields
  <2>2. QED
    BY <1>1, <1>2, <1>7, <2>1 DEF ButFor, h

LEMMA LeaveKeeps ==
  ASSUME DInv, Dead!LeaveBlock, UNCHANGED source
  PROVE  DInv'
<1> DEFINE D == Dead!DeadPhis(pos, live)
           A == IF changed THEN Dead!Without(f.ins[pos], dead) ELSE f.ins[pos]
           B == Dead!Without(f.phis[pos], D)
<1>1. /\ dpc = "scan" /\ i = 0 /\ dpc' = "block" /\ pos' = pos + 1 /\ UNCHANGED <<out, source>>
      /\ f' = Put(f, pos, A, B)
      /\ changed' = (changed \/ D # {})
  BY DEF Dead!LeaveBlock, Put
<1>2. /\ Scanning /\ pos \in Blocks(f) /\ changed \in BOOLEAN /\ OnlyThinner(f, source)
      /\ IsFunction(f) /\ IsFunction(source) /\ HasFields(f)
      /\ f.ins[pos] \in Seq(Instruction) /\ f.phis[pos] \in Seq(Phi)
      /\ f.n \in Nat \ {0} /\ pos \in 0 .. f.n
  <2>1. /\ Scanning /\ changed \in BOOLEAN /\ IsFunction(f) /\ IsFunction(source)
        /\ OnlyThinner(f, source) /\ HasFields(f) /\ pos \in 0 .. f.n
    BY <1>1 DEF DInv
  <2>2. pos \in Blocks(f)
    BY <2>1 DEF Scanning
  <2>3. QED
    BY <2>1, <2>2, FunctionFacts
<1>3. /\ A \in Seq(Instruction) /\ Elems(A) \subseteq Elems(f.ins[pos])
      /\ B \in Seq(Phi) /\ Elems(B) \subseteq Elems(f.phis[pos])
  BY <1>2, WithoutElems
<1>4. \A n \in dead : ~HasSideEffects(f.ins[pos][n])
  BY <1>2 DEF Scanning
<1> HIDE DEF A, B, D
<1>5. PICK g : g = f'
  OBVIOUS
<1>6. /\ IsFunction(g) /\ HasFields(g) /\ DOMAIN g = DOMAIN f /\ g.n = f.n /\ Blocks(g) = Blocks(f)
      /\ g.ins = [f.ins EXCEPT ![pos] = A] /\ g.phis = [f.phis EXCEPT ![pos] = B]
      /\ \A x \in DOMAIN f : x \notin {"ins", "phis"} => g[x] = f[x]
  <2>1. g = Put(f, pos, A, B)
    BY <1>1, <1>5
  <2>2. Fewer(f, pos, A, B)
    BY <1>2, <1>3 DEF Fewer
  <2>3. IsFunction(g) /\ HasFields(g) /\ ButFor(g, f, pos, A, B)
    BY <2>1, <2>2, FewerInBlock
  <2>4. QED
    BY <2>3 DEF ButFor
<1>7. OnlyThinner(g, source)
  <2>1. /\ f = [source EXCEPT !.ins = f.ins, !.phis = f.phis]
        /\ DOMAIN f.ins = DOMAIN source.ins /\ DOMAIN f.phis = DOMAIN source.phis
        /\ \A b \in DOMAIN source.ins : Thinned(source.ins[b], f.ins[b])
        /\ \A b \in DOMAIN source.phis : Elems(f.phis[b]) \subseteq Elems(source.phis[b])
    BY <1>2 DEF OnlyThinner
  <2>2. DOMAIN f = DOMAIN source /\ \A x \in DOMAIN f : x \notin {"ins", "phis"} => f[x] = source[x]
    BY <2>1
  <2>3. g = [source EXCEPT !.ins = g.ins, !.phis = g.phis]
    <3>1. g = [x \in DOMAIN g |-> g[x]]
      BY <1>1, <1>5 DEF Put
    <3>2. QED
      BY <1>6, <2>2, <3>1
  <2>4. ASSUME NEW b \in DOMAIN source.ins PROVE Thinned(source.ins[b], g.ins[b])
    <3>1. CASE b = pos /\ changed
      <4>1. g.ins[b] = Dead!Without(f.ins[pos], dead)
        BY <1>6, <2>1, <3>1 DEF A
      <4>2. source.ins[b] \in Seq(Instruction) /\ Thinned(source.ins[b], f.ins[pos])
        BY <1>2, <2>1, <3>1 DEF IsFunction
      <4>3. QED
        BY <1>2, <1>4, <4>1, <4>2, ThinnedAgain
    <3>2. CASE ~(b = pos /\ changed)
      <4>1. g.ins[b] = f.ins[b]
        BY <1>6, <2>1, <3>2 DEF A
      <4>2. QED
        BY <2>1, <4>1
    <3>3. QED
      BY <3>1, <3>2
  <2>5. ASSUME NEW b \in DOMAIN source.phis PROVE Elems(g.phis[b]) \subseteq Elems(source.phis[b])
    BY <1>3, <1>6, <2>1
  <2>6. DOMAIN g.ins = DOMAIN source.ins /\ DOMAIN g.phis = DOMAIN source.phis
    BY <1>6, <2>1
  <2>7. QED
    BY <2>3, <2>4, <2>5, <2>6 DEF OnlyThinner
<1>8. pos + 1 \in 0 .. f.n
  BY <1>2 DEF Blocks
<1>9. ASSUME ~changed', NEW b \in 0 .. pos
      PROVE  Clean(b)'
  <2>1. ~changed /\ D = {}
    BY <1>1, <1>2, <1>9
  <2>2. A = f.ins[pos] /\ B = f.phis[pos]
    BY <1>2, <2>1, WithoutNone DEF A, B
  <2>3. f' = f
    <3>1. f = [x \in DOMAIN f |-> f[x]] /\ f.ins = [x \in DOMAIN f.ins |-> f.ins[x]]
          /\ f.phis = [x \in DOMAIN f.phis |-> f.phis[x]]
      BY <1>2 DEF OnlyThinner, IsFunction
    <3>2. QED
      BY <1>1, <2>2, <3>1 DEF Put
  <2>4. Clean(b)
    <3>1. CASE b # pos
      <4>1. b \in 0 .. pos - 1 /\ dpc # "done"
        BY <1>1, <1>2, <3>1
      <4>2. QED
        BY <2>1, <4>1 DEF DInv
    <3>2. CASE b = pos
      <4>1. /\ live = Dead!LiveAfter(pos, 0)
            /\ \A n \in 1 .. Len(f.ins[pos]) : ~Dead!IsDead(f.ins[pos][n], Dead!LiveAfter(pos, n))
        BY <1>1, <1>2, <2>1 DEF Scanning
      <4>2. ASSUME NEW p \in Elems(f.phis[pos]) PROVE Defs(p) \subseteq live
        <5>1. PICK j \in DOMAIN f.phis[pos] : p = f.phis[pos][j]
          BY DEF Elems
        <5>2. Dead!IsTmp(p.to) => p.to.val \in live
          BY <2>1, <5>1 DEF D, Dead!DeadPhis
        <5>3. QED
          BY <5>2 DEF Defs, TmpsOf, Dead!IsTmp, IsTmp
      <4>3. DOMAIN f.ins[pos] = 1 .. Len(f.ins[pos])
        BY <1>2
      <4>4. QED
        BY <3>2, <4>1, <4>2, <4>3 DEF Clean
    <3>3. QED
      BY <3>1, <3>2
  <2>5. QED
    BY <1>1, <2>3, <2>4, SaidOf
<1>10. 0 .. pos' - 1 = 0 .. pos /\ (changed' \in BOOLEAN)
  BY <1>1, <1>2
<1>11. /\ IsFunction(f)' /\ HasFields(f)' /\ OnlyThinner(f, source)'
       /\ IsFunction(source)' /\ pos' \in 0 .. (f.n)'
  BY <1>1, <1>2, <1>5, <1>6, <1>7, <1>8
<1>12. QED
  BY <1>1, <1>9, <1>10, <1>11 DEF DInv

\* Every other pass leaves DCE where it starts.
DAInv == (pass = "DCE" => DInv) /\ (pass # "DCE" => dpc = "block")

THEOREM DInvariant == Spec => []DAInv
<1>1. Init => DAInv
  <2> SUFFICES ASSUME Init, pass = "DCE" PROVE DInv
    BY DEF DAInv, Init, Dead!Start
  <2>1. PICK input \in Inputs : f = input.fn /\ pass = input.pass
    BY DEF Init
  <2>2. /\ IsFunction(f) /\ HasFields(f) /\ source = f
        /\ pos = 0 /\ changed = FALSE /\ dpc = "block"
    BY <2>1, InputsAssumption DEF Init, Dead!Start
  <2>3. \A b \in DOMAIN f.ins : Thinned(f.ins[b], f.ins[b])
    BY <2>2, ThinnedNot DEF IsFunction
  <2>4. f = [f EXCEPT !.ins = f.ins, !.phis = f.phis]
    BY <2>2 DEF HasFields
  <2>5. OnlyThinner(f, source)
    BY <2>2, <2>3, <2>4 DEF OnlyThinner
  <2>6. 0 \in 0 .. f.n /\ 0 .. 0 - 1 = {}
    BY <2>2 DEF IsFunction
  <2>7. QED
    BY <2>2, <2>5, <2>6 DEF DInv, HasFields
<1>2. DAInv /\ [Next]_vars => DAInv'
  <2> SUFFICES ASSUME DAInv, [Next]_vars PROVE DAInv'
    OBVIOUS
  <2>1. CASE RunDCE
    <3>1. DInv /\ pass' = pass /\ pass = "DCE" /\ UNCHANGED source /\ Dead!Step
      BY <2>1 DEF RunDCE, DAInv
    <3>2. DInv'
      BY <3>1, EnterKeeps, ScanKeeps, LeaveKeeps, EndKeeps DEF Dead!Step
    <3>3. QED
      BY <3>1, <3>2 DEF DAInv
  <2>2. CASE RunSCCP \/ RunCopyProp \/ RunGVN
    BY <2>2 DEF RunSCCP, RunCopyProp, RunGVN, dceVars, DAInv
  <2>3. CASE UNCHANGED vars
    <3>1. UNCHANGED <<pass, f, source, pos, changed, out, i, live, dead, dpc>>
      BY <2>3 DEF vars, dceVars
    <3>2. \A b, n : Dead!LiveAfter(b, n)' = Dead!LiveAfter(b, n)
      BY <3>1, SaidOf
    <3>3. Scanning' <=> Scanning
      BY <3>1, <3>2 DEF Scanning
    <3>4. IsFunction(f)' /\ OnlyThinner(f, source)' <=> IsFunction(f) /\ OnlyThinner(f, source)
      BY <3>1
    <3>5. QED
      BY <3>1, <3>3, <3>4, SaidOf DEF DAInv, DInv
  <2>4. QED
    BY <2>1, <2>2, <2>3 DEF Next
<1>3. QED
  BY <1>1, <1>2, PTL DEF Spec

(***************************************************************************)
(* After every sweep of every block what DCE has of the function is one,   *)
(* with the blocks, edges and jumps it had.  Of each block it has kept     *)
(* instructions it found there, unchanged and in their order, and every    *)
(* one that HasSideEffects (side_effects.go) names; of its phis, some.     *)
(***************************************************************************)
Harmless == pass = "DCE" => IsFunction(f) /\ OnlyThinner(f, source)

THEOREM EffectsKept == Spec => []Harmless
<1>1. DAInv => Harmless
  BY DEF DAInv, DInv, Harmless
<1>2. QED
  BY <1>1, DInvariant, PTL

(***************************************************************************)
(* DCE ends only when nothing it would remove is left: no instruction or   *)
(* phi whose removal has made another one dead escapes, whatever the order *)
(* of the blocks, since the flag that a removal sets is seen at the end of *)
(* the sweep.  This is by the Out sets as they are, right or wrong.        *)
(***************************************************************************)
AllGone == dpc = "done" => Dead!NothingDead

THEOREM DeadGone == Spec => []AllGone
<1>1. DAInv => AllGone
  <2> SUFFICES ASSUME DInv, dpc = "done" PROVE Dead!NothingDead
    BY DEF DAInv, AllGone
  <2>1. \A b \in Blocks(f) : Clean(b)
    BY DEF DInv
  <2>2. QED
    BY <2>1, SameInDCE DEF Clean, Dead!NothingDead
<1>2. QED
  BY <1>1, DInvariant, PTL

(***************************************************************************)
(* The scan of a block reads no instruction outside it, and removes none   *)
(* that it has not come to (TypeOK has this).                              *)
(***************************************************************************)
THEOREM ScanInBlock == Spec => []Dead!InBlock
<1>1. DAInv => Dead!InBlock
  <2> SUFFICES ASSUME DInv, dpc = "scan" PROVE Dead!InBlock
    BY DEF DAInv, Dead!InBlock
  <2>1. Scanning /\ IsFunction(f) /\ pos \in Blocks(f)
    BY DEF DInv, Scanning
  <2>2. Len(f.ins[pos]) \in Nat
    BY <2>1, FunctionFacts
  <2>3. QED
    BY <2>1, <2>2, SameInDCE DEF Scanning, Dead!InBlock
<1>2. QED
  BY <1>1, DInvariant, PTL
=============================================================================
