------------------------------ MODULE SSAProofs ------------------------------
(***************************************************************************)
(* SSA construction (src/analysis/ssa.go) leaves pruned SSA form, for      *)
(* every function.                                                         *)
(*                                                                         *)
(* First insertPhis and rename, on the dominator tree, the frontiers and   *)
(* the live sets they are given (Analysed).  insertPhis leaves a phi of    *)
(* every temporary on all of its iterated dominance frontier where it is   *)
(* live (PhisPlaced).  rename walks the dominator tree: its calls are the  *)
(* path from Start (WInv); every item, phi or instruction, has a name of   *)
(* its own once it has been passed (Named); and the part of a stack above  *)
(* the height a call noted holds what that call has put there (Stacked).   *)
(* That gives the types and NamesOnPath.  What is read then has a name on  *)
(* the path, because where a temporary is live without a phi, a block      *)
(* above has a phi of it or writes it (LiveDefined of GraphProofs;         *)
(* StackFull).  That gives SSAForm.                                        *)
(*                                                                         *)
(* Then the beginning.  SSA starts with FillDom, FillFron and Liveness:    *)
(* what FillDomProofs and LivenessProofs show of them is carried over to   *)
(* the steps SSA takes of them, and gives Analysed.  No phi SSA leaves is  *)
(* dead, because of the solutions of the equations Liveness finds the      *)
(* least one.                                                              *)
(***************************************************************************)
EXTENDS Verify, GraphProofs

(***************************************************************************)
(* What the analyses leave, as long as rename and insertPhis run.  All of  *)
(* it is said of the source, which has the graph of f at every moment.     *)
(***************************************************************************)
SourceOK(g) ==
  /\ Prepared(g) /\ Fields \subseteq DOMAIN g /\ g.ntmp > 0
  /\ \A b \in Blocks(g) : g.phis[b] = <<>>

KillsBefore(g, b, n) == UNION {Defs(g.ins[b][i]) : i \in 1 .. n - 1}

Kills(g, b) == UNION {Defs(g.ins[b][i]) : i \in DOMAIN g.ins[b]}

LiveFacts(g, I) ==
  /\ I \in [Blocks(g) -> SUBSET Temps(g)]
  /\ \A p, s \in Blocks(g) : s \in Succs(g, p) => I[s] \subseteq I[p] \cup Kills(g, p)
  /\ \A b \in Blocks(g) : \A n \in DOMAIN g.ins[b] :
       Uses(g.ins[b][n]) \subseteq I[b] \cup KillsBefore(g, b, n)
  /\ \A b \in Blocks(g) : TmpsOf({g.jmp[b].arg}) \subseteq I[b] \cup Kills(g, b)

Analysed ==
  /\ SourceOK(source)
  /\ pc \in {"dom", "live", "phis", "rename", "done"}
  /\ pc \in {"dom", "live"} => f = source
  /\ pc # "dom" => DomFacts(source, idom, dom, dlink, fron)
  /\ pc \notin {"dom", "live"} => LiveFacts(source, in)

\* The functions SSA is called on are such.
LEMMA FunctionsOK ==
  ASSUME NEW g \in Functions
  PROVE  SourceOK(g)
<1>1. /\ IsFunction(g) /\ Fields \subseteq DOMAIN g /\ g.ntmp > 0 /\ g = FillPreds(g)
      /\ InOrder(g) /\ \A b \in Blocks(g) : g.phis[b] = <<>>
  BY FunctionsAssumption DEF InOrder
<1>2. g.n \in Nat \ {0}
  BY <1>1 DEF IsFunction
<1>3. FillPreds(g).pred = [c \in Blocks(g) |-> PredsOf(g, c)]
  BY <1>1 DEF FillPreds, Fields
<1>4. PredsRight(g)
  <2>1. \A c \in Blocks(g) : g.pred[c] = PredsOf(g, c)
    BY <1>1, <1>3
  <2>2. QED
    BY <1>2, <2>1, PredsMean DEF PredsRight
<1>5. QED
  BY <1>1, <1>4 DEF SourceOK, Prepared

\* When SSA is called nothing has been analysed.
LEMMA InitAnalysed ==
  ASSUME Init
  PROVE  Analysed
<1>1. f \in Functions /\ source = f /\ pc = "dom"
  BY DEF Init
<1>2. QED
  BY <1>1, FunctionsOK DEF Analysed

-----------------------------------------------------------------------------
(***************************************************************************)
(* Kept filters a list: shown along the list, as for PredsOf.              *)
(***************************************************************************)
KeptUpto(s, S) ==
  LET upto[n \in 0 .. Len(s)] ==
        IF n = 0 THEN <<>>
        ELSE IF s[n] \in S THEN Append(upto[n - 1], s[n]) ELSE upto[n - 1]
  IN  upto

\* One round of the filter.
LEMMA KeptRound ==
  ASSUME NEW V, NEW s \in Seq(V), NEW S
  PROVE  /\ Kept(s, S) = KeptUpto(s, S)[Len(s)]
         /\ KeptUpto(s, S) =
              [n \in 0 .. Len(s) |->
                 IF n = 0 THEN <<>>
                 ELSE IF s[n] \in S THEN Append(KeptUpto(s, S)[n - 1], s[n])
                      ELSE KeptUpto(s, S)[n - 1]]
<1> DEFINE Q == Seq(V)
           Put(q, i) == IF s[i] \in S THEN Append(q, s[i]) ELSE q
           F == [i \in 1 .. Len(s) |-> [q \in Q |-> Put(q, i)]]
           m == Len(s)
           v == <<>>
<1>1. Kept(s, S) = KeptUpto(s, S)[Len(s)]
  BY DEF Kept, KeptUpto
<1>2. F \in [1 .. m -> [Q -> Q]] /\ v \in Q /\ m \in Nat
  <2>1. ASSUME NEW i \in 1 .. m, NEW q \in Q
        PROVE  Put(q, i) \in Q
    <3>1. s[i] \in V
      OBVIOUS
    <3>2. QED
      BY <3>1
  <2> HIDE DEF Put
  <2>2. QED
    BY <2>1
<1>3. PICK h : Follows(h, m, Q, v, F)
  <2> HIDE DEF Q, F, m, v
  <2>1. QED
    BY <1>2, Recursion
<1>4. h = [i \in 0 .. m |-> IF i = 0 THEN <<>> ELSE Put(h[i - 1], i)]
  <2>1. ASSUME NEW i \in 1 .. m
        PROVE  h[i] = Put(h[i - 1], i)
    <3>1. h[i - 1] \in Q
      <4>1. i - 1 \in 0 .. m /\ h \in [0 .. m -> Q]
        BY <1>3 DEF Follows
      <4> HIDE DEF Q, m
      <4>2. QED
        BY <4>1
    <3> HIDE DEF Put
    <3>2. QED
      BY <1>3, <3>1 DEF Follows
  <2>2. h \in [0 .. m -> Q] /\ h[0] = <<>>
    BY <1>3 DEF Follows
  <2>3. \A i \in 0 .. m : i # 0 => i \in 1 .. m
    BY <1>2
  <2> HIDE DEF Put, F, Q, m, v
  <2>4. QED
    BY <2>1, <2>2, <2>3
<1>5. QED
  BY <1>1, <1>4 DEF KeptUpto

\* The filter keeps the members of the set, and only them.
LEMMA KeptMeans ==
  ASSUME NEW V, NEW s \in Seq(V), NEW S
  PROVE  Kept(s, S) \in Seq(V) /\ Elems(Kept(s, S)) = Elems(s) \cap S
<1> DEFINE R == KeptUpto(s, S)
           Right(i) == R[i] \in Seq(V) /\ Elems(R[i]) = {s[j] : j \in 1 .. i} \cap S
           Bad == {i \in 0 .. Len(s) : ~Right(i)}
<1>1. Kept(s, S) = R[Len(s)]
  BY KeptRound
<1>2. R = [i \in 0 .. Len(s) |->
             IF i = 0 THEN <<>>
             ELSE IF s[i] \in S THEN Append(R[i - 1], s[i]) ELSE R[i - 1]]
  BY KeptRound
<1>3. Len(s) \in 0 .. Len(s) /\ Elems(s) = {s[j] : j \in 1 .. Len(s)}
  BY DEF Elems
<1> HIDE DEF R
<1>4. ASSUME Bad # {} PROVE FALSE
  <2>1. PICK m \in Bad : \A j \in Bad : m <= j
    <3>1. Bad \subseteq Nat
      OBVIOUS
    <3> HIDE DEF Bad
    <3>2. QED
      BY <1>4, <3>1, LeastNat
  <2>2. CASE m = 0
    <3>1. R[m] = <<>>
      BY <1>2, <2>1, <2>2
    <3>2. Elems(<<>>) = {} /\ <<>> \in Seq(V) /\ 1 .. 0 = {}
      BY DEF Elems
    <3>3. QED
      BY <2>1, <2>2, <3>1, <3>2
  <2>3. CASE m # 0
    <3>1. m - 1 \in 0 .. Len(s) /\ ~(m <= m - 1) /\ m \in 1 .. Len(s) /\ s[m] \in V
      BY <2>1, <2>3
    <3>2. Right(m - 1)
      BY <2>1, <3>1
    <3>3. 1 .. m = (1 .. m - 1) \cup {m}
      BY <3>1
    <3>4. {s[j] : j \in 1 .. m} = {s[j] : j \in 1 .. m - 1} \cup {s[m]}
      BY <3>3
    <3>5. CASE s[m] \in S
      <4>1. R[m] = Append(R[m - 1], s[m])
        BY <1>2, <2>1, <2>3, <3>5
      <4>2. R[m] = R[m - 1] \o <<s[m]>> /\ <<s[m]>> \in Seq(V) /\ Elems(<<s[m]>>) = {s[m]}
        BY <3>1, <3>2, <4>1 DEF Elems
      <4> DEFINE q == <<s[m]>>
      <4>3. q \in Seq(V) /\ R[m] = R[m - 1] \o q /\ Elems(q) = {s[m]} /\ R[m - 1] \in Seq(V)
        BY <3>2, <4>2
      <4> HIDE DEF q, Bad
      <4>4. R[m] \in Seq(V) /\ Elems(R[m]) = Elems(R[m - 1]) \cup {s[m]}
        BY <4>3, ElemsConcat
      <4>5. QED
        BY <2>1, <3>2, <3>4, <3>5, <4>4 DEF Bad
    <3>6. CASE s[m] \notin S
      <4>1. R[m] = R[m - 1]
        BY <1>2, <2>1, <2>3, <3>6
      <4>2. QED
        BY <2>1, <3>2, <3>4, <3>6, <4>1
    <3>7. QED
      BY <3>5, <3>6
  <2>4. QED
    BY <2>2, <2>3
<1>5. Right(Len(s))
  BY <1>3, <1>4
<1>6. QED
  BY <1>1, <1>3, <1>5

\* The blocks of a set, in order.
LEMMA InOrderOfMeans ==
  ASSUME f.n \in Nat, NEW S \in SUBSET Blocks(f)
  PROVE  InOrderOf(S) \in Seq(Blocks(f)) /\ Elems(InOrderOf(S)) = S
<1> DEFINE s == [i \in 1 .. f.n |-> i - 1]
<1>1. s \in Seq(Blocks(f))
  BY DEF Blocks
<1>2. Elems(s) = Blocks(f)
  <2>1. \A b \in Blocks(f) : b + 1 \in 1 .. f.n /\ s[b + 1] = b
    BY DEF Blocks
  <2>2. Blocks(f) \subseteq Elems(s)
    <3>1. DOMAIN s = 1 .. f.n
      OBVIOUS
    <3> HIDE DEF s
    <3>2. QED
      BY <2>1, <3>1 DEF Elems
  <2>3. Elems(s) \subseteq Blocks(f)
    BY <1>1 DEF Elems
  <2>4. QED
    BY <2>2, <2>3
<1> HIDE DEF s
<1>3. Kept(s, S) \in Seq(Blocks(f)) /\ Elems(Kept(s, S)) = Elems(s) \cap S
  BY <1>1, KeptMeans
<1>4. QED
  BY <1>2, <1>3 DEF InOrderOf, s

(***************************************************************************)
(* FillUse: its counts are numbers and its sites are sites, because a      *)
(* function has finitely many of them.                                     *)
(***************************************************************************)
\* The places of lists, one for each block.
Places(g, s) == UNION {{b} \X DOMAIN s[b] : b \in Blocks(g)}

\* There are finitely many.
LEMMA PlacesFinite ==
  ASSUME NEW g, g.n \in Nat \ {0}, NEW s, \A b \in Blocks(g) : \E V : s[b] \in Seq(V)
  PROVE  IsFiniteSet(Places(g, s))
<1> DEFINE F == [b \in Blocks(g) |-> {b} \X DOMAIN s[b]]
<1>1. ASSUME NEW b \in Blocks(g) PROVE IsFiniteSet({b} \X DOMAIN s[b])
  BY ListFinite, FS_Singleton, FS_Product
<1>2. IsFiniteSet(Blocks(g)) /\ \A b \in Blocks(g) : IsFiniteSet(F[b])
  BY <1>1, FiniteBlocks
<1>3. Places(g, s) = UNION {F[b] : b \in Blocks(g)}
  BY DEF Places
<1> HIDE DEF F
<1>4. QED
  BY <1>2, <1>3, FiniteUnion

\* The counts and the site that FillUse gives a temporary.
LEMMA FillUseTyped ==
  ASSUME NEW g, IsFunction(g), NEW t
  PROVE  /\ NDef(g, t) \in Nat /\ NUse(g, t) \in Nat
         /\ DefSite(g, t) \in Sites(g) \cup {Nowhere}
<1>1. /\ g.n \in Nat \ {0}
      /\ \A b \in Blocks(g) : g.phis[b] \in Seq(Phi) /\ g.ins[b] \in Seq(Instruction)
  BY DEF IsFunction
<1>2. Sites(g) = Places(g, g.ins) /\ PhiSites(g) = Places(g, g.phis)
  BY DEF Sites, PhiSites, Places
<1>3. IsFiniteSet(Sites(g)) /\ IsFiniteSet(PhiSites(g))
  BY <1>1, <1>2, PlacesFinite
<1>4. \A x \in Sites(g) : x[1] \in Blocks(g) /\ x[2] \in DOMAIN g.ins[x[1]]
  BY DEF Sites
<1>5. \A x \in PhiSites(g) : x[1] \in Blocks(g) /\ x[2] \in DOMAIN g.phis[x[1]]
  BY DEF PhiSites
<1>6. NDef(g, t) \in Nat
  <2>1. IsFiniteSet(DefIns(g, t)) /\ IsFiniteSet(DefPhis(g, t))
    BY <1>3, FS_Subset DEF DefIns, DefPhis
  <2>2. QED
    BY <2>1, FS_CardinalityType DEF NDef
<1>7. NUse(g, t) \in Nat
  <2> DEFINE inPhis == UNION {{x} \X Reading(t, g.phis[x[1]][x[2]].args) : x \in PhiSites(g)}
             inCode == UNION {{x} \X Reading(t, g.ins[x[1]][x[2]].arg) : x \in Sites(g)}
             inJmps == {b \in Blocks(g) : g.jmp[b].arg = Tmp(t)}
  <2>1. IsFiniteSet(inJmps)
    BY <1>1, FiniteBlocks, FS_Subset
  <2>2. IsFiniteSet(inPhis)
    <3> DEFINE F == [x \in PhiSites(g) |-> {x} \X Reading(t, g.phis[x[1]][x[2]].args)]
    <3>1. ASSUME NEW x \in PhiSites(g)
          PROVE  IsFiniteSet({x} \X Reading(t, g.phis[x[1]][x[2]].args))
      <4>1. g.phis[x[1]][x[2]] \in Phi
        BY <1>1, <1>5
      <4>2. g.phis[x[1]][x[2]].args \in Seq(Ref)
        BY <4>1 DEF Phi
      <4>3. IsFiniteSet(Reading(t, g.phis[x[1]][x[2]].args))
        BY <4>2, ListFinite, FS_Subset DEF Reading
      <4>4. QED
        BY <4>3, FS_Singleton, FS_Product
    <3>2. \A x \in PhiSites(g) : IsFiniteSet(F[x])
      BY <3>1
    <3>3. inPhis = UNION {F[x] : x \in PhiSites(g)}
      OBVIOUS
    <3> HIDE DEF F, inPhis
    <3>4. QED
      BY <1>3, <3>2, <3>3, FiniteUnion
  <2>3. IsFiniteSet(inCode)
    <3> DEFINE F == [x \in Sites(g) |-> {x} \X Reading(t, g.ins[x[1]][x[2]].arg)]
    <3>1. ASSUME NEW x \in Sites(g)
          PROVE  IsFiniteSet({x} \X Reading(t, g.ins[x[1]][x[2]].arg))
      <4>1. g.ins[x[1]][x[2]] \in Instruction
        BY <1>1, <1>4
      <4>2. g.ins[x[1]][x[2]].arg \in Seq(Ref)
        BY <4>1 DEF Instruction
      <4>3. IsFiniteSet(Reading(t, g.ins[x[1]][x[2]].arg))
        BY <4>2, ListFinite, FS_Subset DEF Reading
      <4>4. QED
        BY <4>3, FS_Singleton, FS_Product
    <3>2. \A x \in Sites(g) : IsFiniteSet(F[x])
      BY <3>1
    <3>3. inCode = UNION {F[x] : x \in Sites(g)}
      OBVIOUS
    <3> HIDE DEF F, inCode
    <3>4. QED
      BY <1>3, <3>2, <3>3, FiniteUnion
  <2>4. NUse(g, t) = Cardinality(inPhis) + Cardinality(inCode) + Cardinality(inJmps)
    BY DEF NUse
  <2> HIDE DEF inPhis, inCode, inJmps
  <2>5. QED
    BY <2>1, <2>2, <2>3, <2>4, FS_CardinalityType
<1>8. DefSite(g, t) \in Sites(g) \cup {Nowhere}
  <2> DEFINE S == DefIns(g, t)
             Is(x) == \A y \in S : y[1] < x[1] \/ (y[1] = x[1] /\ y[2] <= x[2])
  <2>1. CASE S = {}
    BY <2>1 DEF DefSite
  <2>2. CASE S # {}
    <3>1. S \subseteq Sites(g)
      BY DEF DefIns
    <3> HIDE DEF S
    <3> DEFINE firsts == {x[1] : x \in S}
    <3>2. firsts \in SUBSET (0 .. g.n) /\ firsts # {} /\ g.n \in Nat
      BY <1>1, <1>4, <2>2, <3>1 DEF Blocks
    <3>3. PICK b \in firsts : \A c \in firsts : c <= b
      <4> HIDE DEF firsts
      <4>1. QED
        BY <3>2, MaxNat
    <3> DEFINE T == {x \in S : x[1] = b}
               seconds == {x[2] : x \in T}
    <3>4. PICK z \in S : z[1] = b
      BY <3>3
    <3>5. b \in Blocks(g) /\ Len(g.ins[b]) \in Nat /\ DOMAIN g.ins[b] = 1 .. Len(g.ins[b])
      BY <1>1, <1>4, <3>1, <3>4
    <3>6. seconds \in SUBSET (0 .. Len(g.ins[b])) /\ seconds # {}
      BY <1>4, <3>1, <3>4, <3>5
    <3>7. PICK i \in seconds : \A j \in seconds : j <= i
      <4> HIDE DEF seconds
      <4>1. QED
        BY <3>5, <3>6, MaxNat
    <3>8. PICK x \in S : x[1] = b /\ x[2] = i
      BY <3>7
    <3>9. Is(x)
      <4> SUFFICES ASSUME NEW y \in S PROVE y[1] < x[1] \/ (y[1] = x[1] /\ y[2] <= x[2])
        OBVIOUS
      <4>1. y[1] \in Nat /\ y[1] <= b /\ b \in Nat
        BY <1>4, <3>1, <3>3, <3>5 DEF Blocks
      <4>2. CASE y[1] = b
        BY <3>7, <3>8, <4>2
      <4>3. QED
        BY <3>8, <4>1, <4>2
    <3>10. DefSite(g, t) = CHOOSE e \in S : Is(e)
      BY <2>2 DEF DefSite, S
    <3> HIDE DEF Is
    <3>11. DefSite(g, t) \in S
      BY <3>9, <3>10
    <3>12. QED
      BY <3>1, <3>11
  <2>3. QED
    BY <2>1, <2>2
<1>9. QED
  BY <1>6, <1>7, <1>8

-----------------------------------------------------------------------------
(***************************************************************************)
(* insertPhis.  The graph stays that of the source all along; of a         *)
(* temporary that insertPhis is done with, every block whose frontier it   *)
(* is live on entry to has its phi there.                                  *)
(***************************************************************************)
SameGraph(g, h) ==
  /\ g.n = h.n /\ g.s1 = h.s1 /\ g.s2 = h.s2 /\ g.pred = h.pred
  /\ Fields \subseteq DOMAIN g

\* The blocks with a phi for t, given what names stand for; where t is live, or written.
PhiOf(g, N, t) == {b \in Blocks(g) : \E j \in DOMAIN g.phis[b] : N[g.phis[b][j].to.val] = t}
LiveIn(g, I, t) == {b \in Blocks(g) : t \in I[b]}
Killers(g, t) == {b \in Blocks(g) : t \in Kills(g, b)}

PhisFor(g, N, F, I, h, t) ==
  PhisClosed(h, F, LiveIn(h, I, t), PhiOf(g, N, t), Killers(h, t))

\* insertPhis has not begun, or rename has not.
NotPlacing ==
  /\ temp = 0 /\ work = <<>> /\ added = {}
  /\ defs \in [Temps(source) -> SUBSET Blocks(source)]

NotRenaming ==
  /\ stacks = [t \in Temps(source) |-> <<>>] /\ newToOld = [t \in Temps(source) |-> t]
  /\ walks = <<>> /\ at = Nil /\ next = 0 /\ entered = {}

OnlyPhis(g, h) ==
  /\ SameGraph(g, h) /\ g.ins = h.ins /\ g.jmp = h.jmp /\ g.ntmp = h.ntmp
  /\ g.phis \in [Blocks(h) -> Seq(Phi)]

PlainPhis(g, I, m) ==
  \A b \in Blocks(g) : \A j \in DOMAIN g.phis[b] :
    \E t \in 0 .. m : t \in I[b] /\ g.phis[b][j] = PlainPhi(t)

PlacingTyped ==
  /\ defs \in [Temps(source) -> SUBSET Blocks(source)] /\ temp \in Temps(source)
  /\ work \in Seq(Blocks(source)) /\ added \subseteq Blocks(source)

PInv ==
  /\ NotRenaming /\ PlacingTyped
  /\ OnlyPhis(f, source) /\ PlainPhis(f, in, temp)
  /\ \A t \in Temps(source) : defs[t] = Killers(source, t)
  /\ added = PhiOf(f, newToOld, temp)
  /\ \A t \in 0 .. temp - 1 : PhisFor(f, newToOld, fron, in, source, t)
  /\ \A b \in defs[temp] \cup added :
       b \in Elems(work) \/ \A s \in Elems(fron[b]) : temp \in in[s] => s \in added

\* The source is a function without phis, numbered by FillRPO.
LEMMA SourceFacts ==
  ASSUME Analysed
  PROVE  /\ IsFunction(source) /\ source.n \in Nat \ {0} /\ source.ntmp \in Nat \ {0}
         /\ Fields \subseteq DOMAIN source
         /\ InOrder(source) /\ PredsRight(source)
         /\ \A b \in Blocks(source) : source.phis[b] = <<>>
         /\ source.pred \in [Blocks(source) -> Seq(Blocks(source))]
         /\ source.ins \in [Blocks(source) -> Seq(Instruction)]
         /\ 0 \in Blocks(source) /\ 0 \in Temps(source)
<1>1. SourceOK(source)
  BY DEF Analysed
<1>2. /\ IsFunction(source) /\ source.ntmp > 0 /\ Fields \subseteq DOMAIN source
      /\ InOrder(source) /\ PredsRight(source)
      /\ \A b \in Blocks(source) : source.phis[b] = <<>>
  BY <1>1 DEF SourceOK, Prepared
<1>3. source.n \in Nat \ {0} /\ source.ntmp \in Nat \ {0}
  BY <1>2 DEF IsFunction
<1>4. QED
  BY <1>2, <1>3 DEF IsFunction, Blocks, Temps

\* Before insertPhis.
LEMMA InitPlacing ==
  ASSUME Init
  PROVE  NotPlacing /\ NotRenaming
BY DEF Init, NotPlacing, NotRenaming

\* The first FillUse of Liveness counts nothing but the code.
LEMMA LivenessPlacing ==
  ASSUME Analysed, Analysed', Liveness, lpc = "done", NotPlacing, NotRenaming
  PROVE  PInv'
<1>1. /\ pc = "live" /\ pc' = "phis" /\ f' = f /\ source' = source /\ f = source
      /\ UNCHANGED <<idom, dom, dlink, fron, in, out, temp, added>>
      /\ UNCHANGED renameVars
  BY DEF Liveness, Analysed, domVars, liveVars
<1>2. /\ defs' = [t \in Temps(f) |->
                    {b \in Blocks(f) : \E i \in DOMAIN f.ins[b] : t \in Defs(f.ins[b][i])}]
      /\ work' = InOrderOf(defs'[0])
  BY DEF Liveness
<1>3. /\ IsFunction(source) /\ source.n \in Nat \ {0} /\ 0 \in Temps(source)
      /\ Fields \subseteq DOMAIN source /\ \A b \in Blocks(source) : source.phis[b] = <<>>
      /\ source.phis \in [Blocks(source) -> Seq(Phi)]
  BY SourceFacts DEF IsFunction
<1>4. \A t \in Temps(source) : defs'[t] = Killers(source, t)
  BY <1>1, <1>2 DEF Killers, Kills
<1>5. defs'[0] \in SUBSET Blocks(f)
  BY <1>1, <1>2, <1>3
<1>6. work' \in Seq(Blocks(f)) /\ Elems(work') = defs'[0]
  BY <1>1, <1>2, <1>3, <1>5, InOrderOfMeans
<1>7. NotRenaming'
  BY <1>1 DEF NotRenaming, renameVars
<1>8. temp' = 0 /\ added' = {}
  BY <1>1 DEF NotPlacing
<1>9. PlacingTyped'
  BY <1>1, <1>2, <1>3, <1>6, <1>8 DEF PlacingTyped
<1>10. OnlyPhis(f', source') /\ PlainPhis(f', in', temp') /\ PhiOf(f', newToOld', temp') = {}
  BY <1>1, <1>3 DEF OnlyPhis, SameGraph, PlainPhis, PhiOf
<1>11. QED
  BY <1>1, <1>4, <1>6, <1>7, <1>8, <1>9, <1>10 DEF PInv

\* Phis added to a function are no blocks and no temporaries.
LEMMA OnlyPhisShape ==
  ASSUME NEW g, NEW h, OnlyPhis(g, h)
  PROVE  Blocks(g) = Blocks(h) /\ Temps(g) = Temps(h)
BY DEF OnlyPhis, SameGraph, Blocks, Temps

\* One turn of the worklist.
LEMMA PlacePhisMeans ==
  ASSUME PInv, Analysed, PlacePhis
  PROVE  /\ OnlyPhis(f', source)
         /\ \A b \in Blocks(source) :
              f'.phis[b] = IF b \in NewPhis(Head(work)) THEN Append(f.phis[b], PlainPhi(temp))
                           ELSE f.phis[b]
         /\ NewPhis(Head(work)) \subseteq Blocks(source)
         /\ Head(work) \in Blocks(source)
<1> DEFINE new == NewPhis(Head(work))
           ph == [b \in Blocks(f) |-> IF b \in new THEN Append(f.phis[b], PlainPhi(temp))
                                     ELSE f.phis[b]]
<1>1. OnlyPhis(f, source) /\ Blocks(f) = Blocks(source) /\ work # <<>>
      /\ work \in Seq(Blocks(source)) /\ temp \in Temps(source)
  BY OnlyPhisShape DEF PInv, PlacePhis, PlacingTyped
<1>2. Head(work) \in Blocks(source)
  BY <1>1
<1>3. pc = "phis"
  BY DEF PlacePhis
<1>4. fron \in [Blocks(source) -> Seq(Blocks(source))]
  BY <1>3 DEF Analysed, DomFacts, FrontiersOf
<1>5. new \subseteq Blocks(source)
  BY <1>2, <1>4 DEF NewPhis, Elems
<1>6. f' = [f EXCEPT !.phis = ph]
  BY DEF PlacePhis
<1>7. Fields \subseteq DOMAIN f /\ f.phis \in [Blocks(source) -> Seq(Phi)]
  BY <1>1 DEF OnlyPhis, SameGraph
<1>8. PlainPhi(temp) \in Phi
  <2>1. temp \in Nat
    BY <1>1 DEF Temps
  <2>2. Tmp(temp) \in Ref
    BY <2>1 DEF Tmp, Ref, RefKinds
  <2>3. QED
    BY <2>2 DEF PlainPhi, Phi
<1>9. ph \in [Blocks(source) -> Seq(Phi)]
  BY <1>1, <1>7, <1>8
<1> HIDE DEF ph, new
<1>10. /\ f'.phis = ph /\ f'.n = f.n /\ f'.s1 = f.s1 /\ f'.s2 = f.s2 /\ f'.pred = f.pred
       /\ f'.ins = f.ins /\ f'.jmp = f.jmp /\ f'.ntmp = f.ntmp /\ Fields \subseteq DOMAIN f'
  BY <1>6, <1>7 DEF Fields
<1>11. OnlyPhis(f', source)
  BY <1>1, <1>9, <1>10 DEF OnlyPhis, SameGraph
<1>12. \A b \in Blocks(source) :
         f'.phis[b] = IF b \in new THEN Append(f.phis[b], PlainPhi(temp)) ELSE f.phis[b]
  BY <1>1, <1>10 DEF ph
<1>13. QED
  BY <1>2, <1>5, <1>11, <1>12 DEF new

\* A turn of the worklist leaves less to do for this temporary.
LEMMA PlacePhisPlaces ==
  ASSUME PInv, Analysed, PlacePhis
  PROVE  PInv'
<1> DEFINE h == Head(work)
           new == NewPhis(h)
<1>1. /\ pc = "phis" /\ work # <<>>
      /\ UNCHANGED <<source, idom, dom, dlink, fron, in, defs, temp>> /\ UNCHANGED renameVars
      /\ added' = added \cup new /\ work' = Tail(work) \o Kept(fron[h], new \ defs[temp])
  BY DEF PlacePhis, domVars, liveVars
<1>2. /\ OnlyPhis(f', source) /\ new \subseteq Blocks(source) /\ h \in Blocks(source)
      /\ \A b \in Blocks(source) :
              f'.phis[b] = IF b \in new THEN Append(f.phis[b], PlainPhi(temp)) ELSE f.phis[b]
  BY PlacePhisMeans
<1>3. /\ OnlyPhis(f, source) /\ Blocks(f) = Blocks(source) /\ Blocks(f') = Blocks(source)
      /\ NotRenaming /\ PlacingTyped /\ PlainPhis(f, in, temp)
  BY <1>2, OnlyPhisShape DEF PInv
<1>4. /\ defs \in [Temps(source) -> SUBSET Blocks(source)] /\ temp \in Temps(source)
      /\ work \in Seq(Blocks(source)) /\ added \subseteq Blocks(source) /\ temp \in Nat
  BY <1>3 DEF PlacingTyped, Temps
<1>5. fron \in [Blocks(source) -> Seq(Blocks(source))]
  BY <1>1 DEF Analysed, DomFacts, FrontiersOf
<1>6. \A s \in new : s \in Elems(fron[h]) /\ temp \in in[s]
  BY DEF NewPhis
<1>7. \A s \in Elems(fron[h]) : temp \in in[s] => s \in added \cup new
  BY DEF NewPhis
<1> DEFINE kept == Kept(fron[h], new \ defs[temp])
<1>8. kept \in Seq(Blocks(source)) /\ Elems(kept) = new \ defs[temp]
  <2>1. fron[h] \in Seq(Blocks(source))
    BY <1>2, <1>5
  <2>2. kept \in Seq(Blocks(source)) /\ Elems(kept) = Elems(fron[h]) \cap (new \ defs[temp])
    BY <2>1, KeptMeans
  <2> HIDE DEF kept, new
  <2>3. QED
    BY <1>6, <2>2
<1> HIDE DEF new, kept, h
<1>9. /\ Tail(work) \in Seq(Blocks(source))
      /\ \A b \in Elems(work) : b = h \/ b \in Elems(Tail(work))
  <2>1. Tail(work) \in Seq(Blocks(source)) /\ Len(Tail(work)) = Len(work) - 1
    BY <1>1, <1>4
  <2>2. \A i \in 2 .. Len(work) : i - 1 \in 1 .. Len(Tail(work)) /\ Tail(work)[i - 1] = work[i]
    BY <1>1, <1>4
  <2>3. \A i \in DOMAIN work : i # 1 => i \in 2 .. Len(work)
    BY <1>4
  <2>4. \A i \in 1 .. Len(Tail(work)) : Tail(work)[i] \in Elems(Tail(work))
    BY <2>1 DEF Elems
  <2>5. ASSUME NEW i \in DOMAIN work, i # 1
        PROVE  work[i] \in Elems(Tail(work))
    BY <2>2, <2>3, <2>4, <2>5
  <2>6. work[1] = h
    BY <1>1, <1>4 DEF h
  <2>7. QED
    BY <2>1, <2>5, <2>6 DEF Elems
<1>10. work' \in Seq(Blocks(source)) /\ Elems(work') = Elems(Tail(work)) \cup (new \ defs[temp])
  <2> DEFINE rest == Tail(work)
  <2>1. work' = rest \o kept
    BY <1>1 DEF kept, new, h
  <2>2. rest \in Seq(Blocks(source)) /\ kept \in Seq(Blocks(source))
    BY <1>8, <1>9
  <2> HIDE DEF rest
  <2>3. rest \o kept \in Seq(Blocks(source)) /\ Elems(rest \o kept) = Elems(rest) \cup Elems(kept)
    BY <2>2, ElemsConcat
  <2>4. QED
    BY <1>8, <2>1, <2>3 DEF rest
<1>11. NotRenaming' /\ PlacingTyped'
  BY <1>1, <1>2, <1>3, <1>4, <1>10 DEF NotRenaming, PlacingTyped, renameVars, h, new
<1>12. PlainPhis(f', in', temp')
  <2> SUFFICES ASSUME NEW b \in Blocks(source), NEW j \in DOMAIN f'.phis[b]
               PROVE  \E t \in 0 .. temp : t \in in[b] /\ f'.phis[b][j] = PlainPhi(t)
    BY <1>1, <1>3 DEF PlainPhis
  <2>1. CASE b \notin new
    BY <1>2, <1>3, <2>1 DEF PlainPhis
  <2>2. CASE b \in new
    <3>1. f'.phis[b] = Append(f.phis[b], PlainPhi(temp)) /\ f.phis[b] \in Seq(Phi)
      BY <1>2, <1>3, <2>2 DEF OnlyPhis
    <3>2. CASE j \in DOMAIN f.phis[b]
      <4>1. f'.phis[b][j] = f.phis[b][j]
        BY <3>1, <3>2
      <4>2. QED
        BY <1>3, <3>2, <4>1 DEF PlainPhis
    <3>3. CASE j \notin DOMAIN f.phis[b]
      <4>1. f'.phis[b][j] = PlainPhi(temp)
        BY <3>1, <3>3
      <4>2. temp \in 0 .. temp
        BY <1>4
      <4>3. QED
        BY <1>6, <2>2, <4>1, <4>2
    <3>4. QED
      BY <3>2, <3>3
  <2>3. QED
    BY <2>1, <2>2
<1>13. \A t \in Temps(source) :
          PhiOf(f', newToOld, t) = PhiOf(f, newToOld, t) \cup (IF t = temp THEN new ELSE {})
  <2> SUFFICES ASSUME NEW t \in Temps(source), NEW b \in Blocks(source)
               PROVE  (\E j \in DOMAIN f'.phis[b] : newToOld[f'.phis[b][j].to.val] = t)
                        <=> \/ \E j \in DOMAIN f.phis[b] : newToOld[f.phis[b][j].to.val] = t
                            \/ t = temp /\ b \in new
    BY <1>2, <1>3 DEF PhiOf
  <2>1. CASE b \notin new
    BY <1>2, <2>1
  <2>2. CASE b \in new
    <3>1. f'.phis[b] = Append(f.phis[b], PlainPhi(temp)) /\ f.phis[b] \in Seq(Phi)
      BY <1>2, <1>3, <2>2 DEF OnlyPhis
    <3> DEFINE q == f.phis[b]
               p == PlainPhi(temp)
               n == Len(q) + 1
    <3>2. newToOld[p.to.val] = temp
      BY <1>3, <1>4 DEF NotRenaming, PlainPhi, Tmp
    <3> HIDE DEF q, p
    <3>3. /\ DOMAIN Append(q, p) = DOMAIN q \cup {n} /\ Append(q, p)[n] = p
          /\ \A j \in DOMAIN q : Append(q, p)[j] = q[j]
      BY <3>1 DEF q
    <3> HIDE DEF n
    <3>4. f'.phis[b] = Append(q, p)
      BY <3>1 DEF q, p
    <3>5. QED
      BY <2>2, <3>2, <3>3, <3>4 DEF q
  <2>3. QED
    BY <2>1, <2>2
<1>14. added' = PhiOf(f', newToOld', temp')
  BY <1>1, <1>4, <1>13 DEF PInv, renameVars, new, h
<1>15. \A t \in 0 .. temp - 1 : PhisFor(f', newToOld, fron, in, source, t)
  <2> SUFFICES ASSUME NEW t \in 0 .. temp - 1
               PROVE  PhisFor(f', newToOld, fron, in, source, t)
    OBVIOUS
  <2>1. t \in Temps(source) /\ t # temp
    BY <1>4, SourceFacts DEF Temps
  <2>2. PhiOf(f', newToOld, t) = PhiOf(f, newToOld, t)
    BY <1>13, <2>1
  <2>3. QED
    BY <2>2 DEF PInv, PhisFor
<1>16. \A b \in defs[temp] \cup (added \cup new) :
         \/ b \in Elems(work')
         \/ \A s \in Elems(fron[b]) : temp \in in[s] => s \in added \cup new
  <2> SUFFICES ASSUME NEW b \in defs[temp] \cup (added \cup new), b \notin Elems(work')
               PROVE  \A s \in Elems(fron[b]) : temp \in in[s] => s \in added \cup new
    OBVIOUS
  <2>1. CASE b = h
    BY <1>7, <2>1
  <2>2. CASE b # h
    <3>1. b \in defs[temp] \cup added /\ b \notin Elems(work)
      BY <1>9, <1>10, <2>2
    <3>2. QED
      BY <3>1 DEF PInv
  <2>3. QED
    BY <2>1, <2>2
<1>17. /\ UNCHANGED <<defs, temp, fron, in, source, newToOld>>
       /\ added' = added \cup new
  BY <1>1 DEF renameVars, new, h
<1>18. QED
  <2>1. \A t \in Temps(source') : defs'[t] = Killers(source', t)
    BY <1>17 DEF PInv
  <2>2. \A t \in 0 .. temp' - 1 : PhisFor(f', newToOld', fron', in', source', t)
    BY <1>15, <1>17
  <2>3. \A b \in defs'[temp'] \cup added' :
          \/ b \in Elems(work')
          \/ \A s \in Elems(fron'[b]) : temp' \in in'[s] => s \in added'
    BY <1>16, <1>17
  <2>4. OnlyPhis(f', source')
    BY <1>2, <1>17
  <2>5. QED
    BY <1>11, <1>12, <1>14, <2>1, <2>2, <2>3, <2>4 DEF PInv

\* The worklist is empty: temp has all its phis.
LEMMA PhisPlaced ==
  ASSUME PInv, Analysed, pc = "phis", work = <<>>
  PROVE  \A t \in 0 .. temp : PhisFor(f, newToOld, fron, in, source, t)
<1>1. temp \in Nat /\ temp \in Temps(source)
  BY DEF PInv, PlacingTyped, Temps
<1>2. \A b \in defs[temp] \cup added : \A s \in Elems(fron[b]) : temp \in in[s] => s \in added
  BY DEF PInv, Elems
<1>3. defs[temp] = Killers(source, temp) /\ added = PhiOf(f, newToOld, temp)
  BY <1>1 DEF PInv
<1>4. PhisFor(f, newToOld, fron, in, source, temp)
  BY <1>2, <1>3 DEF PhisFor, PhisClosed, LiveIn
<1>5. \A t \in 0 .. temp : t = temp \/ t \in 0 .. temp - 1
  BY <1>1
<1>6. QED
  BY <1>4, <1>5 DEF PInv

\* The next temporary has no phis yet.
LEMMA NextTempPlaces ==
  ASSUME PInv, Analysed, NextTemp, temp + 1 < f.ntmp
  PROVE  PInv' /\ pc' = pc
<1>1. /\ pc = "phis" /\ work = <<>> /\ temp' = temp + 1 /\ added' = {}
      /\ work' = InOrderOf(defs[temp']) /\ pc' = pc
      /\ UNCHANGED <<f, source, idom, dom, dlink, fron, in, defs, stacks, newToOld, walks, at,
                     next, entered>>
  BY DEF NextTemp, domVars, liveVars
<1>2. /\ OnlyPhis(f, source) /\ Blocks(f) = Blocks(source)
      /\ NotRenaming /\ PlacingTyped /\ PlainPhis(f, in, temp)
  BY OnlyPhisShape DEF PInv
<1>3. /\ defs \in [Temps(source) -> SUBSET Blocks(source)] /\ temp \in Nat
      /\ temp + 1 \in Temps(source) /\ f.n \in Nat
  <2>1. source.n \in Nat /\ source.ntmp \in Nat /\ f.ntmp = source.ntmp /\ f.n = source.n
    BY <1>2, SourceFacts DEF OnlyPhis, SameGraph
  <2>2. QED
    BY <1>2, <2>1 DEF PlacingTyped, Temps
<1>4. work' \in Seq(Blocks(source)) /\ Elems(work') = defs[temp + 1]
  <2>1. defs[temp'] \in SUBSET Blocks(f)
    BY <1>1, <1>2, <1>3
  <2>2. QED
    BY <1>1, <1>2, <1>3, <2>1, InOrderOfMeans
<1>5. NotRenaming' /\ PlacingTyped' /\ OnlyPhis(f', source')
  BY <1>1, <1>2, <1>3, <1>4 DEF NotRenaming, PlacingTyped
<1>6. PlainPhis(f', in', temp')
  <2>1. \A t \in 0 .. temp : t \in 0 .. temp + 1
    BY <1>3
  <2>2. QED
    BY <1>1, <1>2, <2>1 DEF PlainPhis
<1>7. PhiOf(f, newToOld, temp + 1) = {}
  <2> SUFFICES ASSUME NEW b \in Blocks(f), NEW j \in DOMAIN f.phis[b],
                      newToOld[f.phis[b][j].to.val] = temp + 1
               PROVE  FALSE
    BY DEF PhiOf
  <2>1. PICK t \in 0 .. temp : f.phis[b][j] = PlainPhi(t)
    BY <1>2 DEF PlainPhis
  <2>2. f.phis[b][j].to.val = t /\ t \in Temps(source) /\ t # temp + 1
    <3>1. t \in Temps(source) /\ t # temp + 1
      BY <1>3, SourceFacts DEF Temps
    <3>2. QED
      BY <2>1, <3>1 DEF PlainPhi, Tmp
  <2>3. newToOld[t] = t
    BY <1>2, <2>2 DEF NotRenaming
  <2>4. QED
    BY <2>2, <2>3
<1>8. \A t \in 0 .. temp' - 1 : PhisFor(f, newToOld, fron, in, source, t)
  <2>1. temp' - 1 = temp
    BY <1>1, <1>3
  <2>2. QED
    BY <1>1, <2>1, PhisPlaced
<1>9. \A t \in Temps(source) : defs[t] = Killers(source, t)
  BY DEF PInv
<1>10. QED
  <2>1. added' = PhiOf(f', newToOld', temp')
    BY <1>1, <1>7
  <2>2. \A b \in defs'[temp'] \cup added' : b \in Elems(work')
    BY <1>1, <1>4
  <2>3. \A t \in 0 .. temp' - 1 : PhisFor(f', newToOld', fron', in', source', t)
    BY <1>1, <1>8
  <2>4. QED
    BY <1>1, <1>5, <1>6, <1>9, <2>1, <2>2, <2>3 DEF PInv

-----------------------------------------------------------------------------
(***************************************************************************)
(* The walk.  The calls in progress are a path of the dominator tree from  *)
(* Start; of the children of a block on it, walk has been called on those  *)
(* with greater numbers, the later siblings first.                         *)
(***************************************************************************)
Child(g, I, b, c) == c \in Blocks(g) \ {0} /\ I[c] = b

Upwards(g, I, E, b, m) == \A c \in Blocks(g) : Child(g, I, b, c) => (c \in E <=> c >= m)
AllWalked(g, I, E, b)  == \A c \in Blocks(g) : Child(g, I, b, c) => c \in E
NoneWalked(g, I, E, b) == \A c \in Blocks(g) : Child(g, I, b, c) => c \notin E

WalkTyped ==
  /\ walks \in Seq([blk : Blocks(source), heights : [Temps(source) -> Nat]])
  /\ at \in Blocks(source) \cup {Nil} /\ next \in Nat /\ entered \subseteq Blocks(source)

Path ==
  /\ walks # <<>> => walks[1].blk = 0
  /\ \A i \in DOMAIN walks :
       /\ walks[i].blk \in entered
       /\ i > 1 => Child(source, idom, walks[i - 1].blk, walks[i].blk)
       /\ i < Len(walks) => Upwards(source, idom, entered, walks[i].blk, walks[i + 1].blk)
       /\ \A d \in Blocks(source) :
            Dominates(source, d, walks[i].blk) <=> \E j \in 1 .. i : walks[j].blk = d
  /\ \A i, j \in DOMAIN walks : i < j => walks[i].blk < walks[j].blk

Walked ==
  /\ \A b \in entered \ {0} : idom[b] \in entered
  /\ \A b \in entered : (\E i \in DOMAIN walks : walks[i].blk = b) \/ AllWalked(source, idom, entered, b)

Turn ==
  /\ next > 0 => at = Nil /\ walks # <<>> /\ NoneWalked(source, idom, entered, Cur)
  /\ at # Nil => /\ next = 0 /\ at \notin entered
                 /\ IF walks = <<>> THEN at = 0 /\ entered = {}
                    ELSE Child(source, idom, Cur, at) /\ Upwards(source, idom, entered, Cur, at + 1)
  /\ at = Nil /\ next = 0 => IF walks = <<>> THEN 0 \in entered ELSE AllWalked(source, idom, entered, Cur)

WInv == WalkTyped /\ Path /\ Walked /\ Turn

\* The dominator tree, while rename and insertPhis run.
LEMMA TreeFacts ==
  ASSUME Analysed, pc # "dom"
  PROVE  /\ OrderOf(source) /\ TreeOf(source, idom) /\ ListsOf(source, idom, dom, dlink)
         /\ FrontiersOf(source, fron)
         /\ \A b, c \in Blocks(source) : Child(source, idom, b, c) => b < c
BY DEF Analysed, DomFacts, TreeOf, Child

\* The calls of walk are on blocks.
LEMMA WalksTyped ==
  ASSUME WalkTyped
  PROVE  \A i \in DOMAIN walks : walks[i].blk \in Blocks(source) /\ walks[i].heights \in [Temps(source) -> Nat]
<1> DEFINE B == Blocks(source)
           H == [Temps(source) -> Nat]
<1>1. walks \in Seq([blk : B, heights : H])
  BY DEF WalkTyped
<1> HIDE DEF B, H
<1>2. \A i \in DOMAIN walks : walks[i].blk \in B /\ walks[i].heights \in H
  <2> DEFINE W == [blk : B, heights : H]
  <2>1. \A i \in DOMAIN walks : walks[i] \in W
    <3>1. walks \in Seq(W)
      BY <1>1
    <3> HIDE DEF W
    <3>2. QED
      BY <3>1
  <2>2. \A e \in [blk : B, heights : H] : e.blk \in B /\ e.heights \in H
    OBVIOUS
  <2>3. QED
    BY <2>1, <2>2
<1>3. QED
  BY <1>2 DEF B, H

\* The innermost call is the last one.
LEMMA CurMeans ==
  ASSUME WalkTyped, walks # <<>>
  PROVE  /\ Cur = walks[Len(walks)].blk /\ Cur \in Blocks(source)
         /\ Stack!Last(walks) = walks[Len(walks)] /\ Len(walks) \in DOMAIN walks
         /\ Len(walks) \in Nat \ {0} /\ DOMAIN walks = 1 .. Len(walks)
<1>1. /\ walks \in Seq([blk : Blocks(source), heights : [Temps(source) -> Nat]])
  BY DEF WalkTyped
<1>2. Len(walks) \in DOMAIN walks /\ Len(walks) \in Nat \ {0} /\ DOMAIN walks = 1 .. Len(walks)
  BY <1>1
<1>3. walks[Len(walks)].blk \in Blocks(source)
  BY <1>2, WalksTyped
<1>4. Stack!Last(walks) = walks[Len(walks)]
  BY DEF Stack!Last
<1>5. QED
  BY <1>2, <1>3, <1>4 DEF Cur

\* The first call is on Start.
LEMMA StartWalked ==
  ASSUME Analysed, NotRenaming, NextTemp, pc' = "rename"
  PROVE  WInv'
<1>1. /\ at' = 0 /\ walks' = <<>> /\ next' = 0 /\ entered' = {} /\ source' = source
      /\ 0 \in Blocks(source)
  BY SourceFacts DEF NextTemp, NotRenaming
<1>2. at' # Nil
  BY <1>1 DEF Nil
<1>3. QED
  BY <1>1, <1>2 DEF WInv, WalkTyped, Path, Walked, Turn

\* A call of walk: the path goes one block further down.
LEMMA EnterWalks ==
  ASSUME Analysed, WInv, Enter, stacks \in [Temps(source) -> Seq(Ref)]
  PROVE  WInv'
<1> DEFINE e == [blk |-> at, heights |-> [t \in DOMAIN stacks |-> Len(stacks[t])]]
           n == Len(walks)
<1>1. /\ pc = "rename" /\ at # Nil /\ walks' = Append(walks, e)
      /\ at' = Nil /\ next' = 1 /\ entered' = entered \cup {at}
      /\ UNCHANGED <<source, idom, dom, dlink>>
  BY DEF Enter, domVars
<1>2. /\ walks \in Seq([blk : Blocks(source), heights : [Temps(source) -> Nat]])
      /\ at \in Blocks(source) /\ entered \subseteq Blocks(source)
      /\ at \notin entered
      /\ IF walks = <<>> THEN at = 0 /\ entered = {} ELSE Child(source, idom, Cur, at) /\ Upwards(source, idom, entered, Cur, at + 1)
  BY <1>1 DEF WInv, WalkTyped, Turn
<1>3. e \in [blk : Blocks(source), heights : [Temps(source) -> Nat]] /\ e.blk = at
  BY <1>2
<1> HIDE DEF e
<1>4. /\ walks' \in Seq([blk : Blocks(source), heights : [Temps(source) -> Nat]])
      /\ Len(walks') = n + 1 /\ n \in Nat /\ DOMAIN walks = 1 .. n /\ DOMAIN walks' = 1 .. n + 1
      /\ walks'[n + 1] = e /\ \A i \in 1 .. n : walks'[i] = walks[i]
  BY <1>1, <1>2, <1>3
<1>5. WalkTyped'
  BY <1>1, <1>2, <1>4 DEF WalkTyped, Nil
<1>6. Cur' = at
  BY <1>3, <1>4, <1>5 DEF Cur, Stack!Last
<1>7. n # 0 => /\ walks # <<>> /\ Cur = walks[n].blk
               /\ Child(source, idom, walks[n].blk, at) /\ Upwards(source, idom, entered, walks[n].blk, at + 1)
  <2>1. n # 0 => walks # <<>>
    OBVIOUS
  <2>2. QED
    BY <1>2, <2>1, CurMeans DEF WInv
<1>8. n = 0 => walks = <<>> /\ at = 0 /\ entered = {}
  BY <1>2
<1>9. \A i \in 1 .. n : walks[i].blk \in Blocks(source)
  BY <1>2, <1>4, WalksTyped DEF WInv
<1>10. /\ OrderOf(source) /\ TreeOf(source, idom) /\ Blocks(source) \in SUBSET Nat
  BY <1>1, TreeFacts DEF Blocks
<1>11. n # 0 => walks[n].blk < at
  BY <1>1, <1>4, <1>7, <1>9, TreeFacts, <1>2
<1>12. Path'
  <2>1. walks'[1].blk = 0
    <3>1. n = 0 \/ n >= 1
      BY <1>4
    <3>2. QED
      BY <1>3, <1>4, <1>8, <3>1 DEF WInv, Path
  <2>2. ASSUME NEW i \in 1 .. n + 1
        PROVE  /\ walks'[i].blk \in entered'
               /\ i > 1 => Child(source, idom, walks'[i - 1].blk, walks'[i].blk)
    <3>1. CASE i <= n
      <4>1. i \in DOMAIN walks /\ walks'[i] = walks[i] /\ (i > 1 => walks'[i - 1] = walks[i - 1])
        BY <1>4, <3>1
      <4>2. QED
        BY <1>1, <4>1 DEF WInv, Path, Child
    <3>2. CASE i = n + 1
      <4>1. walks'[i].blk = at
        BY <1>3, <1>4, <3>2
      <4>2. i > 1 => n # 0 /\ walks'[i - 1] = walks[n]
        BY <1>4, <3>2
      <4>3. QED
        BY <1>1, <1>7, <4>1, <4>2 DEF Child
    <3>3. QED
      BY <1>4, <3>1, <3>2
  <2>3. ASSUME NEW i \in 1 .. n
        PROVE  Upwards(source, idom, entered', walks'[i].blk, walks'[i + 1].blk)
    <3>1. i \in DOMAIN walks /\ walks'[i] = walks[i]
      BY <1>4
    <3>2. CASE i < n
      <4>1. walks'[i + 1] = walks[i + 1] /\ Upwards(source, idom, entered, walks[i].blk, walks[i + 1].blk)
        BY <1>4, <3>1, <3>2 DEF WInv, Path
      <4>2. at < walks[i + 1].blk => ~Child(source, idom, walks[i].blk, at)
        <5>1. n # 0 /\ walks[i + 1].blk \in Blocks(source) /\ i + 1 \in DOMAIN walks
          BY <1>4, <1>9, <3>2
        <5>2. walks[i + 1].blk <= walks[n].blk
          <6>1. i + 1 = n \/ (i + 1 < n /\ n \in DOMAIN walks)
            <7>1. n \in Nat /\ i \in Nat /\ i < n
              BY <1>4, <3>2
            <7>2. n \in 1 .. n /\ (i + 1 = n \/ i + 1 < n)
              BY <7>1
            <7>3. QED
              BY <1>4, <7>2
          <6>2. i + 1 < n => walks[i + 1].blk < walks[n].blk
            BY <5>1, <6>1 DEF WInv, Path
          <6>3. walks[i + 1].blk \in Nat
            BY <1>10, <5>1
          <6>4. QED
            <7>1. CASE i + 1 = n
              BY <6>3, <7>1
            <7>2. CASE i + 1 < n /\ n \in DOMAIN walks
              <8>1. walks[i + 1].blk < walks[n].blk
                BY <6>2, <7>2
              <8>2. walks[n].blk \in Nat
                BY <1>4, <1>9, <1>10, <7>2
              <8>3. QED
                BY <6>3, <8>1, <8>2
            <7>3. QED
              BY <6>1, <7>1, <7>2
        <5>3. walks[n].blk < at /\ walks[n].blk \in Blocks(source)
          BY <1>4, <1>9, <1>11, <5>1
        <5>4. QED
          BY <1>2, <1>10, <5>1, <5>2, <5>3
      <4>3. ASSUME NEW c \in Blocks(source), Child(source, idom, walks[i].blk, c)
            PROVE  c \in entered' <=> c >= walks[i + 1].blk
        <5>1. c \in entered <=> c >= walks[i + 1].blk
          BY <4>1, <4>3 DEF Upwards
        <5>2. c = at => c >= walks[i + 1].blk
          <6>1. walks[i + 1].blk \in Blocks(source)
            BY <1>4, <1>9, <3>2
          <6>2. QED
            BY <1>10, <4>2, <4>3, <6>1
        <5>3. QED
          BY <1>1, <5>1, <5>2
      <4>4. QED
        BY <1>1, <3>1, <4>1, <4>3 DEF Upwards
    <3>3. CASE i = n
      <4>1. walks'[i + 1].blk = at /\ Upwards(source, idom, entered, walks[i].blk, at + 1)
        BY <1>3, <1>4, <1>7, <3>3
      <4>2. \A c \in Blocks(source) : (c \in entered <=> c >= at + 1) => (c \in entered' <=> c >= at)
        BY <1>1, <1>2, <1>10
      <4>3. QED
        BY <1>1, <3>1, <4>1, <4>2 DEF Upwards
    <3>4. i < n \/ i = n
      <4>1. n \in Nat
        BY <1>4
      <4> HIDE DEF n
      <4>2. QED
        BY <4>1
    <3>5. QED
      BY <3>2, <3>3, <3>4
  <2>4. ASSUME NEW i \in 1 .. n + 1, NEW d \in Blocks(source)
        PROVE  Dominates(source, d, walks'[i].blk) <=> \E j \in 1 .. i : walks'[j].blk = d
    <3>1. CASE i <= n
      <4>1. i \in DOMAIN walks /\ walks'[i] = walks[i] /\ \A j \in 1 .. i : walks'[j] = walks[j]
        BY <1>4, <3>1
      <4>2. QED
        BY <4>1 DEF WInv, Path
    <3>2. CASE i = n + 1
      <4>1. walks'[i].blk = at
        BY <1>3, <1>4, <3>2
      <4>2. CASE n = 0
        <5>1. at = 0 /\ Dominates(source, 0, 0)
          BY <1>8, <4>2 DEF Dominates
        <5>2. Dominates(source, d, 0) => d = 0
          BY <1>10, <5>1, SourceFacts DEF OrderOf
        <5>3. 1 .. i = {1} /\ walks'[1].blk = 0
          BY <2>1, <3>2, <4>2
        <5>4. QED
          BY <4>1, <5>1, <5>2, <5>3
      <4>3. CASE n # 0
        <5> DEFINE u == walks[n].blk
        <5>1. n \in DOMAIN walks /\ u \in Blocks(source) /\ idom[at] = u /\ at \in Blocks(source) \ {0}
          BY <1>4, <1>7, <1>9, <4>3 DEF Child
        <5>2. Dominates(source, d, u) <=> \E j \in 1 .. n : walks[j].blk = d
          BY <5>1 DEF WInv, Path
        <5> HIDE DEF u
        <5>3. Dominates(source, d, at) <=> d = at \/ Dominates(source, d, u)
          <6>1. Dominates(source, u, at) /\ Dominates(source, at, at)
            BY <1>10, <5>1 DEF TreeOf, Dominates
          <6>2. Dominates(source, d, u) => Dominates(source, d, at)
            BY <1>10, <5>1, <6>1 DEF OrderOf
          <6>3. SDom(source, d, at) => Dominates(source, d, u)
            BY <1>10, <5>1 DEF TreeOf
          <6>4. QED
            BY <6>1, <6>2, <6>3 DEF SDom
        <5>4. (\E j \in 1 .. n + 1 : walks'[j].blk = d) <=> d = at \/ \E j \in 1 .. n : walks[j].blk = d
          <6>1. \A j \in 1 .. n + 1 : j = n + 1 \/ j \in 1 .. n
            BY <1>4
          <6>2. n + 1 \in 1 .. n + 1 /\ \A j \in 1 .. n : j \in 1 .. n + 1
            BY <1>4
          <6>3. QED
            BY <1>3, <1>4, <6>1, <6>2
        <5>5. QED
          BY <3>2, <4>1, <5>2, <5>3, <5>4
      <4>4. QED
        BY <4>2, <4>3
    <3>3. QED
      BY <1>4, <3>1, <3>2
  <2>5. ASSUME NEW i \in 1 .. n + 1, NEW j \in 1 .. n + 1, i < j
        PROVE  walks'[i].blk < walks'[j].blk
    <3>1. i \in DOMAIN walks /\ walks'[i] = walks[i]
      BY <1>4, <2>5
    <3>2. CASE j <= n
      <4>1. j \in DOMAIN walks /\ walks'[j] = walks[j]
        BY <1>4, <3>2
      <4>2. QED
        BY <2>5, <3>1, <4>1 DEF WInv, Path
    <3>3. CASE j = n + 1
      <4>1. walks'[j].blk = at /\ n # 0 /\ n \in DOMAIN walks
        BY <1>3, <1>4, <2>5, <3>3
      <4>2. walks[n].blk < at /\ walks[n].blk \in Nat /\ at \in Nat /\ walks[i].blk \in Nat
        BY <1>2, <1>4, <1>9, <1>10, <1>11, <3>1, <4>1
      <4>3. i = n \/ i < n
        BY <1>4, <3>1
      <4>4. i < n => walks[i].blk < walks[n].blk
        BY <3>1, <4>1 DEF WInv, Path
      <4>5. QED
        BY <3>1, <4>1, <4>2, <4>3, <4>4
    <3>4. QED
      BY <1>4, <3>2, <3>3
  <2>6. Len(walks') = n + 1 /\ DOMAIN walks' = 1 .. n + 1 /\ source' = source
    BY <1>1, <1>4
  <2>7. \A i \in 1 .. n + 1 : i < n + 1 => i \in 1 .. n
    BY <1>4
  <2>8. \A i \in 1 .. n + 1 : i < n + 1 =>
          Upwards(source, idom, entered', walks'[i].blk, walks'[i + 1].blk)
    BY <2>3, <2>7
  <2>9. UNCHANGED <<source, idom>>
    BY <1>1
  <2>10. QED
    BY <2>1, <2>2, <2>4, <2>5, <2>6, <2>8, <2>9 DEF Path
<1>13. Walked'
  <2>1. ASSUME NEW b \in entered' \ {0} PROVE idom[b] \in entered'
    <3>1. CASE b \in entered
      BY <1>1, <2>1, <3>1 DEF WInv, Walked
    <3>2. CASE b = at
      <4>1. n # 0 /\ n \in DOMAIN walks /\ idom[at] = walks[n].blk
        BY <1>4, <1>7, <1>8, <2>1, <3>2 DEF Child
      <4>2. QED
        BY <1>1, <3>2, <4>1 DEF WInv, Path
    <3>3. QED
      BY <1>1, <3>1, <3>2
  <2>2. ASSUME NEW b \in entered'
        PROVE  (\E i \in DOMAIN walks' : walks'[i].blk = b) \/ AllWalked(source, idom, entered', b)
    <3>1. CASE b = at
      <4>1. n + 1 \in DOMAIN walks' /\ walks'[n + 1].blk = at
        BY <1>3, <1>4
      <4>2. QED
        BY <3>1, <4>1
    <3>2. CASE b \in entered
      <4>1. CASE \E i \in DOMAIN walks : walks[i].blk = b
        <5>1. PICK i \in DOMAIN walks : walks[i].blk = b
          BY <4>1
        <5>2. i \in DOMAIN walks' /\ walks'[i] = walks[i]
          BY <1>4, <5>1
        <5>3. QED
          BY <5>1, <5>2
      <4>2. CASE AllWalked(source, idom, entered, b)
        BY <1>1, <4>2 DEF AllWalked, Child
      <4>3. QED
        BY <3>2, <4>1, <4>2 DEF WInv, Walked
    <3>3. QED
      BY <1>1, <3>1, <3>2
  <2>3. QED
    BY <1>1, <2>1, <2>2 DEF Walked
<1>14. Turn'
  <2>1. NoneWalked(source, idom, entered', at)
    <3> SUFFICES ASSUME NEW c \in Blocks(source), Child(source, idom, at, c), c \in entered'
                 PROVE  FALSE
      BY <1>1 DEF NoneWalked, Child
    <3>1. c # 0 /\ idom[c] = at /\ at < c
      BY <1>1, <1>2, TreeFacts DEF Child
    <3>2. c \in entered
      BY <1>1, <1>2, <1>10, <3>1
    <3>3. QED
      BY <1>2, <3>1, <3>2 DEF WInv, Walked
  <2>2. walks' # <<>>
    BY <1>4
  <2>3. QED
    BY <1>1, <1>6, <2>1, <2>2 DEF Turn
<1>15. QED
  BY <1>5, <1>12, <1>13, <1>14 DEF WInv

\* Within a block the path stays.
LEMMA AdvanceWalks ==
  ASSUME WInv, next > 0, next' = next + 1, UNCHANGED <<source, idom, walks, at, entered>>
  PROVE  WInv'
<1>1. WalkTyped' /\ next' > 0
  BY DEF WInv, WalkTyped
<1>2. Cur' = Cur
  BY DEF Cur
<1>3. Path' /\ Walked'
  BY DEF WInv, Path, Walked
<1>4. Turn'
  BY <1>1, <1>2 DEF WInv, Turn
<1>5. QED
  BY <1>1, <1>3, <1>4 DEF WInv

\* The last child of a block is the first to be walked.
LEMMA EndBlockWalks ==
  ASSUME Analysed, WInv, EndBlock
  PROVE  WInv'
<1>1. /\ pc = "rename" /\ next > 0 /\ next' = 0 /\ at' = dom[Cur]
      /\ UNCHANGED <<source, idom, walks, entered>>
  BY DEF EndBlock, domVars
<1>2. at = Nil /\ walks # <<>> /\ NoneWalked(source, idom, entered, Cur) /\ WalkTyped
  BY <1>1 DEF WInv, Turn
<1>3. Cur \in Blocks(source) /\ Cur' = Cur
  BY <1>1, <1>2, CurMeans DEF Cur
<1>4. LastBelow(idom, Cur, source.n, dom[Cur]) /\ source.n \in Nat \ {0}
      /\ idom[0] = Nil /\ Cur # Nil
  BY <1>1, <1>3, TreeFacts, SourceFacts DEF ListsOf, TreeOf, Blocks, Nil
<1>5. WalkTyped'
  BY <1>1, <1>2, <1>4 DEF WalkTyped, LastBelow, Blocks
<1>6. Path' /\ Walked'
  BY <1>1 DEF WInv, Path, Walked
<1>7. CASE at' = Nil
  <2>1. \A c \in Blocks(source) : idom[c] # Cur
    BY <1>1, <1>4, <1>7 DEF LastBelow, Blocks, Nil
  <2>2. AllWalked(source, idom, entered, Cur)
    BY <2>1 DEF AllWalked, Child
  <2>3. Turn'
    BY <1>1, <1>2, <1>3, <1>7, <2>2 DEF Turn
  <2>4. QED
    BY <1>5, <1>6, <2>3 DEF WInv
<1>8. CASE at' # Nil
  <2>1. /\ at' \in Blocks(source) /\ idom[at'] = Cur
        /\ \A c \in Blocks(source) : c > at' => idom[c] # Cur
    BY <1>1, <1>4, <1>8 DEF LastBelow, Blocks
  <2>2. Child(source, idom, Cur, at')
    BY <1>4, <2>1 DEF Child
  <2>3. at' \notin entered
    BY <1>2, <2>1, <2>2 DEF NoneWalked
  <2>4. Upwards(source, idom, entered, Cur, at' + 1)
    <3> SUFFICES ASSUME NEW c \in Blocks(source), Child(source, idom, Cur, c)
                 PROVE  c \in entered <=> c >= at' + 1
      BY DEF Upwards
    <3>1. c \notin entered /\ idom[c] = Cur
      BY <1>2 DEF NoneWalked, Child
    <3>2. ~(c > at')
      BY <2>1, <3>1
    <3>3. c \in Nat /\ at' \in Nat
      BY <1>4, <2>1 DEF Blocks
    <3>4. ASSUME NEW v \in Nat, ~(c > v) PROVE ~(c >= v + 1)
      BY <3>3, <3>4
    <3>5. QED
      BY <3>1, <3>2, <3>3, <3>4
  <2>5. Turn'
    BY <1>1, <1>2, <1>3, <1>8, <2>2, <2>3, <2>4 DEF Turn
  <2>6. QED
    BY <1>5, <1>6, <2>5 DEF WInv
<1>9. QED
  BY <1>7, <1>8

\* The calls without the innermost.
LEMMA FrontMeans ==
  ASSUME WalkTyped, walks # <<>>, walks' = Stack!Front(walks)
  PROVE  /\ walks' \in Seq([blk : Blocks(source), heights : [Temps(source) -> Nat]])
         /\ Len(walks') = Len(walks) - 1 /\ DOMAIN walks' = 1 .. Len(walks) - 1
         /\ \A i \in 1 .. Len(walks) - 1 : walks'[i] = walks[i]
<1> DEFINE W == [blk : Blocks(source), heights : [Temps(source) -> Nat]]
<1>1. walks \in Seq(W)
  BY DEF WalkTyped
<1> HIDE DEF W
<1>2. walks' = SubSeq(walks, 1, Len(walks) - 1) /\ Len(walks) \in Nat \ {0}
  BY <1>1 DEF Stack!Front
<1> DEFINE n == Len(walks) - 1
<1>3. n \in Nat /\ n <= Len(walks)
  BY <1>2
<1>4. walks' = SubSeq(walks, 1, n)
  BY <1>2
<1> HIDE DEF n
<1>5. /\ walks' \in Seq(W) /\ Len(walks') = n /\ DOMAIN walks' = 1 .. n
      /\ \A i \in 1 .. n : walks'[i] = walks[i]
  BY <1>1, <1>3, <1>4
<1>6. QED
  BY <1>5 DEF W, n

\* A call returns: its block's next sibling is next, if there is one.
LEMMA ReturnWalks ==
  ASSUME Analysed, WInv, Return
  PROVE  WInv'
<1> DEFINE n == Len(walks)
<1>1. /\ pc = "rename" /\ at = Nil /\ next = 0 /\ walks # <<>> /\ walks' = Stack!Front(walks)
      /\ at' = (IF Len(walks) = 1 THEN Nil ELSE dlink[Cur])
      /\ UNCHANGED <<source, idom, next, entered>>
  BY DEF Return, domVars
<1>2. WalkTyped /\ AllWalked(source, idom, entered, Cur)
  BY <1>1 DEF WInv, Turn
<1>3. Cur = walks[n].blk /\ Cur \in Blocks(source) /\ n \in Nat \ {0} /\ DOMAIN walks = 1 .. n
  BY <1>1, <1>2, CurMeans
<1>4. /\ walks' \in Seq([blk : Blocks(source), heights : [Temps(source) -> Nat]])
      /\ Len(walks') = n - 1 /\ DOMAIN walks' = 1 .. n - 1
      /\ \A i \in 1 .. n - 1 : walks'[i] = walks[i]
  BY <1>1, <1>2, FrontMeans
<1> HIDE DEF n
<1>5. Path'
  <2>1. walks' # <<>> => walks'[1].blk = 0
    <3>1. walks' # <<>> => 1 \in 1 .. n - 1
      BY <1>3, <1>4
    <3>2. QED
      BY <1>1, <1>4, <3>1 DEF WInv, Path
  <2>2. ASSUME NEW i \in 1 .. n - 1
        PROVE  /\ walks'[i] = walks[i] /\ i \in DOMAIN walks /\ i < Len(walks)
               /\ i > 1 => i - 1 \in 1 .. n - 1 /\ walks'[i - 1] = walks[i - 1]
               /\ i < n - 1 => i + 1 \in 1 .. n - 1 /\ walks'[i + 1] = walks[i + 1]
               /\ \A j \in 1 .. i : walks'[j] = walks[j]
    <3>1. /\ i \in 1 .. n /\ i < n /\ (i > 1 => i - 1 \in 1 .. n - 1)
          /\ (i < n - 1 => i + 1 \in 1 .. n - 1) /\ \A j \in 1 .. i : j \in 1 .. n - 1
      BY <1>3
    <3>2. QED
      BY <1>3, <1>4, <3>1 DEF n
  <2>3. ASSUME NEW i \in DOMAIN walks'
        PROVE  /\ walks'[i].blk \in entered'
               /\ i > 1 => Child(source', idom', walks'[i - 1].blk, walks'[i].blk)
               /\ i < Len(walks') => Upwards(source', idom', entered', walks'[i].blk, walks'[i + 1].blk)
    <3>1. i \in 1 .. n - 1
      BY <1>4
    <3>2. QED
      BY <1>1, <1>4, <2>2, <3>1 DEF WInv, Path
  <2>4. ASSUME NEW i \in DOMAIN walks', NEW d \in Blocks(source)
        PROVE  Dominates(source', d, walks'[i].blk) <=> \E j \in 1 .. i : walks'[j].blk = d
    <3>1. i \in 1 .. n - 1
      BY <1>4
    <3>2. walks'[i] = walks[i] /\ i \in DOMAIN walks /\ \A j \in 1 .. i : walks'[j] = walks[j]
      BY <2>2, <3>1
    <3>3. Dominates(source, d, walks[i].blk) <=> \E j \in 1 .. i : walks[j].blk = d
      BY <3>2 DEF WInv, Path
    <3>4. QED
      BY <1>1, <3>2, <3>3
  <2>5. ASSUME NEW i \in DOMAIN walks', NEW j \in DOMAIN walks', i < j
        PROVE  walks'[i].blk < walks'[j].blk
    <3>1. i \in 1 .. n - 1 /\ j \in 1 .. n - 1
      BY <1>4
    <3>2. QED
      BY <2>2, <2>5, <3>1 DEF WInv, Path
  <2>6. QED
    BY <1>1, <2>1, <2>3, <2>4, <2>5 DEF Path
<1>6. Walked'
  <2>1. \A b \in entered' \ {0} : idom'[b] \in entered'
    BY <1>1 DEF WInv, Walked
  <2>2. ASSUME NEW b \in entered
        PROVE  (\E i \in DOMAIN walks' : walks'[i].blk = b) \/ AllWalked(source, idom, entered, b)
    <3>1. CASE \E i \in DOMAIN walks : walks[i].blk = b
      <4>1. PICK i \in DOMAIN walks : walks[i].blk = b
        BY <3>1
      <4>2. CASE i = n
        BY <1>2, <1>3, <4>1, <4>2
      <4>3. CASE i # n
        <5>1. i \in DOMAIN walks' /\ walks'[i] = walks[i]
          BY <1>3, <1>4, <4>3
        <5>2. QED
          BY <4>1, <5>1
      <4>4. QED
        BY <4>2, <4>3
    <3>2. QED
      BY <3>1 DEF WInv, Walked
  <2>3. QED
    BY <1>1, <2>1, <2>2 DEF Walked
<1>7. CASE n = 1
  <2>1. walks' = <<>> /\ at' = Nil
    BY <1>1, <1>4, <1>7 DEF n
  <2>2. 0 \in entered
    <3>1. 1 \in DOMAIN walks /\ walks[1].blk = 0
      BY <1>1, <1>3, <1>7 DEF WInv, Path
    <3>2. QED
      BY <3>1 DEF WInv, Path
  <2>3. Turn'
    BY <1>1, <2>1, <2>2 DEF Turn
  <2>4. WalkTyped'
    BY <1>1, <1>2, <1>4, <2>1 DEF WalkTyped
  <2>5. QED
    BY <1>5, <1>6, <2>3, <2>4 DEF WInv
<1>8. CASE n # 1
  <2> DEFINE p == walks[n - 1].blk
  <2>1. n - 1 \in DOMAIN walks /\ n - 1 < Len(walks) /\ n > 1 /\ n \in DOMAIN walks /\ n - 1 + 1 = n
    BY <1>3, <1>8 DEF n
  <2>2. Child(source, idom, p, Cur)
    BY <1>3, <2>1 DEF WInv, Path
  <2>3. Upwards(source, idom, entered, p, Cur)
    <3>1. Upwards(source, idom, entered, walks[n - 1].blk, walks[n - 1 + 1].blk)
      BY <2>1 DEF WInv, Path
    <3>2. QED
      BY <1>3, <2>1, <3>1
  <2>4. p \in Blocks(source)
    BY <1>2, <2>1, WalksTyped
  <2>5. walks' # <<>> /\ Len(walks') = n - 1 /\ walks'[n - 1] = walks[n - 1]
    BY <1>3, <1>4, <1>8
  <2>6. Cur' = p
    BY <2>5 DEF Cur, Stack!Last
  <2> HIDE DEF p
  <2>7. at' = dlink[Cur] /\ LastBelow(idom, p, Cur, dlink[Cur])
    <3>1. Cur \in Blocks(source) \ {0} /\ idom[Cur] = p
      BY <2>2 DEF Child
    <3>2. QED
      BY <1>1, <1>8, <3>1, TreeFacts DEF ListsOf, n
  <2>8. WalkTyped'
    <3>1. at' \in Blocks(source) \cup {Nil}
      <4>1. dlink[Cur] = Nil \/ dlink[Cur] \in 0 .. Cur - 1
        BY <2>7 DEF LastBelow
      <4>2. source.n \in Nat
        BY SourceFacts
      <4>3. Cur \in 0 .. source.n - 1
        BY <1>3 DEF Blocks
      <4>4. 0 .. Cur - 1 \subseteq 0 .. source.n - 1
        BY <4>2, <4>3
      <4>5. QED
        BY <2>7, <4>1, <4>4 DEF Blocks
    <3>2. QED
      BY <1>1, <1>2, <1>4, <3>1 DEF WalkTyped
  <2>9. CASE at' = Nil
    <3>1. AllWalked(source, idom, entered, p)
      <4> SUFFICES ASSUME NEW c \in Blocks(source), Child(source, idom, p, c) PROVE c \in entered
        BY DEF AllWalked
      <4>1. c \in entered <=> c >= Cur
        BY <2>3 DEF Upwards
      <4>2. idom[c] = p
        BY DEF Child
      <4>3. \A e \in 0 .. Cur - 1 : idom[e] # p
        BY <2>7, <2>9 DEF LastBelow, Nil
      <4>4. c \notin 0 .. Cur - 1
        BY <4>2, <4>3
      <4>5. QED
        BY <1>3, <4>1, <4>4 DEF Blocks
    <3>2. Turn'
      BY <1>1, <2>5, <2>6, <2>9, <3>1 DEF Turn
    <3>3. QED
      BY <1>5, <1>6, <2>8, <3>2 DEF WInv
  <2>10. CASE at' # Nil
    <3>1. at' \in 0 .. Cur - 1 /\ idom[at'] = p /\ \A e \in at' + 1 .. Cur - 1 : idom[e] # p
      BY <2>7, <2>10 DEF LastBelow
    <3>2. at' \in Blocks(source) /\ Child(source, idom, p, at')
      <4>1. at' \in Blocks(source)
        BY <1>1, <2>8, <2>10 DEF WalkTyped
      <4>2. idom[0] = Nil /\ p # Nil
        BY <1>1, <2>4, TreeFacts DEF TreeOf, Blocks, Nil
      <4>3. QED
        BY <3>1, <4>1, <4>2 DEF Child
    <3>3. at' \notin entered
      BY <1>3, <2>3, <3>1, <3>2 DEF Upwards, Blocks
    <3>4. Upwards(source, idom, entered, p, at' + 1)
      <4> SUFFICES ASSUME NEW c \in Blocks(source), Child(source, idom, p, c)
                   PROVE  c \in entered <=> c >= at' + 1
        BY DEF Upwards
      <4>1. c \in entered <=> c >= Cur
        BY <2>3 DEF Upwards
      <4>2. idom[c] = p
        BY DEF Child
      <4>3. c \notin at' + 1 .. Cur - 1
        BY <3>1, <4>2
      <4>4. c \in Nat /\ at' \in Nat /\ Cur \in Nat
        BY <1>3, <3>2, SourceFacts DEF Blocks
      <4>5. ASSUME NEW v \in Nat, v \in 0 .. Cur - 1, c \notin v + 1 .. Cur - 1
            PROVE  c >= Cur <=> c >= v + 1
        BY <4>4, <4>5
      <4>6. QED
        BY <3>1, <4>1, <4>3, <4>4, <4>5
    <3>5. Turn'
      BY <1>1, <2>5, <2>6, <2>10, <3>2, <3>3, <3>4 DEF Turn
    <3>6. QED
      BY <1>5, <1>6, <2>8, <3>5 DEF WInv
  <2>11. QED
    BY <2>9, <2>10
<1>9. QED
  BY <1>7, <1>8

\* walk has been called on every block when the outermost call returns.
LEMMA AllEntered ==
  ASSUME Analysed, pc # "dom", WInv, walks = <<>>, at = Nil, next = 0
  PROVE  entered = Blocks(source)
<1> DEFINE Bad == Blocks(source) \ entered
<1> SUFFICES ASSUME Bad # {} PROVE FALSE
  BY DEF WInv, WalkTyped
<1>1. PICK m \in Bad : \A c \in Bad : m <= c
  <2>1. Bad \in SUBSET Nat
    BY DEF Blocks
  <2> HIDE DEF Bad
  <2>2. QED
    BY <2>1, LeastNat
<1>2. 0 \in entered
  BY DEF WInv, Turn
<1>3. m \in Blocks(source) \ {0} /\ m \notin entered
  BY <1>1, <1>2
<1>4. idom[m] \in Blocks(source) /\ idom[m] < m /\ Child(source, idom, idom[m], m)
  BY <1>3, TreeFacts DEF TreeOf, Child
<1>5. idom[m] \in entered
  BY <1>1, <1>3, <1>4 DEF Blocks
<1>6. AllWalked(source, idom, entered, idom[m])
  BY <1>5 DEF WInv, Walked
<1>7. QED
  BY <1>3, <1>4, <1>6 DEF AllWalked

-----------------------------------------------------------------------------
(***************************************************************************)
(* The items of a block, which rename takes in order: its phis and then    *)
(* its instructions.  One with a result is given a name of its own.        *)
(***************************************************************************)
NItems(g, b) == Len(g.phis[b]) + Len(g.ins[b])

ItemTo(g, b, m) ==
  IF m <= Len(g.phis[b]) THEN g.phis[b][m].to ELSE g.ins[b][m - Len(g.phis[b])].to

\* The names and the stacks are typed, and a name stands for itself in the source.
NTyped ==
  /\ IsFunction(f) /\ SameGraph(f, source) /\ f.ntmp >= source.ntmp
  /\ \A b \in Blocks(source) : Len(f.ins[b]) = Len(source.ins[b])
  /\ newToOld \in [Temps(f) -> Temps(source)]
  /\ \A t \in Temps(source) : newToOld[t] = t
  /\ stacks \in [Temps(source) -> Seq(Ref)]

\* h is g with the n-th item of block c given a new name.
Renamed(g, h, c, n) ==
  /\ SameGraph(h, g)
  /\ h.ntmp = (IF IsTmp(ItemTo(g, c, n)) THEN g.ntmp + 1 ELSE g.ntmp)
  /\ \A b \in Blocks(g) : Len(h.phis[b]) = Len(g.phis[b]) /\ Len(h.ins[b]) = Len(g.ins[b])
  /\ \A b \in Blocks(g) : \A m \in 1 .. NItems(g, b) :
       ItemTo(h, b, m) = IF b = c /\ m = n /\ IsTmp(ItemTo(g, c, n)) THEN Tmp(g.ntmp)
                         ELSE ItemTo(g, b, m)
  /\ \A b \in Blocks(g) : \A j \in DOMAIN g.phis[b] :
       h.phis[b][j].args = g.phis[b][j].args /\ h.phis[b][j].blks = g.phis[b][j].blks
  /\ \A b \in Blocks(g) : \A i \in DOMAIN g.ins[b] :
       (b = c /\ Len(g.phis[b]) + i = n) \/ h.ins[b][i].arg = g.ins[b][i].arg
  /\ h.jmp = g.jmp

\* What the new name does to the names and the stacks.
Pushed(r) ==
  IF IsTmp(r)
    THEN /\ newToOld' = [t \in 0 .. f.ntmp |-> IF t = f.ntmp THEN newToOld[r.val] ELSE newToOld[t]]
         /\ stacks' = [stacks EXCEPT ![newToOld[r.val]] = Append(@, Tmp(f.ntmp))]
    ELSE UNCHANGED <<newToOld, stacks>>

\* What NTyped says of the shape of the function.
LEMMA NTypedFacts ==
  ASSUME NTyped
  PROVE  /\ Blocks(f) = Blocks(source) /\ f.n \in Nat \ {0} /\ f.ntmp \in Nat
         /\ Fields \subseteq DOMAIN f
         /\ \A b : Succs(f, b) = Succs(source, b)
         /\ f.phis \in [Blocks(source) -> Seq(Phi)] /\ f.ins \in [Blocks(source) -> Seq(Instruction)]
         /\ f.jmp \in [Blocks(source) -> Jump]
         /\ \A b \in Blocks(source) : Len(f.phis[b]) \in Nat /\ Len(f.ins[b]) \in Nat
         /\ \A b \in Blocks(source) : DOMAIN f.phis[b] = 1 .. Len(f.phis[b])
                                      /\ DOMAIN f.ins[b] = 1 .. Len(f.ins[b])
<1>1. /\ Blocks(f) = Blocks(source) /\ f.n \in Nat \ {0} /\ f.ntmp \in Nat
      /\ f.phis \in [Blocks(source) -> Seq(Phi)] /\ f.ins \in [Blocks(source) -> Seq(Instruction)]
      /\ f.jmp \in [Blocks(source) -> Jump]
  BY DEF NTyped, IsFunction, SameGraph, Blocks
<1>2. Fields \subseteq DOMAIN f /\ \A b : Succs(f, b) = Succs(source, b)
  BY DEF NTyped, SameGraph, Succs
<1>3. \A b \in Blocks(source) : f.phis[b] \in Seq(Phi) /\ f.ins[b] \in Seq(Instruction)
  BY <1>1
<1>4. \A V : \A s \in Seq(V) : Len(s) \in Nat /\ DOMAIN s = 1 .. Len(s)
  OBVIOUS
<1>5. QED
  BY <1>1, <1>2, <1>3, <1>4

\* NewName pushes a name that stands for the same temporary.
LEMMA NewNameMeans ==
  ASSUME NEW r, stacks' = NewName(Names, r).stacks, newToOld' = NewName(Names, r).newToOld
  PROVE  Pushed(r) /\ NewName(Names, r).ntmp = IF IsTmp(r) THEN f.ntmp + 1 ELSE f.ntmp
BY DEF NewName, Names, Pushed

\* RenamePhi renames the item rename is at, a phi.
LEMMA RenamePhiMeans ==
  ASSUME NTyped, Cur \in Blocks(source), RenamePhi
  PROVE  /\ Renamed(f, f', Cur, next) /\ Pushed(ItemTo(f, Cur, next))
         /\ next \in 1 .. Len(f.phis[Cur])
         /\ f'.ins = f.ins /\ f'.phis \in [Blocks(source) -> Seq(Phi)]
<1> DEFINE c == Cur
           n == next
           p == f.phis[c][n]
           ph == [f.phis EXCEPT ![c][n].to = NameOf(Names, p.to)]
<1>1. /\ n \in DOMAIN f.phis[c] /\ c \in Blocks(source)
      /\ f' = [f EXCEPT !.ntmp = NewName(Names, p.to).ntmp, !.phis[c][n].to = NameOf(Names, @)]
      /\ stacks' = NewName(Names, p.to).stacks /\ newToOld' = NewName(Names, p.to).newToOld
  BY DEF RenamePhi
<1>2. /\ Fields \subseteq DOMAIN f /\ f.ntmp \in Nat /\ Blocks(f) = Blocks(source)
      /\ f.phis \in [Blocks(source) -> Seq(Phi)]
      /\ \A b \in Blocks(source) : Len(f.phis[b]) \in Nat /\ Len(f.ins[b]) \in Nat
                                   /\ DOMAIN f.phis[b] = 1 .. Len(f.phis[b])
                                   /\ DOMAIN f.ins[b] = 1 .. Len(f.ins[b])
  BY NTypedFacts
<1>3. f.phis[c] \in Seq(Phi) /\ p \in Phi
  <2>1. f.phis[c] \in Seq(Phi)
    BY <1>1, <1>2
  <2>2. QED
    BY <1>1, <2>1
<1>4. p.to \in Ref /\ p.args \in Seq(Ref) /\ p.blks \in Seq(Nat)
  BY <1>3 DEF Phi
<1>5. NameOf(Names, p.to) \in Ref /\ NameOf(Names, p.to) = IF IsTmp(p.to) THEN Tmp(f.ntmp) ELSE p.to
  BY <1>2, <1>4 DEF NameOf, Names, Tmp, Ref, RefKinds
<1> HIDE DEF c, n
<1> DEFINE q == [p EXCEPT !.to = NameOf(Names, p.to)]
<1>6. q \in Phi /\ q.to = NameOf(Names, p.to) /\ q.args = p.args /\ q.blks = p.blks
  BY <1>3, <1>5 DEF Phi
<1>7. /\ f'.ntmp = NewName(Names, p.to).ntmp /\ f'.phis = ph
      /\ f'.n = f.n /\ f'.s1 = f.s1 /\ f'.s2 = f.s2 /\ f'.pred = f.pred
      /\ f'.ins = f.ins /\ f'.jmp = f.jmp /\ Fields \subseteq DOMAIN f'
  BY <1>1, <1>2 DEF Fields
<1>8. ph = [f.phis EXCEPT ![c] = [f.phis[c] EXCEPT ![n] = q]]
  OBVIOUS
<1> HIDE DEF ph, q, p
<1>9. [f.phis[c] EXCEPT ![n] = q] \in Seq(Phi) /\ Len([f.phis[c] EXCEPT ![n] = q]) = Len(f.phis[c])
  BY <1>1, <1>3, <1>6
<1>10. ph \in [Blocks(source) -> Seq(Phi)]
  BY <1>1, <1>2, <1>8, <1>9
<1>11. \A b \in Blocks(source) : Len(ph[b]) = Len(f.phis[b])
  BY <1>1, <1>2, <1>8, <1>9
<1>12. \A b \in Blocks(source) : \A j \in DOMAIN f.phis[b] :
          ph[b][j] = IF b = c /\ j = n THEN q ELSE f.phis[b][j]
  BY <1>1, <1>2, <1>8
<1>13. n \in 1 .. Len(f.phis[c]) /\ ItemTo(f, c, n) = p.to
  BY <1>1, <1>2 DEF ItemTo, p
<1>14. Pushed(p.to) /\ NewName(Names, p.to).ntmp = IF IsTmp(p.to) THEN f.ntmp + 1 ELSE f.ntmp
  BY <1>1, NewNameMeans DEF p
<1>15. ASSUME NEW b \in Blocks(source), NEW m \in 1 .. NItems(f, b)
       PROVE  ItemTo(f', b, m) = IF b = c /\ m = n /\ IsTmp(p.to) THEN Tmp(f.ntmp)
                                 ELSE ItemTo(f, b, m)
  <2>1. Len(f'.phis[b]) = Len(f.phis[b]) /\ f'.ins[b] = f.ins[b] /\ m \in Nat \ {0}
    BY <1>2, <1>7, <1>11 DEF NItems
  <2>2. CASE m <= Len(f.phis[b])
    <3>1. m \in DOMAIN f.phis[b]
      BY <1>2, <2>1, <2>2
    <3>2. ItemTo(f', b, m) = ph[b][m].to /\ ItemTo(f, b, m) = f.phis[b][m].to
      BY <1>7, <2>1, <2>2 DEF ItemTo
    <3>3. ph[b][m] = IF b = c /\ m = n THEN q ELSE f.phis[b][m]
      BY <1>12, <3>1
    <3>4. b = c /\ m = n => f.phis[b][m] = p
      BY DEF p
    <3>5. QED
      BY <1>5, <1>6, <3>2, <3>3, <3>4
  <2>3. CASE ~(m <= Len(f.phis[b]))
    <3>1. ItemTo(f', b, m) = ItemTo(f, b, m)
      BY <2>1, <2>3 DEF ItemTo
    <3>2. ~(b = c /\ m = n)
      <4>1. n <= Len(f.phis[c])
        BY <1>2, <1>13, <1>1
      <4>2. QED
        BY <2>3, <4>1
    <3>3. QED
      BY <3>1, <3>2
  <2>4. QED
    BY <2>2, <2>3
<1>16. Renamed(f, f', c, n)
  <2>1. \A b \in Blocks(f) : \A j \in DOMAIN f.phis[b] :
          f'.phis[b][j].args = f.phis[b][j].args /\ f'.phis[b][j].blks = f.phis[b][j].blks
    BY <1>2, <1>6, <1>7, <1>12 DEF p
  <2>2. SameGraph(f', f)
    BY <1>7 DEF SameGraph
  <2>3. f'.ntmp = IF IsTmp(ItemTo(f, c, n)) THEN f.ntmp + 1 ELSE f.ntmp
    BY <1>7, <1>13, <1>14
  <2>4. \A b \in Blocks(f) : Len(f'.phis[b]) = Len(f.phis[b]) /\ f'.ins[b] = f.ins[b]
    BY <1>2, <1>7, <1>11
  <2>5. \A b \in Blocks(f) : \A m \in 1 .. NItems(f, b) :
          ItemTo(f', b, m) = IF b = c /\ m = n /\ IsTmp(ItemTo(f, c, n)) THEN Tmp(f.ntmp)
                             ELSE ItemTo(f, b, m)
    BY <1>2, <1>13, <1>15
  <2>6. QED
    BY <1>7, <2>1, <2>2, <2>3, <2>4, <2>5 DEF Renamed
<1>17. QED
  BY <1>7, <1>10, <1>13, <1>14, <1>16 DEF c, n

\* The current name of an operand: the top of its stack, if there is one.
LEMMA CurrentMeans ==
  ASSUME NTyped, NEW r, RefOK(f, r)
  PROVE  /\ IsTmp(r) => /\ newToOld[r.val] \in Temps(source)
                        /\ IF stacks[newToOld[r.val]] = <<>> THEN Current(Names, r) = r
                           ELSE LET s == stacks[newToOld[r.val]]
                                IN  Len(s) \in DOMAIN s /\ Current(Names, r) = s[Len(s)]
         /\ ~IsTmp(r) => Current(Names, r) = r
         /\ Current(Names, r) \in Ref
<1>1. r \in Ref /\ (IsTmp(r) => r.val \in Temps(f))
  BY DEF RefOK
<1>2. newToOld \in [Temps(f) -> Temps(source)] /\ stacks \in [Temps(source) -> Seq(Ref)]
  BY DEF NTyped
<1>3. ~IsTmp(r) => Current(Names, r) = r
  BY DEF Current
<1>4. CASE IsTmp(r)
  <2> DEFINE s == stacks[newToOld[r.val]]
  <2>1. newToOld[r.val] \in Temps(source) /\ s \in Seq(Ref)
    BY <1>1, <1>2, <1>4
  <2>2. Current(Names, r) = IF s = <<>> THEN r ELSE s[Len(s)]
    BY <1>4 DEF Current, Names, Stack!Last
  <2> HIDE DEF s
  <2>3. s # <<>> => Len(s) \in DOMAIN s /\ s[Len(s)] \in Ref
    BY <2>1
  <2>4. QED
    BY <1>1, <1>4, <2>1, <2>2, <2>3 DEF s
<1>5. QED
  BY <1>1, <1>3, <1>4

\* Its two updates of the instruction are one.
LEMMA TwoUpdates ==
  ASSUME NEW B, NEW g \in [B -> Seq(Instruction)], NEW c \in B, NEW n \in DOMAIN g[c], NEW m
  PROVE  LET x == g[c][n]
             q == [x EXCEPT !.arg = [i \in DOMAIN x.arg |-> Current(m, x.arg[i])],
                            !.to = NameOf(m, x.to)]
         IN  [g EXCEPT ![c][n].arg = [i \in DOMAIN @ |-> Current(m, @[i])],
                       ![c][n].to = NameOf(m, @)]
               = [g EXCEPT ![c] = [g[c] EXCEPT ![n] = q]]
<1> DEFINE x == g[c][n]
           ar == [i \in DOMAIN x.arg |-> Current(m, x.arg[i])]
           y == [x EXCEPT !.arg = ar]
           q == [x EXCEPT !.arg = ar, !.to = NameOf(m, x.to)]
           h == [g EXCEPT ![c] = [g[c] EXCEPT ![n] = y]]
<1>1. g[c] \in Seq(Instruction)
  OBVIOUS
<1>2. x \in Instruction
  BY <1>1
<1>3. y.to = x.to /\ q = [y EXCEPT !.to = NameOf(m, y.to)]
  BY <1>2 DEF Instruction
<1>4. [g EXCEPT ![c][n].arg = [i \in DOMAIN @ |-> Current(m, @[i])]] = h
  OBVIOUS
<1>5. c \in DOMAIN g /\ n \in DOMAIN g[c]
  OBVIOUS
<1> HIDE DEF y, q, ar
<1>6. h[c] = [g[c] EXCEPT ![n] = y] /\ h[c][n] = y
  BY <1>5
<1>7. [h EXCEPT ![c][n].to = NameOf(m, @)] = [h EXCEPT ![c] = [h[c] EXCEPT ![n] = [y EXCEPT !.to = NameOf(m, y.to)]]]
  BY <1>6
<1>8. [h EXCEPT ![c] = [h[c] EXCEPT ![n] = q]] = [g EXCEPT ![c] = [g[c] EXCEPT ![n] = q]]
  <2>1. [h[c] EXCEPT ![n] = q] = [g[c] EXCEPT ![n] = q]
    BY <1>6
  <2>2. QED
    BY <1>5, <2>1
<1>9. [h EXCEPT ![c][n].to = NameOf(m, @)] = [g EXCEPT ![c] = [g[c] EXCEPT ![n] = q]]
  BY <1>3, <1>7, <1>8
<1>10. QED
  BY <1>4, <1>9, ZenonT(40) DEF q, ar

\* RenameIns renames the item rename is at, an instruction.
LEMMA RenameInsMeans ==
  ASSUME NTyped, Cur \in Blocks(source), next \in Nat, RenameIns
  PROVE  /\ Renamed(f, f', Cur, next) /\ Pushed(ItemTo(f, Cur, next))
         /\ NextIns \in DOMAIN f.ins[Cur] /\ next = Len(f.phis[Cur]) + NextIns
         /\ f'.phis = f.phis /\ f'.ins \in [Blocks(source) -> Seq(Instruction)]
         /\ f'.ins[Cur][NextIns].arg =
              [i \in DOMAIN f.ins[Cur][NextIns].arg |-> Current(Names, f.ins[Cur][NextIns].arg[i])]
<1> DEFINE c == Cur
           n == NextIns
           x == f.ins[c][n]
           ar == [i \in DOMAIN x.arg |-> Current(Names, x.arg[i])]
           q == [x EXCEPT !.arg = ar, !.to = NameOf(Names, x.to)]
           is == [f.ins EXCEPT ![c] = [f.ins[c] EXCEPT ![n] = q]]
<1>1. /\ n \in DOMAIN f.ins[c] /\ c \in Blocks(source)
      /\ f' = [f EXCEPT !.ntmp = NewName(Names, x.to).ntmp,
                        !.ins[c][n].arg = [i \in DOMAIN @ |-> Current(Names, @[i])],
                        !.ins[c][n].to = NameOf(Names, @)]
      /\ stacks' = NewName(Names, x.to).stacks /\ newToOld' = NewName(Names, x.to).newToOld
  BY DEF RenameIns
<1>2. /\ Fields \subseteq DOMAIN f /\ f.ntmp \in Nat /\ Blocks(f) = Blocks(source)
      /\ f.ins \in [Blocks(source) -> Seq(Instruction)]
      /\ \A b \in Blocks(source) : Len(f.phis[b]) \in Nat /\ Len(f.ins[b]) \in Nat
                                   /\ DOMAIN f.phis[b] = 1 .. Len(f.phis[b])
                                   /\ DOMAIN f.ins[b] = 1 .. Len(f.ins[b])
  BY NTypedFacts
<1>3. f.ins[c] \in Seq(Instruction) /\ x \in Instruction
  <2>1. f.ins[c] \in Seq(Instruction)
    BY <1>1, <1>2
  <2>2. QED
    BY <1>1, <2>1
<1>4. x.to \in Ref /\ x.arg \in Seq(Ref) /\ x.op \in Opcodes
  BY <1>3 DEF Instruction
<1>5. NameOf(Names, x.to) \in Ref /\ NameOf(Names, x.to) = IF IsTmp(x.to) THEN Tmp(f.ntmp) ELSE x.to
  BY <1>2, <1>4 DEF NameOf, Names, Tmp, Ref, RefKinds
<1>6. \A i \in DOMAIN x.arg : Current(Names, x.arg[i]) \in Ref
  <2>1. \A b \in Blocks(f) : \A i \in DOMAIN f.ins[b] : \A r \in Elems(f.ins[b][i].arg) : RefOK(f, r)
    BY DEF NTyped, IsFunction
  <2>2. \A r \in Elems(x.arg) : RefOK(f, r)
    BY <1>1, <1>2, <2>1
  <2>3. \A i \in DOMAIN x.arg : x.arg[i] \in Elems(x.arg)
    BY Zenon DEF Elems
  <2>4. \A i \in DOMAIN x.arg : RefOK(f, x.arg[i])
    BY <2>2, <2>3, Zenon
  <2>5. QED
    BY <2>4, CurrentMeans, Zenon
<1>7. next = Len(f.phis[c]) + n
  <2>1. n = next - Len(f.phis[c])
    BY DEF NextIns
  <2>2. Len(f.phis[c]) \in Nat
    BY <1>1, <1>2
  <2> HIDE DEF n
  <2>3. QED
    BY <2>1, <2>2
<1> HIDE DEF c, n
<1>8. ar \in Seq(Ref)
  BY <1>4, <1>6
<1> HIDE DEF ar
<1>9. q \in Instruction /\ q.to = NameOf(Names, x.to) /\ q.arg = ar
  BY <1>3, <1>5, <1>8 DEF Instruction
<1>10. /\ f'.ntmp = NewName(Names, x.to).ntmp
       /\ f'.ins = [f.ins EXCEPT ![c][n].arg = [i \in DOMAIN @ |-> Current(Names, @[i])],
                                 ![c][n].to = NameOf(Names, @)]
       /\ f'.n = f.n /\ f'.s1 = f.s1 /\ f'.s2 = f.s2 /\ f'.pred = f.pred
       /\ f'.phis = f.phis /\ f'.jmp = f.jmp /\ Fields \subseteq DOMAIN f'
  BY <1>1, <1>2 DEF Fields
<1>11. f'.ins = is
  <2>1. f'.ins = [f.ins EXCEPT ![c][n].arg = [i \in DOMAIN @ |-> Current(Names, @[i])],
                               ![c][n].to = NameOf(Names, @)]
    BY <1>10
  <2>2. f.ins \in [Blocks(source) -> Seq(Instruction)] /\ c \in Blocks(source) /\ n \in DOMAIN f.ins[c]
    BY <1>1, <1>2
  <2> DEFINE g == f.ins
             m == Names
  <2> HIDE DEF g, m
  <2>3. [g EXCEPT ![c][n].arg = [i \in DOMAIN @ |-> Current(m, @[i])], ![c][n].to = NameOf(m, @)]
          = [g EXCEPT ![c] = [g[c] EXCEPT ![n] =
               [g[c][n] EXCEPT !.arg = [i \in DOMAIN g[c][n].arg |-> Current(m, g[c][n].arg[i])],
                               !.to = NameOf(m, g[c][n].to)]]]
    <3>1. g \in [Blocks(source) -> Seq(Instruction)] /\ c \in Blocks(source) /\ n \in DOMAIN g[c]
      BY <2>2 DEF g
    <3>2. QED
      BY <3>1, TwoUpdates, ZenonT(60)
  <2>4. QED
    BY <2>1, <2>3 DEF g, m, ar
<1> HIDE DEF is, q, x
<1>12. [f.ins[c] EXCEPT ![n] = q] \in Seq(Instruction)
       /\ Len([f.ins[c] EXCEPT ![n] = q]) = Len(f.ins[c])
  BY <1>1, <1>3, <1>9
<1>13. is \in [Blocks(source) -> Seq(Instruction)]
       /\ \A b \in Blocks(source) : Len(is[b]) = Len(f.ins[b])
  BY <1>1, <1>2, <1>12 DEF is
<1>14. \A b \in Blocks(source) : \A i \in DOMAIN f.ins[b] :
          is[b][i] = IF b = c /\ i = n THEN q ELSE f.ins[b][i]
  BY <1>1, <1>2 DEF is
<1>15. /\ next \in Nat /\ next > Len(f.phis[c]) /\ next - Len(f.phis[c]) = n
       /\ ItemTo(f, c, next) = x.to
  <2>1. next > Len(f.phis[c]) /\ next - Len(f.phis[c]) = n
    BY <1>1, <1>2, <1>7, SMTT(20)
  <2>2. ~(next <= Len(f.phis[c]))
    BY <1>1, <1>2, <2>1
  <2>3. QED
    BY <2>1, <2>2 DEF ItemTo, x
<1>16. Pushed(x.to) /\ NewName(Names, x.to).ntmp = IF IsTmp(x.to) THEN f.ntmp + 1 ELSE f.ntmp
  BY <1>1, NewNameMeans DEF x
<1>17. ASSUME NEW b \in Blocks(source), NEW m \in 1 .. NItems(f, b)
       PROVE  ItemTo(f', b, m) = IF b = c /\ m = next /\ IsTmp(x.to) THEN Tmp(f.ntmp)
                                 ELSE ItemTo(f, b, m)
  <2>1. Len(f'.ins[b]) = Len(f.ins[b]) /\ f'.phis[b] = f.phis[b] /\ m \in Nat \ {0}
    BY <1>2, <1>10, <1>11, <1>13, SMTT(20) DEF NItems
  <2>2. CASE m <= Len(f.phis[b])
    <3>1. ItemTo(f', b, m) = ItemTo(f, b, m)
      BY <2>1, <2>2 DEF ItemTo
    <3>2. ~(b = c /\ m = next)
      BY <1>1, <1>2, <1>15, <2>2
    <3>3. QED
      BY <3>1, <3>2
  <2>3. CASE ~(m <= Len(f.phis[b]))
    <3> DEFINE i == m - Len(f.phis[b])
    <3>1. i \in DOMAIN f.ins[b] /\ (b = c => (i = n <=> m = next))
      <4>1. Len(f.phis[b]) \in Nat /\ Len(f.ins[b]) \in Nat
        BY <1>2
      <4> DEFINE u == Len(f.phis[b])
                 v == Len(f.ins[b])
      <4>2. m \in 1 .. u + v /\ u \in Nat /\ v \in Nat /\ ~(m <= u)
        BY <2>3, <4>1 DEF NItems
      <4> HIDE DEF u, v
      <4>3. m - u \in 1 .. v
        BY <4>2
      <4>4. i \in 1 .. Len(f.ins[b])
        BY <4>3 DEF u, v
      <4>5. b = c => (i = n <=> m = next)
        BY <1>1, <1>2, <1>15, <2>1
      <4>6. QED
        BY <1>2, <4>4, <4>5
    <3>2. ItemTo(f', b, m) = is[b][i].to /\ ItemTo(f, b, m) = f.ins[b][i].to
      BY <1>10, <1>11, <2>1, <2>3, Zenon DEF ItemTo
    <3>3. is[b][i] = IF b = c /\ i = n THEN q ELSE f.ins[b][i]
      BY <1>14, <3>1
    <3>4. b = c /\ i = n => f.ins[b][i] = x
      BY DEF x
    <3> HIDE DEF i
    <3>5. QED
      BY <1>5, <1>9, <3>1, <3>2, <3>3, <3>4
  <2>4. QED
    BY <2>2, <2>3
<1>18. Renamed(f, f', c, next)
  <2>1. \A b \in Blocks(f) : \A i \in DOMAIN f.ins[b] :
          (b = c /\ Len(f.phis[b]) + i = next) \/ f'.ins[b][i].arg = f.ins[b][i].arg
    BY <1>2, <1>7, <1>11, <1>14
  <2>2. SameGraph(f', f)
    BY <1>10 DEF SameGraph
  <2>3. f'.ntmp = IF IsTmp(ItemTo(f, c, next)) THEN f.ntmp + 1 ELSE f.ntmp
    BY <1>10, <1>15, <1>16
  <2>4. \A b \in Blocks(f) : f'.phis[b] = f.phis[b] /\ Len(f'.ins[b]) = Len(f.ins[b])
    BY <1>2, <1>10, <1>11, <1>13
  <2>5. \A b \in Blocks(f) : \A m \in 1 .. NItems(f, b) :
          ItemTo(f', b, m) = IF b = c /\ m = next /\ IsTmp(ItemTo(f, c, next)) THEN Tmp(f.ntmp)
                             ELSE ItemTo(f, b, m)
    BY <1>2, <1>15, <1>17
  <2>6. QED
    BY <1>10, <2>1, <2>2, <2>3, <2>4, <2>5, Zenon DEF Renamed
<1>19. f'.ins[c][n].arg = ar
  BY <1>1, <1>9, <1>11, <1>14, Zenon
<1>20. QED
  BY <1>1, <1>7, <1>10, <1>11, <1>13, <1>15, <1>16, <1>18, <1>19, Zenon DEF c, n, ar, x

\* rename has dealt with the m-th item of b, given the blocks entered and where it is.
Passed(E, c, n, b, m) == b \in E /\ (n > 0 /\ b = c => m < n)
Ended(E, c, n, b)     == b \in E /\ ~(n > 0 /\ b = c)

IsNew(h, r) == IsTmp(r) /\ r.val >= h.ntmp

(***************************************************************************)
(* A result is renamed when its item has been passed; no two have a name   *)
(* in common.                                                              *)
(***************************************************************************)
Named(g, h, E, c, n) ==
  /\ n > 0 => n <= NItems(g, c) + 1
  /\ \A b \in Blocks(h) : \A m \in 1 .. NItems(g, b) :
       IsTmp(ItemTo(g, b, m)) => (IsNew(h, ItemTo(g, b, m)) <=> Passed(E, c, n, b, m))
  /\ \A a, b \in Blocks(h) : \A l \in 1 .. NItems(g, a), m \in 1 .. NItems(g, b) :
       IsNew(h, ItemTo(g, a, l)) /\ ItemTo(g, a, l) = ItemTo(g, b, m) => a = b /\ l = m

(***************************************************************************)
(* Behind the names are the results of the source and the phis of          *)
(* insertPhis.                                                             *)
(***************************************************************************)
Erased(g, N, h, I, F) ==
  /\ \A b \in Blocks(h) : \A j \in DOMAIN g.phis[b] :
       IsTmp(g.phis[b][j].to) /\ N[g.phis[b][j].to.val] \in I[b]
  /\ \A b \in Blocks(h) : \A i \in DOMAIN g.ins[b] :
       /\ IsTmp(g.ins[b][i].to) <=> IsTmp(h.ins[b][i].to)
       /\ IsTmp(g.ins[b][i].to) => N[g.ins[b][i].to.val] = h.ins[b][i].to.val
  /\ \A t \in Temps(h) : PhisFor(g, N, F, I, h, t)

\* What rename has not come to is as it was.
Unread(g, h, E, c, n) ==
  /\ \A b \in Blocks(h) : \A i \in DOMAIN g.ins[b] :
       Passed(E, c, n, b, Len(g.phis[b]) + i) \/ g.ins[b][i].arg = h.ins[b][i].arg
  /\ \A b \in Blocks(h) : Ended(E, c, n, b) \/ g.jmp[b].arg = h.jmp[b].arg

\* The names on a stack are new, and stand for its temporary.
STyped(s, g, N, h) ==
  \A t \in Temps(h) : \A i \in DOMAIN s[t] :
    IsNew(h, s[t][i]) /\ s[t][i].val \in Temps(g) /\ N[s[t][i].val] = t

\* The result of an item is an operand of the function.
LEMMA ItemsTyped ==
  ASSUME NTyped, NEW b \in Blocks(source), NEW m \in 1 .. NItems(f, b)
  PROVE  /\ RefOK(f, ItemTo(f, b, m))
         /\ IF m <= Len(f.phis[b]) THEN m \in DOMAIN f.phis[b]
            ELSE m - Len(f.phis[b]) \in DOMAIN f.ins[b]
<1>1. /\ Blocks(f) = Blocks(source) /\ IsFunction(f)
      /\ Len(f.phis[b]) \in Nat /\ Len(f.ins[b]) \in Nat
      /\ DOMAIN f.phis[b] = 1 .. Len(f.phis[b]) /\ DOMAIN f.ins[b] = 1 .. Len(f.ins[b])
  BY NTypedFacts DEF NTyped
<1> DEFINE u == Len(f.phis[b])
           v == Len(f.ins[b])
<1>2. IF m <= u THEN m \in 1 .. u ELSE m - u \in 1 .. v
  <2>1. m \in 1 .. u + v /\ u \in Nat /\ v \in Nat
    BY <1>1 DEF NItems
  <2> HIDE DEF u, v
  <2>2. QED
    BY <2>1
<1>3. /\ \A i \in DOMAIN f.phis[b] : RefOK(f, f.phis[b][i].to)
      /\ \A i \in DOMAIN f.ins[b] : RefOK(f, f.ins[b][i].to)
  BY <1>1 DEF IsFunction
<1>4. QED
  BY <1>1, <1>2, <1>3 DEF ItemTo

\* A larger function has the references of a smaller one.
LEMMA RefGrows ==
  ASSUME NEW g, NEW h, g.ntmp \in Nat, h.ntmp \in Nat, g.ntmp <= h.ntmp, NEW r, RefOK(g, r)
  PROVE  RefOK(h, r)
BY DEF RefOK, Temps

\* Renaming an item keeps the function well formed.
LEMMA RenamedTyped ==
  ASSUME Analysed, NTyped, STyped(stacks, f, newToOld, source),
         NEW c \in Blocks(source), NEW n \in 1 .. NItems(f, c),
         Renamed(f, f', c, n), Pushed(ItemTo(f, c, n)), source' = source,
         f'.phis \in [Blocks(source) -> Seq(Phi)], f'.ins \in [Blocks(source) -> Seq(Instruction)],
         \A b \in Blocks(source) : \A i \in DOMAIN f.ins[b] :
           \A r \in Elems(f'.ins[b][i].arg) : RefOK(f', r)
  PROVE  NTyped' /\ STyped(stacks', f', newToOld', source) /\ f'.ntmp >= f.ntmp
         /\ \A t \in Temps(f) : newToOld'[t] = newToOld[t] /\ t \in Temps(f')
<1> DEFINE r == ItemTo(f, c, n)
<1>1. /\ Blocks(f) = Blocks(source) /\ f.n \in Nat \ {0} /\ f.ntmp \in Nat
      /\ f.jmp \in [Blocks(source) -> Jump] /\ IsFunction(f) /\ SameGraph(f, source)
      /\ source.ntmp \in Nat \ {0} /\ f.ntmp >= source.ntmp
      /\ \A b \in Blocks(source) : Len(f.phis[b]) \in Nat /\ Len(f.ins[b]) \in Nat
                                   /\ DOMAIN f.phis[b] = 1 .. Len(f.phis[b])
                                   /\ DOMAIN f.ins[b] = 1 .. Len(f.ins[b])
  BY NTypedFacts, SourceFacts DEF NTyped
<1>2. RefOK(f, r)
  BY ItemsTyped
<1>3. /\ newToOld \in [Temps(f) -> Temps(source)] /\ stacks \in [Temps(source) -> Seq(Ref)]
      /\ \A t \in Temps(source) : newToOld[t] = t
  BY DEF NTyped
<1> HIDE DEF r
<1>4. f'.ntmp = (IF IsTmp(r) THEN f.ntmp + 1 ELSE f.ntmp) /\ f'.n = f.n /\ f'.jmp = f.jmp
      /\ SameGraph(f', source)
  BY <1>1 DEF Renamed, r, SameGraph
<1>5. f'.ntmp \in Nat /\ f'.ntmp >= f.ntmp /\ f'.ntmp >= source.ntmp /\ Blocks(f') = Blocks(source)
      /\ f.ntmp <= f'.ntmp
  BY <1>1, <1>4 DEF Blocks
<1>6. \A t \in Temps(f) : t \in Temps(f')
  BY <1>1, <1>5 DEF Temps
<1>7. /\ newToOld' \in [Temps(f') -> Temps(source)] /\ stacks' \in [Temps(source) -> Seq(Ref)]
      /\ \A t \in Temps(f) : newToOld'[t] = newToOld[t]
      /\ STyped(stacks', f', newToOld', source)
  <2>1. CASE ~IsTmp(r)
    <3>1. newToOld' = newToOld /\ stacks' = stacks /\ Temps(f') = Temps(f)
      BY <1>4, <2>1 DEF Pushed, r, Temps
    <3>2. QED
      BY <1>3, <3>1 DEF STyped
  <2>2. CASE IsTmp(r)
    <3> DEFINE o == newToOld[r.val]
    <3>1. o \in Temps(source)
      BY <1>2, <1>3, <2>2 DEF RefOK
    <3>2. /\ newToOld' = [t \in 0 .. f.ntmp |-> IF t = f.ntmp THEN o ELSE newToOld[t]]
          /\ stacks' = [stacks EXCEPT ![o] = Append(@, Tmp(f.ntmp))]
      BY <2>2 DEF Pushed, r
    <3> HIDE DEF o
    <3>3. Temps(f') = 0 .. f.ntmp /\ \A t \in 0 .. f.ntmp : t = f.ntmp \/ t \in Temps(f)
      BY <1>1, <1>4, <2>2 DEF Temps
    <3>4. newToOld' \in [Temps(f') -> Temps(source)]
      BY <1>3, <3>1, <3>2, <3>3
    <3>5. \A t \in Temps(f) : newToOld'[t] = newToOld[t] /\ t # f.ntmp
      BY <1>1, <3>2 DEF Temps
    <3>6. newToOld'[f.ntmp] = o /\ f.ntmp \in Temps(f')
      BY <1>1, <3>2, <3>3
    <3>7. Tmp(f.ntmp) \in Ref /\ IsNew(source, Tmp(f.ntmp)) /\ Tmp(f.ntmp).val = f.ntmp
      BY <1>1 DEF Tmp, Ref, RefKinds, IsNew, IsTmp
    <3> DEFINE x == Tmp(f.ntmp)
    <3> HIDE DEF x
    <3>8. stacks[o] \in Seq(Ref) /\ x \in Ref
      BY <1>3, <3>1, <3>7 DEF x
    <3>9. Append(stacks[o], x) \in Seq(Ref)
      BY <3>8
    <3>10. stacks' \in [Temps(source) -> Seq(Ref)]
      BY <1>3, <3>1, <3>2, <3>9 DEF x
    <3>11. ASSUME NEW t \in Temps(source), NEW i \in DOMAIN stacks'[t]
           PROVE  IsNew(source, stacks'[t][i]) /\ stacks'[t][i].val \in Temps(f')
                  /\ newToOld'[stacks'[t][i].val] = t
      <4>1. ASSUME NEW j \in DOMAIN stacks[t]
            PROVE  IsNew(source, stacks[t][j]) /\ stacks[t][j].val \in Temps(f')
                   /\ newToOld'[stacks[t][j].val] = t
        BY <1>6, <3>5 DEF STyped
      <4>2. CASE t # o
        <5>1. stacks'[t] = stacks[t]
          BY <1>3, <3>2, <4>2
        <5>2. QED
          BY <4>1, <5>1
      <4>3. CASE t = o
        <5>1. stacks'[t] = Append(stacks[t], x)
          BY <1>3, <3>1, <3>2, <4>3 DEF x
        <5>2. stacks'[t][i] = x \/ (i \in DOMAIN stacks[t] /\ stacks'[t][i] = stacks[t][i])
          <6>1. stacks[t] \in Seq(Ref)
            BY <3>8, <4>3
          <6>2. ASSUME NEW q \in Seq(Ref), NEW j \in DOMAIN Append(q, x)
                PROVE  Append(q, x)[j] = x \/ (j \in DOMAIN q /\ Append(q, x)[j] = q[j])
            BY <3>8
          <6>3. i \in DOMAIN Append(stacks[t], x)
            BY <5>1
          <6>4. Append(stacks[t], x)[i] = x
                \/ (i \in DOMAIN stacks[t] /\ Append(stacks[t], x)[i] = stacks[t][i])
            BY <6>1, <6>2, <6>3
          <6>5. QED
            BY <5>1, <6>4
        <5>3. QED
          BY <3>6, <3>7, <4>1, <4>3, <5>2 DEF x
      <4>4. QED
        BY <4>2, <4>3
    <3>12. QED
      BY <3>4, <3>5, <3>10, <3>11 DEF STyped
  <2>3. QED
    BY <2>1, <2>2
<1>8. \A b \in Blocks(source) : Len(f'.phis[b]) = Len(f.phis[b]) /\ Len(f'.ins[b]) = Len(f.ins[b])
  BY <1>1 DEF Renamed
<1>9. \A b \in Blocks(source) : DOMAIN f'.phis[b] = DOMAIN f.phis[b] /\ DOMAIN f'.ins[b] = DOMAIN f.ins[b]
  <2>1. \A b \in Blocks(source) : f'.phis[b] \in Seq(Phi) /\ f'.ins[b] \in Seq(Instruction)
    OBVIOUS
  <2>2. \A V : \A s \in Seq(V) : DOMAIN s = 1 .. Len(s)
    OBVIOUS
  <2>3. QED
    BY <1>1, <1>8, <2>1, <2>2
<1>10. ASSUME NEW b \in Blocks(source), NEW m \in 1 .. NItems(f, b)
       PROVE  RefOK(f', ItemTo(f', b, m))
  <2>1. RefOK(f, ItemTo(f, b, m))
    BY ItemsTyped
  <2>2. RefOK(f', ItemTo(f, b, m))
    BY <1>1, <1>5, <2>1, RefGrows
  <2>3. IsTmp(r) => RefOK(f', Tmp(f.ntmp))
    BY <1>1, <1>4 DEF RefOK, Tmp, IsTmp, Ref, RefKinds, Temps
  <2>4. ItemTo(f', b, m) = ItemTo(f, b, m) \/ (IsTmp(r) /\ ItemTo(f', b, m) = Tmp(f.ntmp))
    BY <1>1 DEF Renamed, r
  <2>5. QED
    BY <2>2, <2>3, <2>4
<1>11. ASSUME NEW b \in Blocks(source)
       PROVE  /\ \A i \in DOMAIN f'.ins[b] : RefOK(f', f'.ins[b][i].to)
              /\ \A i \in DOMAIN f'.phis[b] : RefOK(f', f'.phis[b][i].to)
  <2> DEFINE u == Len(f.phis[b])
             v == Len(f.ins[b])
  <2>1. u \in Nat /\ v \in Nat /\ DOMAIN f'.phis[b] = 1 .. u /\ DOMAIN f'.ins[b] = 1 .. v
        /\ Len(f'.phis[b]) = u /\ NItems(f, b) = u + v
    BY <1>1, <1>8, <1>9 DEF NItems
  <2> HIDE DEF u, v
  <2>2. \A i \in 1 .. v : u + i \in 1 .. u + v /\ ~(u + i <= u) /\ u + i - u = i
    BY <2>1
  <2>3. \A i \in 1 .. v : ItemTo(f', b, u + i) = f'.ins[b][i].to
    BY <2>1, <2>2 DEF ItemTo
  <2>4. \A i \in 1 .. u : i \in 1 .. u + v /\ i <= u
    BY <2>1
  <2>5. \A i \in 1 .. u : ItemTo(f', b, i) = f'.phis[b][i].to
    BY <2>1, <2>4 DEF ItemTo
  <2>6. QED
    BY <1>10, <2>1, <2>2, <2>3, <2>4, <2>5
<1>12. ASSUME NEW b \in Blocks(source)
       PROVE  /\ RefOK(f', f'.jmp[b].arg)
              /\ \A i \in DOMAIN f'.phis[b] :
                   LET p == f'.phis[b][i] IN
                   /\ Len(p.args) = Len(p.blks)
                   /\ \A e \in Elems(p.args) \cup {p.to} : RefOK(f', e)
  <2>1. RefOK(f, f.jmp[b].arg) /\ RefOK(f', f'.jmp[b].arg)
    BY <1>1, <1>4, <1>5, RefGrows DEF IsFunction
  <2>2. ASSUME NEW i \in DOMAIN f.phis[b]
        PROVE  /\ Len(f.phis[b][i].args) = Len(f.phis[b][i].blks)
               /\ \A e \in Elems(f.phis[b][i].args) : RefOK(f', e)
    <3>1. /\ Len(f.phis[b][i].args) = Len(f.phis[b][i].blks)
          /\ \A e \in Elems(f.phis[b][i].args) : RefOK(f, e)
      BY <1>1 DEF IsFunction
    <3>2. QED
      BY <1>1, <1>5, <3>1, RefGrows
  <2>3. \A i \in DOMAIN f.phis[b] : f'.phis[b][i].args = f.phis[b][i].args
                                    /\ f'.phis[b][i].blks = f.phis[b][i].blks
    BY <1>1 DEF Renamed
  <2>4. QED
    BY <1>9, <1>11, <2>1, <2>2, <2>3
<1>13. IsFunction(f')
  <2>1. f'.s1 = f.s1 /\ f'.s2 = f.s2 /\ f'.pred = f.pred
    BY DEF Renamed, SameGraph
  <2>2. ASSUME NEW b \in Blocks(source)
        PROVE  \A i \in DOMAIN f'.ins[b] : \A e \in Elems(f'.ins[b][i].arg) \cup {f'.ins[b][i].to} : RefOK(f', e)
    BY <1>9, <1>11
  <2>3. /\ f.s1 \in [Blocks(source) -> Blocks(source) \cup {Nil}]
        /\ f.s2 \in [Blocks(source) -> Blocks(source) \cup {Nil}]
        /\ f.pred \in [Blocks(source) -> Seq(Blocks(source))]
    BY <1>1 DEF IsFunction
  <2>4. QED
    BY <1>1, <1>4, <1>5, <1>12, <2>1, <2>2, <2>3 DEF IsFunction
<1>14. \A b \in Blocks(source) : Len(f'.ins[b]) = Len(source.ins[b])
  BY <1>8 DEF NTyped
<1>15. NTyped'
  <2>1. \A t \in Temps(source) : newToOld'[t] = t
    <3>1. \A t \in Temps(source) : t \in Temps(f)
      BY <1>1 DEF Temps
    <3>2. QED
      BY <1>3, <1>7, <3>1
  <2>2. QED
    BY <1>4, <1>5, <1>7, <1>13, <1>14, <2>1 DEF NTyped
<1>16. QED
  BY <1>5, <1>6, <1>7, <1>15

\* The two kinds of items of a block.
LEMMA ItemKinds ==
  ASSUME NEW g, NEW b, Len(g.phis[b]) \in Nat, Len(g.ins[b]) \in Nat
  PROVE  /\ NItems(g, b) \in Nat
         /\ \A j \in 1 .. Len(g.phis[b]) : j \in 1 .. NItems(g, b) /\ ItemTo(g, b, j) = g.phis[b][j].to
         /\ \A i \in 1 .. Len(g.ins[b]) :
              Len(g.phis[b]) + i \in 1 .. NItems(g, b) /\ ItemTo(g, b, Len(g.phis[b]) + i) = g.ins[b][i].to
<1> DEFINE u == Len(g.phis[b])
           v == Len(g.ins[b])
<1>1. u \in Nat /\ v \in Nat /\ NItems(g, b) = u + v
  BY DEF NItems
<1>2. \A m : ItemTo(g, b, m) = IF m <= u THEN g.phis[b][m].to ELSE g.ins[b][m - u].to
  BY DEF ItemTo
<1> HIDE DEF u, v
<1>3. /\ \A j \in 1 .. u : j \in 1 .. u + v /\ j <= u
      /\ \A i \in 1 .. v : u + i \in 1 .. u + v /\ ~(u + i <= u) /\ u + i - u = i
  BY <1>1
<1>4. \A j \in 1 .. u : j \in 1 .. NItems(g, b) /\ ItemTo(g, b, j) = g.phis[b][j].to
  BY <1>1, <1>2, <1>3
<1>5. \A i \in 1 .. v : u + i \in 1 .. NItems(g, b) /\ ItemTo(g, b, u + i) = g.ins[b][i].to
  <2> SUFFICES ASSUME NEW i \in 1 .. v
               PROVE  u + i \in 1 .. NItems(g, b) /\ ItemTo(g, b, u + i) = g.ins[b][i].to
    OBVIOUS
  <2>1. u + i \in 1 .. NItems(g, b) /\ ~(u + i <= u)
    BY <1>1, <1>3
  <2> DEFINE m == u + i
  <2>2. ItemTo(g, b, m) = IF m <= u THEN g.phis[b][m].to ELSE g.ins[b][m - u].to
    BY <1>2
  <2> HIDE DEF m
  <2>2a. ItemTo(g, b, m) = g.ins[b][m - u].to
    BY <2>1, <2>2 DEF m
  <2>3. m - u = i
    BY <1>1 DEF m
  <2>4. ItemTo(g, b, m) = g.ins[b][i].to
    BY <2>2a, <2>3
  <2>5. QED
    BY <2>1, <2>4 DEF m
<1>6. NItems(g, b) \in Nat
  BY <1>1
<1>7. QED
  BY <1>4, <1>5, <1>6 DEF u, v

\* Renaming an item changes no other, and not what the names stand for.
LEMMA RenamedStands ==
  ASSUME NTyped, NEW c \in Blocks(source), NEW n \in 1 .. NItems(f, c),
         Renamed(f, f', c, n), Pushed(ItemTo(f, c, n)),
         NEW b \in Blocks(source), NEW m \in 1 .. NItems(f, b)
  PROVE  /\ m \in 1 .. NItems(f', b)
         /\ IsTmp(ItemTo(f', b, m)) <=> IsTmp(ItemTo(f, b, m))
         /\ IsTmp(ItemTo(f, b, m)) =>
              newToOld'[ItemTo(f', b, m).val] = newToOld[ItemTo(f, b, m).val]
<1> DEFINE r == ItemTo(f, c, n)
           x == ItemTo(f, b, m)
           y == ItemTo(f', b, m)
<1>1. Blocks(f) = Blocks(source) /\ f.ntmp \in Nat
  BY NTypedFacts
<1>2. RefOK(f, r) /\ RefOK(f, x)
  BY ItemsTyped
<1>3. /\ Len(f'.phis[b]) = Len(f.phis[b]) /\ Len(f'.ins[b]) = Len(f.ins[b])
      /\ y = IF b = c /\ m = n /\ IsTmp(r) THEN Tmp(f.ntmp) ELSE x
  BY <1>1 DEF Renamed
<1>4. b = c /\ m = n => x = r
  OBVIOUS
<1>5. IsTmp(x) => x.val \in Temps(f) /\ x.val # f.ntmp /\ x.val \in 0 .. f.ntmp
  BY <1>1, <1>2 DEF RefOK, Temps
<1>6. Pushed(r)
  OBVIOUS
<1> HIDE DEF r, x, y
<1>7. IsTmp(x) => newToOld'[x.val] = newToOld[x.val]
  <2>1. CASE IsTmp(r)
    BY <1>5, <1>6, <2>1 DEF Pushed
  <2>2. CASE ~IsTmp(r)
    BY <1>6, <2>2 DEF Pushed
  <2>3. QED
    BY <2>1, <2>2
<1>8. IsTmp(r) => IsTmp(Tmp(f.ntmp)) /\ Tmp(f.ntmp).val = f.ntmp /\ newToOld'[f.ntmp] = newToOld[r.val]
  BY <1>1, <1>6 DEF Pushed, IsTmp, Tmp
<1>9. (IsTmp(y) <=> IsTmp(x)) /\ (IsTmp(x) => newToOld'[y.val] = newToOld[x.val])
  BY <1>3, <1>4, <1>7, <1>8
<1>10. m \in 1 .. NItems(f', b)
  BY <1>3 DEF NItems
<1>11. QED
  BY <1>9, <1>10 DEF x, y

\* The results of the source stay behind the names.
LEMMA RenamedErased ==
  ASSUME NTyped, NEW c \in Blocks(source), NEW n \in 1 .. NItems(f, c),
         Renamed(f, f', c, n), Pushed(ItemTo(f, c, n)), NTyped', UNCHANGED <<source, in, fron>>,
         Erased(f, newToOld, source, in, fron)
  PROVE  Erased(f', newToOld', source, in, fron)
<1>1. /\ Blocks(f) = Blocks(source) /\ Blocks(f') = Blocks(source)
      /\ \A b \in Blocks(source) : Len(f.phis[b]) \in Nat /\ Len(f.ins[b]) \in Nat
                                   /\ DOMAIN f.phis[b] = 1 .. Len(f.phis[b])
                                   /\ DOMAIN f.ins[b] = 1 .. Len(f.ins[b])
  BY NTypedFacts DEF Renamed, SameGraph, Blocks
<1>2. \A b \in Blocks(source) : DOMAIN f'.phis[b] = DOMAIN f.phis[b] /\ DOMAIN f'.ins[b] = DOMAIN f.ins[b]
                                /\ Len(f'.phis[b]) = Len(f.phis[b]) /\ Len(f'.ins[b]) = Len(f.ins[b])
  <2>1. \A b \in Blocks(source) : Len(f'.phis[b]) = Len(f.phis[b]) /\ Len(f'.ins[b]) = Len(f.ins[b])
    BY <1>1 DEF Renamed
  <2>2. /\ f'.phis \in [Blocks(source) -> Seq(Phi)] /\ f'.ins \in [Blocks(source) -> Seq(Instruction)]
    BY <1>1 DEF NTyped, IsFunction
  <2>3. \A b \in Blocks(source) : f'.phis[b] \in Seq(Phi) /\ f'.ins[b] \in Seq(Instruction)
    BY <2>2
  <2>4. \A V : \A s \in Seq(V) : DOMAIN s = 1 .. Len(s)
    OBVIOUS
  <2>5. \A b \in Blocks(source) : DOMAIN f'.phis[b] = 1 .. Len(f'.phis[b]) /\ DOMAIN f'.ins[b] = 1 .. Len(f'.ins[b])
    BY <2>3, <2>4
  <2>6. QED
    BY <1>1, <2>1, <2>5
<1>3. ASSUME NEW b \in Blocks(source), NEW j \in DOMAIN f.phis[b]
      PROVE  /\ IsTmp(f'.phis[b][j].to) /\ IsTmp(f.phis[b][j].to)
             /\ newToOld'[f'.phis[b][j].to.val] = newToOld[f.phis[b][j].to.val]
  <2>0. /\ Len(f.phis[b]) \in Nat /\ Len(f.ins[b]) \in Nat /\ j \in 1 .. Len(f.phis[b])
        /\ Len(f'.phis[b]) \in Nat /\ Len(f'.ins[b]) \in Nat /\ j \in 1 .. Len(f'.phis[b])
    BY <1>1, <1>2
  <2>1. /\ j \in 1 .. NItems(f, b) /\ ItemTo(f, b, j) = f.phis[b][j].to
        /\ ItemTo(f', b, j) = f'.phis[b][j].to
    BY <2>0, ItemKinds, SMTT(30)
  <2>2. IsTmp(f.phis[b][j].to)
    BY DEF Erased
  <2>3. QED
    BY <2>1, <2>2, RenamedStands
<1>4. ASSUME NEW b \in Blocks(source), NEW i \in DOMAIN f.ins[b]
      PROVE  /\ IsTmp(f'.ins[b][i].to) <=> IsTmp(f.ins[b][i].to)
             /\ IsTmp(f.ins[b][i].to) => newToOld'[f'.ins[b][i].to.val] = newToOld[f.ins[b][i].to.val]
  <2> DEFINE m == Len(f.phis[b]) + i
  <2>0. Len(f.phis[b]) \in Nat /\ Len(f.ins[b]) \in Nat /\ i \in 1 .. Len(f.ins[b])
    BY <1>1
  <2>1. m \in 1 .. NItems(f, b) /\ ItemTo(f, b, m) = f.ins[b][i].to
    BY <2>0, ItemKinds
  <2>2. Len(f'.phis[b]) \in Nat /\ Len(f'.ins[b]) \in Nat /\ i \in 1 .. Len(f'.ins[b])
    BY <1>1, <1>2
  <2>3. ItemTo(f', b, Len(f'.phis[b]) + i) = f'.ins[b][i].to
    BY <2>2, ItemKinds
  <2>4. ItemTo(f', b, m) = f'.ins[b][i].to
    BY <1>2, <2>3
  <2> HIDE DEF m
  <2>5. QED
    BY <2>1, <2>4, RenamedStands
<1>5. \A t : PhiOf(f', newToOld', t) = PhiOf(f, newToOld, t)
  BY <1>1, <1>2, <1>3, ZenonT(60) DEF PhiOf
<1>6. \A t \in Temps(source) : PhisFor(f', newToOld', fron, in, source, t)
  BY <1>5 DEF Erased, PhisFor
<1>7. \A b \in Blocks(source) : \A j \in DOMAIN f'.phis[b] :
        IsTmp(f'.phis[b][j].to) /\ newToOld'[f'.phis[b][j].to.val] \in in[b]
  BY <1>2, <1>3 DEF Erased
<1>8. \A b \in Blocks(source) : \A i \in DOMAIN f'.ins[b] :
        /\ IsTmp(f'.ins[b][i].to) <=> IsTmp(source.ins[b][i].to)
        /\ IsTmp(f'.ins[b][i].to) => newToOld'[f'.ins[b][i].to.val] = source.ins[b][i].to.val
  BY <1>2, <1>4 DEF Erased
<1>9. QED
  BY <1>6, <1>7, <1>8 DEF Erased

\* The renamed item is the one rename passes now.
LEMMA RenamedNamed ==
  ASSUME Analysed, NTyped, NEW E, NEW c \in Blocks(source), c \in E, NEW n \in 1 .. NItems(f, c),
         Renamed(f, f', c, n), Pushed(ItemTo(f, c, n)), Named(f, source, E, c, n)
  PROVE  Named(f', source, E, c, n + 1)
<1>1. /\ Blocks(f) = Blocks(source) /\ f.ntmp \in Nat /\ f.ntmp >= source.ntmp /\ source.ntmp \in Nat
      /\ \A b \in Blocks(source) : Len(f.phis[b]) \in Nat /\ Len(f.ins[b]) \in Nat
      /\ \A b \in Blocks(source) : NItems(f, b) \in Nat
  <2>1. /\ Blocks(f) = Blocks(source) /\ f.ntmp \in Nat /\ f.ntmp >= source.ntmp /\ source.ntmp \in Nat
        /\ \A b \in Blocks(source) : Len(f.phis[b]) \in Nat /\ Len(f.ins[b]) \in Nat
    BY NTypedFacts, SourceFacts DEF NTyped
  <2>2. ASSUME NEW b \in Blocks(source)
        PROVE  NItems(f, b) \in Nat
    <3>1. Len(f.phis[b]) \in Nat /\ Len(f.ins[b]) \in Nat
      BY <2>1
    <3>2. QED
      BY <3>1, ItemKinds
  <2>3. QED
    BY <2>1, <2>2
<1>2. \A b \in Blocks(source) : NItems(f', b) = NItems(f, b)
  BY <1>1 DEF Renamed, NItems
<1>3. n \in Nat \ {0} /\ n <= NItems(f, c)
  BY <1>1
<1> DEFINE r == ItemTo(f, c, n)
           new == IsTmp(r)
<1>4. \A b \in Blocks(source) : \A m \in 1 .. NItems(f, b) :
        ItemTo(f', b, m) = IF b = c /\ m = n /\ new THEN Tmp(f.ntmp) ELSE ItemTo(f, b, m)
  BY <1>1 DEF Renamed
<1>5. IsNew(source, Tmp(f.ntmp)) /\ Tmp(f.ntmp).val = f.ntmp /\ IsTmp(Tmp(f.ntmp))
  BY <1>1 DEF IsNew, Tmp, IsTmp
<1>6. \A b \in Blocks(source) : \A m \in 1 .. NItems(f, b) : ItemTo(f, b, m) # Tmp(f.ntmp)
  <2> SUFFICES ASSUME NEW b \in Blocks(source), NEW m \in 1 .. NItems(f, b), ItemTo(f, b, m) = Tmp(f.ntmp)
               PROVE  FALSE
    OBVIOUS
  <2>1. RefOK(f, ItemTo(f, b, m))
    BY ItemsTyped
  <2>2. f.ntmp \in Temps(f)
    BY <1>5, <2>1 DEF RefOK
  <2>3. QED
    BY <1>1, <2>2 DEF Temps
<1>7. \A b \in Blocks(source) : \A m \in 1 .. NItems(f, b) :
        Passed(E, c, n + 1, b, m) <=> (Passed(E, c, n, b, m) \/ (b = c /\ m = n))
  <2> SUFFICES ASSUME NEW b \in Blocks(source), NEW m \in 1 .. NItems(f, b)
               PROVE  Passed(E, c, n + 1, b, m) <=> (Passed(E, c, n, b, m) \/ (b = c /\ m = n))
    OBVIOUS
  <2>1. m \in Nat
    BY <1>1
  <2>2. m < n + 1 <=> m < n \/ m = n
    BY <1>3, <2>1
  <2>3. QED
    BY <1>3, <2>2 DEF Passed
<1>8. ~Passed(E, c, n, c, n)
  BY <1>3 DEF Passed
<1> HIDE DEF r
<1>9. ASSUME NEW b \in Blocks(source), NEW m \in 1 .. NItems(f, b), IsTmp(ItemTo(f', b, m))
      PROVE  IsNew(source, ItemTo(f', b, m)) <=> Passed(E, c, n + 1, b, m)
  <2>1. CASE b = c /\ m = n
    BY <1>4, <1>5, <1>7, <1>9, <2>1 DEF r
  <2>2. CASE ~(b = c /\ m = n)
    BY <1>4, <1>7, <1>9, <2>2 DEF Named
  <2>3. QED
    BY <2>1, <2>2
<1>10. ASSUME NEW a \in Blocks(source), NEW b \in Blocks(source),
              NEW l \in 1 .. NItems(f, a), NEW m \in 1 .. NItems(f, b),
              IsNew(source, ItemTo(f', a, l)), ItemTo(f', a, l) = ItemTo(f', b, m)
       PROVE  a = b /\ l = m
  <2>1. CASE new
    BY <1>4, <1>6, <1>10, <2>1 DEF Named
  <2>2. CASE ~new
    BY <1>4, <1>10, <2>2 DEF Named
  <2>3. QED
    BY <2>1, <2>2
<1>11. n + 1 <= NItems(f', c) + 1
  BY <1>1, <1>2, <1>3
<1>12. QED
  BY <1>2, <1>9, <1>10, <1>11 DEF Named

-----------------------------------------------------------------------------
\* The renamed item is the only one whose operands have changed.
LEMMA RenamedUnread ==
  ASSUME Analysed, NTyped, NTyped', source' = source,
         NEW E, NEW c \in Blocks(source), c \in E, NEW n \in 1 .. NItems(f, c),
         Renamed(f, f', c, n), Unread(f, source, E, c, n)
  PROVE  Unread(f', source, E, c, n + 1)
<1>1. /\ Blocks(f) = Blocks(source)
      /\ \A b \in Blocks(source) : Len(f.phis[b]) \in Nat /\ Len(f.ins[b]) \in Nat
                                   /\ DOMAIN f.ins[b] = 1 .. Len(f.ins[b])
  BY NTypedFacts
<1>2. f'.ins \in [Blocks(source) -> Seq(Instruction)]
  BY NTypedFacts, <1>1 DEF NTyped, IsFunction, SameGraph, Blocks
<1>3. \A b \in Blocks(source) : f'.ins[b] \in Seq(Instruction)
  BY <1>2
<1>4. \A V : \A s \in Seq(V) : DOMAIN s = 1 .. Len(s)
  OBVIOUS
<1>5. \A b \in Blocks(source) : DOMAIN f'.ins[b] = DOMAIN f.ins[b] /\ Len(f'.phis[b]) = Len(f.phis[b])
  <2>1. \A b \in Blocks(source) : Len(f'.ins[b]) = Len(f.ins[b]) /\ Len(f'.phis[b]) = Len(f.phis[b])
    BY <1>1 DEF Renamed
  <2>2. QED
    BY <1>1, <1>3, <1>4, <2>1
<1>6. NItems(f, c) \in Nat /\ n \in Nat \ {0}
  <2>1. Len(f.phis[c]) \in Nat /\ Len(f.ins[c]) \in Nat
    BY <1>1
  <2>2. NItems(f, c) \in Nat
    BY <2>1, ItemKinds
  <2>3. QED
    BY <2>2
<1>7. ASSUME NEW b \in Blocks(source), NEW i \in DOMAIN f'.ins[b]
      PROVE  Passed(E, c, n + 1, b, Len(f'.phis[b]) + i) \/ f'.ins[b][i].arg = source.ins[b][i].arg
  <2> DEFINE m == Len(f.phis[b]) + i
  <2>1. m \in Nat /\ i \in DOMAIN f.ins[b] /\ Len(f'.phis[b]) + i = m
    <3>1. i \in 1 .. Len(f.ins[b]) /\ Len(f.phis[b]) \in Nat /\ Len(f.ins[b]) \in Nat
      BY <1>1, <1>5
    <3>2. \A u, v \in Nat : \A x \in 1 .. v : u + x \in Nat
      OBVIOUS
    <3>3. m \in Nat
      BY <3>1, <3>2
    <3>4. QED
      BY <1>1, <1>5, <3>3
  <2>2. Passed(E, c, n, b, m) \/ f.ins[b][i].arg = source.ins[b][i].arg
    BY <2>1 DEF Unread
  <2>3. (b = c /\ m = n) \/ f'.ins[b][i].arg = f.ins[b][i].arg
    BY <1>1, <2>1 DEF Renamed
  <2> HIDE DEF m
  <2>4. Passed(E, c, n, b, m) => Passed(E, c, n + 1, b, m)
    BY <1>6, <2>1 DEF Passed
  <2>5. b = c /\ m = n => Passed(E, c, n + 1, b, m)
    BY <1>6 DEF Passed
  <2>6. QED
    BY <2>1, <2>2, <2>3, <2>4, <2>5
<1>8. ASSUME NEW b \in Blocks(source)
      PROVE  Ended(E, c, n + 1, b) \/ f'.jmp[b].arg = source.jmp[b].arg
  <2>1. n > 0 /\ n + 1 > 0
    BY <1>6
  <2>2. f'.jmp = f.jmp
    BY DEF Renamed
  <2>3. QED
    BY <2>1, <2>2 DEF Ended, Unread
<1>9. QED
  BY <1>7, <1>8 DEF Unread

(***************************************************************************)
(* The stacks.  Of the stack of t, the part between the height that the    *)
(* i-th call of walk noted and that of the next call is what the i-th call *)
(* has put there: names it gave, and at least one if it gave t a name.     *)
(***************************************************************************)
Hgt(w, s, i, t) == IF i > Len(w) THEN Len(s[t]) ELSE w[i].heights[t]

Stacked(w, s, g, h, N) ==
  \A t \in Temps(h) :
    /\ Hgt(w, s, 1, t) = 0
    /\ \A i, j \in 1 .. Len(w) + 1 : i <= j => Hgt(w, s, i, t) <= Hgt(w, s, j, t)
    /\ \A i \in 1 .. Len(w) :
         /\ \A n \in Hgt(w, s, i, t) + 1 .. Hgt(w, s, i + 1, t) :
              \E m \in 1 .. NItems(g, w[i].blk) : s[t][n] = ItemTo(g, w[i].blk, m)
         /\ \A m \in 1 .. NItems(g, w[i].blk) :
              IsNew(h, ItemTo(g, w[i].blk, m)) /\ N[ItemTo(g, w[i].blk, m).val] = t =>
                Hgt(w, s, i, t) < Hgt(w, s, i + 1, t)

\* Heights are natural numbers, at most those of the stacks.
LEMMA Heights ==
  ASSUME WalkTyped, stacks \in [Temps(source) -> Seq(Ref)], NEW t \in Temps(source)
  PROVE  /\ Len(walks) \in Nat /\ DOMAIN walks = 1 .. Len(walks)
         /\ Len(stacks[t]) \in Nat /\ DOMAIN stacks[t] = 1 .. Len(stacks[t])
         /\ \A i \in 1 .. Len(walks) + 1 : Hgt(walks, stacks, i, t) \in Nat
         /\ Hgt(walks, stacks, Len(walks) + 1, t) = Len(stacks[t])
         /\ \A i \in 1 .. Len(walks) : Hgt(walks, stacks, i, t) = walks[i].heights[t]
<1>1. /\ Len(walks) \in Nat /\ DOMAIN walks = 1 .. Len(walks)
  BY DEF WalkTyped
<1>2. stacks[t] \in Seq(Ref)
  OBVIOUS
<1>3. Len(stacks[t]) \in Nat /\ DOMAIN stacks[t] = 1 .. Len(stacks[t])
  BY <1>2
<1>4. \A i \in 1 .. Len(walks) : walks[i].heights[t] \in Nat
  BY <1>1, WalksTyped
<1> DEFINE u == Len(walks)
           v == Len(stacks[t])
<1>5. \A i : Hgt(walks, stacks, i, t) = IF i > u THEN v ELSE walks[i].heights[t]
  BY DEF Hgt
<1>6. u \in Nat /\ v \in Nat /\ \A i \in 1 .. u : walks[i].heights[t] \in Nat
  BY <1>1, <1>3, <1>4
<1> HIDE DEF u, v
<1>7. /\ \A i \in 1 .. u : ~(i > u)
      /\ \A i \in 1 .. u + 1 : i > u \/ i \in 1 .. u
      /\ u + 1 > u /\ u + 1 \in 1 .. u + 1
  BY <1>6
<1>8. \A i \in 1 .. u + 1 : Hgt(walks, stacks, i, t) \in Nat
  BY <1>5, <1>6, <1>7
<1>9. Hgt(walks, stacks, u + 1, t) = v /\ \A i \in 1 .. u : Hgt(walks, stacks, i, t) = walks[i].heights[t]
  BY <1>5, <1>7
<1>10. QED
  BY <1>1, <1>3, <1>8, <1>9 DEF u, v

\* The other items keep their names, and the renamed one had an old one.
LEMMA RenamedNew ==
  ASSUME NTyped, NEW E, NEW c \in Blocks(source), c \in E, NEW n \in 1 .. NItems(f, c),
         Renamed(f, f', c, n), Named(f, source, E, c, n),
         NEW b \in Blocks(source), NEW m \in 1 .. NItems(f, b)
  PROVE  /\ IsNew(source, ItemTo(f, b, m)) => ItemTo(f', b, m) = ItemTo(f, b, m)
         /\ IsNew(source, ItemTo(f', b, m)) =>
              \/ ItemTo(f', b, m) = ItemTo(f, b, m)
              \/ b = c /\ m = n /\ IsTmp(ItemTo(f, c, n)) /\ ItemTo(f', b, m) = Tmp(f.ntmp)
<1>1. Blocks(f) = Blocks(source) /\ Len(f.phis[c]) \in Nat /\ Len(f.ins[c]) \in Nat
  BY NTypedFacts
<1>2. NItems(f, c) \in Nat
  BY <1>1, ItemKinds
<1>3. n \in Nat \ {0}
  BY <1>2
<1>4. ItemTo(f', b, m) = IF b = c /\ m = n /\ IsTmp(ItemTo(f, c, n)) THEN Tmp(f.ntmp)
                         ELSE ItemTo(f, b, m)
  BY <1>1 DEF Renamed
<1>5. ~Passed(E, c, n, c, n)
  BY <1>3 DEF Passed
<1>6. ~IsNew(source, ItemTo(f, c, n))
  BY <1>5 DEF Named, IsNew
<1>7. QED
  BY <1>4, <1>6

\* A new name goes on top of the stack of its temporary, in the part of the innermost call.
LEMMA RenamedStacked ==
  ASSUME Analysed, NTyped, NTyped', STyped(stacks, f, newToOld, source), WalkTyped, Path, walks # <<>>,
         NEW c, c = walks[Len(walks)].blk, c \in entered, NEW n \in 1 .. NItems(f, c),
         Renamed(f, f', c, n), Pushed(ItemTo(f, c, n)), source' = source,
         Named(f, source, entered, c, n), Stacked(walks, stacks, f, source, newToOld)
  PROVE  Stacked(walks, stacks', f', source, newToOld')
<1> DEFINE r == ItemTo(f, c, n)
           o == newToOld[r.val]
           L == Len(walks)
           x == Tmp(f.ntmp)
<1>1. /\ L \in Nat \ {0} /\ DOMAIN walks = 1 .. L
      /\ \A i \in 1 .. L : walks[i].blk \in Blocks(source)
      /\ c \in Blocks(source)
  BY CurMeans, WalksTyped
<1>2. stacks \in [Temps(source) -> Seq(Ref)] /\ stacks' \in [Temps(source) -> Seq(Ref)]
      /\ Blocks(f) = Blocks(source) /\ newToOld \in [Temps(f) -> Temps(source)]
  BY NTypedFacts DEF NTyped
<1>3. RefOK(f, r)
  BY <1>1, ItemsTyped
<1>4. \A b \in Blocks(source) : NItems(f', b) = NItems(f, b)
  BY <1>2 DEF Renamed, NItems
<1>5. Pushed(r)
  OBVIOUS
<1> HIDE DEF L, r
<1>6. ASSUME NEW t \in Temps(source)
      PROVE  /\ \A i \in 1 .. L : Hgt(walks, stacks', i, t) = Hgt(walks, stacks, i, t)
             /\ Hgt(walks, stacks', L + 1, t) = Len(stacks'[t])
             /\ Hgt(walks, stacks, L + 1, t) = Len(stacks[t]) /\ Len(stacks[t]) \in Nat
             /\ \A i \in 1 .. L : Hgt(walks, stacks, i, t) \in Nat
  <2>1. /\ \A i \in 1 .. L : Hgt(walks, stacks, i, t) = walks[i].heights[t]
        /\ Hgt(walks, stacks, L + 1, t) = Len(stacks[t]) /\ Len(stacks[t]) \in Nat
        /\ \A i \in 1 .. L + 1 : Hgt(walks, stacks, i, t) \in Nat
    BY <1>2, Heights DEF L
  <2>2. \A i : Hgt(walks, stacks', i, t) = IF i > L THEN Len(stacks'[t]) ELSE walks[i].heights[t]
    BY DEF Hgt, L
  <2>3. L + 1 > L /\ \A i \in 1 .. L : ~(i > L) /\ i \in 1 .. L + 1
    BY <1>1
  <2>4. QED
    BY <2>1, <2>2, <2>3
<1>7. ASSUME NEW t \in Temps(source), NEW i \in 1 .. L, NEW m \in 1 .. NItems(f, walks[i].blk),
             IsNew(source, ItemTo(f', walks[i].blk, m)),
             ItemTo(f', walks[i].blk, m) = ItemTo(f, walks[i].blk, m),
             newToOld'[ItemTo(f', walks[i].blk, m).val] = t
      PROVE  Hgt(walks, stacks, i, t) < Hgt(walks, stacks, i + 1, t)
  <2> DEFINE y == ItemTo(f, walks[i].blk, m)
  <2>1. RefOK(f, y) /\ IsNew(source, y)
    BY <1>1, <1>7, ItemsTyped
  <2>2. y.val \in Temps(f) /\ y.val # f.ntmp /\ y.val \in 0 .. f.ntmp
    BY <1>2, <2>1, NTypedFacts DEF RefOK, IsNew, Temps
  <2>3. newToOld'[y.val] = t
    BY <1>7
  <2> HIDE DEF y
  <2>4. newToOld[y.val] = t
    BY <1>5, <2>2, <2>3 DEF Pushed
  <2>5. QED
    BY <2>1, <2>4 DEF Stacked, y, L
<1>8. ASSUME NEW i \in 1 .. L, NEW m \in 1 .. NItems(f, walks[i].blk),
             IsNew(source, ItemTo(f, walks[i].blk, m))
      PROVE  ItemTo(f', walks[i].blk, m) = ItemTo(f, walks[i].blk, m)
  BY <1>1, <1>8, RenamedNew
<1>9. ASSUME NEW i \in 1 .. L, NEW m \in 1 .. NItems(f, walks[i].blk),
             IsNew(source, ItemTo(f', walks[i].blk, m))
      PROVE  \/ ItemTo(f', walks[i].blk, m) = ItemTo(f, walks[i].blk, m)
             \/ IsTmp(r) /\ ItemTo(f', walks[i].blk, m) = x /\ walks[i].blk = c
  BY <1>1, <1>9, RenamedNew DEF r
<1>10. ASSUME NEW t \in Temps(source), NEW i \in 1 .. L,
              NEW q \in Hgt(walks, stacks, i, t) + 1 .. Hgt(walks, stacks, i + 1, t)
       PROVE  q \in DOMAIN stacks[t]
              /\ \E m \in 1 .. NItems(f', walks[i].blk) : stacks[t][q] = ItemTo(f', walks[i].blk, m)
  <2>1. i + 1 \in 1 .. L + 1 /\ i + 1 <= L + 1 /\ L + 1 \in 1 .. L + 1 /\ i \in 1 .. L + 1
    BY <1>1
  <2>2. /\ Hgt(walks, stacks, i + 1, t) <= Hgt(walks, stacks, L + 1, t)
        /\ \E m \in 1 .. NItems(f, walks[i].blk) : stacks[t][q] = ItemTo(f, walks[i].blk, m)
    BY <2>1 DEF Stacked, L
  <2>3. /\ Hgt(walks, stacks, L + 1, t) = Len(stacks[t]) /\ DOMAIN stacks[t] = 1 .. Len(stacks[t])
        /\ Hgt(walks, stacks, i, t) \in Nat /\ Hgt(walks, stacks, i + 1, t) \in Nat
        /\ Len(stacks[t]) \in Nat
    BY <1>2, <2>1, Heights DEF L
  <2> DEFINE u == Hgt(walks, stacks, i, t)
             v == Hgt(walks, stacks, i + 1, t)
             w == Len(stacks[t])
  <2>4. u \in Nat /\ v \in Nat /\ w \in Nat /\ v <= w /\ q \in u + 1 .. v
    BY <2>2, <2>3
  <2> HIDE DEF u, v, w
  <2>5. q \in 1 .. w
    BY <2>4
  <2>6. q \in DOMAIN stacks[t]
    BY <2>3, <2>5 DEF w
  <2>7. IsNew(source, stacks[t][q])
    BY <2>6 DEF STyped
  <2>8. QED
    BY <1>1, <1>4, <1>8, <2>2, <2>6, <2>7
<1>11. ASSUME NEW t \in Temps(source), ~(IsTmp(r) /\ t = o)
       PROVE  /\ stacks'[t] = stacks[t] /\ (\A i \in 1 .. L + 1 : Hgt(walks, stacks', i, t) = Hgt(walks, stacks, i, t))
              /\ \A i \in 1 .. L : \A m \in 1 .. NItems(f', walks[i].blk) :
                   IsNew(source, ItemTo(f', walks[i].blk, m)) /\ newToOld'[ItemTo(f', walks[i].blk, m).val] = t
                     => ItemTo(f', walks[i].blk, m) = ItemTo(f, walks[i].blk, m)
  <2>1. stacks'[t] = stacks[t]
    BY <1>2, <1>5, <1>11 DEF Pushed
  <2>2. \A i : Hgt(walks, stacks', i, t) = Hgt(walks, stacks, i, t)
    BY <2>1 DEF Hgt
  <2>3. IsTmp(r) => newToOld'[x.val] = o
    <3>1. f.ntmp \in Nat /\ x.val = f.ntmp
      BY NTypedFacts DEF Tmp
    <3>2. QED
      BY <1>5, <3>1 DEF Pushed
  <2>4. ASSUME NEW i \in 1 .. L, NEW m \in 1 .. NItems(f', walks[i].blk),
               IsNew(source, ItemTo(f', walks[i].blk, m)),
               newToOld'[ItemTo(f', walks[i].blk, m).val] = t
        PROVE  ItemTo(f', walks[i].blk, m) = ItemTo(f, walks[i].blk, m)
    <3>1. m \in 1 .. NItems(f, walks[i].blk)
      BY <1>1, <1>4
    <3>2. QED
      BY <1>9, <1>11, <2>3, <2>4, <3>1
  <2>5. QED
    BY <2>1, <2>2, <2>4
<1>12. ASSUME NEW t \in Temps(source), IsTmp(r), t = o
       PROVE  /\ Len(stacks'[t]) = Len(stacks[t]) + 1
              /\ \A q \in DOMAIN stacks[t] : stacks'[t][q] = stacks[t][q]
              /\ stacks'[t][Len(stacks[t]) + 1] = x
  <2>1. stacks'[t] = Append(stacks[t], x) /\ stacks[t] \in Seq(Ref)
    BY <1>2, <1>5, <1>12 DEF Pushed
  <2>2. \A s \in Seq(Ref) : \A e : /\ Len(Append(s, e)) = Len(s) + 1
                                   /\ \A q \in DOMAIN s : Append(s, e)[q] = s[q]
                                   /\ Append(s, e)[Len(s) + 1] = e
    OBVIOUS
  <2> HIDE DEF x
  <2>3. QED
    BY <2>1, <2>2
<1>13. \A i \in 1 .. L : walks[i].blk = c => i = L
  <2>1. L \in DOMAIN walks /\ \A i \in 1 .. L : i # L => i < L
    BY <1>1
  <2>2. \A i \in 1 .. L : i < L => walks[i].blk < walks[L].blk
    BY <1>1, <2>1 DEF Path
  <2>3. \A i \in 1 .. L : walks[i].blk \in Nat
    BY <1>1 DEF Blocks
  <2>4. walks[L].blk = c
    BY DEF L
  <2>5. \A i \in 1 .. L : walks[i].blk = walks[L].blk => ~(walks[i].blk < walks[L].blk)
    BY <1>1, <2>3
  <2>6. QED
    BY <2>1, <2>2, <2>4, <2>5
<1>14. ItemTo(f', c, n) = x \/ ~IsTmp(r)
  BY <1>1, <1>2 DEF Renamed, r
<1>15. ASSUME NEW t \in Temps(source)
       PROVE  /\ Hgt(walks, stacks, 1, t) = 0
              /\ \A i, j \in 1 .. L + 1 : i <= j => Hgt(walks, stacks, i, t) <= Hgt(walks, stacks, j, t)
  BY DEF Stacked, L
<1> HIDE DEF x, o
<1>16. ASSUME NEW t \in Temps(source), ~(IsTmp(r) /\ t = o)
       PROVE  /\ Hgt(walks, stacks', 1, t) = 0
              /\ \A i, j \in 1 .. L + 1 : i <= j => Hgt(walks, stacks', i, t) <= Hgt(walks, stacks', j, t)
              /\ \A i \in 1 .. L :
                   /\ \A q \in Hgt(walks, stacks', i, t) + 1 .. Hgt(walks, stacks', i + 1, t) :
                        \E m \in 1 .. NItems(f', walks[i].blk) : stacks'[t][q] = ItemTo(f', walks[i].blk, m)
                   /\ \A m \in 1 .. NItems(f', walks[i].blk) :
                        IsNew(source, ItemTo(f', walks[i].blk, m)) /\ newToOld'[ItemTo(f', walks[i].blk, m).val] = t =>
                          Hgt(walks, stacks', i, t) < Hgt(walks, stacks', i + 1, t)
  <2>1. 1 \in 1 .. L + 1 /\ \A i \in 1 .. L : i \in 1 .. L + 1 /\ i + 1 \in 1 .. L + 1
    BY <1>1
  <2>2. \A i \in 1 .. L : NItems(f', walks[i].blk) = NItems(f, walks[i].blk)
    BY <1>1, <1>4
  <2>3. stacks'[t] = stacks[t] /\ (\A i \in 1 .. L + 1 : Hgt(walks, stacks', i, t) = Hgt(walks, stacks, i, t))
    BY <1>11, <1>16
  <2>4. ASSUME NEW i \in 1 .. L,
               NEW q \in Hgt(walks, stacks', i, t) + 1 .. Hgt(walks, stacks', i + 1, t)
        PROVE  \E m \in 1 .. NItems(f', walks[i].blk) : stacks'[t][q] = ItemTo(f', walks[i].blk, m)
    <3>1. q \in Hgt(walks, stacks, i, t) + 1 .. Hgt(walks, stacks, i + 1, t)
      BY <2>1, <2>3
    <3>2. QED
      BY <1>10, <2>3, <3>1
  <2>5. ASSUME NEW i \in 1 .. L, NEW m \in 1 .. NItems(f', walks[i].blk),
               IsNew(source, ItemTo(f', walks[i].blk, m)),
               newToOld'[ItemTo(f', walks[i].blk, m).val] = t
        PROVE  Hgt(walks, stacks', i, t) < Hgt(walks, stacks', i + 1, t)
    <3>1. ItemTo(f', walks[i].blk, m) = ItemTo(f, walks[i].blk, m) /\ m \in 1 .. NItems(f, walks[i].blk)
      BY <1>11, <1>16, <2>2, <2>5
    <3>2. Hgt(walks, stacks, i, t) < Hgt(walks, stacks, i + 1, t)
      BY <1>7, <2>5, <3>1
    <3>3. QED
      BY <2>1, <2>3, <3>2
  <2>6. QED
    BY <1>15, <2>1, <2>3, <2>4, <2>5
<1>17. ASSUME NEW t \in Temps(source), IsTmp(r), t = o
       PROVE  /\ Hgt(walks, stacks', 1, t) = 0
              /\ \A i, j \in 1 .. L + 1 : i <= j => Hgt(walks, stacks', i, t) <= Hgt(walks, stacks', j, t)
              /\ \A i \in 1 .. L :
                   /\ \A q \in Hgt(walks, stacks', i, t) + 1 .. Hgt(walks, stacks', i + 1, t) :
                        \E m \in 1 .. NItems(f', walks[i].blk) : stacks'[t][q] = ItemTo(f', walks[i].blk, m)
                   /\ \A m \in 1 .. NItems(f', walks[i].blk) :
                        IsNew(source, ItemTo(f', walks[i].blk, m)) /\ newToOld'[ItemTo(f', walks[i].blk, m).val] = t =>
                          Hgt(walks, stacks', i, t) < Hgt(walks, stacks', i + 1, t)
  <2> DEFINE H == [i \in 1 .. L + 1 |-> Hgt(walks, stacks, i, t)]
             K == [i \in 1 .. L + 1 |-> Hgt(walks, stacks', i, t)]
             l == Len(stacks[t])
  <2>1. /\ \A i \in 1 .. L : K[i] = H[i] /\ H[i] \in Nat
        /\ K[L + 1] = l + 1 /\ H[L + 1] = l /\ l \in Nat
        /\ H[1] = 0 /\ \A i, j \in 1 .. L + 1 : i <= j => H[i] <= H[j]
    <3>1. \A i \in 1 .. L : i \in 1 .. L + 1 /\ L + 1 \in 1 .. L + 1 /\ 1 \in 1 .. L + 1
      BY <1>1
    <3>2. L \in 1 .. L
      BY <1>1
    <3>3. QED
      BY <1>6, <1>12, <1>15, <1>17, <3>1, <3>2
  <2> HIDE DEF H, K
  <2> HIDE DEF l
  <2>2. K[1] = 0 /\ \A i, j \in 1 .. L + 1 : i <= j => K[i] <= K[j]
    <3>1. \A i \in 1 .. L + 1 : i \in 1 .. L \/ i = L + 1
      BY <1>1
    <3>2. 1 \in 1 .. L /\ \A j \in 1 .. L : ~(L + 1 <= j) /\ j <= L + 1
      BY <1>1
    <3>3. ASSUME NEW i \in 1 .. L + 1, NEW j \in 1 .. L + 1, i <= j
          PROVE  K[i] <= K[j]
      <4>1. H[i] <= H[j]
        BY <2>1, <3>3
      <4>2. CASE j = L + 1
        <5>1. CASE i = L + 1
          BY <2>1, <4>2, <5>1
        <5>2. CASE i \in 1 .. L
          <6>1. K[i] = H[i] /\ H[i] \in Nat /\ H[i] <= l /\ K[j] = l + 1
            BY <2>1, <4>1, <4>2, <5>2
          <6>2. QED
            BY <2>1, <6>1
        <5>3. QED
          BY <3>1, <5>1, <5>2
      <4>3. CASE j \in 1 .. L
        <5>1. i \in 1 .. L
          BY <3>1, <3>2, <3>3, <4>3
        <5>2. QED
          BY <2>1, <4>1, <4>3, <5>1
      <4>4. QED
        BY <3>1, <4>2, <4>3
    <3>4. QED
      BY <2>1, <3>2, <3>3
  <2>3. \A i \in 1 .. L : i \in 1 .. L + 1 /\ i + 1 \in 1 .. L + 1 /\ (i = L \/ i + 1 \in 1 .. L)
    BY <1>1
  <2>4. \A i \in 1 .. L : NItems(f', walks[i].blk) = NItems(f, walks[i].blk)
    BY <1>1, <1>4
  <2>5. ASSUME NEW i \in 1 .. L, NEW q \in K[i] + 1 .. K[i + 1]
        PROVE  \E m \in 1 .. NItems(f', walks[i].blk) : stacks'[t][q] = ItemTo(f', walks[i].blk, m)
    <3>1. K[i] = H[i] /\ H[i] \in Nat
      BY <2>1
    <3>2. ASSUME q \in H[i] + 1 .. H[i + 1]
          PROVE  \E m \in 1 .. NItems(f', walks[i].blk) : stacks'[t][q] = ItemTo(f', walks[i].blk, m)
      <4>1. q \in Hgt(walks, stacks, i, t) + 1 .. Hgt(walks, stacks, i + 1, t)
        BY <2>3, <3>2 DEF H
      <4>2. QED
        BY <1>10, <1>12, <1>17, <4>1
    <3>3. CASE i = L
      <4>1. K[i + 1] = l + 1 /\ H[i + 1] = l
        BY <2>1, <3>3
      <4>2. q \in H[i] + 1 .. l \/ q = l + 1
        BY <2>1, <3>1, <4>1
      <4>3. CASE q = l + 1
        <5>1. stacks'[t][q] = x
          BY <1>12, <1>17, <4>3 DEF l
        <5>2. walks[i].blk = c
          BY <3>3 DEF L
        <5>3. QED
          BY <1>1, <1>4, <1>14, <1>17, <5>1, <5>2
      <4>4. QED
        BY <3>2, <4>1, <4>2, <4>3
    <3>4. CASE i + 1 \in 1 .. L
      BY <2>1, <3>1, <3>2, <3>4
    <3>5. QED
      BY <2>3, <3>3, <3>4
  <2>6. ASSUME NEW i \in 1 .. L, NEW m \in 1 .. NItems(f', walks[i].blk),
               IsNew(source, ItemTo(f', walks[i].blk, m)),
               newToOld'[ItemTo(f', walks[i].blk, m).val] = t
        PROVE  K[i] < K[i + 1]
    <3>1. m \in 1 .. NItems(f, walks[i].blk)
      BY <2>4
    <3>2. K[i] = H[i] /\ H[i] \in Nat
      BY <2>1
    <3>3. H[i + 1] <= K[i + 1] /\ (i = L => H[i + 1] < K[i + 1]) /\ H[i + 1] \in Nat /\ K[i + 1] \in Nat
      <4>1. CASE i = L
        <5>1. K[i + 1] = l + 1 /\ H[i + 1] = l
          BY <2>1, <4>1
        <5>2. QED
          BY <2>1, <5>1
      <4>2. CASE i + 1 \in 1 .. L
        <5>1. K[i + 1] = H[i + 1] /\ H[i + 1] \in Nat /\ i # L
          BY <1>1, <2>1, <4>2
        <5>2. QED
          BY <5>1
      <4>3. QED
        BY <2>3, <4>1, <4>2
    <3>4. CASE ItemTo(f', walks[i].blk, m) = ItemTo(f, walks[i].blk, m)
      <4>1. H[i] < H[i + 1]
        BY <1>7, <2>3, <2>6, <3>1, <3>4 DEF H
      <4>2. QED
        BY <3>2, <3>3, <4>1
    <3>5. CASE walks[i].blk = c
      <4>1. i = L
        BY <1>13, <3>5
      <4>2. H[i] <= H[i + 1]
        <5>1. i <= i + 1
          BY <1>1
        <5>2. QED
          BY <2>1, <2>3, <5>1
      <4>3. QED
        BY <3>2, <3>3, <4>1, <4>2
    <3>6. QED
      BY <1>9, <2>6, <3>1, <3>4, <3>5
  <2>7. (\A i \in 1 .. L + 1 : K[i] = Hgt(walks, stacks', i, t)) /\ 1 \in 1 .. L + 1
    BY <1>1 DEF K
  <2>8. ASSUME NEW i \in 1 .. L
        PROVE  /\ \A q \in Hgt(walks, stacks', i, t) + 1 .. Hgt(walks, stacks', i + 1, t) :
                     \E m \in 1 .. NItems(f', walks[i].blk) : stacks'[t][q] = ItemTo(f', walks[i].blk, m)
               /\ \A m \in 1 .. NItems(f', walks[i].blk) :
                     IsNew(source, ItemTo(f', walks[i].blk, m)) /\ newToOld'[ItemTo(f', walks[i].blk, m).val] = t =>
                       Hgt(walks, stacks', i, t) < Hgt(walks, stacks', i + 1, t)
    <3>1. K[i] = Hgt(walks, stacks', i, t) /\ K[i + 1] = Hgt(walks, stacks', i + 1, t)
      BY <2>3, <2>7
    <3>2. QED
      BY <2>5, <2>6, <3>1
  <2>9. /\ Hgt(walks, stacks', 1, t) = 0
        /\ \A i, j \in 1 .. L + 1 : i <= j => Hgt(walks, stacks', i, t) <= Hgt(walks, stacks', j, t)
    BY <2>2, <2>7
  <2>10. QED
    BY <2>8, <2>9
<1>18. \A t \in Temps(source) :
              /\ Hgt(walks, stacks', 1, t) = 0
              /\ \A i, j \in 1 .. L + 1 : i <= j => Hgt(walks, stacks', i, t) <= Hgt(walks, stacks', j, t)
              /\ \A i \in 1 .. L :
                   /\ \A q \in Hgt(walks, stacks', i, t) + 1 .. Hgt(walks, stacks', i + 1, t) :
                        \E m \in 1 .. NItems(f', walks[i].blk) : stacks'[t][q] = ItemTo(f', walks[i].blk, m)
                   /\ \A m \in 1 .. NItems(f', walks[i].blk) :
                        IsNew(source, ItemTo(f', walks[i].blk, m)) /\ newToOld'[ItemTo(f', walks[i].blk, m).val] = t =>
                          Hgt(walks, stacks', i, t) < Hgt(walks, stacks', i + 1, t)
  BY <1>16, <1>17
<1>19. QED
  BY <1>18 DEF Stacked, L

\* A call notes the heights, and has put nothing there.
LEMMA EnterStacked ==
  ASSUME Analysed, NTyped, WInv, Named(f, source, entered, Cur, next), Enter,
         Stacked(walks, stacks, f, source, newToOld)
  PROVE  Stacked(walks', stacks', f', source', newToOld')
<1> DEFINE L == Len(walks)
           e == [blk |-> at, heights |-> [t \in DOMAIN stacks |-> Len(stacks[t])]]
<1>1. /\ at # Nil /\ walks' = Append(walks, e)
      /\ UNCHANGED <<f, source, stacks, newToOld>>
  BY DEF Enter
<1>2. /\ WalkTyped /\ next = 0 /\ at \notin entered /\ at \in Blocks(source)
      /\ walks \in Seq([blk : Blocks(source), heights : [Temps(source) -> Nat]])
  BY <1>1 DEF WInv, WalkTyped, Turn
<1>3. stacks \in [Temps(source) -> Seq(Ref)]
  BY DEF NTyped
<1>4. /\ L \in Nat /\ Len(walks') = L + 1 /\ walks'[L + 1] = e
      /\ \A i \in 1 .. L : walks'[i] = walks[i]
  <2> DEFINE V == [blk : Blocks(source), heights : [Temps(source) -> Nat]]
  <2>1. walks \in Seq(V)
    BY <1>2
  <2> HIDE DEF V, e
  <2>2. QED
    BY <1>1, <2>1
<1>5. \A t \in Temps(source) : e.heights[t] = Len(stacks[t]) /\ e.blk = at
  BY <1>3
<1> HIDE DEF e, L
<1>6. ASSUME NEW t \in Temps(source)
      PROVE  /\ \A i \in 1 .. L + 1 : Hgt(walks', stacks, i, t) = Hgt(walks, stacks, i, t)
             /\ Hgt(walks', stacks, L + 2, t) = Len(stacks[t])
             /\ Hgt(walks, stacks, L + 1, t) = Len(stacks[t]) /\ Len(stacks[t]) \in Nat
             /\ \A i \in 1 .. L + 1 : Hgt(walks, stacks, i, t) \in Nat
             /\ Hgt(walks, stacks, 1, t) = 0
             /\ \A i, j \in 1 .. L + 1 : i <= j => Hgt(walks, stacks, i, t) <= Hgt(walks, stacks, j, t)
  <2>1. /\ Hgt(walks, stacks, L + 1, t) = Len(stacks[t]) /\ Len(stacks[t]) \in Nat
        /\ \A i \in 1 .. L + 1 : Hgt(walks, stacks, i, t) \in Nat
        /\ \A i \in 1 .. L : Hgt(walks, stacks, i, t) = walks[i].heights[t]
    BY <1>2, <1>3, Heights DEF L
  <2>2. \A i : Hgt(walks', stacks, i, t) = IF i > L + 1 THEN Len(stacks[t]) ELSE walks'[i].heights[t]
    BY <1>4 DEF Hgt
  <2>3. /\ \A i \in 1 .. L + 1 : ~(i > L + 1) /\ (i \in 1 .. L \/ i = L + 1)
        /\ L + 2 > L + 1
    BY <1>4
  <2>4. /\ Hgt(walks, stacks, 1, t) = 0
        /\ \A i, j \in 1 .. L + 1 : i <= j => Hgt(walks, stacks, i, t) <= Hgt(walks, stacks, j, t)
    BY DEF Stacked, L
  <2>5. \A i \in 1 .. L + 1 : Hgt(walks', stacks, i, t) = Hgt(walks, stacks, i, t)
    BY <1>4, <1>5, <2>1, <2>2, <2>3
  <2>6. QED
    BY <2>1, <2>2, <2>3, <2>4, <2>5
<1>7. \A m \in 1 .. NItems(f, at) : ~IsNew(source, ItemTo(f, at, m))
  BY <1>2 DEF Named, Passed, IsNew
<1>8. ASSUME NEW t \in Temps(source)
      PROVE  /\ Hgt(walks', stacks, 1, t) = 0
             /\ \A i, j \in 1 .. L + 2 : i <= j => Hgt(walks', stacks, i, t) <= Hgt(walks', stacks, j, t)
             /\ \A i \in 1 .. L + 1 :
                  /\ \A n \in Hgt(walks', stacks, i, t) + 1 .. Hgt(walks', stacks, i + 1, t) :
                       \E m \in 1 .. NItems(f, walks'[i].blk) : stacks[t][n] = ItemTo(f, walks'[i].blk, m)
                  /\ \A m \in 1 .. NItems(f, walks'[i].blk) :
                       IsNew(source, ItemTo(f, walks'[i].blk, m)) /\ newToOld[ItemTo(f, walks'[i].blk, m).val] = t =>
                         Hgt(walks', stacks, i, t) < Hgt(walks', stacks, i + 1, t)
  <2> DEFINE H == [i \in 1 .. L + 1 |-> Hgt(walks, stacks, i, t)]
             K == [i \in 1 .. L + 2 |-> Hgt(walks', stacks, i, t)]
             l == Len(stacks[t])
  <2>1. /\ \A i \in 1 .. L + 1 : K[i] = H[i] /\ H[i] \in Nat
        /\ K[L + 2] = l /\ H[L + 1] = l /\ l \in Nat
        /\ H[1] = 0 /\ \A i, j \in 1 .. L + 1 : i <= j => H[i] <= H[j]
    <3>1. /\ \A i \in 1 .. L + 1 : i \in 1 .. L + 2
          /\ L + 1 \in 1 .. L + 1 /\ 1 \in 1 .. L + 1 /\ L + 2 \in 1 .. L + 2
      BY <1>4
    <3>2. QED
      BY <1>6, <3>1
  <2>2. (\A i \in 1 .. L + 2 : K[i] = Hgt(walks', stacks, i, t)) /\ 1 \in 1 .. L + 2
        /\ \A i \in 1 .. L + 1 : H[i] = Hgt(walks, stacks, i, t)
    BY <1>4
  <2> HIDE DEF H, K, l
  <2>3. K[1] = 0 /\ \A i, j \in 1 .. L + 2 : i <= j => K[i] <= K[j]
    <3>1. /\ \A i \in 1 .. L + 2 : i \in 1 .. L + 1 \/ i = L + 2
          /\ 1 \in 1 .. L + 1 /\ L + 1 \in 1 .. L + 1
          /\ \A j \in 1 .. L + 1 : ~(L + 2 <= j) /\ j <= L + 1
      BY <1>4
    <3>2. \A i \in 1 .. L + 1 : H[i] <= l
      BY <2>1, <3>1
    <3>3. ASSUME NEW i \in 1 .. L + 2, NEW j \in 1 .. L + 2, i <= j
          PROVE  K[i] <= K[j]
      <4>1. CASE j = L + 2
        <5>1. CASE i = L + 2
          BY <2>1, <4>1, <5>1
        <5>2. CASE i \in 1 .. L + 1
          BY <2>1, <3>2, <4>1, <5>2
        <5>3. QED
          BY <3>1, <5>1, <5>2
      <4>2. CASE j \in 1 .. L + 1
        <5>1. i \in 1 .. L + 1
          BY <3>1, <3>3, <4>2
        <5>2. QED
          BY <2>1, <3>3, <4>2, <5>1
      <4>3. QED
        BY <3>1, <4>1, <4>2
    <3>4. QED
      BY <2>1, <3>1, <3>3
  <2>4. \A i \in 1 .. L + 1 : i + 1 \in 1 .. L + 2 /\ (i = L + 1 \/ (i \in 1 .. L /\ i + 1 \in 1 .. L + 1))
    BY <1>4
  <2>5. ASSUME NEW i \in 1 .. L + 1
        PROVE  /\ \A n \in K[i] + 1 .. K[i + 1] :
                    \E m \in 1 .. NItems(f, walks'[i].blk) : stacks[t][n] = ItemTo(f, walks'[i].blk, m)
               /\ \A m \in 1 .. NItems(f, walks'[i].blk) :
                    IsNew(source, ItemTo(f, walks'[i].blk, m)) /\ newToOld[ItemTo(f, walks'[i].blk, m).val] = t =>
                      K[i] < K[i + 1]
    <3>1. CASE i = L + 1
      <4>1. K[i] = l /\ K[i + 1] = l
        <5>1. i + 1 = L + 2
          BY <1>4, <3>1
        <5>2. QED
          BY <2>1, <3>1, <5>1
      <4>2. walks'[i].blk = at
        BY <1>4, <1>5, <3>1
      <4>3. K[i] + 1 .. K[i + 1] = {}
        BY <2>1, <4>1
      <4>4. QED
        BY <1>7, <4>2, <4>3
    <3>2. CASE i \in 1 .. L /\ i + 1 \in 1 .. L + 1
      <4>1. K[i] = Hgt(walks, stacks, i, t) /\ K[i + 1] = Hgt(walks, stacks, i + 1, t)
        BY <2>1, <2>2, <3>2
      <4>2. walks'[i] = walks[i]
        BY <1>4, <3>2
      <4>3. QED
        BY <3>2, <4>1, <4>2 DEF Stacked, L
    <3>3. QED
      BY <2>4, <3>1, <3>2
  <2>6. ASSUME NEW i \in 1 .. L + 1
        PROVE  K[i] = Hgt(walks', stacks, i, t) /\ K[i + 1] = Hgt(walks', stacks, i + 1, t)
    <3>1. i \in 1 .. L + 2 /\ i + 1 \in 1 .. L + 2
      BY <1>4
    <3>2. QED
      BY <2>2, <3>1
  <2>7. /\ Hgt(walks', stacks, 1, t) = 0
        /\ \A i, j \in 1 .. L + 2 : i <= j => Hgt(walks', stacks, i, t) <= Hgt(walks', stacks, j, t)
    BY <2>2, <2>3
  <2>8. QED
    BY <2>5, <2>6, <2>7
<1>9. Len(walks') + 1 = L + 2
  BY <1>4
<1>10. Stacked(walks', stacks, f, source, newToOld)
  BY <1>4, <1>8, <1>9 DEF Stacked
<1>11. QED
  BY <1>1, <1>10

\* The returning call takes its names off the stacks, and no others.
LEMMA ReturnStacked ==
  ASSUME Analysed, NTyped, WInv, Return, STyped(stacks, f, newToOld, source),
         Stacked(walks, stacks, f, source, newToOld)
  PROVE  /\ Stacked(walks', stacks', f', source', newToOld')
         /\ stacks' \in [Temps(source) -> Seq(Ref)]
         /\ STyped(stacks', f', newToOld', source')
<1> DEFINE L == Len(walks)
<1>1. /\ walks # <<>> /\ walks' = Stack!Front(walks)
      /\ UNCHANGED <<f, source, newToOld>>
      /\ stacks' = [t \in DOMAIN stacks |-> SubSeq(stacks[t], 1, Stack!Last(walks).heights[t])]
  BY DEF Return
<1>2. /\ WalkTyped /\ L \in Nat \ {0}
      /\ stacks \in [Temps(source) -> Seq(Ref)] /\ Stack!Last(walks) = walks[L]
  BY <1>1, CurMeans DEF WInv, NTyped
<1>3. Len(walks') = L - 1 /\ \A i \in 1 .. L - 1 : walks'[i] = walks[i]
  BY <1>1, <1>2, FrontMeans
<1> HIDE DEF L
<1>4. ASSUME NEW t \in Temps(source)
      PROVE  /\ \A i \in 1 .. L + 1 : Hgt(walks, stacks, i, t) \in Nat
             /\ Hgt(walks, stacks, L + 1, t) = Len(stacks[t])
             /\ Hgt(walks, stacks, L, t) = walks[L].heights[t]
             /\ \A i \in 1 .. L : Hgt(walks, stacks, i, t) = walks[i].heights[t]
             /\ Hgt(walks, stacks, 1, t) = 0
             /\ \A i, j \in 1 .. L + 1 : i <= j => Hgt(walks, stacks, i, t) <= Hgt(walks, stacks, j, t)
             /\ L \in 1 .. L + 1 /\ L + 1 \in 1 .. L + 1 /\ L <= L + 1 /\ L \in 1 .. L
             /\ Len(stacks[t]) \in Nat /\ DOMAIN stacks[t] = 1 .. Len(stacks[t])
  <2>1. /\ \A i \in 1 .. L + 1 : Hgt(walks, stacks, i, t) \in Nat
        /\ Hgt(walks, stacks, L + 1, t) = Len(stacks[t])
        /\ \A i \in 1 .. L : Hgt(walks, stacks, i, t) = walks[i].heights[t]
        /\ Len(stacks[t]) \in Nat /\ DOMAIN stacks[t] = 1 .. Len(stacks[t])
    BY <1>2, Heights DEF L
  <2>2. L \in 1 .. L + 1 /\ L + 1 \in 1 .. L + 1 /\ L <= L + 1 /\ L \in 1 .. L
    BY <1>2
  <2>3. /\ Hgt(walks, stacks, 1, t) = 0
        /\ \A i, j \in 1 .. L + 1 : i <= j => Hgt(walks, stacks, i, t) <= Hgt(walks, stacks, j, t)
    BY DEF Stacked, L
  <2>4. QED
    BY <2>1, <2>2, <2>3
<1>5. ASSUME NEW t \in Temps(source)
      PROVE  /\ stacks'[t] \in Seq(Ref) /\ Len(stacks'[t]) = Hgt(walks, stacks, L, t)
             /\ DOMAIN stacks'[t] = 1 .. Hgt(walks, stacks, L, t)
             /\ \A i \in DOMAIN stacks'[t] : i \in DOMAIN stacks[t] /\ stacks'[t][i] = stacks[t][i]
  <2> DEFINE h == Hgt(walks, stacks, L, t)
             s == stacks[t]
  <2>1. h \in Nat /\ h <= Len(s) /\ s \in Seq(Ref) /\ DOMAIN s = 1 .. Len(s) /\ Len(s) \in Nat
    <3>1. h \in Nat /\ h <= Hgt(walks, stacks, L + 1, t)
      BY <1>4
    <3>2. s \in Seq(Ref)
      BY <1>2
    <3>3. QED
      BY <1>4, <3>1, <3>2
  <2>2. stacks'[t] = SubSeq(s, 1, h)
    <3>1. stacks'[t] = SubSeq(s, 1, walks[L].heights[t])
      BY <1>1, <1>2
    <3>2. QED
      BY <1>4, <3>1
  <2> HIDE DEF h, s
  <2>3. /\ SubSeq(s, 1, h) \in Seq(Ref) /\ Len(SubSeq(s, 1, h)) = h
        /\ \A i \in 1 .. h : i \in 1 .. Len(s) /\ SubSeq(s, 1, h)[i] = s[i]
    BY <2>1
  <2>4. DOMAIN SubSeq(s, 1, h) = 1 .. h
    BY <2>3
  <2>5. QED
    BY <2>1, <2>2, <2>3, <2>4 DEF h, s
<1>6. stacks' \in [Temps(source) -> Seq(Ref)]
  <2>1. DOMAIN stacks' = Temps(source) /\ stacks' = [t \in Temps(source) |-> stacks'[t]]
    BY <1>1, <1>2
  <2>2. \A t \in Temps(source) : stacks'[t] \in Seq(Ref)
    BY <1>5
  <2>3. QED
    BY <2>1, <2>2
<1>7. STyped(stacks', f', newToOld', source')
  BY <1>1, <1>5 DEF STyped
<1>8. ASSUME NEW t \in Temps(source), NEW i \in 1 .. L
      PROVE  Hgt(walks', stacks', i, t) = Hgt(walks, stacks, i, t)
  <2>1. Hgt(walks', stacks', i, t) = IF i > L - 1 THEN Len(stacks'[t]) ELSE walks'[i].heights[t]
    BY <1>3 DEF Hgt
  <2>2. i \in 1 .. L - 1 \/ (i = L /\ i > L - 1)
    BY <1>2
  <2>3. CASE i = L /\ i > L - 1
    BY <1>5, <2>1, <2>3
  <2>4. CASE i \in 1 .. L - 1
    <3>1. ~(i > L - 1)
      BY <1>2, <2>4
    <3>2. QED
      BY <1>3, <1>4, <2>1, <2>4, <3>1
  <2>5. QED
    BY <2>2, <2>3, <2>4
<1>9. ASSUME NEW t \in Temps(source)
      PROVE  /\ Hgt(walks', stacks', 1, t) = 0
             /\ \A i, j \in 1 .. L : i <= j => Hgt(walks', stacks', i, t) <= Hgt(walks', stacks', j, t)
  <2>1. 1 \in 1 .. L /\ \A i \in 1 .. L : i \in 1 .. L + 1
    BY <1>2
  <2>2. QED
    BY <1>4, <1>8, <2>1
<1>10. ASSUME NEW t \in Temps(source), NEW i \in 1 .. L - 1
       PROVE  /\ \A n \in Hgt(walks', stacks', i, t) + 1 .. Hgt(walks', stacks', i + 1, t) :
                   \E m \in 1 .. NItems(f, walks'[i].blk) : stacks'[t][n] = ItemTo(f, walks'[i].blk, m)
              /\ \A m \in 1 .. NItems(f, walks'[i].blk) :
                   IsNew(source, ItemTo(f, walks'[i].blk, m)) /\ newToOld[ItemTo(f, walks'[i].blk, m).val] = t =>
                     Hgt(walks', stacks', i, t) < Hgt(walks', stacks', i + 1, t)
  <2>1. i \in 1 .. L /\ i + 1 \in 1 .. L /\ i + 1 <= L /\ i + 1 \in 1 .. L + 1 /\ i \in 1 .. L + 1
    BY <1>2
  <2>2. walks'[i] = walks[i] /\ Hgt(walks', stacks', i, t) = Hgt(walks, stacks, i, t)
        /\ Hgt(walks', stacks', i + 1, t) = Hgt(walks, stacks, i + 1, t)
    BY <1>3, <1>8, <2>1
  <2>3. ASSUME NEW n \in Hgt(walks, stacks, i, t) + 1 .. Hgt(walks, stacks, i + 1, t)
        PROVE  \E m \in 1 .. NItems(f, walks[i].blk) : stacks'[t][n] = ItemTo(f, walks[i].blk, m)
    <3>1. \E m \in 1 .. NItems(f, walks[i].blk) : stacks[t][n] = ItemTo(f, walks[i].blk, m)
      BY <2>1 DEF Stacked, L
    <3> DEFINE u == Hgt(walks, stacks, i, t)
               v == Hgt(walks, stacks, i + 1, t)
               w == Hgt(walks, stacks, L, t)
    <3>2. u \in Nat /\ v \in Nat /\ w \in Nat /\ v <= w /\ n \in u + 1 .. v
      BY <1>4, <2>1
    <3> HIDE DEF u, v, w
    <3>3. n \in 1 .. w
      BY <3>2
    <3>4. stacks'[t][n] = stacks[t][n]
      BY <1>5, <3>3 DEF w
    <3>5. QED
      BY <3>1, <3>4
  <2>4. \A m \in 1 .. NItems(f, walks[i].blk) :
          IsNew(source, ItemTo(f, walks[i].blk, m)) /\ newToOld[ItemTo(f, walks[i].blk, m).val] = t =>
            Hgt(walks, stacks, i, t) < Hgt(walks, stacks, i + 1, t)
    BY <2>1 DEF Stacked, L
  <2>5. QED
    BY <2>2, <2>3, <2>4
<1>11. Len(walks') + 1 = L
  BY <1>2, <1>3
<1>12. Stacked(walks', stacks', f, source, newToOld')
  <2>1. newToOld' = newToOld
    BY <1>1
  <2>2. QED
    BY <1>3, <1>9, <1>10, <1>11, <2>1 DEF Stacked
<1>13. QED
  BY <1>1, <1>6, <1>7, <1>12

(***************************************************************************)
(* What a block's end does: its jump reads the current names, and so does  *)
(* each phi of its successors that has one, for the edge from this block.  *)
(***************************************************************************)
LEMMA EndBlockMeans ==
  ASSUME NTyped, Cur \in Blocks(source), EndBlock
  PROVE  /\ f'.jmp = [f.jmp EXCEPT ![Cur].arg = Current(Names, @)]
         /\ f'.phis = [b \in Blocks(f) |->
              IF b \in Succs(f, Cur) THEN [j \in DOMAIN f.phis[b] |-> FillPhi(Names, f.phis[b][j], Cur)]
              ELSE f.phis[b]]
         /\ f'.ins = f.ins /\ f'.ntmp = f.ntmp /\ SameGraph(f', f)
         /\ UNCHANGED <<newToOld, stacks, walks, entered, source>> /\ next' = 0
<1> DEFINE ph == [b \in Blocks(f) |->
              IF b \in Succs(f, Cur) THEN [j \in DOMAIN f.phis[b] |-> FillPhi(Names, f.phis[b][j], Cur)]
              ELSE f.phis[b]]
<1>1. /\ f' = [f EXCEPT !.jmp[Cur].arg = Current(Names, @), !.phis = ph]
      /\ UNCHANGED <<newToOld, stacks, walks, entered, source>> /\ next' = 0
  BY DEF EndBlock
<1>2. Fields \subseteq DOMAIN f
  BY NTypedFacts
<1> HIDE DEF ph
<1>3. /\ f'.jmp = [f.jmp EXCEPT ![Cur].arg = Current(Names, @)] /\ f'.phis = ph
      /\ f'.ins = f.ins /\ f'.ntmp = f.ntmp /\ f'.n = f.n /\ f'.s1 = f.s1 /\ f'.s2 = f.s2 /\ f'.pred = f.pred
      /\ Fields \subseteq DOMAIN f'
  BY <1>1, <1>2 DEF Fields
<1>4. QED
  BY <1>1, <1>3 DEF SameGraph, ph

\* A phi gets an argument, and its block, or stays as it is.
LEMMA FillPhiMeans ==
  ASSUME NTyped, NEW p \in Phi, RefOK(f, p.to), IsTmp(p.to), NEW c \in Nat
  PROVE  /\ newToOld[p.to.val] \in Temps(source)
         /\ FillPhi(Names, p, c) \in Phi /\ FillPhi(Names, p, c).to = p.to
         /\ stacks[newToOld[p.to.val]] = <<>> => FillPhi(Names, p, c) = p
         /\ LET s == stacks[newToOld[p.to.val]]
            IN  s # <<>> => /\ Len(s) \in DOMAIN s /\ s[Len(s)] \in Ref
                            /\ FillPhi(Names, p, c).args = Append(p.args, s[Len(s)])
                            /\ FillPhi(Names, p, c).blks = Append(p.blks, c)
<1> DEFINE o == newToOld[p.to.val]
           s == stacks[o]
           y == Current(Names, p.to)
<1>1. o \in Temps(source) /\ y \in Ref
      /\ IF s = <<>> THEN y = p.to ELSE Len(s) \in DOMAIN s /\ y = s[Len(s)]
  BY CurrentMeans
<1>2. FillPhi(Names, p, c) = IF s = <<>> THEN p
                             ELSE [p EXCEPT !.args = Append(@, y), !.blks = Append(@, c)]
  BY DEF FillPhi, Names
<1>3. p.args \in Seq(Ref) /\ p.blks \in Seq(Nat) /\ p.to \in Ref
  BY DEF Phi
<1> HIDE DEF y, s, o
<1>4. Append(p.args, y) \in Seq(Ref) /\ Append(p.blks, c) \in Seq(Nat)
  BY <1>1, <1>3
<1> DEFINE q == [p EXCEPT !.args = Append(@, y), !.blks = Append(@, c)]
<1>5. q \in Phi /\ q.to = p.to /\ q.args = Append(p.args, y) /\ q.blks = Append(p.blks, c)
  BY <1>4, Zenon DEF Phi
<1> HIDE DEF q
<1>6. FillPhi(Names, p, c) = IF s = <<>> THEN p ELSE q
  BY <1>2 DEF q
<1>7. QED
  BY <1>1, <1>5, <1>6 DEF s, o

\* The shape of the phis after the end of a block, one by one.
LEMMA EndBlockPhis ==
  ASSUME Analysed, NTyped, Erased(f, newToOld, source, in, fron), Cur \in Blocks(source), EndBlock
  PROVE  /\ f'.phis \in [Blocks(source) -> Seq(Phi)]
         /\ \A b \in Blocks(source) : Len(f'.phis[b]) = Len(f.phis[b]) /\ DOMAIN f'.phis[b] = DOMAIN f.phis[b]
         /\ \A b \in Blocks(source) : \A j \in DOMAIN f.phis[b] :
              LET p == f.phis[b][j]
                  s == stacks[newToOld[p.to.val]]
              IN  /\ p \in Phi /\ f'.phis[b][j].to = p.to
                  /\ newToOld[p.to.val] \in Temps(source)
                  /\ IF b \in Succs(source, Cur) /\ s # <<>>
                       THEN /\ Len(s) \in DOMAIN s /\ s[Len(s)] \in Ref
                            /\ f'.phis[b][j].args = Append(p.args, s[Len(s)])
                            /\ f'.phis[b][j].blks = Append(p.blks, Cur)
                       ELSE f'.phis[b][j] = p
<1>1. /\ Blocks(f) = Blocks(source) /\ f.phis \in [Blocks(source) -> Seq(Phi)] /\ IsFunction(f)
      /\ Succs(f, Cur) = Succs(source, Cur) /\ Cur \in Nat
      /\ \A b \in Blocks(source) : Len(f.phis[b]) \in Nat /\ DOMAIN f.phis[b] = 1 .. Len(f.phis[b])
  BY NTypedFacts DEF Blocks, NTyped
<1>2. f'.phis = [b \in Blocks(f) |->
              IF b \in Succs(f, Cur) THEN [j \in DOMAIN f.phis[b] |-> FillPhi(Names, f.phis[b][j], Cur)]
              ELSE f.phis[b]]
  BY EndBlockMeans
<1> DEFINE c == Cur
<1>3. c \in Nat
  BY <1>1
<1>4. ASSUME NEW b \in Blocks(source), NEW j \in DOMAIN f.phis[b]
      PROVE  f.phis[b][j] \in Phi /\ IsTmp(f.phis[b][j].to) /\ RefOK(f, f.phis[b][j].to)
  <2>1. f.phis[b] \in Seq(Phi) /\ DOMAIN f.phis[b] = 1 .. Len(f.phis[b])
    BY <1>1
  <2>2. f.phis[b][j] \in Phi
    BY <2>1
  <2>3. QED
    BY <1>1, <2>2 DEF IsFunction, Erased
<1> HIDE DEF c
<1>5. ASSUME NEW b \in Blocks(source)
      PROVE  f'.phis[b] = IF b \in Succs(source, c) THEN [j \in DOMAIN f.phis[b] |-> FillPhi(Names, f.phis[b][j], c)]
                          ELSE f.phis[b]
  BY <1>1, <1>2 DEF c
<1>6. ASSUME NEW b \in Blocks(source)
      PROVE  f'.phis[b] \in Seq(Phi) /\ Len(f'.phis[b]) = Len(f.phis[b]) /\ DOMAIN f'.phis[b] = DOMAIN f.phis[b]
  <2>1. f.phis[b] \in Seq(Phi) /\ Len(f.phis[b]) \in Nat /\ DOMAIN f.phis[b] = 1 .. Len(f.phis[b])
    BY <1>1
  <2>2. \A j \in DOMAIN f.phis[b] : FillPhi(Names, f.phis[b][j], c) \in Phi
    BY <1>3, <1>4, FillPhiMeans
  <2> DEFINE q == [j \in DOMAIN f.phis[b] |-> FillPhi(Names, f.phis[b][j], c)]
  <2>3. q \in [1 .. Len(f.phis[b]) -> Phi]
    BY <2>1, <2>2
  <2>4. \A n \in Nat : \A z \in [1 .. n -> Phi] : z \in Seq(Phi) /\ Len(z) = n /\ DOMAIN z = 1 .. n
    OBVIOUS
  <2>5. q \in Seq(Phi) /\ Len(q) = Len(f.phis[b]) /\ DOMAIN q = DOMAIN f.phis[b]
    BY <2>1, <2>3, <2>4
  <2> HIDE DEF q
  <2>6. f'.phis[b] = IF b \in Succs(source, c) THEN q ELSE f.phis[b]
    BY <1>5 DEF q
  <2>7. QED
    BY <2>1, <2>5, <2>6
<1>7. f'.phis \in [Blocks(source) -> Seq(Phi)]
  BY <1>1, <1>2, <1>6, Zenon
<1>8. ASSUME NEW b \in Blocks(source), NEW j \in DOMAIN f.phis[b]
      PROVE  LET p == f.phis[b][j]
                 s == stacks[newToOld[p.to.val]]
             IN  /\ p \in Phi /\ f'.phis[b][j].to = p.to
                 /\ newToOld[p.to.val] \in Temps(source)
                 /\ IF b \in Succs(source, c) /\ s # <<>>
                      THEN /\ Len(s) \in DOMAIN s /\ s[Len(s)] \in Ref
                           /\ f'.phis[b][j].args = Append(p.args, s[Len(s)])
                           /\ f'.phis[b][j].blks = Append(p.blks, c)
                      ELSE f'.phis[b][j] = p
  <2> DEFINE p == f.phis[b][j]
             s == stacks[newToOld[p.to.val]]
             q == FillPhi(Names, p, c)
  <2>1. p \in Phi /\ IsTmp(p.to) /\ RefOK(f, p.to)
    BY <1>4
  <2>2. f'.phis[b][j] = IF b \in Succs(source, c) THEN q ELSE p
    BY <1>5
  <2> HIDE DEF p
  <2>3. /\ newToOld[p.to.val] \in Temps(source) /\ q.to = p.to
        /\ s = <<>> => q = p
        /\ s # <<>> => Len(s) \in DOMAIN s /\ s[Len(s)] \in Ref
                       /\ q.args = Append(p.args, s[Len(s)]) /\ q.blks = Append(p.blks, c)
    BY <1>3, <2>1, FillPhiMeans
  <2> HIDE DEF q, s
  <2>4. /\ p \in Phi /\ f'.phis[b][j].to = p.to
        /\ newToOld[p.to.val] \in Temps(source)
        /\ IF b \in Succs(source, c) /\ s # <<>>
             THEN /\ Len(s) \in DOMAIN s /\ s[Len(s)] \in Ref
                  /\ f'.phis[b][j].args = Append(p.args, s[Len(s)])
                  /\ f'.phis[b][j].blks = Append(p.blks, c)
             ELSE f'.phis[b][j] = p
    BY <2>1, <2>2, <2>3
  <2>5. QED
    BY <2>4, Zenon DEF p, s
<1>9. QED
  BY <1>6, <1>7, <1>8, Zenon DEF c

\* The end of a block changes no item's result.
LEMMA EndBlockItems ==
  ASSUME Analysed, NTyped, Erased(f, newToOld, source, in, fron), Cur \in Blocks(source), EndBlock,
         NEW b \in Blocks(source)
  PROVE  /\ NItems(f', b) = NItems(f, b)
         /\ \A m \in 1 .. NItems(f, b) : ItemTo(f', b, m) = ItemTo(f, b, m)
<1>1. /\ Len(f'.phis[b]) = Len(f.phis[b])
      /\ \A j \in DOMAIN f.phis[b] : f'.phis[b][j].to = f.phis[b][j].to
  BY EndBlockPhis, Zenon
<1>2. f'.ins = f.ins
  BY EndBlockMeans
<1>3. ASSUME NEW m \in 1 .. NItems(f, b)
      PROVE  ItemTo(f', b, m) = ItemTo(f, b, m)
  <2>1. m <= Len(f.phis[b]) => m \in DOMAIN f.phis[b]
    BY ItemsTyped
  <2>2. QED
    BY <1>1, <1>2, <2>1 DEF ItemTo
<1>4. QED
  BY <1>1, <1>2, <1>3, Zenon DEF NItems

\* The end of a block keeps the function well formed.
LEMMA EndBlockTyped ==
  ASSUME Analysed, NTyped, STyped(stacks, f, newToOld, source), Erased(f, newToOld, source, in, fron),
         Cur \in Blocks(source), EndBlock
  PROVE  NTyped' /\ STyped(stacks', f', newToOld', source')
<1>1. /\ Blocks(f) = Blocks(source) /\ f.n \in Nat \ {0} /\ f.ntmp \in Nat
      /\ f.jmp \in [Blocks(source) -> Jump] /\ IsFunction(f) /\ SameGraph(f, source)
  BY NTypedFacts DEF NTyped
<1>2. /\ f'.jmp = [f.jmp EXCEPT ![Cur].arg = Current(Names, @)]
      /\ f'.ins = f.ins /\ f'.ntmp = f.ntmp /\ SameGraph(f', f)
      /\ UNCHANGED <<newToOld, stacks, source>>
  BY EndBlockMeans
<1>3. f'.n = f.n /\ f'.s1 = f.s1 /\ f'.s2 = f.s2 /\ f'.pred = f.pred /\ Blocks(f') = Blocks(source)
      /\ Temps(f') = Temps(f) /\ SameGraph(f', source)
  BY <1>1, <1>2 DEF SameGraph, Blocks, Temps
<1>4. \A r : RefOK(f', r) <=> RefOK(f, r)
  BY <1>3 DEF RefOK
<1>5. STyped(stacks', f', newToOld', source')
  BY <1>2, <1>3 DEF STyped
<1>6. RefOK(f, f.jmp[Cur].arg) /\ f.jmp[Cur] \in Jump
  BY <1>1 DEF IsFunction
<1>7. \A r : RefOK(f, r) => RefOK(f, Current(Names, r))
  <2> SUFFICES ASSUME NEW r, RefOK(f, r) PROVE RefOK(f, Current(Names, r))
    OBVIOUS
  <2>1. CASE Current(Names, r) = r
    BY <2>1
  <2>2. CASE Current(Names, r) # r
    <3> DEFINE t == newToOld[r.val]
               s == stacks[t]
    <3>1. t \in Temps(source) /\ Len(s) \in DOMAIN s /\ Current(Names, r) = s[Len(s)]
          /\ Current(Names, r) \in Ref
      BY <2>2, CurrentMeans
    <3>2. s[Len(s)].val \in Temps(f)
      BY <3>1 DEF STyped
    <3>3. QED
      BY <3>1, <3>2 DEF RefOK
  <2>3. QED
    BY <2>1, <2>2
<1>8. f'.jmp \in [Blocks(source) -> Jump] /\ \A b \in Blocks(source) : RefOK(f, f'.jmp[b].arg)
  <2> DEFINE y == Current(Names, f.jmp[Cur].arg)
  <2>1. RefOK(f, y) /\ y \in Ref
    BY <1>6, <1>7 DEF RefOK
  <2>2. f'.jmp = [f.jmp EXCEPT ![Cur] = [f.jmp[Cur] EXCEPT !.arg = y]]
    BY <1>2
  <2> HIDE DEF y
  <2>3. [f.jmp[Cur] EXCEPT !.arg = y] \in Jump /\ [f.jmp[Cur] EXCEPT !.arg = y].arg = y
    BY <1>6, <2>1 DEF Jump
  <2>4. \A b \in Blocks(source) : RefOK(f, f.jmp[b].arg)
    BY <1>1 DEF IsFunction
  <2> DEFINE c == Cur
             q == [f.jmp[c] EXCEPT !.arg = y]
  <2>5. q \in Jump /\ q.arg = y /\ f'.jmp = [f.jmp EXCEPT ![c] = q] /\ c \in Blocks(source)
    BY <2>2, <2>3
  <2> HIDE DEF c, q
  <2>6. f'.jmp \in [Blocks(source) -> Jump]
    BY <1>1, <2>5
  <2>7. \A b \in Blocks(source) : f'.jmp[b] = IF b = c THEN q ELSE f.jmp[b]
    BY <1>1, <2>5
  <2>8. QED
    BY <2>1, <2>4, <2>5, <2>6, <2>7
<1>9. f'.phis \in [Blocks(source) -> Seq(Phi)]
  BY EndBlockPhis, Zenon
<1>10. ASSUME NEW b \in Blocks(source), NEW i \in DOMAIN f'.phis[b]
       PROVE  LET p == f'.phis[b][i] IN
              /\ Len(p.args) = Len(p.blks)
              /\ \A e \in Elems(p.args) \cup {p.to} : RefOK(f, e)
  <2> DEFINE p == f.phis[b][i]
             w == f'.phis[b][i]
             t == newToOld[p.to.val]
             s == stacks[t]
  <2>1. i \in DOMAIN f.phis[b]
    BY EndBlockPhis, Zenon
  <2>2. /\ p \in Phi /\ w.to = p.to /\ t \in Temps(source)
        /\ IF b \in Succs(source, Cur) /\ s # <<>>
             THEN /\ Len(s) \in DOMAIN s /\ s[Len(s)] \in Ref
                  /\ w.args = Append(p.args, s[Len(s)])
                  /\ w.blks = Append(p.blks, Cur)
             ELSE w = p
    BY <2>1, EndBlockPhis, Zenon
  <2>3. Len(p.args) = Len(p.blks) /\ \A e \in Elems(p.args) \cup {p.to} : RefOK(f, e)
    BY <1>1, <2>1 DEF IsFunction
  <2>4. p.args \in Seq(Ref) /\ p.blks \in Seq(Nat)
    BY <2>2, Zenon DEF Phi
  <2>5. Len(s) \in DOMAIN s => s[Len(s)].val \in Temps(f)
    BY <2>2, Zenon DEF STyped
  <2>6. Len(s) \in DOMAIN s /\ s[Len(s)] \in Ref => RefOK(f, s[Len(s)])
    BY <2>5, Zenon DEF RefOK
  <2> HIDE DEF p, w, s
  <2>7. CASE b \in Succs(source, Cur) /\ s # <<>>
    <3> DEFINE z == s[Len(s)]
    <3>1. w.args = Append(p.args, z) /\ w.blks = Append(p.blks, Cur) /\ RefOK(f, z) /\ w.to = p.to
      BY <2>2, <2>6, <2>7
    <3> HIDE DEF z
    <3>2. Len(w.args) = Len(w.blks)
      BY <2>3, <2>4, <3>1
    <3>3. \A e \in Elems(w.args) : e \in Elems(p.args) \/ e = z
      <4>1. \A q \in Seq(Ref) : \A j \in DOMAIN Append(q, z) :
              (j \in DOMAIN q /\ Append(q, z)[j] = q[j]) \/ Append(q, z)[j] = z
        OBVIOUS
      <4>2. QED
        BY <2>4, <3>1, <4>1 DEF Elems
    <3>4. QED
      BY <2>3, <3>1, <3>2, <3>3 DEF w
  <2>8. CASE ~(b \in Succs(source, Cur) /\ s # <<>>)
    BY <2>2, <2>3, <2>8 DEF w
  <2>9. QED
    BY <2>7, <2>8
<1>11. /\ f.ins \in [Blocks(source) -> Seq(Instruction)]
       /\ f.s1 \in [Blocks(source) -> Blocks(source) \cup {Nil}]
       /\ f.s2 \in [Blocks(source) -> Blocks(source) \cup {Nil}]
       /\ f.pred \in [Blocks(source) -> Seq(Blocks(source))]
       /\ \A b \in Blocks(source) : \A i \in DOMAIN f.ins[b] :
            \A e \in Elems(f.ins[b][i].arg) \cup {f.ins[b][i].to} : RefOK(f, e)
  BY <1>1 DEF IsFunction
<1>12. IsFunction(f')
  BY <1>1, <1>2, <1>3, <1>4, <1>8, <1>9, <1>10, <1>11 DEF IsFunction
<1>13. QED
  BY <1>2, <1>3, <1>5, <1>12 DEF NTyped

\* The end of a block gives no names.
LEMMA EndBlockNames ==
  ASSUME Analysed, NTyped, NTyped', WInv, Erased(f, newToOld, source, in, fron), EndBlock,
         Named(f, source, entered, Cur, next), Unread(f, source, entered, Cur, next),
         Stacked(walks, stacks, f, source, newToOld)
  PROVE  /\ Erased(f', newToOld', source', in', fron')
         /\ Named(f', source', entered', Cur', next')
         /\ Unread(f', source', entered', Cur', next')
         /\ Stacked(walks', stacks', f', source', newToOld')
<1>1. next > 0 /\ next \in Nat /\ NextIns > Len(f.ins[Cur]) /\ UNCHANGED <<in, fron>>
  BY DEF EndBlock, WInv, WalkTyped, domVars, liveVars
<1>2. walks # <<>> /\ Cur \in Blocks(source) /\ Cur \in entered /\ WalkTyped
      /\ Len(walks) \in Nat
  <2>1. walks # <<>> /\ WalkTyped
    BY <1>1 DEF WInv, Turn
  <2>2. Cur \in Blocks(source) /\ Cur = walks[Len(walks)].blk /\ Len(walks) \in DOMAIN walks /\ Len(walks) \in Nat
    BY <2>1, CurMeans
  <2>3. QED
    BY <2>1, <2>2 DEF WInv, Path
<1>3. /\ f'.jmp = [f.jmp EXCEPT ![Cur].arg = Current(Names, @)]
      /\ f'.ins = f.ins /\ f'.ntmp = f.ntmp /\ SameGraph(f', f)
      /\ UNCHANGED <<newToOld, stacks, walks, entered, source>> /\ next' = 0
  BY <1>2, EndBlockMeans
<1>4. ASSUME NEW b \in Blocks(source)
      PROVE  /\ NItems(f', b) = NItems(f, b)
             /\ \A m \in 1 .. NItems(f, b) : ItemTo(f', b, m) = ItemTo(f, b, m)
  BY <1>2, EndBlockItems
<1>5. /\ Blocks(f) = Blocks(source) /\ Blocks(f') = Blocks(source)
      /\ f.jmp \in [Blocks(source) -> Jump]
      /\ \A b \in Blocks(source) : Len(f.phis[b]) \in Nat /\ Len(f.ins[b]) \in Nat
  BY <1>3, NTypedFacts DEF SameGraph, Blocks
<1>6. ASSUME NEW b \in Blocks(source)
      PROVE  /\ DOMAIN f'.phis[b] = DOMAIN f.phis[b] /\ Len(f'.phis[b]) = Len(f.phis[b])
             /\ \A j \in DOMAIN f.phis[b] : f'.phis[b][j].to = f.phis[b][j].to
  BY <1>2, EndBlockPhis, Zenon
<1>7. Erased(f', newToOld, source, in, fron)
  <2>1. \A t : PhiOf(f', newToOld, t) = PhiOf(f, newToOld, t)
    BY <1>5, <1>6 DEF PhiOf
  <2>2. \A t \in Temps(source) : PhisFor(f', newToOld, fron, in, source, t)
    BY <2>1 DEF Erased, PhisFor
  <2>3. QED
    BY <1>3, <1>6, <2>2, SMTT(30) DEF Erased
<1>8. ASSUME NEW c, NEW d, NEW b \in Blocks(source), NEW m \in 1 .. NItems(f, b), d = Cur
      PROVE  Passed(entered, d, next, b, m) <=> Passed(entered, c, 0, b, m)
  <2>1. Len(f.phis[d]) \in Nat /\ Len(f.ins[d]) \in Nat /\ next - Len(f.phis[d]) > Len(f.ins[d])
    BY <1>1, <1>2, <1>5, <1>8 DEF NextIns
  <2> DEFINE u == Len(f.phis[d])
             v == Len(f.ins[d])
  <2>2. u \in Nat /\ v \in Nat /\ next - u > v /\ NItems(f, d) = u + v
    BY <2>1 DEF NItems
  <2> HIDE DEF u, v
  <2>3. \A x \in 1 .. u + v : x < next
    BY <1>1, <2>2
  <2>4. b = d => m < next
    BY <2>2, <2>3
  <2>5. QED
    BY <1>1, <2>4 DEF Passed
<1>9. \A c : Named(f', source, entered, c, 0)
  <2> TAKE c
  <2> DEFINE d == Cur
  <2>1. Named(f, source, entered, d, next)
    OBVIOUS
  <2>2. ASSUME NEW b \in Blocks(source), NEW m \in 1 .. NItems(f, b)
        PROVE  Passed(entered, d, next, b, m) <=> Passed(entered, c, 0, b, m)
    BY <1>8
  <2> HIDE DEF d
  <2>3. \A b \in Blocks(source) : \A m \in 1 .. NItems(f, b) :
          IsTmp(ItemTo(f, b, m)) => (IsNew(source, ItemTo(f, b, m)) <=> Passed(entered, c, 0, b, m))
    BY <2>1, <2>2 DEF Named
  <2>4. \A a, b \in Blocks(source) : \A l \in 1 .. NItems(f, a), m \in 1 .. NItems(f, b) :
          IsNew(source, ItemTo(f, a, l)) /\ ItemTo(f, a, l) = ItemTo(f, b, m) => a = b /\ l = m
    BY <2>1 DEF Named
  <2>5. \A b \in Blocks(source) : \A m \in 1 .. NItems(f', b) :
          IsTmp(ItemTo(f', b, m)) => (IsNew(source, ItemTo(f', b, m)) <=> Passed(entered, c, 0, b, m))
    BY <1>4, <2>3
  <2>6. \A a, b \in Blocks(source) : \A l \in 1 .. NItems(f', a), m \in 1 .. NItems(f', b) :
          IsNew(source, ItemTo(f', a, l)) /\ ItemTo(f', a, l) = ItemTo(f', b, m) => a = b /\ l = m
    BY <1>4, <2>4
  <2>7. QED
    BY <2>5, <2>6 DEF Named
<1>10. \A c : Unread(f', source, entered, c, 0)
  <2> TAKE c
  <2> DEFINE d == Cur
  <2>1. Unread(f, source, entered, d, next) /\ d \in entered /\ d \in Blocks(source)
        /\ f'.jmp = [f.jmp EXCEPT ![d].arg = Current(Names, @)]
    BY <1>2, <1>3
  <2> HIDE DEF d
  <2>2. ASSUME NEW b \in Blocks(source), NEW i \in DOMAIN f'.ins[b]
        PROVE  Passed(entered, c, 0, b, Len(f'.phis[b]) + i) \/ f'.ins[b][i].arg = source.ins[b][i].arg
    <3>1. Passed(entered, d, next, b, Len(f.phis[b]) + i) \/ f.ins[b][i].arg = source.ins[b][i].arg
      BY <1>3, <2>1 DEF Unread
    <3>2. b \in entered => Passed(entered, c, 0, b, Len(f'.phis[b]) + i)
      BY DEF Passed
    <3>3. QED
      BY <1>3, <3>1, <3>2 DEF Passed
  <2>3. ASSUME NEW b \in Blocks(source)
        PROVE  Ended(entered, c, 0, b) \/ f'.jmp[b].arg = source.jmp[b].arg
    <3>1. CASE b = d
      BY <2>1, <3>1 DEF Ended
    <3>2. CASE b # d
      <4>1. f'.jmp[b] = f.jmp[b]
        BY <1>5, <2>1, <3>2
      <4>2. QED
        BY <2>1, <4>1 DEF Ended, Unread
    <3>3. QED
      BY <3>1, <3>2
  <2>4. QED
    BY <2>2, <2>3 DEF Unread
<1>11. Stacked(walks, stacks, f', source, newToOld)
  <2>1. \A i \in 1 .. Len(walks) : walks[i].blk \in Blocks(source)
    BY <1>2, CurMeans, WalksTyped
  <2>2. \A i \in 1 .. Len(walks) :
          /\ NItems(f', walks[i].blk) = NItems(f, walks[i].blk)
          /\ \A m \in 1 .. NItems(f, walks[i].blk) : ItemTo(f', walks[i].blk, m) = ItemTo(f, walks[i].blk, m)
    BY <1>4, <2>1
  <2>3. QED
    BY <2>2 DEF Stacked
<1>12. QED
  BY <1>1, <1>3, <1>7, <1>9, <1>10, <1>11

\* Entering and leaving a block move the place where rename is, and nothing else.
LEMMA EnterNames ==
  ASSUME Analysed, NTyped, WInv, Enter,
         Named(f, source, entered, Cur, next), Unread(f, source, entered, Cur, next)
  PROVE  /\ Named(f', source', entered', Cur', next') /\ Unread(f', source', entered', Cur', next')
<1>1. /\ at # Nil /\ next = 0 /\ at \notin entered /\ at \in Blocks(source)
      /\ entered' = entered \cup {at} /\ next' = 1 /\ UNCHANGED <<f, source>>
  BY DEF Enter, WInv, Turn, WalkTyped
<1>2. Cur' = at
  <2> DEFINE V == [blk : Blocks(source), heights : [Temps(source) -> Nat]]
             e == [blk |-> at, heights |-> [t \in DOMAIN stacks |-> Len(stacks[t])]]
  <2>1. walks \in Seq(V) /\ walks' = Append(walks, e) /\ e.blk = at
    BY DEF WInv, WalkTyped, Enter
  <2> HIDE DEF V, e
  <2>2. walks'[Len(walks')] = e
    BY <2>1
  <2>3. QED
    BY <2>1, <2>2 DEF Cur, Stack!Last
<1> DEFINE d == at
           E == entered \cup {d}
           c == Cur
<1>3. Named(f, source, entered, c, 0) /\ Unread(f, source, entered, c, 0)
      /\ d \in Blocks(source) /\ d \notin entered
  BY <1>1
<1>4. ASSUME NEW b \in Blocks(source), NEW m \in Nat \ {0}
      PROVE  Passed(E, d, 1, b, m) <=> Passed(entered, c, 0, b, m)
  <2>1. ~(m < 1)
    OBVIOUS
  <2>2. QED
    BY <1>3, <2>1 DEF Passed
<1>5. \A b \in Blocks(source) : Ended(E, d, 1, b) <=> Ended(entered, c, 0, b)
  BY <1>3 DEF Ended
<1>6. \A b \in Blocks(source) : Len(f.phis[b]) \in Nat /\ Len(f.ins[b]) \in Nat /\ DOMAIN f.ins[b] = 1 .. Len(f.ins[b])
                                /\ NItems(f, b) \in Nat
  <2>1. \A b \in Blocks(source) : Len(f.phis[b]) \in Nat /\ Len(f.ins[b]) \in Nat /\ DOMAIN f.ins[b] = 1 .. Len(f.ins[b])
    BY NTypedFacts
  <2>2. QED
    BY <2>1, ItemKinds
<1> HIDE DEF c, d, E
<1>7. 1 <= NItems(f, d) + 1
  BY <1>3, <1>6
<1>8. \A b \in Blocks(source) : \A m \in 1 .. NItems(f, b) : m \in Nat \ {0}
  BY <1>6
<1>9. Named(f, source, E, d, 1)
  BY <1>3, <1>4, <1>7, <1>8 DEF Named
<1>10. \A b \in Blocks(source) : \A i \in DOMAIN f.ins[b] : Len(f.phis[b]) + i \in Nat \ {0}
  <2>1. \A u, v \in Nat : \A i \in 1 .. v : u + i \in Nat \ {0}
    OBVIOUS
  <2>2. QED
    BY <1>6, <2>1
<1>11. Unread(f, source, E, d, 1)
  BY <1>3, <1>4, <1>5, <1>10 DEF Unread
<1>12. QED
  BY <1>1, <1>2, <1>9, <1>11 DEF d, E

LEMMA ReturnNames ==
  ASSUME Return, Named(f, source, entered, Cur, next), Unread(f, source, entered, Cur, next)
  PROVE  /\ Named(f', source', entered', Cur', next') /\ Unread(f', source', entered', Cur', next')
<1>1. next = 0 /\ UNCHANGED <<f, source, entered, next>>
  BY DEF Return
<1>2. \A c, d : \A b, m : Passed(entered, c, 0, b, m) <=> Passed(entered, d, 0, b, m)
  BY DEF Passed
<1>3. \A c, d : \A b : Ended(entered, c, 0, b) <=> Ended(entered, d, 0, b)
  BY DEF Ended
<1>4. \A c, d : Named(f, source, entered, c, 0) => Named(f, source, entered, d, 0)
  BY <1>2 DEF Named
<1>5. \A c, d : Unread(f, source, entered, c, 0) => Unread(f, source, entered, d, 0)
  BY <1>2, <1>3 DEF Unread
<1>6. QED
  BY <1>1, <1>4, <1>5

\* While insertPhis runs the function is well formed.
LEMMA PlacingFunction ==
  ASSUME PInv, Analysed, pc = "phis"
  PROVE  IsFunction(f)
<1>1. /\ IsFunction(source) /\ source.n \in Nat \ {0} /\ source.ntmp \in Nat \ {0}
      /\ OnlyPhis(f, source) /\ PlainPhis(f, in, temp) /\ temp \in Temps(source)
      /\ in \in [Blocks(source) -> SUBSET Temps(source)]
  BY SourceFacts DEF PInv, PlacingTyped, Analysed, LiveFacts
<1>2. /\ f.n = source.n /\ f.ntmp = source.ntmp /\ f.s1 = source.s1 /\ f.s2 = source.s2
      /\ f.pred = source.pred /\ f.ins = source.ins /\ f.jmp = source.jmp
      /\ Blocks(f) = Blocks(source) /\ Temps(f) = Temps(source)
      /\ f.phis \in [Blocks(source) -> Seq(Phi)]
  BY <1>1, OnlyPhisShape DEF OnlyPhis, SameGraph
<1>3. \A r : RefOK(f, r) <=> RefOK(source, r)
  BY <1>2 DEF RefOK
<1>4. ASSUME NEW b \in Blocks(source), NEW i \in DOMAIN f.phis[b]
      PROVE  LET p == f.phis[b][i] IN
             /\ Len(p.args) = Len(p.blks)
             /\ \A r \in Elems(p.args) \cup {p.to} : RefOK(f, r)
  <2>1. PICK t \in 0 .. temp : t \in in[b] /\ f.phis[b][i] = PlainPhi(t)
    BY <1>1, <1>2 DEF PlainPhis
  <2>2. t \in Temps(source) /\ t \in Nat
    BY <1>1, <2>1 DEF Temps
  <2>3. Tmp(t) \in Ref /\ Tmp(t).val = t
    BY <2>2 DEF Tmp, Ref, RefKinds
  <2>4. RefOK(f, Tmp(t))
    BY <1>2, <2>2, <2>3 DEF RefOK
  <2>5. QED
    BY <2>1, <2>4 DEF PlainPhi, Elems
<1>5. QED
  BY <1>1, <1>2, <1>3, <1>4 DEF IsFunction

\* Where rename starts every temporary has its old name.
LEMMA StartNames ==
  ASSUME PInv, Analysed, NextTemp, pc' = "rename"
  PROVE  /\ NTyped' /\ STyped(stacks', f', newToOld', source') /\ PlacingTyped'
         /\ Erased(f', newToOld', source', in', fron')
         /\ Named(f', source', entered', Cur', next')
         /\ Unread(f', source', entered', Cur', next')
         /\ Stacked(walks', stacks', f', source', newToOld')
<1>1. /\ pc = "phis" /\ work = <<>> /\ ~(temp + 1 < f.ntmp)
      /\ UNCHANGED <<f, source, in, fron, defs, temp, work, added, stacks, newToOld, walks, next, entered>>
  BY DEF NextTemp, domVars, liveVars
<1>2. /\ NotRenaming /\ PlacingTyped /\ OnlyPhis(f, source) /\ PlainPhis(f, in, temp)
      /\ source.ntmp \in Nat \ {0} /\ temp \in Temps(source)
      /\ LiveFacts(source, in) /\ IsFunction(source)
  BY <1>1, SourceFacts DEF PInv, PlacingTyped, Analysed
<1>3. /\ f.ntmp = source.ntmp /\ f.ins = source.ins /\ f.jmp = source.jmp /\ SameGraph(f, source)
      /\ Blocks(f) = Blocks(source) /\ Temps(f) = Temps(source)
  BY <1>2, OnlyPhisShape DEF OnlyPhis
<1>4. IsFunction(f)
  BY <1>1, PlacingFunction
<1>5. /\ newToOld \in [Temps(f) -> Temps(source)] /\ \A t \in Temps(source) : newToOld[t] = t
      /\ stacks \in [Temps(source) -> Seq(Ref)] /\ \A t \in Temps(source) : stacks[t] = <<>>
      /\ walks = <<>> /\ next = 0 /\ entered = {}
  BY <1>2, <1>3 DEF NotRenaming
<1>6. NTyped
  <2>1. f.ntmp >= source.ntmp
    BY <1>2, <1>3
  <2>2. \A b \in Blocks(source) : Len(f.ins[b]) = Len(source.ins[b])
    BY <1>3
  <2>3. QED
    BY <1>3, <1>4, <1>5, <2>1, <2>2 DEF NTyped
<1>7. STyped(stacks, f, newToOld, source)
  BY <1>5 DEF STyped
<1>8. ASSUME NEW b \in Blocks(source), NEW m \in 1 .. NItems(f, b)
      PROVE  ~IsNew(source, ItemTo(f, b, m))
  <2>1. RefOK(f, ItemTo(f, b, m))
    BY <1>6, ItemsTyped
  <2>2. QED
    BY <1>2, <1>3, <2>1 DEF RefOK, IsNew, Temps
<1>9. \A c : Named(f, source, {}, c, 0)
  BY <1>8 DEF Named, Passed
<1>10. \A c : Unread(f, source, {}, c, 0)
  BY <1>3 DEF Unread
<1>11. Stacked(<<>>, stacks, f, source, newToOld)
  <2>1. \A t \in Temps(source) : \A i : Hgt(<<>>, stacks, i, t) = IF i > 0 THEN 0 ELSE Hgt(<<>>, stacks, i, t)
    BY <1>5 DEF Hgt
  <2>2. Len(<<>>) = 0
    OBVIOUS
  <2>3. \A t \in Temps(source) : \A i \in 1 .. Len(<<>>) + 1 : Hgt(<<>>, stacks, i, t) = 0
    BY <2>1, <2>2
  <2>4. QED
    BY <2>2, <2>3 DEF Stacked
<1>12. Erased(f, newToOld, source, in, fron)
  <2>1. ASSUME NEW t \in Temps(source)
        PROVE  PhisFor(f, newToOld, fron, in, source, t)
    <3>1. t \in 0 .. temp
      BY <1>1, <1>2, <1>3 DEF Temps
    <3>2. QED
      BY <1>1, <3>1, PhisPlaced
  <2>2. ASSUME NEW b \in Blocks(source), NEW j \in DOMAIN f.phis[b]
        PROVE  IsTmp(f.phis[b][j].to) /\ newToOld[f.phis[b][j].to.val] \in in[b]
    <3>1. PICK t \in 0 .. temp : t \in in[b] /\ f.phis[b][j] = PlainPhi(t)
      BY <1>2, <1>3 DEF PlainPhis
    <3>2. f.phis[b][j].to = Tmp(t) /\ Tmp(t).val = t /\ IsTmp(Tmp(t))
      BY <3>1 DEF PlainPhi, Tmp, IsTmp
    <3>3. t \in Temps(source)
      BY <1>2, <3>1 DEF LiveFacts
    <3>4. QED
      BY <1>5, <3>1, <3>2, <3>3
  <2>3. ASSUME NEW b \in Blocks(source), NEW i \in DOMAIN f.ins[b]
        PROVE  /\ IsTmp(f.ins[b][i].to) <=> IsTmp(source.ins[b][i].to)
               /\ IsTmp(f.ins[b][i].to) => newToOld[f.ins[b][i].to.val] = source.ins[b][i].to.val
    <3>1. f.ins[b][i].to = source.ins[b][i].to /\ RefOK(source, source.ins[b][i].to)
      BY <1>2, <1>3 DEF IsFunction
    <3>2. QED
      BY <1>5, <3>1 DEF RefOK
  <2>4. QED
    BY <2>1, <2>2, <2>3 DEF Erased
<1>13. QED
  <2>1. f' = f /\ source' = source /\ in' = in /\ fron' = fron /\ stacks' = stacks /\ newToOld' = newToOld
        /\ walks' = <<>> /\ next' = 0 /\ entered' = {} /\ PlacingTyped'
    BY <1>1, <1>2, <1>5 DEF PlacingTyped
  <2>2. NTyped'
    BY <1>6, <2>1 DEF NTyped
  <2>3. Named(f', source', entered', Cur', next') /\ Unread(f', source', entered', Cur', next')
    BY <1>9, <1>10, <2>1
  <2>4. QED
    BY <1>7, <1>11, <1>12, <2>1, <2>2, <2>3

\* The current name of an operand of the function is one.
LEMMA CurrentOK ==
  ASSUME NTyped, STyped(stacks, f, newToOld, source), NEW r, RefOK(f, r)
  PROVE  RefOK(f, Current(Names, r))
<1>1. CASE Current(Names, r) = r
  BY <1>1
<1>2. CASE Current(Names, r) # r
  <2> DEFINE t == newToOld[r.val]
             s == stacks[t]
  <2>1. t \in Temps(source) /\ Len(s) \in DOMAIN s /\ Current(Names, r) = s[Len(s)]
        /\ Current(Names, r) \in Ref
    BY <1>2, CurrentMeans
  <2>2. s[Len(s)].val \in Temps(f)
    BY <2>1 DEF STyped
  <2>3. QED
    BY <2>1, <2>2 DEF RefOK
<1>3. QED
  BY <1>1, <1>2

\* The invariant of rename.
RInv ==
  /\ PlacingTyped /\ WInv /\ NTyped /\ STyped(stacks, f, newToOld, source)
  /\ Erased(f, newToOld, source, in, fron)
  /\ Named(f, source, entered, Cur, next) /\ Unread(f, source, entered, Cur, next)
  /\ Stacked(walks, stacks, f, source, newToOld)

\* Where rename is, in a block.
LEMMA InBlock ==
  ASSUME RInv, next > 0
  PROVE  /\ walks # <<>> /\ Cur = walks[Len(walks)].blk /\ Cur \in Blocks(source) /\ Cur \in entered
         /\ next \in Nat /\ WalkTyped /\ Path
<1>1. walks # <<>> /\ WalkTyped /\ next \in Nat /\ Path
  BY DEF RInv, WInv, Turn, WalkTyped
<1>2. Cur \in Blocks(source) /\ Cur = walks[Len(walks)].blk /\ Len(walks) \in DOMAIN walks
  BY <1>1, CurMeans
<1>3. QED
  BY <1>1, <1>2 DEF Path

\* RenamePhi and RenameIns are one step, on the item rename is at.
LEMMA OneRenamed ==
  ASSUME Analysed, RInv, RenamePhi \/ RenameIns
  PROVE  /\ next > 0 /\ next \in 1 .. NItems(f, Cur) /\ next' = next + 1 /\ Cur' = Cur
         /\ UNCHANGED <<source, idom, dom, dlink, fron, in, defs, temp, work, added, walks, at, entered>>
         /\ Renamed(f, f', Cur, next) /\ Pushed(ItemTo(f, Cur, next))
         /\ f'.phis \in [Blocks(source) -> Seq(Phi)] /\ f'.ins \in [Blocks(source) -> Seq(Instruction)]
         /\ \A b \in Blocks(source) : \A i \in DOMAIN f.ins[b] :
              \A r \in Elems(f'.ins[b][i].arg) : RefOK(f', r)
<1>1. /\ walks # <<>> /\ next \in Nat /\ WalkTyped /\ NTyped /\ STyped(stacks, f, newToOld, source)
      /\ next' = next + 1
      /\ UNCHANGED <<source, idom, dom, dlink, fron, in, defs, temp, work, added, walks, at, entered>>
  BY DEF RenamePhi, RenameIns, RInv, WInv, WalkTyped, domVars, liveVars, phiVars
<1>2. Cur' = Cur /\ Cur \in Blocks(source)
  BY <1>1, CurMeans DEF Cur
<1>3. /\ Len(f.phis[Cur]) \in Nat /\ Len(f.ins[Cur]) \in Nat
      /\ DOMAIN f.phis[Cur] = 1 .. Len(f.phis[Cur]) /\ DOMAIN f.ins[Cur] = 1 .. Len(f.ins[Cur])
      /\ f.ntmp \in Nat /\ Blocks(f) = Blocks(source) /\ IsFunction(f)
  BY <1>1, <1>2, NTypedFacts DEF NTyped
<1>4. ASSUME NEW b \in Blocks(source), NEW i \in DOMAIN f.ins[b], NEW r \in Elems(f.ins[b][i].arg)
      PROVE  RefOK(f, r)
  BY <1>3 DEF IsFunction
<1>5. \A g : Renamed(f, g, Cur, next) => \A r : RefOK(f, r) => RefOK(g, r)
  <2> SUFFICES ASSUME NEW g, Renamed(f, g, Cur, next), NEW r, RefOK(f, r) PROVE RefOK(g, r)
    OBVIOUS
  <2>1. g.ntmp = f.ntmp \/ g.ntmp = f.ntmp + 1
    BY DEF Renamed
  <2>2. g.ntmp \in Nat /\ f.ntmp <= g.ntmp
    BY <1>3, <2>1
  <2>3. QED
    BY <1>3, <2>2, RefGrows
<1>6. CASE RenamePhi
  <2>1. /\ Renamed(f, f', Cur, next) /\ Pushed(ItemTo(f, Cur, next)) /\ next \in 1 .. Len(f.phis[Cur])
        /\ f'.ins = f.ins /\ f'.phis \in [Blocks(source) -> Seq(Phi)]
    BY <1>1, <1>2, <1>6, RenamePhiMeans
  <2>2. f'.ins \in [Blocks(source) -> Seq(Instruction)]
    BY <1>1, <2>1, NTypedFacts
  <2>3. next > 0 /\ next \in 1 .. NItems(f, Cur)
    <3> DEFINE c == Cur
    <3>1. Len(f.phis[c]) \in Nat /\ Len(f.ins[c]) \in Nat /\ next \in 1 .. Len(f.phis[c])
      BY <1>3, <2>1
    <3> HIDE DEF c
    <3>2. next \in 1 .. NItems(f, c)
      BY <3>1, ItemKinds
    <3>3. QED
      BY <2>1, <1>1, <3>2 DEF c
  <2>4. \A b \in Blocks(source) : \A i \in DOMAIN f.ins[b] : \A r \in Elems(f'.ins[b][i].arg) : RefOK(f', r)
    BY <1>4, <1>5, <2>1
  <2>5. QED
    BY <1>1, <1>2, <2>1, <2>2, <2>3, <2>4
<1>7. CASE RenameIns
  <2> DEFINE x == NextIns
             c == Cur
  <2>1. /\ Renamed(f, f', c, next) /\ Pushed(ItemTo(f, c, next))
        /\ x \in DOMAIN f.ins[c] /\ next = Len(f.phis[c]) + x
        /\ f'.phis = f.phis /\ f'.ins \in [Blocks(source) -> Seq(Instruction)]
        /\ f'.ins[c][x].arg = [i \in DOMAIN f.ins[c][x].arg |-> Current(Names, f.ins[c][x].arg[i])]
    BY <1>1, <1>2, <1>7, RenameInsMeans
  <2>2. f'.phis \in [Blocks(source) -> Seq(Phi)]
    BY <1>1, <2>1, NTypedFacts
  <2>3. Len(f.phis[c]) \in Nat /\ Len(f.ins[c]) \in Nat /\ x \in 1 .. Len(f.ins[c]) /\ c \in Blocks(source)
    BY <1>2, <1>3, <2>1
  <2> HIDE DEF x, c
  <2>4. next \in 1 .. NItems(f, c)
    BY <2>1, <2>3, ItemKinds
  <2>5. NItems(f, c) \in Nat
    BY <2>3, ItemKinds
  <2>6. next > 0
    BY <2>4, <2>5
  <2>7. ASSUME NEW b \in Blocks(source), NEW i \in DOMAIN f.ins[b], NEW r \in Elems(f'.ins[b][i].arg)
        PROVE  RefOK(f', r)
    <3>1. CASE b = c /\ i = x
      <4>1. PICK l \in DOMAIN f.ins[c][x].arg : r = Current(Names, f.ins[c][x].arg[l])
        BY <2>1, <3>1 DEF Elems
      <4>2. RefOK(f, f.ins[c][x].arg[l])
        BY <1>4, <2>1, <2>3, <4>1 DEF Elems
      <4>3. RefOK(f, r)
        BY <1>1, <4>1, <4>2, CurrentOK
      <4>4. QED
        BY <1>5, <2>1, <4>3 DEF c
    <3>2. CASE ~(b = c /\ i = x)
      <4>1. ~(b = c /\ Len(f.phis[b]) + i = next)
        <5>1. b = c => i \in 1 .. Len(f.ins[c])
          BY <1>3 DEF c
        <5> DEFINE u == Len(f.phis[c])
                   v == Len(f.ins[c])
        <5>2. u \in Nat /\ v \in Nat /\ next = u + x /\ x \in 1 .. v /\ (b = c => i \in 1 .. v)
          BY <2>1, <2>3, <5>1
        <5> HIDE DEF u, v
        <5>3. b = c => u + i # next
          BY <3>2, <5>2
        <5>4. QED
          BY <5>3 DEF u
      <4>2. f'.ins[b][i].arg = f.ins[b][i].arg
        BY <1>3, <2>1, <4>1 DEF Renamed
      <4>3. RefOK(f, r)
        BY <1>4, <4>2
      <4>4. QED
        BY <1>5, <2>1, <4>3 DEF c
    <3>3. QED
      BY <3>1, <3>2
  <2>8. QED
    BY <1>1, <1>2, <2>1, <2>2, <2>4, <2>6, <2>7 DEF c
<1>8. QED
  BY <1>6, <1>7

\* The invariant of rename is kept by each of its steps.
LEMMA OneRenamedKeeps ==
  ASSUME Analysed, RInv, RenamePhi \/ RenameIns
  PROVE  RInv' /\ \A t \in Temps(f) : newToOld'[t] = newToOld[t] /\ t \in Temps(f')
<1> DEFINE c == Cur
           n == next
<1>1. /\ next > 0 /\ n \in 1 .. NItems(f, c) /\ next' = next + 1 /\ Cur' = c
      /\ UNCHANGED <<source, idom, dom, dlink, fron, in, defs, temp, work, added, walks, at, entered>>
      /\ Renamed(f, f', c, n) /\ Pushed(ItemTo(f, c, n))
      /\ f'.phis \in [Blocks(source) -> Seq(Phi)] /\ f'.ins \in [Blocks(source) -> Seq(Instruction)]
      /\ \A b \in Blocks(source) : \A i \in DOMAIN f.ins[b] :
              \A r \in Elems(f'.ins[b][i].arg) : RefOK(f', r)
  BY OneRenamed
<1>2. /\ PlacingTyped /\ WInv /\ NTyped /\ STyped(stacks, f, newToOld, source)
      /\ Erased(f, newToOld, source, in, fron)
      /\ Named(f, source, entered, c, n) /\ Unread(f, source, entered, c, n)
      /\ Stacked(walks, stacks, f, source, newToOld)
  BY DEF RInv
<1>3. /\ walks # <<>> /\ c = walks[Len(walks)].blk /\ c \in Blocks(source) /\ c \in entered
      /\ WalkTyped /\ Path
  BY <1>1, InBlock
<1> HIDE DEF c, n
<1>4. NTyped' /\ STyped(stacks', f', newToOld', source)
      /\ \A t \in Temps(f) : newToOld'[t] = newToOld[t] /\ t \in Temps(f')
  BY <1>1, <1>2, <1>3, RenamedTyped
<1>5. Erased(f', newToOld', source, in, fron)
  BY <1>1, <1>2, <1>3, <1>4, RenamedErased
<1>6. Named(f', source, entered, c, n + 1)
  BY <1>1, <1>2, <1>3, RenamedNamed
<1>7. Unread(f', source, entered, c, n + 1)
  BY <1>1, <1>2, <1>3, <1>4, RenamedUnread
<1>8. Stacked(walks, stacks', f', source, newToOld')
  BY <1>1, <1>2, <1>3, <1>4, RenamedStacked
<1>9. WInv'
  BY <1>1, <1>2, AdvanceWalks
<1>10. PlacingTyped'
  BY <1>1, <1>2 DEF PlacingTyped
<1>11. next' = n + 1
  BY <1>1 DEF n
<1>12. QED
  BY <1>1, <1>4, <1>5, <1>6, <1>7, <1>8, <1>9, <1>10, <1>11 DEF RInv

LEMMA EnterKeeps ==
  ASSUME Analysed, RInv, Enter
  PROVE  RInv'
<1>1. /\ PlacingTyped /\ WInv /\ NTyped /\ STyped(stacks, f, newToOld, source)
      /\ Erased(f, newToOld, source, in, fron)
      /\ Named(f, source, entered, Cur, next) /\ Unread(f, source, entered, Cur, next)
      /\ Stacked(walks, stacks, f, source, newToOld)
      /\ UNCHANGED <<f, source, defs, temp, work, added, in, fron, stacks, newToOld>>
  BY DEF RInv, Enter, liveVars, domVars, phiVars
<1>2. WInv'
  BY <1>1, EnterWalks DEF NTyped
<1>3. Named(f', source', entered', Cur', next') /\ Unread(f', source', entered', Cur', next')
  BY <1>1, EnterNames
<1>4. Stacked(walks', stacks', f', source', newToOld')
  BY <1>1, EnterStacked
<1>5. NTyped' /\ PlacingTyped'
  BY <1>1 DEF NTyped, PlacingTyped
<1>6. STyped(stacks', f', newToOld', source') /\ Erased(f', newToOld', source', in', fron')
  BY <1>1
<1>7. QED
  BY <1>2, <1>3, <1>4, <1>5, <1>6 DEF RInv

LEMMA EndBlockKeeps ==
  ASSUME Analysed, RInv, EndBlock
  PROVE  RInv'
<1>1. /\ PlacingTyped /\ WInv /\ NTyped /\ STyped(stacks, f, newToOld, source)
      /\ Erased(f, newToOld, source, in, fron)
      /\ Named(f, source, entered, Cur, next) /\ Unread(f, source, entered, Cur, next)
      /\ Stacked(walks, stacks, f, source, newToOld)
      /\ UNCHANGED <<source, defs, temp, work, added>> /\ next > 0
  BY DEF RInv, EndBlock, phiVars
<1>2. Cur \in Blocks(source)
  BY <1>1, InBlock
<1>3. WInv'
  BY <1>1, EndBlockWalks
<1>4. NTyped' /\ STyped(stacks', f', newToOld', source')
  BY <1>1, <1>2, EndBlockTyped
<1>5. /\ Erased(f', newToOld', source', in', fron')
      /\ Named(f', source', entered', Cur', next')
      /\ Unread(f', source', entered', Cur', next')
      /\ Stacked(walks', stacks', f', source', newToOld')
  BY <1>1, <1>4, EndBlockNames
<1>6. PlacingTyped'
  BY <1>1 DEF PlacingTyped
<1>7. QED
  BY <1>3, <1>4, <1>5, <1>6 DEF RInv

LEMMA ReturnKeeps ==
  ASSUME Analysed, RInv, Return
  PROVE  RInv'
<1>1. /\ PlacingTyped /\ WInv /\ NTyped /\ STyped(stacks, f, newToOld, source)
      /\ Erased(f, newToOld, source, in, fron)
      /\ Named(f, source, entered, Cur, next) /\ Unread(f, source, entered, Cur, next)
      /\ Stacked(walks, stacks, f, source, newToOld)
      /\ UNCHANGED <<f, source, defs, temp, work, added, in, fron, newToOld>>
  BY DEF RInv, Return, liveVars, domVars, phiVars
<1>2. WInv'
  BY <1>1, ReturnWalks
<1>3. Named(f', source', entered', Cur', next') /\ Unread(f', source', entered', Cur', next')
  BY <1>1, ReturnNames
<1>4. /\ Stacked(walks', stacks', f', source', newToOld')
      /\ stacks' \in [Temps(source) -> Seq(Ref)] /\ STyped(stacks', f', newToOld', source')
  BY <1>1, ReturnStacked
<1>5. NTyped' /\ PlacingTyped' /\ Erased(f', newToOld', source', in', fron')
  BY <1>1, <1>4 DEF NTyped, PlacingTyped
<1>6. QED
  BY <1>2, <1>3, <1>4, <1>5 DEF RInv

-----------------------------------------------------------------------------
\* Nothing else is part of it.
LEMMA RInvSame ==
  ASSUME RInv, UNCHANGED <<f, source, defs, temp, work, added, in, fron, idom, stacks, newToOld,
                           walks, at, next, entered>>
  PROVE  RInv'
<1>1. Cur' = Cur
  BY DEF Cur
<1>2. PlacingTyped'
  BY DEF RInv, PlacingTyped
<1>3. WalkTyped' /\ Path' /\ Walked'
  BY DEF RInv, WInv, WalkTyped, Path, Walked
<1>4. Turn'
  BY <1>1 DEF RInv, WInv, Turn
<1>5. NTyped'
  BY DEF RInv, NTyped
<1>6. QED
  BY <1>1, <1>2, <1>3, <1>4, <1>5 DEF RInv, WInv

CountOK(c) == c \in [NDef : Nat, NUse : Nat, Def : Sites(source) \cup {Nowhere}]

(***************************************************************************)
(* The inductive invariant, with a part for every pass.                    *)
(***************************************************************************)
SInv ==
  /\ Analysed
  /\ pc \in {"dom", "live"} => NotPlacing /\ NotRenaming
  /\ pc = "phis" => PInv
  /\ pc \in {"rename", "done"} => RInv
  /\ pc = "done" => temps = FillUse(f) /\ walks = <<>> /\ at = Nil /\ next = 0
  /\ \A t \in DOMAIN temps : CountOK(temps[t])

\* All along, the sites are those of the source.
LEMMA SitesSame ==
  ASSUME Analysed, pc \in {"dom", "live"} => NotPlacing /\ NotRenaming, pc = "phis" => PInv,
         pc \in {"rename", "done"} => RInv
  PROVE  /\ IsFunction(f) /\ Blocks(f) = Blocks(source) /\ Sites(f) = Sites(source)
         /\ Temps(source) \subseteq Temps(f) /\ SameGraph(f, source)
<1>1. /\ pc \in {"dom", "live", "phis", "rename", "done"} /\ IsFunction(source)
      /\ Fields \subseteq DOMAIN source /\ source.ntmp \in Nat
  BY SourceFacts DEF Analysed
<1>2. CASE pc \in {"dom", "live"}
  BY <1>1, <1>2 DEF Analysed, SameGraph
<1>3. CASE pc = "phis"
  <2>1. OnlyPhis(f, source) /\ IsFunction(f)
    BY <1>3, PlacingFunction DEF PInv
  <2>2. QED
    BY <2>1, OnlyPhisShape DEF OnlyPhis, Sites
<1>4. CASE pc \in {"rename", "done"}
  <2>1. /\ NTyped /\ IsFunction(f) /\ SameGraph(f, source) /\ f.ntmp >= source.ntmp
        /\ \A b \in Blocks(source) : Len(f.ins[b]) = Len(source.ins[b])
    BY <1>4 DEF RInv, NTyped
  <2>2. /\ Blocks(f) = Blocks(source) /\ f.ntmp \in Nat
        /\ \A b \in Blocks(source) : DOMAIN f.ins[b] = 1 .. Len(f.ins[b])
    BY <2>1, NTypedFacts
  <2>3. \A b \in Blocks(source) : source.ins[b] \in Seq(Instruction)
    BY <1>1 DEF IsFunction
  <2>4. \A V : \A s \in Seq(V) : DOMAIN s = 1 .. Len(s)
    OBVIOUS
  <2>5. \A b \in Blocks(source) : DOMAIN source.ins[b] = DOMAIN f.ins[b]
    BY <2>1, <2>2, <2>3, <2>4
  <2>6. Sites(f) = Sites(source)
    BY <2>2, <2>5 DEF Sites
  <2>7. Temps(source) \subseteq Temps(f)
    BY <1>1, <2>1, <2>2 DEF Temps
  <2>8. QED
    BY <2>1, <2>2, <2>6, <2>7
<1>5. QED
  BY <1>1, <1>2, <1>3, <1>4

\* It holds when SSA is called.
LEMMA InitSInv ==
  ASSUME Init
  PROVE  SInv
<1>1. Analysed /\ NotPlacing /\ NotRenaming
  BY InitAnalysed, InitPlacing
<1>2. pc = "dom" /\ temps = [t \in Temps(f) |-> [NDef |-> 0, NUse |-> 0, Def |-> Nowhere]]
  BY DEF Init
<1>3. QED
  BY <1>1, <1>2, InitPlacing DEF SInv, CountOK

\* It counts when FillUse is called.
LEMMA FillUseCounts ==
  ASSUME IsFunction(f), Sites(f) = Sites(source), temps' = FillUse(f), source' = source
  PROVE  (\A t \in DOMAIN temps : CountOK(temps[t]))'
<1>1. ASSUME NEW t \in Temps(f)
      PROVE  FillUse(f)[t] \in [NDef : Nat, NUse : Nat, Def : Sites(source) \cup {Nowhere}]
  BY FillUseTyped DEF FillUse
<1>2. DOMAIN FillUse(f) = Temps(f)
  BY DEF FillUse
<1>3. QED
  BY <1>1, <1>2 DEF CountOK

\* Every step keeps it.
LEMMA SInvStep ==
  ASSUME SInv, [Next]_vars, Analysed'
  PROVE  SInv'
<1>1. Analysed' /\ Analysed
  BY DEF SInv
<1>2. /\ IsFunction(f) /\ Sites(f) = Sites(source)
      /\ \A t \in DOMAIN temps : CountOK(temps[t])
  BY SitesSame DEF SInv
<1>3. UNCHANGED <<source, temps>> => (\A t \in DOMAIN temps : CountOK(temps[t]))'
  BY <1>2 DEF CountOK
<1>4. CASE FillDomFron
  <2>1. /\ pc = "dom" /\ pc' \in {"dom", "live"}
        /\ UNCHANGED <<source, temps, temp, work, added, defs, stacks, newToOld, walks, at, next, entered>>
    BY <1>4 DEF FillDomFron, phiVars, renameVars
  <2>2. NotPlacing' /\ NotRenaming'
    BY <2>1 DEF SInv, NotPlacing, NotRenaming
  <2>3. QED
    BY <1>1, <1>3, <2>1, <2>2 DEF SInv
<1>5. CASE Liveness /\ lpc # "done"
  <2>1. /\ pc = "live" /\ pc' = pc
        /\ UNCHANGED <<source, temps, temp, work, added, defs, stacks, newToOld, walks, at, next, entered>>
    BY <1>5 DEF Liveness, phiVars, renameVars
  <2>2. NotPlacing' /\ NotRenaming'
    BY <2>1 DEF SInv, NotPlacing, NotRenaming
  <2>3. QED
    BY <1>1, <1>3, <2>1, <2>2 DEF SInv
<1>6. CASE Liveness /\ lpc = "done"
  <2>1. /\ pc = "live" /\ pc' = "phis" /\ temps' = FillUse(f) /\ source' = source
        /\ NotPlacing /\ NotRenaming
    BY <1>6 DEF Liveness, SInv
  <2>2. PInv'
    BY <1>1, <1>6, <2>1, LivenessPlacing
  <2>3. (\A t \in DOMAIN temps : CountOK(temps[t]))'
    BY <1>2, <2>1, FillUseCounts
  <2>4. QED
    BY <1>1, <2>1, <2>2, <2>3 DEF SInv
<1>7. CASE PlacePhis
  <2>1. pc = "phis" /\ pc' = pc /\ UNCHANGED <<source, temps>> /\ PInv
    BY <1>7 DEF PlacePhis, SInv
  <2>2. PInv'
    BY <1>1, <1>7, <2>1, PlacePhisPlaces
  <2>3. QED
    BY <1>1, <1>3, <2>1, <2>2 DEF SInv
<1>8. CASE NextTemp /\ temp + 1 < f.ntmp
  <2>1. pc = "phis" /\ UNCHANGED <<source, temps>> /\ PInv
    BY <1>8 DEF NextTemp, SInv
  <2>2. PInv' /\ pc' = pc
    BY <1>1, <1>8, <2>1, NextTempPlaces
  <2>3. QED
    BY <1>1, <1>3, <2>1, <2>2 DEF SInv
<1>9. CASE NextTemp /\ ~(temp + 1 < f.ntmp)
  <2>1. pc = "phis" /\ pc' = "rename" /\ UNCHANGED <<source, temps>> /\ PInv /\ NotRenaming
    BY <1>9 DEF NextTemp, SInv, PInv
  <2>2. WInv'
    BY <1>1, <1>9, <2>1, StartWalked
  <2>3. RInv'
    BY <1>1, <1>9, <2>1, <2>2, StartNames DEF RInv
  <2>4. QED
    BY <1>1, <1>3, <2>1, <2>3 DEF SInv
<1>10. CASE Enter \/ RenamePhi \/ RenameIns \/ EndBlock \/ Return
  <2>1. pc = "rename" /\ pc' = pc /\ UNCHANGED <<source, temps>> /\ RInv
    BY <1>10 DEF Enter, RenamePhi, RenameIns, EndBlock, Return, SInv
  <2>2. RInv'
    BY <1>1, <1>10, <2>1, EnterKeeps, OneRenamedKeeps, EndBlockKeeps, ReturnKeeps
  <2>3. QED
    BY <1>1, <1>3, <2>1, <2>2 DEF SInv
<1>11. CASE Finish
  <2>1. /\ pc = "rename" /\ pc' = "done" /\ temps' = FillUse(f) /\ at = Nil /\ walks = <<>> /\ RInv
        /\ UNCHANGED <<f, source, defs, temp, work, added, in, fron, idom, stacks, newToOld,
                       walks, at, next, entered>>
    BY <1>11 DEF Finish, SInv, domVars, liveVars, phiVars, renameVars
  <2>2. next = 0
    BY <2>1 DEF RInv, WInv, WalkTyped, Turn
  <2>3. RInv'
    BY <2>1, RInvSame
  <2>4. (\A t \in DOMAIN temps : CountOK(temps[t]))'
    BY <1>2, <2>1, FillUseCounts
  <2>5. QED
    BY <1>1, <2>1, <2>2, <2>3, <2>4 DEF SInv
<1>12. CASE UNCHANGED vars
  <2>1. /\ UNCHANGED <<f, source, defs, temp, work, added, in, fron, idom, stacks, newToOld,
                       walks, at, next, entered, temps, pc>>
    BY <1>12 DEF vars, domVars, liveVars, phiVars, renameVars
  <2>2. RInv => RInv'
    BY <2>1, RInvSame
  <2>3. PInv => PInv'
    BY <2>1 DEF PInv, NotRenaming, PlacingTyped
  <2>4. (NotPlacing => NotPlacing') /\ (NotRenaming => NotRenaming')
    BY <2>1 DEF NotPlacing, NotRenaming
  <2>5. QED
    BY <1>1, <1>3, <2>1, <2>2, <2>3, <2>4 DEF SInv
<1>13. QED
  BY <1>4, <1>5, <1>6, <1>7, <1>8, <1>9, <1>10, <1>11, <1>12 DEF Next

\* It implies the type invariant.
LEMMA TypesHold ==
  ASSUME SInv
  PROVE  TypeOK
<1>1. /\ IsFunction(f) /\ Blocks(f) = Blocks(source) /\ Sites(f) = Sites(source)
      /\ Temps(source) \subseteq Temps(f) /\ SameGraph(f, source)
  BY SitesSame DEF SInv
<1>2. /\ Analysed /\ IsFunction(source) /\ source.n \in Nat \ {0} /\ 0 \in Temps(source) /\ 0 \in Blocks(source)
      /\ pc \in {"dom", "live", "phis", "rename", "done"}
  BY SourceFacts DEF SInv, Analysed
<1>3. \A t \in DOMAIN temps : temps[t] \in [NDef : Nat, NUse : Nat, Def : Sites(f) \cup {Nowhere}]
  BY <1>1 DEF SInv, CountOK
<1>4. /\ defs \in [Temps(source) -> SUBSET Blocks(f)]
      /\ temp \in Temps(source) /\ work \in Seq(Blocks(f)) /\ added \subseteq Blocks(f)
  <2>1. CASE pc \in {"dom", "live"}
    <3>1. NotPlacing
      BY <2>1 DEF SInv
    <3>2. <<>> \in Seq(Blocks(f))
      OBVIOUS
    <3>3. QED
      BY <1>1, <1>2, <3>1, <3>2 DEF NotPlacing
  <2>2. CASE pc \in {"phis", "rename", "done"}
    <3>1. PlacingTyped
      BY <2>2 DEF SInv, PInv, RInv
    <3>2. QED
      BY <1>1, <3>1 DEF PlacingTyped
  <2>3. QED
    BY <1>2, <2>1, <2>2
<1>5. CASE pc \in {"dom", "live", "phis"}
  <2>1. NotRenaming
    BY <1>5 DEF SInv, PInv
  <2>2. Temps(f) = Temps(source)
    <3>1. CASE pc = "phis"
      BY <3>1, OnlyPhisShape DEF SInv, PInv
    <3>2. CASE pc \in {"dom", "live"}
      BY <3>2 DEF SInv, Analysed
    <3>3. QED
      BY <1>5, <3>1, <3>2
  <2>3. <<>> \in Seq(Ref) /\ DOMAIN <<>> = {}
    OBVIOUS
  <2>4. /\ stacks \in [Temps(source) -> Seq(Ref)] /\ newToOld \in [Temps(f) -> Temps(source)]
        /\ \A i \in DOMAIN walks : walks[i].blk \in Blocks(f)
        /\ at \in Blocks(f) \cup {Nil} /\ next \in Nat /\ entered \subseteq Blocks(f)
    BY <1>1, <1>2, <2>1, <2>2, <2>3 DEF NotRenaming
  <2>5. QED
    BY <1>1, <1>2, <1>3, <1>4, <2>4 DEF TypeOK
<1>6. CASE pc \in {"rename", "done"}
  <2>1. NTyped /\ WalkTyped
    BY <1>6 DEF SInv, RInv, WInv
  <2>2. \A i \in DOMAIN walks : walks[i].blk \in Blocks(f)
    BY <1>1, <2>1, WalksTyped
  <2>3. QED
    BY <1>1, <1>2, <1>3, <1>4, <2>1, <2>2 DEF TypeOK, NTyped, WalkTyped
<1>7. QED
  BY <1>2, <1>5, <1>6

\* The name at height n was given by the innermost call that found the stack lower than that.
LEMMA GivenBy ==
  ASSUME RInv, Analysed, NEW t \in Temps(source), NEW n \in DOMAIN stacks[t]
  PROVE  \E x \in DOMAIN walks :
           /\ Hgt(walks, stacks, x, t) < n /\ n <= Hgt(walks, stacks, x + 1, t)
           /\ \A i \in 1 .. Len(walks) + 1 : n <= Hgt(walks, stacks, i, t) => x + 1 <= i
           /\ stacks[t][n].val \in Given(walks[x].blk)
           /\ \E m \in 1 .. NItems(f, walks[x].blk) : stacks[t][n] = ItemTo(f, walks[x].blk, m)
<1> DEFINE L == Len(walks)
           H == [i \in 1 .. L + 1 |-> Hgt(walks, stacks, i, t)]
           P == {i \in 1 .. L + 1 : n <= H[i]}
<1>1. WalkTyped /\ NTyped /\ stacks \in [Temps(source) -> Seq(Ref)]
  BY DEF RInv, WInv, NTyped
<1>2. /\ L \in Nat /\ DOMAIN walks = 1 .. L
      /\ Len(stacks[t]) \in Nat /\ DOMAIN stacks[t] = 1 .. Len(stacks[t])
      /\ \A i \in 1 .. L + 1 : Hgt(walks, stacks, i, t) \in Nat
      /\ Hgt(walks, stacks, L + 1, t) = Len(stacks[t])
  BY <1>1, Heights
<1>3. Hgt(walks, stacks, 1, t) = 0
  BY DEF RInv, Stacked
<1> HIDE DEF L
<1>4. /\ \A i \in 1 .. L + 1 : H[i] = Hgt(walks, stacks, i, t) /\ H[i] \in Nat
      /\ L + 1 \in 1 .. L + 1 /\ 1 \in 1 .. L + 1
  BY <1>2
<1> HIDE DEF H
<1>5. P \in SUBSET Nat /\ P # {}
  <2>1. L + 1 \in P
    BY <1>2, <1>4
  <2>2. QED
    BY <1>2, <2>1
<1>6. PICK y \in P : \A i \in P : y <= i
  <2> HIDE DEF P
  <2>1. QED
    BY <1>5, LeastNat
<1>7. y # 1
  BY <1>2, <1>3, <1>4, <1>6
<1>8. PICK x \in 1 .. L : y = x + 1
  BY <1>2, <1>6, <1>7
<1>9. x \notin P /\ x \in 1 .. L + 1
  <2>1. ~(x + 1 <= x) /\ x \in 1 .. L + 1
    BY <1>2
  <2>2. QED
    BY <1>6, <1>8, <2>1
<1>10. H[x] < n /\ n <= H[x + 1]
  BY <1>2, <1>4, <1>6, <1>8, <1>9
<1>11. Hgt(walks, stacks, x, t) < n /\ n <= Hgt(walks, stacks, x + 1, t)
  BY <1>4, <1>6, <1>8, <1>9, <1>10
<1>12. \A i \in 1 .. L + 1 : n <= Hgt(walks, stacks, i, t) => x + 1 <= i
  BY <1>4, <1>6, <1>8
<1>13. n \in Hgt(walks, stacks, x, t) + 1 .. Hgt(walks, stacks, x + 1, t)
  <2>1. Hgt(walks, stacks, x, t) \in Nat /\ Hgt(walks, stacks, x + 1, t) \in Nat /\ n \in Nat
    BY <1>2, <1>6, <1>8, <1>9
  <2>2. QED
    BY <1>11, <2>1
<1>14. PICK m \in 1 .. NItems(f, walks[x].blk) : stacks[t][n] = ItemTo(f, walks[x].blk, m)
  BY <1>13 DEF RInv, Stacked, L
<1>15. stacks[t][n].val \in Given(walks[x].blk)
  <2> DEFINE b == walks[x].blk
  <2>1. b \in Blocks(source)
    BY <1>1, <1>2, WalksTyped
  <2>2. IsTmp(stacks[t][n])
    BY DEF RInv, STyped, IsNew
  <2> HIDE DEF b
  <2>3. IF m <= Len(f.phis[b]) THEN m \in DOMAIN f.phis[b] ELSE m - Len(f.phis[b]) \in DOMAIN f.ins[b]
    BY <1>1, <1>14, <2>1, ItemsTyped DEF b
  <2>4. stacks[t][n] = ItemTo(f, b, m)
    BY <1>14 DEF b
  <2>5. \E z \in Elems(f.phis[b]) \cup Elems(f.ins[b]) : stacks[t][n] = z.to
    <3>1. CASE m <= Len(f.phis[b])
      BY <2>3, <2>4, <3>1 DEF ItemTo, Elems
    <3>2. CASE ~(m <= Len(f.phis[b]))
      BY <2>3, <2>4, <3>2 DEF ItemTo, Elems
    <3>3. QED
      BY <3>1, <3>2
  <2>6. stacks[t][n].val \in Given(b)
    BY <2>2, <2>5 DEF Given, Defs, TmpsOf
  <2>7. QED
    BY <2>6 DEF b
<1>16. QED
  BY <1>2, <1>11, <1>12, <1>14, <1>15 DEF L

\* It implies that the names are of the path.
LEMMA PathHolds ==
  ASSUME SInv
  PROVE  NamesOnPath
<1>1. CASE pc \in {"dom", "live", "phis"}
  <2>1. NotRenaming
    BY <1>1 DEF SInv, PInv
  <2>2. DOMAIN <<>> = {}
    OBVIOUS
  <2>3. DOMAIN walks = {} /\ \A t \in DOMAIN stacks : DOMAIN stacks[t] = {}
    BY <2>1, <2>2 DEF NotRenaming
  <2>4. QED
    BY <2>3 DEF NamesOnPath
<1>2. CASE pc \in {"rename", "done"}
  <2>1. RInv /\ Analysed /\ Path /\ WalkTyped /\ stacks \in [Temps(source) -> Seq(Ref)]
    BY <1>2 DEF SInv, RInv, WInv, NTyped
  <2>2. Len(walks) \in Nat /\ DOMAIN walks = 1 .. Len(walks)
    BY <2>1 DEF WalkTyped
  <2>3. \A i \in DOMAIN walks : IF i = 1 THEN walks[i].blk = 0 ELSE idom[walks[i].blk] = walks[i - 1].blk
    <3> SUFFICES ASSUME NEW i \in DOMAIN walks
                 PROVE  IF i = 1 THEN walks[i].blk = 0 ELSE idom[walks[i].blk] = walks[i - 1].blk
      OBVIOUS
    <3>1. walks # <<>>
      BY <2>2
    <3>2. i = 1 => walks[i].blk = 0
      BY <2>1, <3>1 DEF Path
    <3>3. i > 1 => idom[walks[i].blk] = walks[i - 1].blk
      BY <2>1 DEF Path, Child
    <3>4. QED
      BY <2>2, <3>2, <3>3
  <2>4. ASSUME NEW t \in DOMAIN stacks, NEW i \in DOMAIN stacks[t], NEW j \in DOMAIN stacks[t], i <= j
        PROVE  \E x, y \in DOMAIN walks :
                 /\ stacks[t][i].val \in Given(walks[x].blk)
                 /\ stacks[t][j].val \in Given(walks[y].blk)
                 /\ x <= y
    <3>1. t \in Temps(source)
      BY <2>1
    <3>2. /\ Len(stacks[t]) \in Nat /\ DOMAIN stacks[t] = 1 .. Len(stacks[t])
          /\ \A q \in 1 .. Len(walks) + 1 : Hgt(walks, stacks, q, t) \in Nat
      BY <2>1, <3>1, Heights
    <3>3. PICK x \in DOMAIN walks :
            /\ \A q \in 1 .. Len(walks) + 1 : i <= Hgt(walks, stacks, q, t) => x + 1 <= q
            /\ stacks[t][i].val \in Given(walks[x].blk)
      BY <2>1, <3>1, GivenBy
    <3>4. PICK y \in DOMAIN walks :
            /\ j <= Hgt(walks, stacks, y + 1, t) /\ stacks[t][j].val \in Given(walks[y].blk)
      BY <2>1, <3>1, GivenBy
    <3>5. y + 1 \in 1 .. Len(walks) + 1 /\ i \in Nat /\ j \in Nat /\ x \in Nat /\ y \in Nat
      BY <2>2, <3>2
    <3>6. i <= Hgt(walks, stacks, y + 1, t)
      BY <2>4, <3>2, <3>4, <3>5
    <3>7. x + 1 <= y + 1
      BY <3>3, <3>5, <3>6
    <3>8. x <= y
      BY <3>5, <3>7
    <3>9. QED
      BY <3>3, <3>4, <3>8
  <2>5. QED
    BY <2>3, <2>4 DEF NamesOnPath
<1>3. QED
  BY <1>1, <1>2 DEF SInv, Analysed

-----------------------------------------------------------------------------
(***************************************************************************)
(* What is read.  A name is given before a place of block b if an earlier  *)
(* item of b has it, or one of a block that strictly dominates b.  An      *)
(* operand that rename left as it was has no name there, which happens     *)
(* only if something may be read before it is written.                     *)
(***************************************************************************)
Before(g, h, r, b, pos) ==
  \/ \E m \in 1 .. NItems(g, b) : m < pos /\ ItemTo(g, b, m) = r
  \/ \E d \in Blocks(h) : SDom(h, d, b) /\ \E m \in 1 .. NItems(g, d) : ItemTo(g, d, m) = r

UseOK(g, h, I, r, b, pos) ==
  IsTmp(r) => IF IsNew(h, r) THEN Before(g, h, r, b, pos) ELSE I[0] # {}

ArgsOK(g, h, I, E, c, n) ==
  \A b \in Blocks(h) : \A i \in DOMAIN g.ins[b] : Passed(E, c, n, b, Len(g.phis[b]) + i) =>
    \A r \in Elems(g.ins[b][i].arg) : UseOK(g, h, I, r, b, Len(g.phis[b]) + i)

JumpsOK(g, h, I, E, c, n) ==
  \A b \in Blocks(h) : Ended(E, c, n, b) => UseOK(g, h, I, g.jmp[b].arg, b, NItems(g, b) + 1)

\* A phi has an argument for every predecessor that rename is done with.
PhiOK(g, h, I, E, c, n, b, p) ==
  /\ p.args \in Seq(Ref) /\ p.blks \in Seq(Nat) /\ Len(p.args) = Len(p.blks)
  /\ \A i \in DOMAIN p.blks :
       /\ p.blks[i] \in Blocks(h) /\ b \in Succs(h, p.blks[i]) /\ Ended(E, c, n, p.blks[i])
       /\ UseOK(g, h, I, p.args[i], p.blks[i], NItems(g, p.blks[i]) + 1)
  /\ \A i, j \in DOMAIN p.blks : p.blks[i] = p.blks[j] => i = j
  /\ I[0] = {} => \A a \in Blocks(h) : Ended(E, c, n, a) /\ b \in Succs(h, a) =>
                    \E i \in DOMAIN p.blks : p.blks[i] = a

PhisOK(g, h, I, E, c, n) ==
  \A b \in Blocks(h) : \A j \in DOMAIN g.phis[b] : PhiOK(g, h, I, E, c, n, b, g.phis[b][j])

Used(g, h, I, E, c, n) ==
  ArgsOK(g, h, I, E, c, n) /\ JumpsOK(g, h, I, E, c, n) /\ PhisOK(g, h, I, E, c, n)

\* The names on the stacks reach where rename is.
LEMMA TopReaches ==
  ASSUME Analysed, pc \notin {"dom", "live"}, RInv, next > 0,
         NEW t \in Temps(source), NEW l \in DOMAIN stacks[t]
  PROVE  Before(f, source, stacks[t][l], Cur, next) /\ IsNew(source, stacks[t][l])
<1> DEFINE c == Cur
           r == stacks[t][l]
           L == Len(walks)
<1>1. /\ walks # <<>> /\ c = walks[L].blk /\ c \in Blocks(source) /\ c \in entered /\ WalkTyped /\ Path
      /\ L \in Nat /\ DOMAIN walks = 1 .. L /\ next \in Nat
      /\ Named(f, source, entered, c, next)
  BY InBlock, CurMeans DEF RInv
<1>2. IsNew(source, r)
  BY DEF RInv, STyped
<1>3. PICK x \in DOMAIN walks : \E m \in 1 .. NItems(f, walks[x].blk) : r = ItemTo(f, walks[x].blk, m)
  BY GivenBy
<1>4. PICK m \in 1 .. NItems(f, walks[x].blk) : r = ItemTo(f, walks[x].blk, m)
  BY <1>3
<1>5. walks[x].blk \in Blocks(source)
  BY <1>1, WalksTyped
<1> HIDE DEF c, r, L
<1>6. CASE x = L
  <2>1. m \in 1 .. NItems(f, c) /\ r = ItemTo(f, c, m)
    BY <1>1, <1>4, <1>6
  <2>2. Passed(entered, c, next, c, m)
    BY <1>1, <1>2, <2>1 DEF Named, IsNew
  <2>3. m < next
    BY <2>2 DEF Passed
  <2>4. QED
    BY <1>2, <2>1, <2>3 DEF Before, c, r
<1>7. CASE x # L
  <2>1. x \in 1 .. L /\ x < L /\ L \in DOMAIN walks
    BY <1>1, <1>7
  <2>2. Dominates(source, walks[x].blk, walks[L].blk) /\ walks[x].blk < walks[L].blk
    BY <1>1, <1>5, <2>1 DEF Path
  <2>3. walks[x].blk # walks[L].blk
    <3>1. walks[x].blk \in Nat /\ walks[L].blk \in Nat
      BY <1>1, <1>5 DEF Blocks
    <3>2. QED
      BY <2>2, <3>1
  <2>4. SDom(source, walks[x].blk, c)
    BY <1>1, <2>2, <2>3 DEF SDom
  <2>5. QED
    BY <1>2, <1>4, <1>5, <2>4 DEF Before, c, r
<1>8. QED
  BY <1>6, <1>7

\* A name given in a block of the path, for t, is on the stack of t.
LEMMA FullBy ==
  ASSUME RInv, NEW t \in Temps(source), NEW j \in DOMAIN walks, NEW m \in 1 .. NItems(f, walks[j].blk),
         IsNew(source, ItemTo(f, walks[j].blk, m)), newToOld[ItemTo(f, walks[j].blk, m).val] = t
  PROVE  Len(stacks[t]) \in Nat \ {0}
<1> DEFINE L == Len(walks)
<1>1. /\ L \in Nat /\ DOMAIN walks = 1 .. L
      /\ Len(stacks[t]) \in Nat
      /\ \A i \in 1 .. L + 1 : Hgt(walks, stacks, i, t) \in Nat
      /\ Hgt(walks, stacks, L + 1, t) = Len(stacks[t])
  BY Heights DEF RInv, WInv, NTyped
<1>2. /\ \A i, n \in 1 .. L + 1 : i <= n => Hgt(walks, stacks, i, t) <= Hgt(walks, stacks, n, t)
      /\ Hgt(walks, stacks, j, t) < Hgt(walks, stacks, j + 1, t)
  BY <1>1 DEF RInv, Stacked
<1> HIDE DEF L
<1>3. j + 1 \in 1 .. L + 1 /\ j \in 1 .. L + 1 /\ L + 1 \in 1 .. L + 1 /\ j + 1 <= L + 1
  BY <1>1
<1>4. Hgt(walks, stacks, j + 1, t) <= Hgt(walks, stacks, L + 1, t)
  BY <1>2, <1>3
<1> DEFINE u == Hgt(walks, stacks, j, t)
           v == Hgt(walks, stacks, j + 1, t)
<1>5. u \in Nat /\ v \in Nat /\ u < v /\ v <= Len(stacks[t])
  BY <1>1, <1>2, <1>3, <1>4
<1> HIDE DEF u, v
<1>6. QED
  BY <1>1, <1>5

\* An instruction of the source is one of the function.
LEMMA SameIns ==
  ASSUME Analysed, RInv
  PROVE  \A b \in Blocks(source) : DOMAIN source.ins[b] = DOMAIN f.ins[b]
<1>1. \A b \in Blocks(source) : /\ Len(f.ins[b]) = Len(source.ins[b])
                                /\ DOMAIN f.ins[b] = 1 .. Len(f.ins[b])
  BY NTypedFacts DEF RInv, NTyped
<1>2. \A b \in Blocks(source) : source.ins[b] \in Seq(Instruction)
  BY SourceFacts
<1>3. \A V : \A s \in Seq(V) : DOMAIN s = 1 .. Len(s)
  OBVIOUS
<1>4. QED
  BY <1>1, <1>2, <1>3

\* Where t has a phi, or is written in the source, an item stands for it.
LEMMA ItemFor ==
  ASSUME Analysed, RInv, NEW t \in Temps(source), NEW d \in PhiOf(f, newToOld, t) \cup Killers(source, t)
  PROVE  /\ d \in Blocks(source)
         /\ \E m \in 1 .. NItems(f, d) : IsTmp(ItemTo(f, d, m)) /\ newToOld[ItemTo(f, d, m).val] = t
<1>1. /\ Blocks(f) = Blocks(source) /\ NTyped /\ Erased(f, newToOld, source, in, fron)
      /\ \A b \in Blocks(source) : Len(f.phis[b]) \in Nat /\ Len(f.ins[b]) \in Nat
                                   /\ DOMAIN f.phis[b] = 1 .. Len(f.phis[b])
                                   /\ DOMAIN f.ins[b] = 1 .. Len(f.ins[b])
  BY NTypedFacts DEF RInv
<1>2. CASE d \in PhiOf(f, newToOld, t)
  <2>1. PICK j \in DOMAIN f.phis[d] : newToOld[f.phis[d][j].to.val] = t
    BY <1>2 DEF PhiOf
  <2>2. d \in Blocks(source)
    BY <1>1, <1>2 DEF PhiOf
  <2>3. Len(f.phis[d]) \in Nat /\ Len(f.ins[d]) \in Nat /\ j \in 1 .. Len(f.phis[d])
    BY <1>1, <2>1, <2>2
  <2>4. j \in 1 .. NItems(f, d) /\ ItemTo(f, d, j) = f.phis[d][j].to
    BY <2>3, ItemKinds
  <2>5. IsTmp(f.phis[d][j].to)
    BY <1>1, <2>1, <2>2 DEF Erased
  <2>6. QED
    BY <2>1, <2>2, <2>4, <2>5
<1>3. CASE d \in Killers(source, t)
  <2>1. d \in Blocks(source) /\ t \in Kills(source, d)
    BY <1>3 DEF Killers
  <2>2. PICK i \in DOMAIN source.ins[d] : t \in Defs(source.ins[d][i])
    BY <2>1 DEF Kills
  <2>3. IsTmp(source.ins[d][i].to) /\ source.ins[d][i].to.val = t
    BY <2>2 DEF Defs, TmpsOf
  <2>4. i \in DOMAIN f.ins[d]
    BY <2>1, <2>2, SameIns
  <2>5. Len(f.phis[d]) \in Nat /\ Len(f.ins[d]) \in Nat /\ i \in 1 .. Len(f.ins[d])
    BY <1>1, <2>1, <2>4
  <2>6. Len(f.phis[d]) + i \in 1 .. NItems(f, d) /\ ItemTo(f, d, Len(f.phis[d]) + i) = f.ins[d][i].to
    BY <2>5, ItemKinds
  <2>7. IsTmp(f.ins[d][i].to) /\ newToOld[f.ins[d][i].to.val] = t
    BY <1>1, <2>1, <2>3, <2>4 DEF Erased
  <2>8. QED
    BY <2>1, <2>6, <2>7
<1>4. QED
  BY <1>2, <1>3

(***************************************************************************)
(* If nothing is read before it is written, a temporary has a name         *)
(* wherever the source may read it: one given in this block, one by its    *)
(* phi, or one by a block above that wrote it or has a phi of it.          *)
(***************************************************************************)
LEMMA StackFull ==
  ASSUME Analysed, pc \notin {"dom", "live"}, RInv, next > Len(f.phis[Cur]), next > 0, in[0] = {},
         NEW t \in Temps(source), NEW x, x \in Nat, x <= next - Len(f.phis[Cur]),
         x <= Len(f.ins[Cur]) + 1, t \in in[Cur] \cup KillsBefore(source, Cur, x)
  PROVE  Len(stacks[t]) \in Nat \ {0}
<1> DEFINE c == Cur
           L == Len(walks)
<1>1. /\ walks # <<>> /\ c = walks[L].blk /\ c \in Blocks(source) /\ c \in entered /\ WalkTyped /\ Path
      /\ L \in Nat /\ DOMAIN walks = 1 .. L /\ next \in Nat /\ L \in DOMAIN walks
      /\ Named(f, source, entered, c, next) /\ Erased(f, newToOld, source, in, fron)
      /\ NTyped /\ next > Len(f.phis[c]) /\ x <= next - Len(f.phis[c]) /\ x <= Len(f.ins[c]) + 1
      /\ t \in in[c] \cup KillsBefore(source, c, x) /\ next > 0
  BY InBlock, CurMeans DEF RInv
<1> HIDE DEF c, L
<1>2. /\ Len(f.phis[c]) \in Nat /\ Len(f.ins[c]) \in Nat /\ DOMAIN f.ins[c] = 1 .. Len(f.ins[c])
      /\ DOMAIN f.phis[c] = 1 .. Len(f.phis[c]) /\ Blocks(f) = Blocks(source)
  BY <1>1, NTypedFacts
<1>3. ASSUME NEW m \in 1 .. NItems(f, c), m < next,
             IsTmp(ItemTo(f, c, m)), newToOld[ItemTo(f, c, m).val] = t
      PROVE  Len(stacks[t]) \in Nat \ {0}
  <2>1. Passed(entered, c, next, c, m)
    BY <1>1, <1>3 DEF Passed
  <2>2. IsNew(source, ItemTo(f, c, m))
    BY <1>1, <1>3, <2>1 DEF Named
  <2>3. QED
    BY <1>1, <1>3, <2>2, FullBy
<1>4. CASE t \in KillsBefore(source, c, x)
  <2>1. PICK i \in 1 .. x - 1 : t \in Defs(source.ins[c][i])
    BY <1>4 DEF KillsBefore
  <2>2. IsTmp(source.ins[c][i].to) /\ source.ins[c][i].to.val = t
    BY <2>1 DEF Defs, TmpsOf
  <2> DEFINE u == Len(f.phis[c])
             v == Len(f.ins[c])
  <2>3. u \in Nat /\ v \in Nat /\ x <= next - u /\ x <= v + 1 /\ next \in Nat
    BY <1>1, <1>2
  <2> HIDE DEF u, v
  <2>4. i \in 1 .. v /\ u + i < next
    BY <2>1, <2>3
  <2>5. i \in DOMAIN f.ins[c] /\ i \in 1 .. Len(f.ins[c])
    BY <1>2, <2>4 DEF v
  <2>6. Len(f.phis[c]) + i \in 1 .. NItems(f, c) /\ ItemTo(f, c, Len(f.phis[c]) + i) = f.ins[c][i].to
    BY <1>2, <2>5, ItemKinds
  <2>7. IsTmp(f.ins[c][i].to) /\ newToOld[f.ins[c][i].to.val] = t
    BY <1>1, <2>2, <2>5 DEF Erased
  <2>8. Len(f.phis[c]) + i < next
    BY <2>4 DEF u
  <2>9. QED
    BY <1>3, <2>6, <2>7, <2>8
<1>5. CASE t \in in[c] /\ c \in PhiOf(f, newToOld, t)
  <2>1. PICK j \in DOMAIN f.phis[c] : newToOld[f.phis[c][j].to.val] = t
    BY <1>5 DEF PhiOf
  <2>2. j \in 1 .. Len(f.phis[c])
    BY <1>2, <2>1
  <2>3. j \in 1 .. NItems(f, c) /\ ItemTo(f, c, j) = f.phis[c][j].to
    BY <1>2, <2>2, ItemKinds
  <2>4. IsTmp(f.phis[c][j].to)
    BY <1>1, <2>1 DEF Erased
  <2>5. j < next
    BY <1>1, <1>2, <2>2
  <2>6. QED
    BY <1>3, <2>1, <2>3, <2>4, <2>5
<1>6. CASE t \in in[c] /\ c \notin PhiOf(f, newToOld, t)
  <2> DEFINE Lv == LiveIn(source, in, t)
             Ph == PhiOf(f, newToOld, t)
             Kl == Killers(source, t)
  <2>1. /\ source.n \in Nat \ {0} /\ InOrder(source) /\ PredsRight(source)
        /\ \A b \in Blocks(source) : source.pred[b] \in Seq(Blocks(source))
        /\ OrderOf(source) /\ TreeOf(source, idom) /\ FrontiersOf(source, fron)
        /\ LiveFacts(source, in)
    BY SourceFacts, TreeFacts DEF Analysed
  <2>2. Flows(source, Lv, Kl)
    BY <2>1 DEF Flows, LiveIn, Killers, LiveFacts
  <2>3. PhisClosed(source, fron, Lv, Ph, Kl)
    BY <1>1 DEF Erased, PhisFor
  <2>4. 0 \notin Lv /\ c \in Lv /\ c \notin Ph
    BY <1>1, <1>6 DEF LiveIn
  <2> HIDE DEF Lv, Ph, Kl
  <2>5. PICK d \in Blocks(source) : d \in Ph \cup Kl /\ SDom(source, d, c)
    BY <1>1, <2>1, <2>2, <2>3, <2>4, LiveDefined
  <2>6. PICK j \in 1 .. L : walks[j].blk = d
    <3>1. Dominates(source, d, walks[L].blk)
      BY <1>1, <2>5 DEF SDom
    <3>2. QED
      BY <1>1, <3>1 DEF Path
  <2>7. d # c /\ d \in entered /\ j \in DOMAIN walks
    BY <1>1, <2>5, <2>6 DEF SDom, Path
  <2>8. PICK m \in 1 .. NItems(f, d) : IsTmp(ItemTo(f, d, m)) /\ newToOld[ItemTo(f, d, m).val] = t
    BY <2>5, ItemFor DEF Ph, Kl
  <2>9. Passed(entered, c, next, d, m)
    BY <2>7 DEF Passed
  <2>10. IsNew(source, ItemTo(f, d, m))
    BY <1>1, <2>5, <2>8, <2>9 DEF Named
  <2>11. QED
    BY <2>6, <2>7, <2>8, <2>10, FullBy
<1>7. QED
  BY <1>1, <1>4, <1>5, <1>6

\* An operand that had a name before it has one where more names are given.
LEMMA UseKept ==
  ASSUME NEW g, NEW g2, NEW h, NEW I, NEW r, NEW b \in Blocks(h), NEW pos,
         \A d \in Blocks(h) : /\ NItems(g2, d) = NItems(g, d)
                              /\ \A m \in 1 .. NItems(g, d) :
                                   IsNew(h, ItemTo(g, d, m)) => ItemTo(g2, d, m) = ItemTo(g, d, m),
         UseOK(g, h, I, r, b, pos)
  PROVE  UseOK(g2, h, I, r, b, pos)
<1>1. ASSUME IsNew(h, r), Before(g, h, r, b, pos)
      PROVE  Before(g2, h, r, b, pos)
  BY <1>1 DEF Before
<1>2. QED
  BY <1>1 DEF UseOK

\* What rename reads for an operand of the source.
LEMMA CurrentUse ==
  ASSUME Analysed, pc \notin {"dom", "live"}, RInv, next > Len(f.phis[Cur]), next > 0,
         NEW x, x \in Nat, x <= next - Len(f.phis[Cur]), x <= Len(f.ins[Cur]) + 1,
         NEW r, RefOK(source, r),
         IsTmp(r) => r.val \in in[Cur] \cup KillsBefore(source, Cur, x)
  PROVE  UseOK(f, source, in, Current(Names, r), Cur, next)
<1>1. NTyped /\ Temps(source) \subseteq Temps(f) /\ source.ntmp \in Nat
  <2>1. NTyped /\ source.ntmp \in Nat /\ f.ntmp \in Nat /\ f.ntmp >= source.ntmp
    BY SourceFacts, NTypedFacts DEF RInv, NTyped
  <2>2. QED
    BY <2>1 DEF Temps
<1>2. RefOK(f, r)
  BY <1>1 DEF RefOK
<1>3. CASE ~IsTmp(r)
  <2>1. Current(Names, r) = r
    BY <1>3 DEF Current
  <2>2. QED
    BY <1>3, <2>1 DEF UseOK
<1>4. CASE IsTmp(r)
  <2> DEFINE t == r.val
  <2>1. t \in Temps(source) /\ newToOld[t] = t
    BY <1>1, <1>4 DEF RefOK, NTyped
  <2>2. IF stacks[t] = <<>> THEN Current(Names, r) = r
        ELSE Len(stacks[t]) \in DOMAIN stacks[t] /\ Current(Names, r) = stacks[t][Len(stacks[t])]
    BY <1>1, <1>2, <1>4, <2>1, CurrentMeans
  <2>3. CASE stacks[t] = <<>>
    <3>1. Len(stacks[t]) = 0
      BY <2>3
    <3>2. in[0] # {}
      BY <1>4, <2>1, <3>1, StackFull
    <3>3. ~IsNew(source, r)
      BY <1>1, <2>1 DEF IsNew, Temps
    <3>4. QED
      BY <2>2, <2>3, <3>2, <3>3 DEF UseOK
  <2>4. CASE stacks[t] # <<>>
    <3>1. Len(stacks[t]) \in DOMAIN stacks[t] /\ Current(Names, r) = stacks[t][Len(stacks[t])]
      BY <2>2, <2>4
    <3>2. Before(f, source, Current(Names, r), Cur, next)
      BY <2>1, <3>1, TopReaches
    <3>3. IsNew(source, Current(Names, r))
      BY <2>1, <3>1, TopReaches
    <3>4. QED
      BY <3>2, <3>3 DEF UseOK
  <2>5. QED
    BY <2>3, <2>4
<1>5. QED
  BY <1>3, <1>4

\* An item is renamed: its operands are read, and the rest stays.
LEMMA RenamedUses ==
  ASSUME Analysed, pc \notin {"dom", "live"}, RInv, RInv', RenamePhi \/ RenameIns,
         Used(f, source, in, entered, Cur, next)
  PROVE  Used(f', source', in', entered', Cur', next')
<1> DEFINE c == Cur
           n == next
           E == entered
<1>1. /\ next > 0 /\ n \in 1 .. NItems(f, c) /\ next' = n + 1 /\ Cur' = c
      /\ UNCHANGED <<source, in, entered>>
      /\ Renamed(f, f', c, n) /\ c \in Blocks(source) /\ c \in E /\ n \in Nat
      /\ Used(f, source, in, E, c, n) /\ Named(f, source, E, c, n) /\ Unread(f, source, E, c, n)
  BY OneRenamed, InBlock DEF RInv
<1>2. /\ Blocks(f) = Blocks(source) /\ NTyped
      /\ \A b \in Blocks(source) : Len(f.phis[b]) \in Nat /\ Len(f.ins[b]) \in Nat
                                   /\ DOMAIN f.phis[b] = 1 .. Len(f.phis[b])
                                   /\ DOMAIN f.ins[b] = 1 .. Len(f.ins[b])
  BY NTypedFacts DEF RInv
<1>3. \A b \in Blocks(source) : DOMAIN f'.phis[b] = DOMAIN f.phis[b] /\ DOMAIN f'.ins[b] = DOMAIN f.ins[b]
                                /\ Len(f'.phis[b]) = Len(f.phis[b])
  <2>1. \A b \in Blocks(source) : Len(f'.phis[b]) = Len(f.phis[b]) /\ Len(f'.ins[b]) = Len(f.ins[b])
    BY <1>1, <1>2 DEF Renamed
  <2>2. /\ f'.phis \in [Blocks(source) -> Seq(Phi)] /\ f'.ins \in [Blocks(source) -> Seq(Instruction)]
    BY OneRenamed
  <2>3. \A b \in Blocks(source) : f'.phis[b] \in Seq(Phi) /\ f'.ins[b] \in Seq(Instruction)
    BY <2>2
  <2>4. \A V : \A s \in Seq(V) : DOMAIN s = 1 .. Len(s)
    OBVIOUS
  <2>5. \A b \in Blocks(source) : DOMAIN f'.phis[b] = 1 .. Len(f'.phis[b]) /\ DOMAIN f'.ins[b] = 1 .. Len(f'.ins[b])
    BY <2>3, <2>4
  <2>6. QED
    BY <1>2, <2>1, <2>5
<1>4. \A d \in Blocks(source) : /\ NItems(f', d) = NItems(f, d)
                                /\ \A m \in 1 .. NItems(f, d) :
                                     IsNew(source, ItemTo(f, d, m)) => ItemTo(f', d, m) = ItemTo(f, d, m)
  <2>1. \A d \in Blocks(source) : NItems(f', d) = NItems(f, d)
    BY <1>1, <1>2 DEF NItems, Renamed
  <2>2. \A d \in Blocks(source) : \A m \in 1 .. NItems(f, d) :
          IsNew(source, ItemTo(f, d, m)) => ItemTo(f', d, m) = ItemTo(f, d, m)
    <3> HIDE DEF c, n, E
    <3>1. QED
      BY <1>1, <1>2, RenamedNew
  <2>3. QED
    BY <2>1, <2>2
<1>5. \A r : \A b \in Blocks(source) : \A pos :
        UseOK(f, source, in, r, b, pos) => UseOK(f', source, in, r, b, pos)
  BY <1>4, UseKept
<1>6. ArgsOK(f', source, in, E, c, n + 1)
  <2> SUFFICES ASSUME NEW b \in Blocks(source), NEW i \in DOMAIN f'.ins[b],
                      Passed(E, c, n + 1, b, Len(f'.phis[b]) + i),
                      NEW r \in Elems(f'.ins[b][i].arg)
               PROVE  UseOK(f', source, in, r, b, Len(f'.phis[b]) + i)
    BY DEF ArgsOK
  <2>1. i \in DOMAIN f.ins[b] /\ Len(f'.phis[b]) = Len(f.phis[b]) /\ i \in 1 .. Len(f.ins[b])
        /\ Len(f.phis[b]) \in Nat /\ Len(f.ins[b]) \in Nat
    BY <1>2, <1>3
  <2> DEFINE m == Len(f.phis[b]) + i
  <2>2. m \in Nat /\ i \in Nat /\ Passed(E, c, n + 1, b, m)
    BY <2>1
  <2> HIDE DEF c, n, E
  <2>3. CASE Passed(E, c, n, b, m)
    <3>1. ~(b = c /\ m = n)
      <4> HIDE DEF m
      <4>1. QED
        BY <1>1, <2>2, <2>3 DEF Passed, n
    <3>2. f'.ins[b][i].arg = f.ins[b][i].arg
      BY <1>1, <1>2, <2>1, <3>1 DEF Renamed
    <3>3. UseOK(f, source, in, r, b, m)
      BY <1>1, <2>1, <2>3, <3>2 DEF Used, ArgsOK
    <3>4. QED
      BY <1>5, <2>1, <3>3
  <2>4. CASE ~Passed(E, c, n, b, m)
    <3>1. b = c /\ m = n
      <4> HIDE DEF m
      <4>1. QED
        BY <1>1, <2>2, <2>4 DEF Passed, n
    <3>2. RenameIns
      <4>1. RenamePhi => n \in 1 .. Len(f.phis[c])
        BY <1>1, <1>2, RenamePhiMeans DEF c, n
      <4>2. n > Len(f.phis[c])
        BY <2>1, <3>1
      <4>3. Len(f.phis[c]) \in Nat /\ n \in Nat
        BY <1>1, <1>2
      <4>4. QED
        BY <4>1, <4>2, <4>3
    <3>3. /\ NextIns \in DOMAIN f.ins[c] /\ n = Len(f.phis[c]) + NextIns
          /\ f'.ins[c][NextIns].arg = [l \in DOMAIN f.ins[c][NextIns].arg |-> Current(Names, f.ins[c][NextIns].arg[l])]
      BY <1>1, <1>2, <3>2, RenameInsMeans DEF c, n
    <3>4. i = NextIns
      <4>1. Len(f.phis[c]) + i = Len(f.phis[c]) + NextIns
        BY <3>1, <3>3
      <4>2. NextIns \in 1 .. Len(f.ins[c]) /\ Len(f.ins[c]) \in Nat
        BY <1>1, <1>2, <3>3
      <4>3. QED
        BY <2>1, <3>1, <4>1, <4>2
    <3>5. PICK l \in DOMAIN f.ins[c][i].arg : r = Current(Names, f.ins[c][i].arg[l])
      BY <3>1, <3>3, <3>4 DEF Elems
    <3>6. f.ins[c][i].arg = source.ins[c][i].arg /\ i \in DOMAIN source.ins[c]
      <4>1. ~Passed(E, c, n, c, Len(f.phis[c]) + i)
        BY <2>4, <3>1
      <4>2. f.ins[c][i].arg = source.ins[c][i].arg
        BY <1>1, <2>1, <3>1, <4>1 DEF Unread
      <4>3. QED
        BY <1>1, <2>1, <3>1, <4>2, SameIns
    <3> DEFINE q == source.ins[c][i].arg[l]
    <3>7. q \in Elems(source.ins[c][i].arg) /\ r = Current(Names, q)
      BY <3>5, <3>6 DEF Elems
    <3>8. RefOK(source, q)
      BY <1>1, <3>6, <3>7, SourceFacts DEF IsFunction
    <3>9. IsTmp(q) => q.val \in in[c] \cup KillsBefore(source, c, i)
      <4>1. IsTmp(q) => q.val \in Uses(source.ins[c][i])
        BY <3>7 DEF Uses, TmpsOf
      <4>2. Uses(source.ins[c][i]) \subseteq in[c] \cup KillsBefore(source, c, i)
        BY <1>1, <3>6 DEF Analysed, LiveFacts
      <4>3. QED
        BY <4>1, <4>2
    <3> HIDE DEF q
    <3>10. n > Len(f.phis[c]) /\ i \in Nat /\ i <= n - Len(f.phis[c]) /\ i <= Len(f.ins[c]) + 1
      BY <2>1, <3>1, SMTT(30)
    <3>11. UseOK(f, source, in, r, c, n)
      BY <1>1, <3>7, <3>8, <3>9, <3>10, CurrentUse DEF c, n
    <3>12. QED
      BY <1>5, <2>1, <3>1, <3>11
  <2>5. QED
    BY <2>3, <2>4
<1>7. \A b : Ended(E, c, n + 1, b) <=> Ended(E, c, n, b)
  BY <1>1 DEF Ended
<1>8. JumpsOK(f', source, in, E, c, n + 1)
  BY <1>1, <1>4, <1>5, <1>7 DEF JumpsOK, Used, Renamed
<1>9. PhisOK(f', source, in, E, c, n + 1)
  <2> SUFFICES ASSUME NEW b \in Blocks(source), NEW j \in DOMAIN f'.phis[b]
               PROVE  PhiOK(f', source, in, E, c, n + 1, b, f'.phis[b][j])
    BY DEF PhisOK
  <2>1. j \in DOMAIN f.phis[b]
    BY <1>3
  <2> DEFINE p == f.phis[b][j]
             q == f'.phis[b][j]
  <2>2. PhiOK(f, source, in, E, c, n, b, p)
    BY <1>1, <2>1 DEF Used, PhisOK
  <2>3. q.args = p.args /\ q.blks = p.blks
    BY <1>1, <1>2, <2>1 DEF Renamed
  <2> HIDE DEF p, q, c, n, E
  <2>4. \A i \in DOMAIN p.blks : UseOK(f', source, in, p.args[i], p.blks[i], NItems(f', p.blks[i]) + 1)
    BY <1>4, <1>5, <2>2 DEF PhiOK
  <2>5. PhiOK(f', source, in, E, c, n + 1, b, q)
    BY <1>7, <2>2, <2>3, <2>4 DEF PhiOK
  <2>6. QED
    BY <2>5 DEF q
<1>10. QED
  BY <1>1, <1>6, <1>8, <1>9 DEF Used

\* A list with one more element.
LEMMA AppendMeans ==
  ASSUME NEW V, NEW s \in Seq(V), NEW v \in V
  PROVE  /\ Append(s, v) \in Seq(V) /\ Len(s) \in Nat /\ DOMAIN s = 1 .. Len(s)
         /\ Len(Append(s, v)) = Len(s) + 1 /\ DOMAIN Append(s, v) = 1 .. Len(s) + 1
         /\ \A i \in 1 .. Len(s) : Append(s, v)[i] = s[i]
         /\ Append(s, v)[Len(s) + 1] = v
  OBVIOUS

\* The same names, the same phi.
LEMMA PhiKept ==
  ASSUME NEW g, NEW g2, NEW h, NEW I, NEW E, NEW c, NEW n, NEW b, NEW p,
         \A d \in Blocks(h) : /\ NItems(g2, d) = NItems(g, d)
                              /\ \A m \in 1 .. NItems(g, d) :
                                   IsNew(h, ItemTo(g, d, m)) => ItemTo(g2, d, m) = ItemTo(g, d, m),
         PhiOK(g, h, I, E, c, n, b, p)
  PROVE  PhiOK(g2, h, I, E, c, n, b, p)
<1>1. ASSUME NEW i \in DOMAIN p.blks
      PROVE  UseOK(g2, h, I, p.args[i], p.blks[i], NItems(g2, p.blks[i]) + 1)
  <2>1. p.blks[i] \in Blocks(h) /\ UseOK(g, h, I, p.args[i], p.blks[i], NItems(g, p.blks[i]) + 1)
    BY DEF PhiOK
  <2>2. UseOK(g2, h, I, p.args[i], p.blks[i], NItems(g, p.blks[i]) + 1)
    BY <2>1, UseKept
  <2>3. QED
    BY <2>1, <2>2
<1>2. QED
  BY <1>1 DEF PhiOK

\* At the end of a block, a phi that has no argument from it, or one more.
LEMMA PhiStays ==
  ASSUME NEW g, NEW h, NEW I, NEW E, NEW c, NEW n \in Nat, n > 0, NEW b, NEW p,
         PhiOK(g, h, I, E, c, n, b, p), I[0] = {} => b \notin Succs(h, c)
  PROVE  PhiOK(g, h, I, E, c, 0, b, p)
<1>1. \A a : Ended(E, c, n, a) => Ended(E, c, 0, a)
  BY DEF Ended
<1>2. \A a : Ended(E, c, 0, a) => Ended(E, c, n, a) \/ a = c
  BY DEF Ended
<1>3. QED
  BY <1>1, <1>2 DEF PhiOK

LEMMA PhiGrows ==
  ASSUME NEW g, NEW h, NEW I, NEW E, NEW c \in Blocks(h), c \in Nat, c \in E, NEW n \in Nat, n > 0,
         NEW b, NEW p, NEW q, NEW v \in Ref,
         PhiOK(g, h, I, E, c, n, b, p), b \in Succs(h, c),
         UseOK(g, h, I, v, c, NItems(g, c) + 1),
         q.args = Append(p.args, v), q.blks = Append(p.blks, c)
  PROVE  PhiOK(g, h, I, E, c, 0, b, q)
<1> DEFINE u == Len(p.blks)
           w == Append(p.blks, c)
           z == Append(p.args, v)
<1>1. p.args \in Seq(Ref) /\ p.blks \in Seq(Nat) /\ Len(p.args) = u
  BY DEF PhiOK
<1>2. /\ u \in Nat /\ w \in Seq(Nat) /\ DOMAIN p.blks = 1 .. u /\ DOMAIN w = 1 .. u + 1 /\ Len(w) = u + 1
      /\ \A i \in 1 .. u : w[i] = p.blks[i]
      /\ w[u + 1] = c
  BY <1>1, AppendMeans
<1>3. /\ z \in Seq(Ref) /\ Len(z) = u + 1
      /\ \A i \in 1 .. u : z[i] = p.args[i]
      /\ z[u + 1] = v
  BY <1>1, AppendMeans
<1> HIDE DEF u, w, z
<1>4. \A i \in 1 .. u + 1 : i \in 1 .. u \/ i = u + 1
  BY <1>2
<1>5. \A i \in 1 .. u : i \in 1 .. u + 1
  BY <1>2
<1>6. u + 1 \in 1 .. u + 1
  BY <1>2
<1>7. \A a : Ended(E, c, 0, a) <=> a \in E
  BY DEF Ended
<1>8. \A a : Ended(E, c, n, a) <=> a \in E /\ a # c
  BY DEF Ended
<1>9. /\ \A i \in 1 .. u :
           /\ p.blks[i] \in Blocks(h) /\ b \in Succs(h, p.blks[i]) /\ p.blks[i] \in E /\ p.blks[i] # c
           /\ UseOK(g, h, I, p.args[i], p.blks[i], NItems(g, p.blks[i]) + 1)
      /\ \A i, j \in 1 .. u : p.blks[i] = p.blks[j] => i = j
      /\ I[0] = {} => \A a \in Blocks(h) : a \in E /\ a # c /\ b \in Succs(h, a) =>
                        \E i \in 1 .. u : p.blks[i] = a
  BY <1>2, <1>8 DEF PhiOK
<1>10. \A i \in 1 .. u + 1 :
         /\ w[i] \in Blocks(h) /\ b \in Succs(h, w[i]) /\ w[i] \in E
         /\ UseOK(g, h, I, z[i], w[i], NItems(g, w[i]) + 1)
  BY <1>2, <1>3, <1>4, <1>9
<1>11. \A i, j \in 1 .. u + 1 : w[i] = w[j] => i = j
  BY <1>2, <1>4, <1>9
<1>12. I[0] = {} => \A a \in Blocks(h) : a \in E /\ b \in Succs(h, a) => \E i \in 1 .. u + 1 : w[i] = a
  <2> SUFFICES ASSUME I[0] = {}, NEW a \in Blocks(h), a \in E, b \in Succs(h, a)
               PROVE  \E i \in 1 .. u + 1 : w[i] = a
    OBVIOUS
  <2>1. CASE a = c
    BY <1>2, <1>6, <2>1
  <2>2. CASE a # c
    <3>1. PICK i \in 1 .. u : p.blks[i] = a
      BY <1>9, <2>2
    <3>2. QED
      BY <1>2, <1>5, <3>1
  <2>3. QED
    BY <2>1, <2>2
<1>13. q.args = z /\ q.blks = w
  BY DEF z, w
<1>14. QED
  BY <1>2, <1>3, <1>7, <1>10, <1>11, <1>12, <1>13 DEF PhiOK

\* What a block writes is what is written before its end.
LEMMA KillsAll ==
  ASSUME Analysed, NEW b \in Blocks(source)
  PROVE  KillsBefore(source, b, Len(source.ins[b]) + 1) = Kills(source, b)
<1> DEFINE v == Len(source.ins[b])
<1>1. source.ins[b] \in Seq(Instruction)
  BY SourceFacts
<1>2. v \in Nat /\ DOMAIN source.ins[b] = 1 .. v
  BY <1>1
<1> HIDE DEF v
<1>3. v + 1 - 1 = v
  BY <1>2
<1>4. QED
  BY <1>2, <1>3 DEF KillsBefore, Kills, v

\* A block ends: its jump and its successors' phis are read.
LEMMA EndBlockUses ==
  ASSUME Analysed, pc \notin {"dom", "live"}, RInv, RInv', EndBlock,
         Used(f, source, in, entered, Cur, next)
  PROVE  Used(f', source', in', entered', Cur', next')
<1> DEFINE c == Cur
           n == next
           E == entered
           X == NItems(f, c) + 1
<1>1. /\ n > 0 /\ n \in Nat /\ NextIns > Len(f.ins[c]) /\ c \in Blocks(source) /\ c \in E
      /\ NTyped /\ Erased(f, newToOld, source, in, fron)
      /\ Used(f, source, in, E, c, n) /\ Named(f, source, E, c, n) /\ Unread(f, source, E, c, n)
      /\ UNCHANGED in
  BY InBlock DEF EndBlock, liveVars, RInv
<1>2. /\ Blocks(f) = Blocks(source) /\ f.jmp \in [Blocks(source) -> Jump]
      /\ \A b \in Blocks(source) : Len(f.phis[b]) \in Nat /\ Len(f.ins[b]) \in Nat
                                   /\ DOMAIN f.phis[b] = 1 .. Len(f.phis[b])
                                   /\ DOMAIN f.ins[b] = 1 .. Len(f.ins[b])
  BY <1>1, NTypedFacts
<1>3. /\ f'.jmp = [f.jmp EXCEPT ![c].arg = Current(Names, @)]
      /\ f'.ins = f.ins /\ UNCHANGED <<walks, entered, source>> /\ next' = 0
  BY <1>1, EndBlockMeans
<1>4. Cur' = c
  BY <1>3 DEF Cur
<1>5. \A d \in Blocks(source) : /\ NItems(f', d) = NItems(f, d)
                                /\ \A m \in 1 .. NItems(f, d) :
                                     IsNew(source, ItemTo(f, d, m)) => ItemTo(f', d, m) = ItemTo(f, d, m)
  BY <1>1, EndBlockItems
<1>6. n = X /\ n > Len(f.phis[c]) /\ Len(f.ins[c]) + 1 <= n - Len(f.phis[c]) /\ Len(f.ins[c]) + 1 \in Nat
  <2> DEFINE u == Len(f.phis[c])
             v == Len(f.ins[c])
  <2>1. u \in Nat /\ v \in Nat /\ n - u > v /\ NItems(f, c) = u + v
    BY <1>1, <1>2 DEF NItems, NextIns
  <2>2. n <= NItems(f, c) + 1
    BY <1>1 DEF Named
  <2> HIDE DEF u, v
  <2>3. n = u + v + 1 /\ n > u /\ v + 1 <= n - u /\ v + 1 \in Nat
    BY <1>1, <2>1, <2>2
  <2>4. QED
    BY <2>1, <2>3 DEF u, v
<1>7. in[c] \cup Kills(source, c) = in[c] \cup KillsBefore(source, c, Len(f.ins[c]) + 1)
  <2>1. Len(f.ins[c]) = Len(source.ins[c])
    BY <1>1 DEF NTyped
  <2>2. QED
    BY <1>1, <2>1, KillsAll
<1>8. \A r : RefOK(source, r) /\ (IsTmp(r) => r.val \in in[c] \cup Kills(source, c)) =>
        UseOK(f, source, in, Current(Names, r), c, X)
  <2> SUFFICES ASSUME NEW r, RefOK(source, r), IsTmp(r) => r.val \in in[c] \cup Kills(source, c)
               PROVE  UseOK(f, source, in, Current(Names, r), c, X)
    OBVIOUS
  <2>1. IsTmp(r) => r.val \in in[c] \cup KillsBefore(source, c, Len(f.ins[c]) + 1)
    BY <1>7
  <2> DEFINE x == Len(f.ins[c]) + 1
  <2>2. x \in Nat /\ x <= n - Len(f.phis[c]) /\ x <= Len(f.ins[c]) + 1
    BY <1>6
  <2> HIDE DEF x
  <2>3. IsTmp(r) => r.val \in in[Cur] \cup KillsBefore(source, Cur, x)
    BY <2>1 DEF c, x
  <2>4. UseOK(f, source, in, Current(Names, r), Cur, next)
    BY <1>1, <1>6, <2>2, <2>3, CurrentUse DEF c, n
  <2>5. QED
    BY <1>6, <2>4 DEF c, n
<1>9. \A t \in Temps(source) : \A l \in DOMAIN stacks[t] :
        Before(f, source, stacks[t][l], c, X) /\ IsNew(source, stacks[t][l])
  BY <1>1, <1>6, TopReaches
<1>10. \A t \in Temps(source) : in[0] = {} /\ t \in in[c] \cup Kills(source, c) => stacks[t] # <<>>
  <2> SUFFICES ASSUME NEW t \in Temps(source), in[0] = {}, t \in in[c] \cup Kills(source, c)
               PROVE  stacks[t] # <<>>
    OBVIOUS
  <2> DEFINE x == Len(f.ins[c]) + 1
  <2>1. x \in Nat /\ x <= n - Len(f.phis[c]) /\ x <= Len(f.ins[c]) + 1 /\ t \in in[c] \cup KillsBefore(source, c, x)
    BY <1>6, <1>7
  <2> HIDE DEF x
  <2>2. Len(stacks[t]) \in Nat \ {0}
    BY <1>1, <1>6, <2>1, StackFull DEF c, n
  <2>3. QED
    BY <2>2
<1>11. \A t \in Temps(source) : stacks[t] \in Seq(Ref)
  BY <1>1 DEF NTyped
<1>12. c \in Nat
  BY <1>1 DEF Blocks
<1>13. ASSUME NEW b \in Blocks(source), NEW j \in DOMAIN f.phis[b]
       PROVE  LET p == f.phis[b][j]
                  s == stacks[newToOld[p.to.val]]
              IN  /\ newToOld[p.to.val] \in Temps(source)
                  /\ IF b \in Succs(source, c) /\ s # <<>>
                       THEN /\ Len(s) \in DOMAIN s /\ s[Len(s)] \in Ref
                            /\ f'.phis[b][j].args = Append(p.args, s[Len(s)])
                            /\ f'.phis[b][j].blks = Append(p.blks, c)
                       ELSE f'.phis[b][j] = p
  BY <1>1, EndBlockPhis, Zenon
<1>14. /\ \A b \in Blocks(source) : DOMAIN f'.phis[b] = DOMAIN f.phis[b] /\ Len(f'.phis[b]) = Len(f.phis[b])
  BY <1>1, EndBlockPhis, Zenon
<1>15. \A b \in Blocks(source) : \A m \in 1 .. NItems(f, b) :
         Passed(E, c, n, b, m) <=> Passed(E, c, 0, b, m)
  <2> SUFFICES ASSUME NEW b \in Blocks(source), NEW m \in 1 .. NItems(f, b)
               PROVE  Passed(E, c, n, b, m) <=> Passed(E, c, 0, b, m)
    OBVIOUS
  <2>1. b = c => m < n
    <3>1. NItems(f, c) \in Nat
      BY <1>1, <1>2, ItemKinds
    <3>2. QED
      BY <1>6, <3>1
  <2>2. QED
    BY <1>1, <2>1 DEF Passed
<1>16. /\ \A r \in Elems(f.ins[c]) : TRUE
       /\ \A s \in Blocks(source) : s \in Succs(source, c) => in[s] \subseteq in[c] \cup Kills(source, c)
       /\ TmpsOf({source.jmp[c].arg}) \subseteq in[c] \cup Kills(source, c)
       /\ RefOK(source, source.jmp[c].arg)
  <2>1. LiveFacts(source, in)
    BY <1>1 DEF Analysed
  <2>2. IsFunction(source)
    BY SourceFacts
  <2>3. QED
    BY <1>1, <2>1, <2>2 DEF LiveFacts, IsFunction
<1> HIDE DEF c, n, E, X
<1>17. ArgsOK(f', source, in, E, c, 0)
  <2> SUFFICES ASSUME NEW b \in Blocks(source), NEW i \in DOMAIN f'.ins[b],
                      Passed(E, c, 0, b, Len(f'.phis[b]) + i), NEW r \in Elems(f'.ins[b][i].arg)
               PROVE  UseOK(f', source, in, r, b, Len(f'.phis[b]) + i)
    BY DEF ArgsOK
  <2>1. i \in DOMAIN f.ins[b] /\ Len(f'.phis[b]) = Len(f.phis[b]) /\ i \in 1 .. Len(f.ins[b])
        /\ f'.ins[b][i].arg = f.ins[b][i].arg
    BY <1>2, <1>3, <1>14
  <2>2. Len(f.phis[b]) + i \in 1 .. NItems(f, b)
    BY <1>2, <2>1, ItemKinds
  <2>3. Passed(E, c, n, b, Len(f.phis[b]) + i)
    BY <1>15, <2>1, <2>2
  <2>4. UseOK(f, source, in, r, b, Len(f.phis[b]) + i)
    BY <1>1, <2>1, <2>3 DEF Used, ArgsOK
  <2>5. QED
    BY <1>5, <2>1, <2>4, UseKept
<1>18. JumpsOK(f', source, in, E, c, 0)
  <2> SUFFICES ASSUME NEW b \in Blocks(source), Ended(E, c, 0, b)
               PROVE  UseOK(f', source, in, f'.jmp[b].arg, b, NItems(f', b) + 1)
    BY DEF JumpsOK
  <2>1. UseOK(f, source, in, f'.jmp[b].arg, b, NItems(f, b) + 1)
    <3>1. CASE b = c
      <4>1. f'.jmp[c].arg = Current(Names, f.jmp[c].arg)
        BY <1>1, <1>2, <1>3 DEF Jump
      <4>2. ~Ended(E, c, n, c)
        BY <1>1 DEF Ended
      <4>3. f.jmp[c].arg = source.jmp[c].arg
        BY <1>1, <4>2 DEF Unread
      <4> DEFINE r == source.jmp[c].arg
      <4>4. IsTmp(r) => r.val \in in[c] \cup Kills(source, c)
        BY <1>16 DEF TmpsOf
      <4>5. UseOK(f, source, in, Current(Names, r), c, X)
        BY <1>8, <1>16, <4>4
      <4>6. QED
        BY <3>1, <4>1, <4>3, <4>5 DEF X
    <3>2. CASE b # c
      <4>1. f'.jmp[b] = f.jmp[b]
        BY <1>1, <1>2, <1>3, <3>2
      <4>2. Ended(E, c, n, b)
        BY <3>2 DEF Ended
      <4>3. QED
        BY <1>1, <4>1, <4>2 DEF Used, JumpsOK
    <3>3. QED
      BY <3>1, <3>2
  <2>2. UseOK(f', source, in, f'.jmp[b].arg, b, NItems(f, b) + 1)
    BY <1>5, <2>1, UseKept
  <2>3. QED
    BY <1>5, <2>2
<1>19. PhisOK(f', source, in, E, c, 0)
  <2> SUFFICES ASSUME NEW b \in Blocks(source), NEW j \in DOMAIN f'.phis[b]
               PROVE  PhiOK(f', source, in, E, c, 0, b, f'.phis[b][j])
    BY DEF PhisOK
  <2> DEFINE p == f.phis[b][j]
             q == f'.phis[b][j]
             t == newToOld[p.to.val]
             s == stacks[t]
  <2>1. j \in DOMAIN f.phis[b]
    BY <1>14
  <2>2. PhiOK(f, source, in, E, c, n, b, p)
    BY <1>1, <2>1 DEF Used, PhisOK
  <2>3. t \in Temps(source) /\ t \in in[b]
    BY <1>1, <1>13, <2>1, Zenon DEF Erased
  <2>4. IF b \in Succs(source, c) /\ s # <<>>
           THEN /\ Len(s) \in DOMAIN s /\ s[Len(s)] \in Ref
                /\ q.args = Append(p.args, s[Len(s)]) /\ q.blks = Append(p.blks, c)
           ELSE q = p
    BY <1>13, <2>1, Zenon
  <2> HIDE DEF p, q, t
  <2>5. PhiOK(f, source, in, E, c, 0, b, q)
    <3>1. CASE b \in Succs(source, c) /\ s # <<>>
      <4> DEFINE v == s[Len(s)]
      <4>1. v \in Ref /\ q.args = Append(p.args, v) /\ q.blks = Append(p.blks, c)
        BY <2>4, <3>1
      <4>2. Before(f, source, v, c, X) /\ IsNew(source, v)
        BY <1>9, <2>3, <2>4, <3>1
      <4> HIDE DEF v
      <4>3. UseOK(f, source, in, v, c, NItems(f, c) + 1)
        BY <4>2 DEF UseOK, X
      <4>4. QED
        BY <1>1, <1>12, <2>2, <3>1, <4>1, <4>3, PhiGrows
    <3>2. CASE ~(b \in Succs(source, c) /\ s # <<>>)
      <4>1. q = p
        BY <2>4, <3>2
      <4>2. in[0] = {} => b \notin Succs(source, c)
        <5>1. b \in Succs(source, c) => t \in in[c] \cup Kills(source, c)
          BY <1>16, <2>3
        <5>2. QED
          BY <1>10, <2>3, <3>2, <5>1
      <4>3. QED
        BY <1>1, <2>2, <4>1, <4>2, PhiStays
    <3>3. QED
      BY <3>1, <3>2
  <2>6. PhiOK(f', source, in, E, c, 0, b, q)
    BY <1>5, <2>5, PhiKept
  <2>7. QED
    BY <2>6 DEF q
<1>20. QED
  BY <1>1, <1>3, <1>4, <1>17, <1>18, <1>19 DEF Used, E

\* Where no more has been read the same holds.
LEMMA UsedSame ==
  ASSUME NEW g, NEW h, NEW I, NEW E, NEW c, NEW n, NEW E2, NEW c2, NEW n2,
         \A b \in Blocks(h) : Ended(E2, c2, n2, b) <=> Ended(E, c, n, b),
         \A b \in Blocks(h) : \A i \in DOMAIN g.ins[b] :
           Passed(E2, c2, n2, b, Len(g.phis[b]) + i) => Passed(E, c, n, b, Len(g.phis[b]) + i),
         Used(g, h, I, E, c, n)
  PROVE  Used(g, h, I, E2, c2, n2)
<1>1. ArgsOK(g, h, I, E2, c2, n2) /\ JumpsOK(g, h, I, E2, c2, n2)
  BY DEF Used, ArgsOK, JumpsOK
<1>2. \A b \in Blocks(h) : \A j \in DOMAIN g.phis[b] : PhiOK(g, h, I, E2, c2, n2, b, g.phis[b][j])
  <2> SUFFICES ASSUME NEW b \in Blocks(h), NEW j \in DOMAIN g.phis[b]
               PROVE  PhiOK(g, h, I, E2, c2, n2, b, g.phis[b][j])
    OBVIOUS
  <2> DEFINE p == g.phis[b][j]
  <2>1. PhiOK(g, h, I, E, c, n, b, p)
    BY DEF Used, PhisOK
  <2> HIDE DEF p
  <2>2. PhiOK(g, h, I, E2, c2, n2, b, p)
    BY <2>1 DEF PhiOK
  <2>3. QED
    BY <2>2 DEF p
<1>3. QED
  BY <1>1, <1>2 DEF Used, PhisOK

\* Entering and leaving a block read nothing.
LEMMA EnterUses ==
  ASSUME Analysed, RInv, Enter, Used(f, source, in, entered, Cur, next)
  PROVE  Used(f', source', in', entered', Cur', next')
<1>1. /\ walks \in Seq([blk : Blocks(source), heights : [Temps(source) -> Nat]])
      /\ at \in Blocks(source) /\ at \notin entered /\ next = 0 /\ NTyped
      /\ entered' = entered \cup {at} /\ next' = 1 /\ UNCHANGED <<f, source, in>>
      /\ walks' = Append(walks, [blk |-> at, heights |-> [t \in DOMAIN stacks |-> Len(stacks[t])]])
  BY DEF Enter, RInv, WInv, WalkTyped, Turn, liveVars
<1>2. Cur' = at
  <2> DEFINE e == [blk |-> at, heights |-> [t \in DOMAIN stacks |-> Len(stacks[t])]]
             n == Len(walks)
  <2>1. e.blk = at /\ e \in [blk : Blocks(source), heights : [Temps(source) -> Nat]]
    <3>1. \A t \in Temps(source) : Len(stacks[t]) \in Nat
      BY <1>1 DEF NTyped
    <3>2. DOMAIN stacks = Temps(source)
      BY <1>1 DEF NTyped
    <3>3. QED
      BY <1>1, <3>1, <3>2
  <2> HIDE DEF e
  <2>2. walks' = Append(walks, e)
    BY <1>1 DEF e
  <2>3. Len(walks') = n + 1 /\ walks'[n + 1] = e
    BY <1>1, <2>1, <2>2, AppendMeans
  <2>4. QED
    BY <2>1, <2>3 DEF Cur, Stack!Last
<1>3. \A b : Ended(entered', at, 1, b) <=> Ended(entered, Cur, next, b)
  BY <1>1 DEF Ended
<1>4. ASSUME NEW b \in Blocks(source), NEW i \in DOMAIN f.ins[b],
             Passed(entered', at, 1, b, Len(f.phis[b]) + i)
      PROVE  Passed(entered, Cur, next, b, Len(f.phis[b]) + i)
  <2> DEFINE u == Len(f.phis[b])
             v == Len(f.ins[b])
  <2>1. u \in Nat /\ v \in Nat /\ i \in 1 .. v
    BY <1>1, NTypedFacts
  <2> HIDE DEF u, v
  <2>2. ~(u + i < 1)
    BY <2>1
  <2>3. b # at
    BY <1>4, <2>2 DEF Passed, u
  <2>4. QED
    BY <1>1, <1>4, <2>3 DEF Passed
<1>5. Used(f, source, in, entered', at, 1)
  <2> DEFINE E2 == entered'
             c == Cur
  <2>1. \A b \in Blocks(source) : Ended(E2, at, 1, b) <=> Ended(entered, c, next, b)
    BY <1>3
  <2>2. \A b \in Blocks(source) : \A i \in DOMAIN f.ins[b] :
          Passed(E2, at, 1, b, Len(f.phis[b]) + i) => Passed(entered, c, next, b, Len(f.phis[b]) + i)
    BY <1>4
  <2>3. Used(f, source, in, entered, c, next)
    OBVIOUS
  <2> HIDE DEF E2, c
  <2>4. Used(f, source, in, E2, at, 1)
    BY <2>1, <2>2, <2>3, UsedSame
  <2>5. QED
    BY <2>4 DEF E2
<1>6. QED
  BY <1>1, <1>2, <1>5

LEMMA ReturnUses ==
  ASSUME Return, Used(f, source, in, entered, Cur, next)
  PROVE  Used(f', source', in', entered', Cur', next')
<1>1. next = 0 /\ next' = 0 /\ UNCHANGED <<f, source, in, entered>>
  BY DEF Return, liveVars
<1>2. \A c, d, b : Ended(entered, c, 0, b) <=> Ended(entered, d, 0, b)
  BY DEF Ended
<1>3. \A c, d, b, m : Passed(entered, c, 0, b, m) <=> Passed(entered, d, 0, b, m)
  BY DEF Passed
<1>4. \A c, d : Used(f, source, in, entered, c, 0) => Used(f, source, in, entered, d, 0)
  BY <1>2, <1>3, UsedSame
<1>5. QED
  BY <1>1, <1>4

\* Where rename starts nothing has been read.
LEMMA StartUses ==
  ASSUME PInv, NextTemp, pc' = "rename", Analysed
  PROVE  Used(f', source', in', entered', Cur', next')
<1>1. /\ entered' = {} /\ next' = 0 /\ UNCHANGED <<f, source, in>>
      /\ PlainPhis(f, in, temp) /\ OnlyPhis(f, source)
  BY DEF PInv, NotRenaming, NextTemp, liveVars
<1>2. Blocks(f) = Blocks(source)
  BY <1>1, OnlyPhisShape
<1>3. /\ \A c, b : ~Ended({}, c, 0, b)
      /\ \A c, b, m : ~Passed({}, c, 0, b, m)
  BY DEF Ended, Passed
<1>4. \A c : ArgsOK(f, source, in, {}, c, 0) /\ JumpsOK(f, source, in, {}, c, 0)
  BY <1>3 DEF ArgsOK, JumpsOK
<1>5. ASSUME NEW c, NEW b \in Blocks(source), NEW j \in DOMAIN f.phis[b]
      PROVE  PhiOK(f, source, in, {}, c, 0, b, f.phis[b][j])
  <2>1. PICK t : f.phis[b][j] = PlainPhi(t)
    BY <1>1, <1>2 DEF PlainPhis
  <2> DEFINE p == PlainPhi(t)
  <2>2. p.args = <<>> /\ p.blks = <<>>
    BY DEF PlainPhi
  <2> HIDE DEF p
  <2>3. <<>> \in Seq(Ref) /\ <<>> \in Seq(Nat) /\ DOMAIN <<>> = {}
    OBVIOUS
  <2>4. PhiOK(f, source, in, {}, c, 0, b, p)
    BY <1>3, <2>2, <2>3 DEF PhiOK
  <2>5. QED
    BY <2>1, <2>4 DEF p
<1>6. \A c : Used(f, source, in, {}, c, 0)
  BY <1>4, <1>5 DEF Used, PhisOK
<1>7. QED
  BY <1>1, <1>6

\* The inductive invariant, with what is read.
UInv == SInv /\ (pc \in {"rename", "done"} => Used(f, source, in, entered, Cur, next))

\* Every step keeps it.
LEMMA UInvStep ==
  ASSUME UInv, [Next]_vars, Analysed'
  PROVE  UInv'
<1>1. SInv /\ SInv' /\ Analysed /\ Analysed'
  BY SInvStep DEF UInv, SInv
<1>2. UNCHANGED <<f, source, in, entered, walks, next>> /\ pc \in {"rename", "done"} => UInv'
  <2> SUFFICES ASSUME UNCHANGED <<f, source, in, entered, walks, next>>, pc \in {"rename", "done"}
               PROVE  UInv'
    OBVIOUS
  <2>1. Cur' = Cur
    BY DEF Cur
  <2>2. QED
    BY <1>1, <2>1 DEF UInv
<1>3. CASE FillDomFron
  BY <1>1, <1>3 DEF UInv, FillDomFron
<1>4. CASE Liveness
  BY <1>1, <1>4 DEF UInv, Liveness
<1>5. CASE PlacePhis
  BY <1>1, <1>5 DEF UInv, PlacePhis
<1>6. CASE NextTemp
  <2>1. pc = "phis" /\ PInv
    BY <1>1, <1>6 DEF NextTemp, SInv
  <2>2. pc' = "phis" \/ pc' = "rename"
    BY <1>6, <2>1 DEF NextTemp
  <2>3. pc' = "rename" => Used(f', source', in', entered', Cur', next')
    BY <1>1, <1>6, <2>1, StartUses
  <2>4. QED
    BY <1>1, <2>2, <2>3 DEF UInv
<1>7. CASE Enter \/ RenamePhi \/ RenameIns \/ EndBlock \/ Return
  <2>1. pc = "rename" /\ pc' = pc /\ RInv /\ RInv' /\ Used(f, source, in, entered, Cur, next)
    BY <1>1, <1>7 DEF Enter, RenamePhi, RenameIns, EndBlock, Return, SInv, UInv
  <2>2. Used(f', source', in', entered', Cur', next')
    BY <1>1, <1>7, <2>1, EnterUses, RenamedUses, EndBlockUses, ReturnUses
  <2>3. QED
    BY <1>1, <2>2 DEF UInv
<1>8. CASE Finish
  BY <1>2, <1>8 DEF Finish, domVars, liveVars, phiVars, renameVars
<1>9. CASE UNCHANGED vars
  <2>1. UNCHANGED <<f, source, in, entered, walks, next, pc>>
    BY <1>9 DEF vars, domVars, liveVars, phiVars, renameVars
  <2>2. pc \notin {"rename", "done"} => UInv'
    BY <1>1, <2>1 DEF UInv
  <2>3. QED
    BY <1>2, <2>1, <2>2
<1>10. QED
  BY <1>3, <1>4, <1>5, <1>6, <1>7, <1>8, <1>9 DEF Next

\* It holds when SSA is called.
LEMMA InitUInv ==
  ASSUME Init
  PROVE  UInv
BY InitSInv DEF UInv, Init

-----------------------------------------------------------------------------
\* A set of at most one element.
LEMMA CountSmall ==
  ASSUME NEW S, \A x, y \in S : x = y
  PROVE  (S = {} /\ Cardinality(S) = 0) \/ (S # {} /\ Cardinality(S) = 1)
<1>1. CASE S = {}
  BY <1>1, FS_EmptySet
<1>2. CASE S # {}
  <2>1. PICK x : x \in S
    BY <1>2
  <2>2. S = {x}
    BY <2>1
  <2>3. QED
    BY <1>2, <2>2, FS_Singleton
<1>3. QED
  BY <1>1, <1>2

(***************************************************************************)
(* When SSA is done: every result is a name of its own.                    *)
(***************************************************************************)
LEMMA AtDone ==
  ASSUME UInv, pc = "done"
  PROVE  /\ Analysed /\ RInv /\ NTyped /\ temps = FillUse(f)
         /\ \A b \in Blocks(source) : \A m \in 1 .. NItems(f, b) :
              IsTmp(ItemTo(f, b, m)) => IsNew(source, ItemTo(f, b, m))
         /\ \A a, b \in Blocks(source) : \A l \in 1 .. NItems(f, a), m \in 1 .. NItems(f, b) :
              IsTmp(ItemTo(f, a, l)) /\ IsTmp(ItemTo(f, b, m)) /\ ItemTo(f, a, l).val = ItemTo(f, b, m).val
                => a = b /\ l = m
         /\ \A b \in Blocks(source) : \A i \in DOMAIN f.ins[b] : \A r \in Elems(f.ins[b][i].arg) :
              UseOK(f, source, in, r, b, Len(f.phis[b]) + i)
         /\ \A b \in Blocks(source) : UseOK(f, source, in, f.jmp[b].arg, b, NItems(f, b) + 1)
         /\ \A b \in Blocks(source) : \A j \in DOMAIN f.phis[b] :
              PhiOK(f, source, in, Blocks(source), Cur, 0, b, f.phis[b][j])
<1>1. /\ Analysed /\ RInv /\ NTyped /\ temps = FillUse(f) /\ walks = <<>> /\ at = Nil /\ next = 0 /\ WInv
      /\ Named(f, source, entered, Cur, next) /\ Used(f, source, in, entered, Cur, next)
  BY DEF UInv, SInv, RInv
<1>2. entered = Blocks(source)
  BY <1>1, AllEntered
<1> DEFINE c == Cur
           E == Blocks(source)
<1>3. Named(f, source, E, c, 0) /\ Used(f, source, in, E, c, 0)
  BY <1>1, <1>2
<1> HIDE DEF c
<1>4. \A b \in E : Ended(E, c, 0, b) /\ \A m : Passed(E, c, 0, b, m)
  BY DEF Ended, Passed
<1>5. \A b \in E : \A m \in 1 .. NItems(f, b) : IsTmp(ItemTo(f, b, m)) => IsNew(source, ItemTo(f, b, m))
  BY <1>3, <1>4 DEF Named
<1>6. ASSUME NEW a \in E, NEW b \in E, NEW l \in 1 .. NItems(f, a), NEW m \in 1 .. NItems(f, b),
             IsTmp(ItemTo(f, a, l)), IsTmp(ItemTo(f, b, m)), ItemTo(f, a, l).val = ItemTo(f, b, m).val
      PROVE  a = b /\ l = m
  <2>1. ItemTo(f, a, l) \in Ref /\ ItemTo(f, b, m) \in Ref
    BY <1>1, ItemsTyped DEF RefOK
  <2>2. \A x, y \in Ref : IsTmp(x) /\ IsTmp(y) /\ x.val = y.val => x = y
    BY DEF Ref, IsTmp
  <2>3. ItemTo(f, a, l) = ItemTo(f, b, m)
    BY <1>6, <2>1, <2>2
  <2>4. IsNew(source, ItemTo(f, a, l))
    BY <1>5, <1>6
  <2>5. QED
    BY <1>3, <2>3, <2>4 DEF Named
<1>7. \A b \in E : \A i \in DOMAIN f.ins[b] : \A r \in Elems(f.ins[b][i].arg) :
              UseOK(f, source, in, r, b, Len(f.phis[b]) + i)
  BY <1>3, <1>4 DEF Used, ArgsOK
<1>8. \A b \in E : UseOK(f, source, in, f.jmp[b].arg, b, NItems(f, b) + 1)
  BY <1>3, <1>4 DEF Used, JumpsOK
<1>9. \A b \in E : \A j \in DOMAIN f.phis[b] : PhiOK(f, source, in, E, c, 0, b, f.phis[b][j])
  BY <1>3 DEF Used, PhisOK
<1>10. QED
  BY <1>1, <1>5, <1>6, <1>7, <1>8, <1>9 DEF c

\* What is given in a block is the result of an item.
LEMMA GivenMeans ==
  ASSUME NTyped, NEW b \in Blocks(source), NEW t
  PROVE  t \in Given(b) <=> \E m \in 1 .. NItems(f, b) : IsTmp(ItemTo(f, b, m)) /\ ItemTo(f, b, m).val = t
<1>1. /\ Len(f.phis[b]) \in Nat /\ Len(f.ins[b]) \in Nat
      /\ DOMAIN f.phis[b] = 1 .. Len(f.phis[b]) /\ DOMAIN f.ins[b] = 1 .. Len(f.ins[b])
  BY NTypedFacts
<1>2. t \in Given(b) <=> \E z \in Elems(f.phis[b]) \cup Elems(f.ins[b]) : IsTmp(z.to) /\ z.to.val = t
  BY DEF Given, Defs, TmpsOf
<1>3. ASSUME NEW z \in Elems(f.phis[b]) \cup Elems(f.ins[b])
      PROVE  \E m \in 1 .. NItems(f, b) : ItemTo(f, b, m) = z.to
  <2>1. CASE z \in Elems(f.phis[b])
    <3>1. PICK j \in DOMAIN f.phis[b] : z = f.phis[b][j]
      BY <2>1 DEF Elems
    <3>2. j \in 1 .. NItems(f, b) /\ ItemTo(f, b, j) = f.phis[b][j].to
      BY <1>1, <3>1, ItemKinds
    <3>3. QED
      BY <3>1, <3>2
  <2>2. CASE z \in Elems(f.ins[b])
    <3>1. PICK i \in DOMAIN f.ins[b] : z = f.ins[b][i]
      BY <2>2 DEF Elems
    <3>2. i \in 1 .. Len(f.ins[b])
      BY <1>1
    <3>3. Len(f.phis[b]) + i \in 1 .. NItems(f, b) /\ ItemTo(f, b, Len(f.phis[b]) + i) = f.ins[b][i].to
      BY <1>1, <3>2, ItemKinds, SMTT(30)
    <3>4. QED
      BY <3>1, <3>3
  <2>3. QED
    BY <2>1, <2>2
<1>4. ASSUME NEW m \in 1 .. NItems(f, b)
      PROVE  \E z \in Elems(f.phis[b]) \cup Elems(f.ins[b]) : ItemTo(f, b, m) = z.to
  <2>1. IF m <= Len(f.phis[b]) THEN m \in DOMAIN f.phis[b] ELSE m - Len(f.phis[b]) \in DOMAIN f.ins[b]
    BY ItemsTyped
  <2>2. CASE m <= Len(f.phis[b])
    BY <2>1, <2>2 DEF ItemTo, Elems
  <2>3. CASE ~(m <= Len(f.phis[b]))
    BY <2>1, <2>3 DEF ItemTo, Elems
  <2>4. QED
    BY <2>2, <2>3
<1>5. QED
  BY <1>2, <1>3, <1>4

\* A name has at most one definition, and a temporary of the source none.
LEMMA OneDef ==
  ASSUME UInv, pc = "done", NEW t
  PROVE  /\ NDef(f, t) \in Nat /\ NDef(f, t) <= 1
         /\ NDef(f, t) > 0 => \E b \in Blocks(source) : \E m \in 1 .. NItems(f, b) :
                                IsTmp(ItemTo(f, b, m)) /\ ItemTo(f, b, m).val = t
<1> DEFINE DI == DefIns(f, t)
           DP == DefPhis(f, t)
           At(b, m) == m \in 1 .. NItems(f, b) /\ IsTmp(ItemTo(f, b, m)) /\ ItemTo(f, b, m).val = t
<1>1. /\ Blocks(f) = Blocks(source)
      /\ \A b \in Blocks(source) : Len(f.phis[b]) \in Nat /\ Len(f.ins[b]) \in Nat
                                   /\ DOMAIN f.phis[b] = 1 .. Len(f.phis[b])
                                   /\ DOMAIN f.ins[b] = 1 .. Len(f.ins[b])
  BY AtDone, NTypedFacts
<1>2. \A a, b \in Blocks(source) : \A l, m : At(a, l) /\ At(b, m) => a = b /\ l = m
  BY AtDone
<1>3. ASSUME NEW x \in DI
      PROVE  \E b \in Blocks(source) : \E i \in 1 .. Len(f.ins[b]) :
               x = <<b, i>> /\ At(b, Len(f.phis[b]) + i)
  <2>0. PICK b \in Blocks(source) : \E i \in DOMAIN f.ins[b] : x = <<b, i>> /\ t \in Defs(f.ins[b][i])
    BY <1>1 DEF DefIns, Sites
  <2>1. PICK i \in DOMAIN f.ins[b] : x = <<b, i>> /\ t \in Defs(f.ins[b][i])
    BY <2>0
  <2>2. i \in 1 .. Len(f.ins[b])
    BY <1>1
  <2>3. IsTmp(f.ins[b][i].to) /\ f.ins[b][i].to.val = t
    BY <2>1 DEF Defs, TmpsOf
  <2>4. Len(f.phis[b]) + i \in 1 .. NItems(f, b) /\ ItemTo(f, b, Len(f.phis[b]) + i) = f.ins[b][i].to
    BY <1>1, <2>2, ItemKinds
  <2>5. QED
    BY <2>1, <2>2, <2>3, <2>4
<1>4. ASSUME NEW x \in DP
      PROVE  \E b \in Blocks(source) : \E i \in 1 .. Len(f.phis[b]) : x = <<b, i>> /\ At(b, i)
  <2>0. PICK b \in Blocks(source) : \E i \in DOMAIN f.phis[b] : x = <<b, i>> /\ t \in Defs(f.phis[b][i])
    BY <1>1 DEF DefPhis, PhiSites
  <2>1. PICK i \in DOMAIN f.phis[b] : x = <<b, i>> /\ t \in Defs(f.phis[b][i])
    BY <2>0
  <2>2. i \in 1 .. Len(f.phis[b])
    BY <1>1
  <2>3. IsTmp(f.phis[b][i].to) /\ f.phis[b][i].to.val = t
    BY <2>1 DEF Defs, TmpsOf
  <2>4. i \in 1 .. NItems(f, b) /\ ItemTo(f, b, i) = f.phis[b][i].to
    BY <1>1, <2>2, ItemKinds
  <2>5. QED
    BY <2>1, <2>2, <2>3, <2>4
<1> HIDE DEF DI, DP, At
<1>5. \A x, y \in DI : x = y
  <2> SUFFICES ASSUME NEW x \in DI, NEW y \in DI PROVE x = y
    OBVIOUS
  <2>1. PICK a \in Blocks(source) : \E i \in 1 .. Len(f.ins[a]) : x = <<a, i>> /\ At(a, Len(f.phis[a]) + i)
    BY <1>3
  <2>2. PICK i \in 1 .. Len(f.ins[a]) : x = <<a, i>> /\ At(a, Len(f.phis[a]) + i)
    BY <2>1
  <2>3. PICK b \in Blocks(source) : \E j \in 1 .. Len(f.ins[b]) : y = <<b, j>> /\ At(b, Len(f.phis[b]) + j)
    BY <1>3
  <2>4. PICK j \in 1 .. Len(f.ins[b]) : y = <<b, j>> /\ At(b, Len(f.phis[b]) + j)
    BY <2>3
  <2>5. a = b /\ Len(f.phis[a]) + i = Len(f.phis[b]) + j
    BY <1>2, <2>2, <2>4
  <2> DEFINE u == Len(f.phis[a])
             v == Len(f.ins[a])
  <2>6. u \in Nat /\ v \in Nat /\ i \in 1 .. v /\ j \in 1 .. v /\ u + i = u + j
    BY <1>1, <2>5
  <2> HIDE DEF u, v
  <2>7. i = j
    BY <2>6
  <2>8. QED
    BY <2>2, <2>4, <2>5, <2>7
<1>6. \A x, y \in DP : x = y
  <2> SUFFICES ASSUME NEW x \in DP, NEW y \in DP PROVE x = y
    OBVIOUS
  <2>1. PICK a \in Blocks(source) : \E i \in 1 .. Len(f.phis[a]) : x = <<a, i>> /\ At(a, i)
    BY <1>4
  <2>2. PICK b \in Blocks(source) : \E j \in 1 .. Len(f.phis[b]) : y = <<b, j>> /\ At(b, j)
    BY <1>4
  <2>3. QED
    BY <1>2, <2>1, <2>2
<1>7. DI = {} \/ DP = {}
  <2> SUFFICES ASSUME NEW x \in DI, NEW y \in DP PROVE FALSE
    OBVIOUS
  <2>1. PICK a \in Blocks(source) : \E i \in 1 .. Len(f.ins[a]) : x = <<a, i>> /\ At(a, Len(f.phis[a]) + i)
    BY <1>3
  <2>2. PICK i \in 1 .. Len(f.ins[a]) : x = <<a, i>> /\ At(a, Len(f.phis[a]) + i)
    BY <2>1
  <2>3. PICK b \in Blocks(source) : \E j \in 1 .. Len(f.phis[b]) : y = <<b, j>> /\ At(b, j)
    BY <1>4
  <2>4. PICK j \in 1 .. Len(f.phis[b]) : y = <<b, j>> /\ At(b, j)
    BY <2>3
  <2>5. a = b /\ Len(f.phis[a]) + i = j
    BY <1>2, <2>2, <2>4
  <2> DEFINE u == Len(f.phis[a])
             v == Len(f.ins[a])
  <2>6. u \in Nat /\ v \in Nat /\ i \in 1 .. v /\ j \in 1 .. u /\ u + i = j
    BY <1>1, <2>5
  <2> HIDE DEF u, v
  <2>7. QED
    BY <2>6
<1>8. NDef(f, t) = Cardinality(DI) + Cardinality(DP)
  BY DEF NDef, DI, DP
<1>9. (DI = {} /\ Cardinality(DI) = 0) \/ (DI # {} /\ Cardinality(DI) = 1)
  BY <1>5, CountSmall
<1>10. (DP = {} /\ Cardinality(DP) = 0) \/ (DP # {} /\ Cardinality(DP) = 1)
  BY <1>6, CountSmall
<1>11. NDef(f, t) \in Nat /\ NDef(f, t) <= 1 /\ (NDef(f, t) > 0 => DI # {} \/ DP # {})
  BY <1>7, <1>8, <1>9, <1>10
<1>12. DI # {} \/ DP # {} => \E b \in Blocks(source) : \E m : At(b, m)
  BY <1>3, <1>4
<1>13. QED
  BY <1>11, <1>12 DEF At

\* ReachIn and IsSdom look at the number of blocks and the successors only.
Reaching(n, t1, t2, b, w) ==
  LET after[i \in 0 .. n] ==
        IF i = 0 THEN {b}
        ELSE LET some == after[i - 1]
             IN  some \cup (w \cap (UNION {{t1[c], t2[c]} \ {Nil} : c \in some}))
  IN  after[n]

\* FillDom's dominance in f, and its climbing, are those of the source.
LEMMA SameDom ==
  ASSUME NTyped, NEW a, NEW b
  PROVE  /\ Dominance!Dom(a, b) <=> Dominates(source, a, b)
         /\ Dominance!IsSdom(a, b) <=> ClimbsTo(source, idom, a, b)
<1>1. f.n = source.n /\ f.s1 = source.s1 /\ f.s2 = source.s2 /\ Blocks(f) = Blocks(source)
  BY NTypedFacts DEF NTyped, SameGraph
<1>2. \A w : ReachIn(f, 0, w) = ReachIn(source, 0, w)
  <2> TAKE w
  <2>1. ReachIn(f, 0, w) = Reaching(f.n, f.s1, f.s2, 0, w)
    BY DEF ReachIn, Succs, Reaching
  <2>2. ReachIn(source, 0, w) = Reaching(source.n, source.s1, source.s2, 0, w)
    BY DEF ReachIn, Succs, Reaching
  <2>3. QED
    BY <1>1, <2>1, <2>2
<1>3. Dominance!Dom(a, b) <=> Dominates(f, a, b)
  BY DEF Dominance!Dom, Dominates, Dominance!ReachIn, ReachIn, Dominance!Succs, Succs,
         Dominance!Blocks, Blocks, Dominance!Nil, Nil
<1>4. Dominates(f, a, b) <=> Dominates(source, a, b)
  BY <1>1, <1>2 DEF Dominates
<1>5. Dominance!IsSdom(a, b) <=> ClimbsTo(f, idom, a, b)
  BY DEF Dominance!IsSdom, ClimbsTo, Dominance!Blocks, Blocks, Dominance!Nil, Nil
<1>6. ClimbsTo(f, idom, a, b) <=> ClimbsTo(source, idom, a, b)
  BY <1>1 DEF ClimbsTo
<1>7. QED
  BY <1>3, <1>4, <1>5, <1>6

\* A name given before a place is defined before it, as Verify says it.
LEMMA BeforeDefines ==
  ASSUME NTyped, NEW b \in Blocks(source), NEW i \in 1 .. Len(f.ins[b]) + 1, NEW r, IsTmp(r),
         Before(f, source, r, b, Len(f.phis[b]) + i)
  PROVE  DefinedBefore(r.val, b, i)
<1>1. /\ Len(f.phis[b]) \in Nat /\ Len(f.ins[b]) \in Nat /\ Blocks(f) = Blocks(source)
      /\ DOMAIN f.phis[b] = 1 .. Len(f.phis[b]) /\ DOMAIN f.ins[b] = 1 .. Len(f.ins[b])
  BY NTypedFacts
<1>2. CASE \E m \in 1 .. NItems(f, b) : m < Len(f.phis[b]) + i /\ ItemTo(f, b, m) = r
  <2>1. PICK m \in 1 .. NItems(f, b) : m < Len(f.phis[b]) + i /\ ItemTo(f, b, m) = r
    BY <1>2
  <2>2. IF m <= Len(f.phis[b]) THEN m \in DOMAIN f.phis[b] ELSE m - Len(f.phis[b]) \in DOMAIN f.ins[b]
    BY ItemsTyped
  <2>3. CASE m <= Len(f.phis[b])
    <3>1. f.phis[b][m] \in Elems(f.phis[b]) /\ f.phis[b][m].to = r
      BY <2>1, <2>2, <2>3 DEF ItemTo, Elems
    <3>2. r.val \in Defs(f.phis[b][m])
      BY <3>1 DEF Defs, TmpsOf
    <3>3. QED
      BY <3>1, <3>2 DEF DefinedBefore
  <2>4. CASE ~(m <= Len(f.phis[b]))
    <3> DEFINE j == m - Len(f.phis[b])
               u == Len(f.phis[b])
    <3>1. j \in DOMAIN f.ins[b] /\ f.ins[b][j].to = r
      BY <2>1, <2>2, <2>4 DEF ItemTo
    <3>2. r.val \in Defs(f.ins[b][j])
      BY <3>1 DEF Defs, TmpsOf
    <3>3. j \in Nat /\ j >= 1
      <4>1. j \in 1 .. Len(f.ins[b])
        BY <1>1, <3>1
      <4>2. QED
        BY <1>1, <4>1
    <3>4. u \in Nat /\ m < u + i /\ j = m - u /\ NItems(f, b) = u + Len(f.ins[b]) /\ m \in Nat
      <4>1. NItems(f, b) \in Nat
        BY <1>1, ItemKinds
      <4>2. QED
        BY <1>1, <2>1, <4>1 DEF NItems
    <3> HIDE DEF u, j
    <3>5. j \in 1 .. i - 1
      <4> DEFINE v == Len(f.ins[b])
      <4>1. v \in Nat /\ i \in 1 .. v + 1
        BY <1>1
      <4> HIDE DEF v
      <4>2. QED
        BY <3>3, <3>4, <4>1
    <3>6. QED
      BY <3>2, <3>5 DEF DefinedBefore
  <2>5. QED
    BY <2>3, <2>4
<1>3. CASE \E d \in Blocks(source) : SDom(source, d, b) /\ \E m \in 1 .. NItems(f, d) : ItemTo(f, d, m) = r
  <2>1. PICK d \in Blocks(source) : SDom(source, d, b) /\ \E m \in 1 .. NItems(f, d) : ItemTo(f, d, m) = r
    BY <1>3
  <2>2. r.val \in Given(d)
    BY <2>1, GivenMeans
  <2>3. d \in Blocks(f) \ {b} /\ Dominance!Dom(d, b)
    BY <1>1, <2>1, SameDom DEF SDom
  <2>4. QED
    BY <2>2, <2>3 DEF DefinedBefore
<1>4. QED
  BY <1>2, <1>3 DEF Before

\* A temporary of the source that is left has no definition.
LEMMA UseDefined ==
  ASSUME UInv, pc = "done", NEW b \in Blocks(source), NEW i \in 1 .. Len(f.ins[b]) + 1, NEW r, RefOK(f, r),
         IsTmp(r), UseOK(f, source, in, r, b, Len(f.phis[b]) + i)
  PROVE  (Strict \/ temps[r.val].NDef > 0) => DefinedBefore(r.val, b, i)
<1>1. CASE IsNew(source, r)
  BY <1>1, AtDone, BeforeDefines DEF UseOK
<1>2. CASE ~IsNew(source, r)
  <2>1. ~Strict
    BY <1>2 DEF UseOK, Strict
  <2>2. temps[r.val].NDef = NDef(f, r.val)
    BY AtDone DEF FillUse, RefOK
  <2>3. ~(NDef(f, r.val) > 0)
    <3> SUFFICES ASSUME NDef(f, r.val) > 0 PROVE FALSE
      OBVIOUS
    <3>1. PICK d \in Blocks(source) : \E m \in 1 .. NItems(f, d) :
                  IsTmp(ItemTo(f, d, m)) /\ ItemTo(f, d, m).val = r.val
      BY OneDef
    <3>2. PICK m \in 1 .. NItems(f, d) : IsTmp(ItemTo(f, d, m)) /\ ItemTo(f, d, m).val = r.val
      BY <3>1
    <3>3. IsNew(source, ItemTo(f, d, m))
      BY <3>2, AtDone
    <3>4. QED
      BY <1>2, <3>2, <3>3 DEF IsNew
  <2>4. QED
    BY <2>1, <2>2, <2>3
<1>3. QED
  BY <1>1, <1>2

\* Every definition reaches its uses.
LEMMA Reached ==
  ASSUME UInv, pc = "done"
  PROVE  DefsReachUses
<1>1. /\ NTyped /\ IsFunction(f) /\ Blocks(f) = Blocks(source)
      /\ \A b \in Blocks(source) : Len(f.phis[b]) \in Nat /\ Len(f.ins[b]) \in Nat
                                   /\ DOMAIN f.ins[b] = 1 .. Len(f.ins[b])
      /\ \A b \in Blocks(source) : \A i \in DOMAIN f.ins[b] : \A r \in Elems(f.ins[b][i].arg) :
              UseOK(f, source, in, r, b, Len(f.phis[b]) + i)
      /\ \A b \in Blocks(source) : UseOK(f, source, in, f.jmp[b].arg, b, NItems(f, b) + 1)
      /\ \A b \in Blocks(source) : \A j \in DOMAIN f.phis[b] :
              PhiOK(f, source, in, Blocks(source), Cur, 0, b, f.phis[b][j])
  BY AtDone, NTypedFacts DEF NTyped
<1>2. \A b \in Blocks(source) : /\ Len(f.ins[b]) + 1 \in 1 .. Len(f.ins[b]) + 1
                                /\ NItems(f, b) + 1 = Len(f.phis[b]) + (Len(f.ins[b]) + 1)
                                /\ \A i \in DOMAIN f.ins[b] : i \in 1 .. Len(f.ins[b]) + 1
  <2> SUFFICES ASSUME NEW b \in Blocks(source)
               PROVE  /\ Len(f.ins[b]) + 1 \in 1 .. Len(f.ins[b]) + 1
                      /\ NItems(f, b) + 1 = Len(f.phis[b]) + (Len(f.ins[b]) + 1)
                      /\ \A i \in DOMAIN f.ins[b] : i \in 1 .. Len(f.ins[b]) + 1
    OBVIOUS
  <2> DEFINE u == Len(f.phis[b])
             v == Len(f.ins[b])
  <2>1. u \in Nat /\ v \in Nat /\ DOMAIN f.ins[b] = 1 .. v /\ NItems(f, b) = u + v
    BY <1>1 DEF NItems
  <2> HIDE DEF u, v
  <2>2. v + 1 \in 1 .. v + 1 /\ NItems(f, b) + 1 = u + (v + 1) /\ \A i \in DOMAIN f.ins[b] : i \in 1 .. v + 1
    BY <2>1
  <2>3. QED
    BY <2>2 DEF u, v
<1>3. \A b \in Blocks(source) : \A i \in 1 .. Len(f.ins[b]) + 1 : \A r :
        RefOK(f, r) /\ IsTmp(r) /\ UseOK(f, source, in, r, b, Len(f.phis[b]) + i)
        /\ (Strict \/ temps[r.val].NDef > 0) => DefinedBefore(r.val, b, i)
  BY UseDefined
<1>4. ASSUME NEW b \in Blocks(source), NEW i \in DOMAIN f.ins[b], NEW t \in Uses(f.ins[b][i]),
             Strict \/ temps[t].NDef > 0
      PROVE  DefinedBefore(t, b, i)
  <2>1. PICK r \in Elems(f.ins[b][i].arg) : IsTmp(r) /\ r.val = t
    BY DEF Uses, TmpsOf
  <2>2. RefOK(f, r) /\ UseOK(f, source, in, r, b, Len(f.phis[b]) + i) /\ i \in 1 .. Len(f.ins[b]) + 1
    BY <1>1, <1>2 DEF IsFunction
  <2>3. QED
    BY <1>3, <1>4, <2>1, <2>2
<1>5. ASSUME NEW b \in Blocks(source), NEW r, RefOK(f, r), IsTmp(r),
             UseOK(f, source, in, r, b, NItems(f, b) + 1), Strict \/ temps[r.val].NDef > 0
      PROVE  DefinedAtEnd(r.val, b)
  <2>1. UseOK(f, source, in, r, b, Len(f.phis[b]) + (Len(f.ins[b]) + 1))
    BY <1>2, <1>5
  <2>2. Len(f.ins[b]) + 1 \in 1 .. Len(f.ins[b]) + 1
    BY <1>2
  <2>3. QED
    BY <1>3, <1>5, <2>1, <2>2 DEF DefinedAtEnd
<1>6. ASSUME NEW b \in Blocks(source), NEW t \in TmpsOf({f.jmp[b].arg}), Strict \/ temps[t].NDef > 0
      PROVE  DefinedAtEnd(t, b)
  <2>1. IsTmp(f.jmp[b].arg) /\ f.jmp[b].arg.val = t
    BY DEF TmpsOf
  <2>2. RefOK(f, f.jmp[b].arg)
    BY <1>1 DEF IsFunction
  <2>3. QED
    BY <1>1, <1>5, <1>6, <2>1, <2>2
<1>7. ASSUME NEW b \in Blocks(source), NEW p \in Elems(f.phis[b]), NEW i \in DOMAIN p.args,
             NEW t \in TmpsOf({p.args[i]}), Strict \/ temps[t].NDef > 0
      PROVE  DefinedAtEnd(t, p.blks[i])
  <2>1. PICK j \in DOMAIN f.phis[b] : p = f.phis[b][j]
    BY DEF Elems
  <2>2. PhiOK(f, source, in, Blocks(source), Cur, 0, b, p)
    BY <1>1, <2>1
  <2>3. DOMAIN p.args = DOMAIN p.blks
    <3>1. p.args \in Seq(Ref) /\ p.blks \in Seq(Nat) /\ Len(p.args) = Len(p.blks)
      BY <2>2 DEF PhiOK
    <3>2. \A V : \A s \in Seq(V) : DOMAIN s = 1 .. Len(s)
      OBVIOUS
    <3>3. DOMAIN p.args = 1 .. Len(p.args) /\ DOMAIN p.blks = 1 .. Len(p.blks)
      BY <3>1, <3>2
    <3>4. QED
      BY <3>1, <3>3
  <2>4. p.blks[i] \in Blocks(source) /\ UseOK(f, source, in, p.args[i], p.blks[i], NItems(f, p.blks[i]) + 1)
    BY <2>2, <2>3 DEF PhiOK
  <2>5. IsTmp(p.args[i]) /\ p.args[i].val = t
    BY DEF TmpsOf
  <2>6. RefOK(f, p.args[i])
    BY <1>1, <2>1 DEF IsFunction, Elems
  <2>7. QED
    BY <1>5, <1>7, <2>4, <2>5, <2>6
<1>8. QED
  BY <1>1, <1>4, <1>6, <1>7 DEF DefsReachUses

\* A phi has at most one argument for an edge, and all of them if nothing is read too early.
LEMMA EdgesHaveArgs ==
  ASSUME UInv, pc = "done"
  PROVE  OneArgPerEdge
<1>1. /\ Blocks(f) = Blocks(source) /\ PredsRight(source) /\ f.pred = source.pred
      /\ \A b \in Blocks(source) : \A j \in DOMAIN f.phis[b] :
              PhiOK(f, source, in, Blocks(source), Cur, 0, b, f.phis[b][j])
  BY AtDone, NTypedFacts, SourceFacts DEF NTyped, SameGraph
<1>2. ASSUME NEW b \in Blocks(source), NEW p \in Elems(f.phis[b])
      PROVE  /\ \A i, j \in DOMAIN p.blks : p.blks[i] = p.blks[j] => i = j
             /\ Elems(p.blks) \subseteq Elems(f.pred[b])
             /\ Strict => Elems(p.blks) = Elems(f.pred[b])
  <2>1. PICK j \in DOMAIN f.phis[b] : p = f.phis[b][j]
    BY DEF Elems
  <2>2. PhiOK(f, source, in, Blocks(source), Cur, 0, b, p)
    BY <1>1, <2>1
  <2>3. Elems(f.pred[b]) = {a \in Blocks(source) : b \in Succs(source, a)}
    BY <1>1 DEF PredsRight
  <2>4. \A a \in Blocks(source) : Ended(Blocks(source), Cur, 0, a)
    BY DEF Ended
  <2>5. Elems(p.blks) \subseteq Elems(f.pred[b])
    BY <2>2, <2>3 DEF PhiOK, Elems
  <2>6. Strict => \A a \in Elems(f.pred[b]) : a \in Elems(p.blks)
    <3> SUFFICES ASSUME Strict, NEW a \in Elems(f.pred[b]) PROVE a \in Elems(p.blks)
      OBVIOUS
    <3>1. a \in Blocks(source) /\ b \in Succs(source, a)
      BY <2>3
    <3>2. \E i \in DOMAIN p.blks : p.blks[i] = a
      BY <2>2, <2>4, <3>1 DEF PhiOK, Strict
    <3>3. QED
      BY <3>2 DEF Elems
  <2>7. QED
    BY <2>2, <2>5, <2>6 DEF PhiOK
<1>3. QED
  BY <1>1, <1>2 DEF OneArgPerEdge

\* What reads is in the block of the definition, or below it.
LEMMA Verified ==
  ASSUME UInv, pc = "done", Strict
  PROVE  VerifySSA
<1>1. /\ NTyped /\ IsFunction(f) /\ Blocks(f) = Blocks(source) /\ Analysed
      /\ DomFacts(source, idom, dom, dlink, fron)
      /\ \A b \in Blocks(source) : \A i \in DOMAIN f.ins[b] : \A r \in Elems(f.ins[b][i].arg) :
              UseOK(f, source, in, r, b, Len(f.phis[b]) + i)
      /\ \A b \in Blocks(source) : UseOK(f, source, in, f.jmp[b].arg, b, NItems(f, b) + 1)
  BY AtDone, NTypedFacts DEF NTyped, Analysed
<1>2. ASSUME NEW b \in Blocks(source), NEW r, IsTmp(r), NEW pos, UseOK(f, source, in, r, b, pos)
      PROVE  CheckDom(r.val, b)
  <2>1. Before(f, source, r, b, pos)
    BY <1>2 DEF UseOK, Strict
  <2>2. PICK d \in Blocks(source) : (d = b \/ SDom(source, d, b))
                                   /\ \E m \in 1 .. NItems(f, d) : ItemTo(f, d, m) = r
    BY <2>1 DEF Before
  <2> DEFINE bs == {a \in Blocks(f) : r.val \in Given(a)}
  <2>3. d \in bs
    BY <1>1, <1>2, <2>2, GivenMeans
  <2>4. \A a \in bs : a = d
    <3> SUFFICES ASSUME NEW a \in bs PROVE a = d
      OBVIOUS
    <3>1. PICK l \in 1 .. NItems(f, a) : IsTmp(ItemTo(f, a, l)) /\ ItemTo(f, a, l).val = r.val
      BY <1>1, GivenMeans
    <3>2. PICK m \in 1 .. NItems(f, d) : ItemTo(f, d, m) = r
      BY <2>2
    <3>3. QED
      BY <1>1, <1>2, <3>1, <3>2, AtDone
  <2>5. bs = {d}
    BY <2>3, <2>4
  <2>6. d \in Nat /\ d # Nil
    BY DEF Blocks, Nil
  <2> HIDE DEF bs
  <2>7. (CHOOSE a \in bs : \A c \in bs : a <= c) = d
    BY <2>5, <2>6
  <2>8. FindDefBlock(r.val) = d
    BY <2>3, <2>7 DEF FindDefBlock, bs
  <2>9. SDom(source, d, b) => Dominance!IsSdom(d, b)
    BY <1>1, SameDom DEF DomFacts
  <2>10. QED
    BY <2>2, <2>6, <2>8, <2>9 DEF CheckDom
<1>3. ASSUME NEW b \in Blocks(source), NEW t \in Reads(b)
      PROVE  CheckDom(t, b)
  <2>1. CASE t \in TmpsOf({f.jmp[b].arg})
    <3>1. IsTmp(f.jmp[b].arg) /\ f.jmp[b].arg.val = t
      BY <2>1 DEF TmpsOf
    <3>2. QED
      BY <1>1, <1>2, <3>1
  <2>2. CASE t \in UNION {Uses(x) : x \in Elems(f.ins[b])}
    <3>1. PICK i \in DOMAIN f.ins[b] : t \in Uses(f.ins[b][i])
      BY <2>2 DEF Elems
    <3>2. PICK r \in Elems(f.ins[b][i].arg) : IsTmp(r) /\ r.val = t
      BY <3>1 DEF Uses, TmpsOf
    <3>3. QED
      BY <1>1, <1>2, <3>2
  <2>3. QED
    BY <2>1, <2>2 DEF Reads
<1>4. \A t \in Temps(f) : DefinedTimes(t) <= 1
  BY OneDef DEF DefinedTimes
<1>5. QED
  BY <1>1, <1>3, <1>4 DEF VerifySSA

\* All of it.
LEMMA FormHolds ==
  ASSUME UInv
  PROVE  SSAForm
<1> SUFFICES ASSUME pc = "done" PROVE SingleDef /\ DefsReachUses /\ OneArgPerEdge /\ (Strict => VerifySSA)
  BY DEF SSAForm
<1>1. SingleDef
  <2>1. \A t \in Temps(f) : temps[t].NDef = NDef(f, t)
    BY AtDone DEF FillUse
  <2>2. QED
    BY <2>1, OneDef DEF SingleDef
<1>2. QED
  BY <1>1, Reached, EdgesHaveArgs, Verified

-----------------------------------------------------------------------------
Tree == INSTANCE FillDomProofs WITH pos <- dpos, changed <- dchanged, pc <- dpc
Sets == INSTANCE LivenessProofs WITH pos <- lpos, changed <- lchanged, pc <- lpc

(***************************************************************************)
(* The operators of the instances are the ones named here.                 *)
(***************************************************************************)
LEMMA SameOperators ==
  /\ Tree!Nil = Nil
  /\ \A g : Tree!Blocks(g) = Blocks(g)
  /\ \A g, b : Tree!Succs(g, b) = Succs(g, b)
  /\ \A s : Tree!Elems(s) = Elems(s)
  /\ \A g : Tree!IsFunction(g) <=> IsFunction(g)
  /\ \A g : Tree!Prepared(g) <=> Prepared(g)
<1>1. Tree!Ref = Ref /\ Tree!Opcodes = Opcodes /\ Tree!Nil = Nil
  BY DEF Tree!Ref, Ref, Tree!RefKinds, RefKinds, Tree!Nil, Nil,
     Tree!Opcodes, Opcodes, Tree!Stores, Stores, Tree!Allocs, Allocs, Tree!Calls, Calls,
     Tree!VarArg, VarArg, Tree!Pures, Pures, Tree!Loads, Loads, Tree!Params, Params,
     Tree!IntOps, IntOps, Tree!Divisions, Divisions, Tree!Narrow, Narrow,
     Tree!Orders, Orders, Tree!Extensions, Extensions
<1>2. Tree!Phi = Phi /\ Tree!Instruction = Instruction /\ Tree!Jump = Jump
  BY <1>1 DEF Tree!Phi, Phi, Tree!Instruction, Instruction, Tree!Jump, Jump
<1>3. \A g : Tree!Blocks(g) = Blocks(g)
  BY DEF Tree!Blocks, Blocks
<1>4. \A s : Tree!Elems(s) = Elems(s)
  BY DEF Tree!Elems, Elems
<1>5. \A g, r : Tree!RefOK(g, r) <=> RefOK(g, r)
  BY <1>1 DEF Tree!RefOK, RefOK, Tree!IsTmp, IsTmp, Tree!Temps, Temps
<1>6. \A g : Tree!IsFunction(g) <=> IsFunction(g)
  BY <1>1, <1>2, <1>3, <1>4, <1>5 DEF Tree!IsFunction, IsFunction
<1>7. \A g, b : Tree!Succs(g, b) = Succs(g, b)
  BY <1>1 DEF Tree!Succs, Succs
<1>8. \A g : Tree!Prepared(g) <=> Prepared(g)
  BY <1>3, <1>4, <1>6, <1>7 DEF Tree!Prepared, Prepared, Tree!InOrder, InOrder,
     Tree!PredsRight, PredsRight
<1>9. QED
  BY <1>1, <1>3, <1>4, <1>6, <1>7, <1>8

\* So what FillDomProofs shows of them is about these.
LEMMA SameDominance ==
  ASSUME NEW g, NEW I, NEW D, NEW L, NEW F
  PROVE  Tree!DomFacts(g, I, D, L, F) <=> DomFacts(g, I, D, L, F)
<1>1. \A a, W : Tree!ReachIn(g, a, W) = ReachIn(g, a, W)
  BY DEF Tree!ReachIn, ReachIn, Tree!Succs, Succs, Tree!Nil, Nil
<1>2. \A a, b : Tree!Dominates(g, a, b) <=> Dominates(g, a, b)
  BY <1>1, SameOperators DEF Tree!Dominates, Dominates
<1>3. \A a, b : Tree!SDom(g, a, b) <=> SDom(g, a, b)
  BY <1>2 DEF Tree!SDom, SDom
<1>4. Tree!OrderOf(g) <=> OrderOf(g)
  BY <1>2, SameOperators DEF Tree!OrderOf, OrderOf
<1>5. Tree!TreeOf(g, I) <=> TreeOf(g, I)
  BY <1>2, <1>3, SameOperators DEF Tree!TreeOf, TreeOf
<1>6. Tree!ListsOf(g, I, D, L) <=> ListsOf(g, I, D, L)
  BY SameOperators DEF Tree!ListsOf, ListsOf, Tree!LastBelow, LastBelow
<1>7. \A b, s : Tree!InFrontier(g, b, s) <=> InFrontier(g, b, s)
  BY <1>2, <1>3, SameOperators DEF Tree!InFrontier, InFrontier
<1>8. Tree!FrontiersOf(g, F) <=> FrontiersOf(g, F)
  BY <1>7, SameOperators DEF Tree!FrontiersOf, FrontiersOf
<1>9. \A a, s : Tree!ClimbsTo(g, I, a, s) <=> ClimbsTo(g, I, a, s)
  BY DEF Tree!ClimbsTo, ClimbsTo, Tree!Blocks, Blocks, Tree!Nil, Nil
<1>10. QED
  BY <1>3, <1>4, <1>5, <1>6, <1>8, <1>9, SameOperators DEF Tree!DomFacts, DomFacts

\* FillDom and FillFron start, and step, as in their own module.
LEMMA SameDomStart == Dominance!Start => Tree!Start
BY DEF Dominance!Start, Tree!Start, Dominance!Blocks, Tree!Blocks, Dominance!Nil, Tree!Nil

LEMMA SameDomStep == Dominance!Step => Tree!Step
<1> SUFFICES ASSUME Dominance!Step PROVE Tree!Step
  OBVIOUS
<1>0. Dominance!Nil = Tree!Nil /\ \A s : Dominance!Elems(s) = Tree!Elems(s)
  BY DEF Dominance!Nil, Tree!Nil, Dominance!Elems, Tree!Elems
<1>1. \A b : Dominance!Processed(b) <=> Tree!Processed(b)
  BY <1>0 DEF Dominance!Processed, Tree!Processed
<1>2. Dominance!Pending <=> Tree!Pending
  BY DEF Dominance!Pending, Tree!Pending
<1>3. Dominance!Succ = Tree!Succ
  BY DEF Dominance!Succ, Tree!Succ
<1>4. \A a, s : Dominance!IsSdom(a, s) <=> Tree!IsSdom(a, s)
  BY <1>0 DEF Dominance!IsSdom, Tree!IsSdom, Dominance!Blocks, Tree!Blocks
<1>5. Dominance!Crawling <=> Tree!Crawling
  BY <1>0, <1>3, <1>4 DEF Dominance!Crawling, Tree!Crawling
<1>6. ASSUME Dominance!SkipPred PROVE Tree!SkipPred
  BY <1>1, <1>2, <1>6 DEF Dominance!SkipPred, Tree!SkipPred
<1>7. ASSUME Dominance!Intersect PROVE Tree!Intersect
  BY <1>0, <1>1, <1>2, <1>7 DEF Dominance!Intersect, Tree!Intersect
<1>8. ASSUME Dominance!Climb1 PROVE Tree!Climb1
  BY <1>0, <1>8 DEF Dominance!Climb1, Tree!Climb1
<1>9. ASSUME Dominance!Climb2 PROVE Tree!Climb2
  BY <1>0, <1>9 DEF Dominance!Climb2, Tree!Climb2
<1>10. ASSUME Dominance!Met PROVE Tree!Met
  BY <1>10 DEF Dominance!Met, Tree!Met
<1>11. ASSUME Dominance!SetIdom PROVE Tree!SetIdom
  BY <1>0, <1>2, <1>11 DEF Dominance!SetIdom, Tree!SetIdom
<1>12. ASSUME Dominance!EndSweep PROVE Tree!EndSweep
  BY <1>12 DEF Dominance!EndSweep, Tree!EndSweep
<1>13. ASSUME Dominance!Link PROVE Tree!Link
  BY <1>0, <1>13 DEF Dominance!Link, Tree!Link
<1>14. ASSUME Dominance!StartFron PROVE Tree!StartFron
  BY <1>14 DEF Dominance!StartFron, Tree!StartFron
<1>15. ASSUME Dominance!AddFron PROVE Tree!AddFron
  BY <1>0, <1>3, <1>5, <1>15 DEF Dominance!AddFron, Tree!AddFron
<1>16. ASSUME Dominance!NextEdge PROVE Tree!NextEdge
  BY <1>5, <1>16 DEF Dominance!NextEdge, Tree!NextEdge
<1>17. ASSUME Dominance!Finish PROVE Tree!Finish
  BY <1>17 DEF Dominance!Finish, Tree!Finish
<1>18. QED
  BY <1>6, <1>7, <1>8, <1>9, <1>10, <1>11, <1>12, <1>13, <1>14, <1>15, <1>16, <1>17
     DEF Dominance!Step, Tree!Step

\* The same of Liveness.
LEMMA SameSets ==
  /\ \A g : Sets!Blocks(g) = Blocks(g)
  /\ \A g : Sets!Temps(g) = Temps(g)
  /\ \A g : Sets!IsFunction(g) <=> IsFunction(g)
  /\ \A x : Sets!Defs(x) = Defs(x)
  /\ \A x : Sets!Uses(x) = Uses(x)
  /\ \A s : Sets!TmpsOf(s) = TmpsOf(s)
  /\ Sets!Nil = Nil
<1>1. Sets!Ref = Ref /\ Sets!Opcodes = Opcodes /\ Sets!Nil = Nil
  BY DEF Sets!Ref, Ref, Sets!RefKinds, RefKinds, Sets!Nil, Nil,
     Sets!Opcodes, Opcodes, Sets!Stores, Stores, Sets!Allocs, Allocs, Sets!Calls, Calls,
     Sets!VarArg, VarArg, Sets!Pures, Pures, Sets!Loads, Loads, Sets!Params, Params,
     Sets!IntOps, IntOps, Sets!Divisions, Divisions, Sets!Narrow, Narrow,
     Sets!Orders, Orders, Sets!Extensions, Extensions
<1>2. Sets!Phi = Phi /\ Sets!Instruction = Instruction /\ Sets!Jump = Jump
  BY <1>1 DEF Sets!Phi, Phi, Sets!Instruction, Instruction, Sets!Jump, Jump
<1>3. \A g : Sets!Blocks(g) = Blocks(g) /\ Sets!Temps(g) = Temps(g)
  BY DEF Sets!Blocks, Blocks, Sets!Temps, Temps
<1>4. \A s : Sets!Elems(s) = Elems(s)
  BY DEF Sets!Elems, Elems
<1>5. \A g, r : Sets!RefOK(g, r) <=> RefOK(g, r)
  BY <1>1, <1>3 DEF Sets!RefOK, RefOK, Sets!IsTmp, IsTmp
<1>6. \A g : Sets!IsFunction(g) <=> IsFunction(g)
  BY <1>1, <1>2, <1>3, <1>4, <1>5 DEF Sets!IsFunction, IsFunction
<1>7. \A s : Sets!TmpsOf(s) = TmpsOf(s)
  BY DEF Sets!TmpsOf, TmpsOf, Sets!IsTmp, IsTmp
<1>8. \A x : Sets!Defs(x) = Defs(x) /\ Sets!Uses(x) = Uses(x)
  BY <1>4, <1>7 DEF Sets!Defs, Defs, Sets!Uses, Uses
<1>9. QED
  BY <1>1, <1>3, <1>6, <1>7, <1>8

\* Liveness starts, and steps, as in its own module.
LEMMA SameLiveStart == Live!Start => Sets!Start
BY DEF Live!Start, Sets!Start, Live!Blocks, Sets!Blocks

LEMMA SameLiveStep == Live!Step => Sets!Step
<1> SUFFICES ASSUME Live!Step PROVE Sets!Step
  OBVIOUS
<1>0. /\ Live!Nil = Sets!Nil /\ \A s : Live!Elems(s) = Sets!Elems(s)
      /\ \A s : Live!TmpsOf(s) = Sets!TmpsOf(s)
  BY DEF Live!Nil, Sets!Nil, Live!Elems, Sets!Elems, Live!TmpsOf, Sets!TmpsOf, Live!IsTmp, Sets!IsTmp
<1>1. \A x : Live!Defs(x) = Sets!Defs(x) /\ Live!Uses(x) = Sets!Uses(x)
  BY <1>0 DEF Live!Defs, Sets!Defs, Live!Uses, Sets!Uses
<1>2. \A b : Live!Kill(b) = Sets!Kill(b) /\ Live!PhiDefs(b) = Sets!PhiDefs(b)
  BY <1>1 DEF Live!Kill, Sets!Kill, Live!PhiDefs, Sets!PhiDefs
<1>3. \A b, n : Live!KilledBefore(b, n) = Sets!KilledBefore(b, n)
  BY <1>1 DEF Live!KilledBefore, Sets!KilledBefore
<1>4. \A b : Live!Gen(b) = Sets!Gen(b)
  BY <1>0, <1>1, <1>2, <1>3 DEF Live!Gen, Sets!Gen
<1>5. \A b, s : Live!PhiUses(b, s) = Sets!PhiUses(b, s)
  BY DEF Live!PhiUses, Sets!PhiUses, Live!TmpsOf, Sets!TmpsOf, Live!IsTmp, Sets!IsTmp,
     Live!Elems, Sets!Elems
<1>6. \A b, I : Live!NewOut(b, I) = Sets!NewOut(b, I)
  BY <1>0, <1>2, <1>5 DEF Live!NewOut, Sets!NewOut, Live!LiveOn, Sets!LiveOn
<1>7. \A b, o : Live!NewIn(b, o) = Sets!NewIn(b, o)
  BY <1>2, <1>4 DEF Live!NewIn, Sets!NewIn
<1>8. ASSUME Live!Visit PROVE Sets!Visit
  BY <1>6, <1>7, <1>8 DEF Live!Visit, Sets!Visit
<1>9. ASSUME Live!EndSweep PROVE Sets!EndSweep
  BY <1>9 DEF Live!EndSweep, Sets!EndSweep
<1>10. QED
  BY <1>8, <1>9 DEF Live!Step, Sets!Step
\* What the modules of the two analyses assume of the functions.
LEMMA PreparedAll == \A g \in Functions : Tree!Prepared(g)
BY FunctionsOK, SameOperators DEF SourceOK

LEMMA FunctionsAll == \A g \in Functions : Sets!IsFunction(g)
BY FunctionsOK, SameSets DEF SourceOK, Prepared

\* What the equations of Liveness mean where there are no phis.
LEMMA SolutionFacts ==
  ASSUME SourceOK(f), Sets!IInv, lpc = "done"
  PROVE  LiveFacts(f, in)
<1>1. /\ IsFunction(f) /\ in \in [Blocks(f) -> SUBSET Temps(f)]
      /\ out \in [Blocks(f) -> SUBSET Temps(f)]
      /\ \A b \in Blocks(f) : f.phis[b] = <<>>
  BY SameSets DEF SourceOK, Prepared, Sets!IInv, Sets!TypeOK
<1>2. \A b \in Blocks(f) : Sets!NewOut(b, in) \subseteq out[b] /\ Sets!NewIn(b, out[b]) \subseteq in[b]
  BY SameSets DEF Sets!IInv, Sets!FlagMeans, Sets!Settled
<1>3. \A b : Sets!Kill(b) = Kills(f, b)
  BY SameSets DEF Sets!Kill, Kills
<1>4. \A b, n : Sets!KilledBefore(b, n) = KillsBefore(f, b, n)
  BY SameSets DEF Sets!KilledBefore, KillsBefore
<1>5. \A b \in Blocks(f) : out[b] \subseteq in[b] \cup Kills(f, b)
  BY <1>2, <1>3 DEF Sets!NewIn
<1>6. ASSUME NEW p \in Blocks(f), NEW s \in Blocks(f), s \in Succs(f, p)
      PROVE  in[s] \subseteq in[p] \cup Kills(f, p)
  <2>1. \A c \in Blocks(f) : Sets!PhiDefs(c) = {}
    BY <1>1 DEF Sets!PhiDefs
  <2>2. \A v, b, c, I : c \in Blocks(f) => v \cup I[c] \subseteq Sets!LiveOn(v, b, c, I)
    <3>1. Nil \notin Blocks(f)
      BY DEF Nil, Blocks
    <3>2. QED
      BY <2>1, <3>1, SameSets DEF Sets!LiveOn
  <2>3. \A v, b, c, I : c \in Blocks(f) \cup {Nil} => v \subseteq Sets!LiveOn(v, b, c, I)
    BY <2>2, SameSets DEF Sets!LiveOn
  <2>4. f.s1[p] \in Blocks(f) \cup {Nil} /\ f.s2[p] \in Blocks(f) \cup {Nil}
    BY <1>1 DEF IsFunction
  <2>5. in[s] \subseteq Sets!NewOut(p, in)
    <3>1. CASE s = f.s2[p]
      BY <2>2, <3>1 DEF Sets!NewOut
    <3>2. CASE s = f.s1[p]
      <4>1. in[s] \subseteq Sets!LiveOn({}, p, f.s1[p], in)
        BY <2>2, <3>2
      <4>2. QED
        BY <2>3, <2>4, <4>1 DEF Sets!NewOut
    <3>3. QED
      BY <1>6, <3>1, <3>2 DEF Succs
  <2>6. QED
    BY <1>2, <1>5, <2>5
<1>7. ASSUME NEW b \in Blocks(f)
      PROVE  /\ \A n \in DOMAIN f.ins[b] :
                  Uses(f.ins[b][n]) \subseteq in[b] \cup KillsBefore(f, b, n)
             /\ TmpsOf({f.jmp[b].arg}) \subseteq in[b] \cup Kills(f, b)
  <2>1. Sets!Gen(b) \subseteq in[b]
    BY <1>2 DEF Sets!NewIn
  <2>2. \A n \in DOMAIN f.ins[b] : Uses(f.ins[b][n]) \ KillsBefore(f, b, n) \subseteq Sets!Gen(b)
    BY <1>4, SameSets DEF Sets!Gen
  <2>3. TmpsOf({f.jmp[b].arg}) \ Kills(f, b) \subseteq Sets!Gen(b)
    BY <1>3, SameSets DEF Sets!Gen
  <2>4. QED
    BY <2>1, <2>2, <2>3
<1>8. QED
  BY <1>1, <1>6, <1>7 DEF LiveFacts

(***************************************************************************)
(* No phi is dead.  A phi of t in block d names t in block b if d is b, or *)
(* dominates b and neither d's code nor a block between them gives t       *)
(* another name (Reigns).  Whatever rename has passed of b, b's end and    *)
(* the edges out of it read that name where the source reads t (PhiRead),  *)
(* because it is what is left on top of t's stack (TopReigns).             *)
(***************************************************************************)
Reigns(g, N, h, t, d, b) ==
  /\ Dominates(h, d, b)
  /\ d # b => t \notin Kills(h, d)
  /\ \A e \in Blocks(h) : SDom(h, d, e) /\ Dominates(h, e, b) =>
       e \notin PhiOf(g, N, t) /\ (e # b => t \notin Kills(h, e))

PhiRead(g, N, h, t, b, V) ==
  \A d \in Blocks(h) : \A j \in DOMAIN g.phis[d] :
    N[g.phis[d][j].to.val] = t /\ Reigns(g, N, h, t, d, b) =>
      IsNew(h, g.phis[d][j].to) /\ g.phis[d][j].to.val \in V

ArgsRead(g, N, h, E, c, n) ==
  \A b \in Blocks(h) : \A i \in DOMAIN h.ins[b] : Passed(E, c, n, b, Len(g.phis[b]) + i) =>
    \A t \in Uses(h.ins[b][i]) \ KillsBefore(h, b, i) : PhiRead(g, N, h, t, b, Uses(g.ins[b][i]))

JumpsRead(g, N, h, E, c, n) ==
  \A b \in Blocks(h) : Ended(E, c, n, b) =>
    \A t \in TmpsOf({h.jmp[b].arg}) \ Kills(h, b) : PhiRead(g, N, h, t, b, TmpsOf({g.jmp[b].arg}))

EdgesRead(g, N, h, E, c, n) ==
  \A b \in Blocks(h) : Ended(E, c, n, b) => \A s \in Blocks(h) : s \in Succs(h, b) =>
    \A i \in DOMAIN g.phis[s] : N[g.phis[s][i].to.val] \notin Kills(h, b) =>
      PhiRead(g, N, h, N[g.phis[s][i].to.val], b, TmpsOf(Elems(g.phis[s][i].args)))

Read(g, N, h, E, c, n) ==
  ArgsRead(g, N, h, E, c, n) /\ JumpsRead(g, N, h, E, c, n) /\ EdgesRead(g, N, h, E, c, n)

\* No two phis of a block are for the same temporary.
PhisOnce(g, N, h) ==
  \A b \in Blocks(h) : \A i, j \in DOMAIN g.phis[b] :
    N[g.phis[b][i].to.val] = N[g.phis[b][j].to.val] => i = j

\* From g and N to g2 and N2 the phis stand for the same, and names stay.
SameNames(g, N, g2, N2, h) ==
  /\ Blocks(g) = Blocks(h) /\ Blocks(g2) = Blocks(h)
  /\ \A b \in Blocks(h) : DOMAIN g2.phis[b] = DOMAIN g.phis[b]
  /\ \A b \in Blocks(h) : \A j \in DOMAIN g.phis[b] :
       /\ N2[g2.phis[b][j].to.val] = N[g.phis[b][j].to.val]
       /\ IsNew(h, g.phis[b][j].to) => g2.phis[b][j].to = g.phis[b][j].to

\* Then what is read stays read.
LEMMA PhiReadKept ==
  ASSUME NEW g, NEW N, NEW g2, NEW N2, NEW h, SameNames(g, N, g2, N2, h),
         NEW t, NEW b, NEW V, NEW W, V \subseteq W, PhiRead(g, N, h, t, b, V)
  PROVE  PhiRead(g2, N2, h, t, b, W)
<1>1. PhiOf(g2, N2, t) = PhiOf(g, N, t)
  BY DEF SameNames, PhiOf
<1>2. \A d : Reigns(g2, N2, h, t, d, b) <=> Reigns(g, N, h, t, d, b)
  BY <1>1 DEF Reigns
<1>3. QED
  BY <1>2 DEF PhiRead, SameNames

LEMMA OnceKept ==
  ASSUME NEW g, NEW N, NEW g2, NEW N2, NEW h, SameNames(g, N, g2, N2, h), PhisOnce(g, N, h)
  PROVE  PhisOnce(g2, N2, h)
BY DEF SameNames, PhisOnce

\* Where no more has been read the same holds.
LEMMA ReadSame ==
  ASSUME NEW g, NEW N, NEW h, NEW E, NEW c, NEW n, NEW E2, NEW c2, NEW n2,
         \A b \in Blocks(h) : Ended(E2, c2, n2, b) <=> Ended(E, c, n, b),
         \A b \in Blocks(h) : \A i \in DOMAIN h.ins[b] :
           Passed(E2, c2, n2, b, Len(g.phis[b]) + i) => Passed(E, c, n, b, Len(g.phis[b]) + i),
         Read(g, N, h, E, c, n)
  PROVE  Read(g, N, h, E2, c2, n2)
<1>1. ArgsRead(g, N, h, E2, c2, n2)
  BY DEF Read, ArgsRead
<1>2. JumpsRead(g, N, h, E2, c2, n2)
  BY DEF Read, JumpsRead
<1>3. EdgesRead(g, N, h, E2, c2, n2)
  BY DEF Read, EdgesRead
<1>4. QED
  BY <1>1, <1>2, <1>3 DEF Read

\* What is written where rename is, for t: by a phi of its block, or by its code, before here.
LEMMA NamedBy ==
  ASSUME Analysed, RInv, next > Len(f.phis[Cur]), Cur \in Blocks(source),
         NEW t \in Temps(source), NEW e \in Blocks(source), NEW m \in 1 .. NItems(f, e),
         IsNew(source, ItemTo(f, e, m)), newToOld[ItemTo(f, e, m).val] = t
  PROVE  \/ /\ m \in DOMAIN f.phis[e] /\ e \in PhiOf(f, newToOld, t)
            /\ ItemTo(f, e, m) = f.phis[e][m].to
         \/ /\ t \in Kills(source, e)
            /\ e = Cur => t \in KillsBefore(source, Cur, next - Len(f.phis[Cur]))
<1>1. /\ NTyped /\ Erased(f, newToOld, source, in, fron) /\ Named(f, source, entered, Cur, next)
      /\ Blocks(f) = Blocks(source) /\ next \in Nat
      /\ Len(f.phis[e]) \in Nat /\ Len(f.ins[e]) \in Nat
      /\ DOMAIN f.phis[e] = 1 .. Len(f.phis[e]) /\ DOMAIN f.ins[e] = 1 .. Len(f.ins[e])
  BY NTypedFacts DEF RInv, WInv, WalkTyped
<1>2. IF m <= Len(f.phis[e]) THEN m \in DOMAIN f.phis[e] ELSE m - Len(f.phis[e]) \in DOMAIN f.ins[e]
  BY <1>1, ItemsTyped
<1>3. CASE m <= Len(f.phis[e])
  BY <1>1, <1>2, <1>3 DEF ItemTo, PhiOf
<1>4. CASE ~(m <= Len(f.phis[e]))
  <2> DEFINE i == m - Len(f.phis[e])
  <2>1. i \in DOMAIN f.ins[e] /\ ItemTo(f, e, m) = f.ins[e][i].to
    BY <1>2, <1>4, ZenonT(30) DEF ItemTo
  <2>2. IsTmp(f.ins[e][i].to)
    BY <2>1, ZenonT(30) DEF IsNew
  <2>3. i \in Nat /\ i > 0 /\ m = Len(f.phis[e]) + i /\ m \in Nat
    <3> DEFINE u == Len(f.phis[e])
               w == Len(f.ins[e])
    <3>1. u \in Nat /\ w \in Nat /\ ~(m <= u) /\ m \in 1 .. u + w
      BY <1>1, <1>4 DEF NItems
    <3>2. i = m - u
      OBVIOUS
    <3> HIDE DEF u, w, i
    <3>3. i \in Nat /\ i > 0 /\ m = u + i /\ m \in Nat
      BY <3>1, <3>2
    <3>4. QED
      BY <3>3 DEF u
  <2> HIDE DEF i
  <2>4. IsTmp(source.ins[e][i].to) /\ source.ins[e][i].to.val = t
    BY <1>1, <2>1, <2>2 DEF Erased
  <2>5. t \in Defs(source.ins[e][i]) /\ i \in DOMAIN source.ins[e]
    BY <2>1, <2>4, SameIns DEF Defs, TmpsOf
  <2>6. ASSUME e = Cur
        PROVE  t \in KillsBefore(source, Cur, next - Len(f.phis[Cur]))
    <3>1. Passed(entered, Cur, next, e, m)
      BY <1>1 DEF Named, IsNew
    <3>2. next > 0
      BY <1>1, <2>6
    <3>3. m < next
      BY <2>6, <3>1, <3>2 DEF Passed
    <3> DEFINE u == Len(f.phis[Cur])
               n == next
    <3>4. u \in Nat /\ n \in Nat /\ m = u + i /\ m < n
      BY <1>1, <2>3, <2>6, <3>3
    <3> HIDE DEF u, n
    <3>5. i \in 1 .. (n - u) - 1
      BY <2>3, <3>4
    <3>6. QED
      BY <2>5, <2>6, <3>5 DEF KillsBefore, u, n
  <2>7. QED
    BY <2>5, <2>6, SMTT(30) DEF Kills
<1>5. QED
  BY <1>3, <1>4

(***************************************************************************)
(* A phi that reigns where rename is, past the phis of its block, and that *)
(* nothing has replaced since, is the current name of its temporary.       *)
(***************************************************************************)
LEMMA TopReigns ==
  ASSUME Analysed, pc \notin {"dom", "live"}, RInv, PhisOnce(f, newToOld, source),
         next > Len(f.phis[Cur]), next > 0,
         NEW t \in Temps(source), t \notin KillsBefore(source, Cur, next - Len(f.phis[Cur])),
         NEW d \in Blocks(source), NEW j \in DOMAIN f.phis[d], newToOld[f.phis[d][j].to.val] = t,
         Reigns(f, newToOld, source, t, d, Cur)
  PROVE  /\ stacks[t] # <<>> /\ Len(stacks[t]) \in DOMAIN stacks[t]
         /\ stacks[t][Len(stacks[t])] = f.phis[d][j].to /\ IsNew(source, f.phis[d][j].to)
<1> DEFINE c == Cur
           L == Len(walks)
           K == Len(stacks[t])
           H == [i \in 1 .. L + 1 |-> Hgt(walks, stacks, i, t)]
<1>1. /\ walks # <<>> /\ c = walks[L].blk /\ c \in Blocks(source) /\ c \in entered /\ WalkTyped /\ Path
      /\ L \in Nat \ {0} /\ DOMAIN walks = 1 .. L /\ L \in DOMAIN walks /\ next \in Nat
      /\ Named(f, source, entered, c, next) /\ NTyped /\ Erased(f, newToOld, source, in, fron)
      /\ \A i \in DOMAIN walks : walks[i].blk \in Blocks(source)
  BY InBlock, CurMeans, WalksTyped DEF RInv
<1>2. /\ Blocks(f) = Blocks(source)
      /\ Len(f.phis[d]) \in Nat /\ Len(f.ins[d]) \in Nat
      /\ DOMAIN f.phis[d] = 1 .. Len(f.phis[d])
      /\ Len(f.phis[c]) \in Nat
  BY <1>1, NTypedFacts
<1>3. PICK w \in 1 .. L : walks[w].blk = d
  <2>1. Dominates(source, d, walks[L].blk)
    BY <1>1 DEF Reigns
  <2>2. QED
    BY <1>1, <2>1 DEF Path
<1>4. j \in 1 .. NItems(f, d) /\ ItemTo(f, d, j) = f.phis[d][j].to /\ IsTmp(f.phis[d][j].to)
  <2>1. j \in 1 .. NItems(f, d) /\ ItemTo(f, d, j) = f.phis[d][j].to
    BY <1>2, ItemKinds
  <2>2. IsTmp(f.phis[d][j].to)
    BY <1>1 DEF Erased
  <2>3. QED
    BY <2>1, <2>2
<1>5. IsNew(source, f.phis[d][j].to)
  <2>1. Passed(entered, c, next, d, j)
    <3>1. d \in entered
      BY <1>1, <1>3 DEF Path
    <3>2. ASSUME d = c PROVE j < next
      <4> DEFINE u == Len(f.phis[c])
      <4>1. u \in Nat /\ j \in 1 .. u /\ next > u
        BY <1>2, <3>2
      <4> HIDE DEF u
      <4>2. QED
        BY <1>1, <4>1
    <3>3. QED
      BY <3>1, <3>2 DEF Passed
  <2>2. QED
    BY <1>1, <1>4, <2>1 DEF Named
<1>6. K \in Nat \ {0}
  BY <1>1, <1>3, <1>4, <1>5, FullBy
<1>7. /\ DOMAIN stacks[t] = 1 .. K
      /\ \A i \in 1 .. L + 1 : Hgt(walks, stacks, i, t) \in Nat
      /\ Hgt(walks, stacks, L + 1, t) = K
  BY <1>1, Heights DEF NTyped
<1>8. K \in DOMAIN stacks[t]
  BY <1>6, <1>7
<1> DEFINE Gives(x) ==
             /\ K <= Hgt(walks, stacks, x + 1, t)
             /\ \A i \in 1 .. L + 1 : K <= Hgt(walks, stacks, i, t) => x + 1 <= i
             /\ \E m \in 1 .. NItems(f, walks[x].blk) : stacks[t][K] = ItemTo(f, walks[x].blk, m)
<1>a. \E x \in DOMAIN walks : Gives(x)
  <2>1. PICK v \in DOMAIN stacks[t] : v = K
    BY <1>8
  <2>2. PICK x \in DOMAIN walks :
          /\ v <= Hgt(walks, stacks, x + 1, t)
          /\ \A i \in 1 .. L + 1 : v <= Hgt(walks, stacks, i, t) => x + 1 <= i
          /\ \E m \in 1 .. NItems(f, walks[x].blk) : stacks[t][v] = ItemTo(f, walks[x].blk, m)
    BY GivenBy
  <2>3. QED
    BY <2>1, <2>2
<1>b. PICK x \in DOMAIN walks : Gives(x)
  <2> HIDE DEF Gives
  <2>1. QED
    BY <1>a
<1>9. x \in 1 .. L /\ Gives(x)
  BY <1>1, <1>b
<1> DEFINE e == walks[x].blk
<1>10. PICK m \in 1 .. NItems(f, e) : stacks[t][K] = ItemTo(f, e, m)
  BY <1>9
<1>11. IsNew(source, ItemTo(f, e, m)) /\ newToOld[ItemTo(f, e, m).val] = t
  BY <1>8, <1>10 DEF RInv, STyped
<1>12. e \in Blocks(source)
  BY <1>1
<1>13. \/ /\ m \in DOMAIN f.phis[e] /\ e \in PhiOf(f, newToOld, t)
          /\ ItemTo(f, e, m) = f.phis[e][m].to
       \/ /\ t \in Kills(source, e)
          /\ e = c => t \in KillsBefore(source, c, next - Len(f.phis[c]))
  <2> HIDE DEF e
  <2>1. QED
    BY <1>1, <1>11, <1>12, NamedBy
<1>14. w <= x
  <2>1. /\ Hgt(walks, stacks, w, t) < Hgt(walks, stacks, w + 1, t)
        /\ \A i, n \in 1 .. L + 1 : i <= n => Hgt(walks, stacks, i, t) <= Hgt(walks, stacks, n, t)
    <3>1. Stacked(walks, stacks, f, source, newToOld)
      BY <1>1 DEF RInv
    <3>2. /\ j \in 1 .. NItems(f, walks[w].blk) /\ IsNew(source, ItemTo(f, walks[w].blk, j))
          /\ newToOld[ItemTo(f, walks[w].blk, j).val] = t
      BY <1>1, <1>3, <1>4, <1>5
    <3>3. Hgt(walks, stacks, w, t) < Hgt(walks, stacks, w + 1, t)
      BY <1>1, <1>3, <3>1, <3>2 DEF Stacked
    <3>4. QED
      BY <1>1, <3>1, <3>3 DEF Stacked
  <2>2. w + 1 \in 1 .. L + 1 /\ w \in 1 .. L + 1 /\ L + 1 \in 1 .. L + 1 /\ w + 1 <= L + 1
    BY <1>1
  <2> DEFINE p == Hgt(walks, stacks, w, t)
             q == Hgt(walks, stacks, w + 1, t)
  <2>3. q <= K /\ p < q /\ p \in Nat /\ q \in Nat
    BY <1>7, <2>1, <2>2
  <2>4. ASSUME x < w PROVE FALSE
    <3>1. x + 1 \in 1 .. L + 1 /\ x + 1 <= w
      BY <1>1, <2>4
    <3>2. Hgt(walks, stacks, x + 1, t) <= p /\ Hgt(walks, stacks, x + 1, t) \in Nat
      BY <1>7, <2>1, <2>2, <3>1
    <3> HIDE DEF p, q
    <3>3. QED
      BY <1>6, <1>9, <2>3, <3>2
  <2>5. QED
    BY <1>1, <2>4
<1>15. Dominates(source, d, e) /\ Dominates(source, e, c)
  BY <1>1, <1>3, <1>12, <1>14 DEF Path
<1>16. e = d
  <2>1. SUFFICES ASSUME e # d PROVE FALSE
    OBVIOUS
  <2>2. SDom(source, d, e)
    BY <1>15, <2>1 DEF SDom
  <2>3. e \notin PhiOf(f, newToOld, t) /\ (e # c => t \notin Kills(source, e))
    BY <1>12, <1>15, <2>2 DEF Reigns
  <2>4. QED
    BY <1>13, <2>3
<1>17. m = j
  <2>1. d # c => t \notin Kills(source, d)
    BY DEF Reigns
  <2>2. m \in DOMAIN f.phis[d] /\ ItemTo(f, d, m) = f.phis[d][m].to
    BY <1>13, <1>16, <2>1
  <2>3. newToOld[f.phis[d][m].to.val] = t
    BY <1>11, <1>16, <2>2
  <2>4. QED
    BY <2>2, <2>3 DEF PhisOnce
<1>18. stacks[t][K] = f.phis[d][j].to
  BY <1>4, <1>10, <1>16, <1>17
<1>19. stacks[t] # <<>>
  BY <1>6
<1>20. QED
  BY <1>5, <1>8, <1>18, <1>19

\* Renaming an item gives the phis of others no other name.
LEMMA RenamedSame ==
  ASSUME Analysed, RInv, RInv', RenamePhi \/ RenameIns
  PROVE  SameNames(f, newToOld, f', newToOld', source)
<1>1. /\ next \in 1 .. NItems(f, Cur) /\ Cur \in Blocks(source) /\ Cur \in entered /\ NTyped
      /\ Renamed(f, f', Cur, next) /\ Pushed(ItemTo(f, Cur, next)) /\ source' = source
      /\ Named(f, source, entered, Cur, next) /\ Erased(f, newToOld, source, in, fron)
  BY OneRenamed, InBlock DEF RInv
<1>2. /\ Blocks(f) = Blocks(source)
      /\ \A b \in Blocks(source) : Len(f.phis[b]) \in Nat /\ Len(f.ins[b]) \in Nat
                                   /\ DOMAIN f.phis[b] = 1 .. Len(f.phis[b])
  BY <1>1, NTypedFacts
<1>3. /\ Blocks(f') = Blocks(source)
      /\ \A b \in Blocks(source) : Len(f'.phis[b]) \in Nat /\ Len(f'.ins[b]) \in Nat
                                   /\ DOMAIN f'.phis[b] = 1 .. Len(f'.phis[b])
  <2>1. f' \in {f'} /\ IsFunction(f') /\ Blocks(f') = Blocks(f)
    BY <1>1 DEF RInv, NTyped, SameGraph, Renamed, Blocks
  <2>2. f'.phis \in [Blocks(source) -> Seq(Phi)] /\ f'.ins \in [Blocks(source) -> Seq(Instruction)]
    BY <1>2, <2>1 DEF IsFunction
  <2>3. \A b \in Blocks(source) : f'.phis[b] \in Seq(Phi) /\ f'.ins[b] \in Seq(Instruction)
    BY <2>2
  <2>4. \A V : \A s \in Seq(V) : Len(s) \in Nat /\ DOMAIN s = 1 .. Len(s)
    OBVIOUS
  <2>5. QED
    BY <1>2, <2>1, <2>3, <2>4
<1>4. \A b \in Blocks(source) : Len(f'.phis[b]) = Len(f.phis[b])
  BY <1>1, <1>2 DEF Renamed
<1>5. ASSUME NEW b \in Blocks(source), NEW j \in DOMAIN f.phis[b]
      PROVE  /\ newToOld'[f'.phis[b][j].to.val] = newToOld[f.phis[b][j].to.val]
             /\ IsNew(source, f.phis[b][j].to) => f'.phis[b][j].to = f.phis[b][j].to
  <2>1. j \in 1 .. NItems(f, b) /\ ItemTo(f, b, j) = f.phis[b][j].to
    BY <1>2, ItemKinds
  <2>2. ItemTo(f', b, j) = f'.phis[b][j].to
    BY <1>2, <1>3, <1>4, ItemKinds
  <2>3. IsTmp(f.phis[b][j].to)
    BY <1>1 DEF Erased
  <2>4. newToOld'[ItemTo(f', b, j).val] = newToOld[ItemTo(f, b, j).val]
    BY <1>1, <2>1, <2>3, RenamedStands
  <2>5. IsNew(source, ItemTo(f, b, j)) => ItemTo(f', b, j) = ItemTo(f, b, j)
    BY <1>1, <2>1, RenamedNew
  <2>6. QED
    BY <2>1, <2>2, <2>4, <2>5
<1>6. QED
  BY <1>2, <1>3, <1>4, <1>5 DEF SameNames

\* The end of a block gives no names.
LEMMA EndBlockSame ==
  ASSUME Analysed, RInv, EndBlock
  PROVE  SameNames(f, newToOld, f', newToOld', source)
<1>1. NTyped /\ Erased(f, newToOld, source, in, fron) /\ Cur \in Blocks(source)
  BY InBlock DEF RInv, EndBlock
<1>2. newToOld' = newToOld /\ SameGraph(f', f) /\ Blocks(f) = Blocks(source)
  BY <1>1, EndBlockMeans, NTypedFacts
<1>3. \A b \in Blocks(source) : DOMAIN f'.phis[b] = DOMAIN f.phis[b]
  BY <1>1, EndBlockPhis, Zenon
<1>4. \A b \in Blocks(source) : \A j \in DOMAIN f.phis[b] : f'.phis[b][j].to = f.phis[b][j].to
  BY <1>1, EndBlockPhis, Zenon
<1>5. QED
  BY <1>2, <1>3, <1>4 DEF SameNames, SameGraph, Blocks

\* A step that keeps names keeps the reads of what was passed.
LEMMA KeptRead ==
  ASSUME NEW g, NEW N, NEW g2, NEW N2, NEW h, SameNames(g, N, g2, N2, h)
  PROVE  \A t, b, V, W : V \subseteq W /\ PhiRead(g, N, h, t, b, V) => PhiRead(g2, N2, h, t, b, W)
BY PhiReadKept

\* The operand that takes the place of t where rename is reads the phi that reigns there.
LEMMA CurrentRead ==
  ASSUME Analysed, pc \notin {"dom", "live"}, RInv, PhisOnce(f, newToOld, source),
         next > Len(f.phis[Cur]), next > 0,
         NEW r, IsTmp(r), RefOK(source, r),
         r.val \notin KillsBefore(source, Cur, next - Len(f.phis[Cur])),
         NEW V, IsTmp(Current(Names, r)) => Current(Names, r).val \in V
  PROVE  PhiRead(f, newToOld, source, r.val, Cur, V)
<1> DEFINE t == r.val
<1>1. t \in Temps(source) /\ NTyped
  BY DEF RefOK, RInv
<1>2. newToOld[t] = t /\ RefOK(f, r)
  <2>1. source.ntmp \in Nat /\ f.ntmp \in Nat /\ f.ntmp >= source.ntmp
    BY <1>1, SourceFacts, NTypedFacts DEF NTyped
  <2>2. QED
    BY <1>1, <2>1, RefGrows DEF NTyped
<1>3. IF stacks[t] = <<>> THEN Current(Names, r) = r
      ELSE Len(stacks[t]) \in DOMAIN stacks[t] /\ Current(Names, r) = stacks[t][Len(stacks[t])]
  BY <1>1, <1>2, CurrentMeans
<1>4. ASSUME NEW d \in Blocks(source), NEW j \in DOMAIN f.phis[d],
             newToOld[f.phis[d][j].to.val] = t, Reigns(f, newToOld, source, t, d, Cur)
      PROVE  IsNew(source, f.phis[d][j].to) /\ f.phis[d][j].to.val \in V
  <2>1. /\ stacks[t] # <<>>
        /\ stacks[t][Len(stacks[t])] = f.phis[d][j].to /\ IsNew(source, f.phis[d][j].to)
    <3> HIDE DEF t
    <3>1. t \notin KillsBefore(source, Cur, next - Len(f.phis[Cur]))
      BY DEF t
    <3>2. QED
      BY <1>1, <1>4, <3>1, TopReigns
  <2>2. QED
    BY <1>3, <2>1 DEF IsNew
<1>5. QED
  BY <1>4 DEF PhiRead

\* An item is renamed: its operands are read, and the rest stays.
LEMMA RenamedReads ==
  ASSUME Analysed, pc \notin {"dom", "live"}, RInv, RInv', RenamePhi \/ RenameIns,
         PhisOnce(f, newToOld, source), Read(f, newToOld, source, entered, Cur, next)
  PROVE  Read(f', newToOld', source', entered', Cur', next')
<1> DEFINE c == Cur
           n == next
           E == entered
<1>1. /\ next > 0 /\ n \in 1 .. NItems(f, c) /\ next' = n + 1 /\ Cur' = c
      /\ UNCHANGED <<source, entered>>
      /\ Renamed(f, f', c, n) /\ c \in Blocks(source) /\ c \in E /\ n \in Nat
      /\ Read(f, newToOld, source, E, c, n) /\ Unread(f, source, E, c, n)
  BY OneRenamed, InBlock DEF RInv
<1>2. /\ Blocks(f) = Blocks(source) /\ NTyped
      /\ \A b \in Blocks(source) : Len(f.phis[b]) \in Nat /\ Len(f.ins[b]) \in Nat
                                   /\ DOMAIN f.phis[b] = 1 .. Len(f.phis[b])
                                   /\ DOMAIN f.ins[b] = 1 .. Len(f.ins[b])
  BY NTypedFacts DEF RInv
<1>3. SameNames(f, newToOld, f', newToOld', source)
  BY RenamedSame
<1>4. \A t, b, V, W : V \subseteq W /\ PhiRead(f, newToOld, source, t, b, V) =>
        PhiRead(f', newToOld', source, t, b, W)
  <2>1. PICK g : g = f'
    OBVIOUS
  <2>2. PICK N : N = newToOld'
    OBVIOUS
  <2>3. SameNames(f, newToOld, g, N, source)
    BY <1>3, <2>1, <2>2
  <2>4. \A t, b, V, W : V \subseteq W /\ PhiRead(f, newToOld, source, t, b, V) =>
          PhiRead(g, N, source, t, b, W)
    BY <2>3, KeptRead
  <2>5. QED
    BY <2>1, <2>2, <2>4
<1>5. \A b \in Blocks(source) : DOMAIN f'.phis[b] = DOMAIN f.phis[b] /\ Len(f'.phis[b]) = Len(f.phis[b])
  BY <1>1, <1>2, <1>3 DEF Renamed, SameNames
<1>6. \A b \in Blocks(source) : DOMAIN source.ins[b] = DOMAIN f.ins[b]
  BY SameIns
<1>7. ASSUME NEW b \in Blocks(source), NEW i \in DOMAIN source.ins[b],
             Passed(E, c, n + 1, b, Len(f'.phis[b]) + i),
             NEW t \in Uses(source.ins[b][i]) \ KillsBefore(source, b, i)
      PROVE  PhiRead(f', newToOld', source, t, b, Uses(f'.ins[b][i]))
  <2>1. i \in DOMAIN f.ins[b] /\ Len(f'.phis[b]) = Len(f.phis[b]) /\ i \in 1 .. Len(f.ins[b])
        /\ Len(f.phis[b]) \in Nat /\ Len(f.ins[b]) \in Nat
    BY <1>2, <1>5, <1>6
  <2> DEFINE m == Len(f.phis[b]) + i
  <2>2. m \in Nat /\ i \in Nat /\ Passed(E, c, n + 1, b, m)
    BY <1>7, <2>1
  <2> HIDE DEF c, n, E
  <2>3. CASE Passed(E, c, n, b, m)
    <3>1. ~(b = c /\ m = n)
      <4> HIDE DEF m
      <4>1. QED
        BY <1>1, <2>2, <2>3 DEF Passed, n
    <3>2. f'.ins[b][i].arg = f.ins[b][i].arg
      BY <1>1, <1>2, <2>1, <3>1 DEF Renamed
    <3>3. PhiRead(f, newToOld, source, t, b, Uses(f.ins[b][i]))
      BY <1>1, <1>7, <2>3 DEF Read, ArgsRead
    <3>4. Uses(f'.ins[b][i]) = Uses(f.ins[b][i])
      BY <3>2 DEF Uses
    <3>5. QED
      BY <1>4, <3>3, <3>4
  <2>4. CASE ~Passed(E, c, n, b, m)
    <3>1. b = c /\ m = n
      <4> HIDE DEF m
      <4>1. QED
        BY <1>1, <2>2, <2>4 DEF Passed, n
    <3>2. RenameIns
      <4>1. RenamePhi => n \in 1 .. Len(f.phis[c])
        BY <1>1, <1>2, RenamePhiMeans DEF c, n
      <4>2. n > Len(f.phis[c])
        BY <2>1, <3>1
      <4>3. Len(f.phis[c]) \in Nat /\ n \in Nat
        BY <1>1, <1>2
      <4>4. QED
        BY <4>1, <4>2, <4>3
    <3>3. /\ NextIns \in DOMAIN f.ins[c] /\ n = Len(f.phis[c]) + NextIns
          /\ f'.ins[c][NextIns].arg = [l \in DOMAIN f.ins[c][NextIns].arg |-> Current(Names, f.ins[c][NextIns].arg[l])]
      BY <1>1, <1>2, <3>2, RenameInsMeans DEF c, n
    <3>4. i = NextIns
      <4>1. Len(f.phis[c]) + i = Len(f.phis[c]) + NextIns
        BY <3>1, <3>3
      <4>2. NextIns \in 1 .. Len(f.ins[c]) /\ Len(f.ins[c]) \in Nat
        BY <1>1, <1>2, <3>3
      <4>3. QED
        BY <2>1, <3>1, <4>1, <4>2
    <3>5. f.ins[c][i].arg = source.ins[c][i].arg
      <4>1. ~Passed(E, c, n, c, Len(f.phis[c]) + i)
        BY <2>4, <3>1
      <4>2. QED
        BY <1>1, <2>1, <3>1, <4>1 DEF Unread
    <3>6. PICK r \in Elems(source.ins[c][i].arg) : IsTmp(r) /\ r.val = t
      BY <3>1 DEF Uses, TmpsOf
    <3>7. RefOK(source, r)
      BY <1>1, <1>7, <3>1, <3>6, SourceFacts DEF IsFunction
    <3>8. PICK l \in DOMAIN source.ins[c][i].arg : r = source.ins[c][i].arg[l]
      BY <3>6 DEF Elems
    <3>9. f'.ins[c][i].arg = [k1 \in DOMAIN source.ins[c][i].arg |-> Current(Names, source.ins[c][i].arg[k1])]
      BY <3>3, <3>4, <3>5
    <3>10. Current(Names, r) \in Elems(f'.ins[c][i].arg)
      BY <3>8, <3>9 DEF Elems
    <3>11. IsTmp(Current(Names, r)) => Current(Names, r).val \in Uses(f'.ins[c][i])
      BY <3>10 DEF Uses, TmpsOf
    <3>12. n > Len(f.phis[c]) /\ n - Len(f.phis[c]) = i
      BY <2>1, <3>1, SMTT(30)
    <3>13. r.val \notin KillsBefore(source, c, n - Len(f.phis[c]))
      BY <1>7, <3>1, <3>6, <3>12
    <3>14. PICK V : V = Uses(f'.ins[c][i])
      OBVIOUS
    <3>15. PhiRead(f, newToOld, source, r.val, c, V)
      BY <1>1, <3>6, <3>7, <3>11, <3>12, <3>13, <3>14, CurrentRead DEF c, n
    <3>16. QED
      BY <1>4, <3>1, <3>6, <3>14, <3>15
  <2>5. QED
    BY <2>3, <2>4
<1>8. \A b : Ended(E, c, n + 1, b) <=> Ended(E, c, n, b)
  BY <1>1 DEF Ended
<1>9. JumpsRead(f', newToOld', source, E, c, n + 1)
  <2>1. f'.jmp = f.jmp
    BY <1>1 DEF Renamed
  <2>2. QED
    BY <1>1, <1>4, <1>8, <2>1 DEF JumpsRead, Read
<1>10. ASSUME NEW b \in Blocks(source), Ended(E, c, n + 1, b),
              NEW s \in Blocks(source), s \in Succs(source, b), NEW i \in DOMAIN f'.phis[s],
              newToOld'[f'.phis[s][i].to.val] \notin Kills(source, b)
       PROVE  PhiRead(f', newToOld', source, newToOld'[f'.phis[s][i].to.val], b, TmpsOf(Elems(f'.phis[s][i].args)))
  <2>1. i \in DOMAIN f.phis[s] /\ newToOld'[f'.phis[s][i].to.val] = newToOld[f.phis[s][i].to.val]
    BY <1>3, <1>10 DEF SameNames
  <2>2. f'.phis[s][i].args = f.phis[s][i].args
    BY <1>1, <1>2, <2>1, SMTT(30) DEF Renamed
  <2>3. PhiRead(f, newToOld, source, newToOld[f.phis[s][i].to.val], b, TmpsOf(Elems(f.phis[s][i].args)))
    BY <1>1, <1>8, <1>10, <2>1 DEF Read, EdgesRead
  <2>4. QED
    BY <1>4, <2>1, <2>2, <2>3
<1> HIDE DEF c, n, E
<1>11. ArgsRead(f', newToOld', source, E, c, n + 1)
  BY <1>7 DEF ArgsRead
<1>12. EdgesRead(f', newToOld', source, E, c, n + 1)
  BY <1>10 DEF EdgesRead
<1>13. QED
  BY <1>1, <1>9, <1>11, <1>12 DEF Read, E

\* A block ends: its jump and its successors' phis are read.
LEMMA EndBlockReads ==
  ASSUME Analysed, pc \notin {"dom", "live"}, RInv, EndBlock,
         PhisOnce(f, newToOld, source), Read(f, newToOld, source, entered, Cur, next)
  PROVE  Read(f', newToOld', source', entered', Cur', next')
<1> DEFINE c == Cur
           n == next
           E == entered
           X == NItems(f, c) + 1
<1>1. /\ n > 0 /\ n \in Nat /\ NextIns > Len(f.ins[c]) /\ c \in Blocks(source) /\ c \in E
      /\ NTyped /\ Erased(f, newToOld, source, in, fron)
      /\ Read(f, newToOld, source, E, c, n) /\ Named(f, source, E, c, n) /\ Unread(f, source, E, c, n)
  BY InBlock DEF EndBlock, RInv
<1>2. /\ Blocks(f) = Blocks(source) /\ f.jmp \in [Blocks(source) -> Jump]
      /\ \A b \in Blocks(source) : Len(f.phis[b]) \in Nat /\ Len(f.ins[b]) \in Nat
                                   /\ DOMAIN f.phis[b] = 1 .. Len(f.phis[b])
                                   /\ DOMAIN f.ins[b] = 1 .. Len(f.ins[b])
  BY <1>1, NTypedFacts
<1>3. /\ f'.jmp = [f.jmp EXCEPT ![c].arg = Current(Names, @)]
      /\ f'.ins = f.ins /\ UNCHANGED <<walks, entered, source, newToOld, stacks>> /\ next' = 0
  BY <1>1, EndBlockMeans
<1>4. Cur' = c
  BY <1>3 DEF Cur
<1>5. SameNames(f, newToOld, f', newToOld', source)
  BY EndBlockSame
<1>6. n = X /\ n > Len(f.phis[c]) /\ n - Len(f.phis[c]) = Len(f.ins[c]) + 1
  <2> DEFINE u == Len(f.phis[c])
             v == Len(f.ins[c])
  <2>1. u \in Nat /\ v \in Nat /\ n - u > v /\ NItems(f, c) = u + v
    BY <1>1, <1>2 DEF NItems, NextIns
  <2>2. n <= NItems(f, c) + 1
    BY <1>1 DEF Named
  <2> HIDE DEF u, v
  <2>3. n = u + v + 1 /\ n > u /\ n - u = v + 1
    BY <1>1, <2>1, <2>2
  <2>4. QED
    BY <2>1, <2>3 DEF u, v
<1>7. Kills(source, c) = KillsBefore(source, c, n - Len(f.phis[c]))
  <2>1. Len(f.ins[c]) = Len(source.ins[c])
    BY <1>1 DEF NTyped
  <2>2. QED
    BY <1>1, <1>6, <2>1, KillsAll
<1>8. \A t, b, V, W : V \subseteq W /\ PhiRead(f, newToOld, source, t, b, V) =>
        PhiRead(f', newToOld', source, t, b, W)
  <2>1. PICK g : g = f'
    OBVIOUS
  <2>2. PICK N : N = newToOld'
    OBVIOUS
  <2>3. SameNames(f, newToOld, g, N, source)
    BY <1>5, <2>1, <2>2
  <2>4. \A t, b, V, W : V \subseteq W /\ PhiRead(f, newToOld, source, t, b, V) =>
          PhiRead(g, N, source, t, b, W)
    BY <2>3, KeptRead
  <2>5. QED
    BY <2>1, <2>2, <2>4
<1>9. \A r, V : IsTmp(r) /\ RefOK(source, r) /\ r.val \notin Kills(source, c)
                /\ (IsTmp(Current(Names, r)) => Current(Names, r).val \in V) =>
                  PhiRead(f, newToOld, source, r.val, c, V)
  <2> SUFFICES ASSUME NEW r, NEW V, IsTmp(r), RefOK(source, r), r.val \notin Kills(source, c),
                      IsTmp(Current(Names, r)) => Current(Names, r).val \in V
               PROVE  PhiRead(f, newToOld, source, r.val, c, V)
    OBVIOUS
  <2>1. r.val \notin KillsBefore(source, c, n - Len(f.phis[c]))
    BY <1>7
  <2>2. QED
    BY <1>1, <1>6, <2>1, CurrentRead DEF c, n
<1>10. \A t \in Temps(source) \ Kills(source, c) :
        \A d \in Blocks(source) : \A j \in DOMAIN f.phis[d] :
          newToOld[f.phis[d][j].to.val] = t /\ Reigns(f, newToOld, source, t, d, c) =>
            /\ stacks[t] # <<>> /\ stacks[t][Len(stacks[t])] = f.phis[d][j].to
            /\ IsNew(source, f.phis[d][j].to)
  <2> SUFFICES ASSUME NEW t \in Temps(source), t \notin Kills(source, c),
                      NEW d \in Blocks(source), NEW j \in DOMAIN f.phis[d],
                      newToOld[f.phis[d][j].to.val] = t, Reigns(f, newToOld, source, t, d, c)
               PROVE  /\ stacks[t] # <<>> /\ stacks[t][Len(stacks[t])] = f.phis[d][j].to
                      /\ IsNew(source, f.phis[d][j].to)
    OBVIOUS
  <2>1. t \notin KillsBefore(source, c, n - Len(f.phis[c]))
    BY <1>7
  <2>2. QED
    BY <1>1, <1>6, <2>1, TopReigns DEF c, n
<1>11. ASSUME NEW b \in Blocks(source), NEW j \in DOMAIN f.phis[b]
       PROVE  LET p == f.phis[b][j]
                  s == stacks[newToOld[p.to.val]]
              IN  /\ p \in Phi /\ newToOld[p.to.val] \in Temps(source)
                  /\ IF b \in Succs(source, c) /\ s # <<>>
                       THEN /\ s[Len(s)] \in Ref
                            /\ f'.phis[b][j].args = Append(p.args, s[Len(s)])
                       ELSE f'.phis[b][j] = p
  BY <1>1, EndBlockPhis, Zenon
<1>12. \A b \in Blocks(source) : Len(f'.phis[b]) = Len(f.phis[b])
  BY <1>1, EndBlockPhis, Zenon
<1>13. \A b \in Blocks(source) : \A m \in 1 .. NItems(f, b) :
         Passed(E, c, n, b, m) <=> Passed(E, c, 0, b, m)
  <2> SUFFICES ASSUME NEW b \in Blocks(source), NEW m \in 1 .. NItems(f, b)
               PROVE  Passed(E, c, n, b, m) <=> Passed(E, c, 0, b, m)
    OBVIOUS
  <2>1. b = c => m < n
    <3>1. NItems(f, c) \in Nat
      BY <1>1, <1>2, ItemKinds
    <3>2. QED
      BY <1>6, <3>1
  <2>2. QED
    BY <1>1, <2>1 DEF Passed
<1>14. RefOK(source, source.jmp[c].arg) /\ \A b \in Blocks(source) : DOMAIN source.ins[b] = DOMAIN f.ins[b]
  BY <1>1, SourceFacts, SameIns DEF IsFunction
<1> HIDE DEF c, n, E, X
<1>15. ArgsRead(f', newToOld', source, E, c, 0)
  <2> SUFFICES ASSUME NEW b \in Blocks(source), NEW i \in DOMAIN source.ins[b],
                      Passed(E, c, 0, b, Len(f'.phis[b]) + i),
                      NEW t \in Uses(source.ins[b][i]) \ KillsBefore(source, b, i)
               PROVE  PhiRead(f', newToOld', source, t, b, Uses(f'.ins[b][i]))
    BY DEF ArgsRead
  <2>1. i \in DOMAIN f.ins[b] /\ Len(f'.phis[b]) = Len(f.phis[b]) /\ i \in 1 .. Len(f.ins[b])
        /\ f'.ins[b][i] = f.ins[b][i]
    BY <1>2, <1>3, <1>12, <1>14
  <2>2. Len(f.phis[b]) + i \in 1 .. NItems(f, b)
    BY <1>2, <2>1, ItemKinds
  <2>3. Passed(E, c, n, b, Len(f.phis[b]) + i)
    BY <1>13, <2>1, <2>2
  <2>4. PhiRead(f, newToOld, source, t, b, Uses(f.ins[b][i]))
    BY <1>1, <2>3 DEF Read, ArgsRead
  <2>5. QED
    BY <1>8, <2>1, <2>4
<1>16. JumpsRead(f', newToOld', source, E, c, 0)
  <2> SUFFICES ASSUME NEW b \in Blocks(source), Ended(E, c, 0, b),
                      NEW t \in TmpsOf({source.jmp[b].arg}) \ Kills(source, b)
               PROVE  PhiRead(f', newToOld', source, t, b, TmpsOf({f'.jmp[b].arg}))
    BY DEF JumpsRead
  <2>1. CASE b = c
    <3> DEFINE r == source.jmp[c].arg
    <3>1. IsTmp(r) /\ r.val = t
      BY <2>1 DEF TmpsOf
    <3>2. f'.jmp[c].arg = Current(Names, f.jmp[c].arg)
      BY <1>1, <1>2, <1>3 DEF Jump
    <3>3. f.jmp[c].arg = r
      <4>1. ~Ended(E, c, n, c)
        BY <1>1 DEF Ended
      <4>2. QED
        BY <1>1, <4>1 DEF Unread
    <3>4. PICK V : V = TmpsOf({f'.jmp[c].arg})
      OBVIOUS
    <3>5. IsTmp(Current(Names, r)) => Current(Names, r).val \in V
      BY <3>2, <3>3, <3>4 DEF TmpsOf
    <3> HIDE DEF r
    <3>6. RefOK(source, r)
      BY <1>14 DEF r
    <3>7. PhiRead(f, newToOld, source, t, c, V)
      BY <1>9, <2>1, <3>1, <3>5, <3>6
    <3>8. QED
      BY <1>8, <2>1, <3>4, <3>7
  <2>2. CASE b # c
    <3>1. f'.jmp[b] = f.jmp[b] /\ Ended(E, c, n, b)
      BY <1>1, <1>2, <1>3, <2>2 DEF Ended
    <3>2. PhiRead(f, newToOld, source, t, b, TmpsOf({f.jmp[b].arg}))
      BY <1>1, <3>1 DEF Read, JumpsRead
    <3>3. QED
      BY <1>8, <3>1, <3>2
  <2>3. QED
    BY <2>1, <2>2
<1>17. ASSUME NEW b \in Blocks(source), Ended(E, c, 0, b),
              NEW s \in Blocks(source), s \in Succs(source, b), NEW i \in DOMAIN f'.phis[s],
              newToOld'[f'.phis[s][i].to.val] \notin Kills(source, b)
       PROVE  PhiRead(f', newToOld', source, newToOld'[f'.phis[s][i].to.val], b, TmpsOf(Elems(f'.phis[s][i].args)))
  <2> DEFINE p == f.phis[s][i]
             q == f'.phis[s][i]
             t == newToOld[p.to.val]
  <2>1. i \in DOMAIN f.phis[s] /\ newToOld'[q.to.val] = t
    BY <1>5, <1>17 DEF SameNames
  <2>2. /\ p.args \in Seq(Ref) /\ t \in Temps(source)
        /\ IF s \in Succs(source, c) /\ stacks[t] # <<>>
             THEN stacks[t][Len(stacks[t])] \in Ref /\ q.args = Append(p.args, stacks[t][Len(stacks[t])])
             ELSE q = p
    BY <1>11, <2>1, Zenon DEF Phi
  <2>3. TmpsOf(Elems(p.args)) \subseteq TmpsOf(Elems(q.args))
    <3>1. CASE s \in Succs(source, c) /\ stacks[t] # <<>>
      <4>1. PICK v \in Ref : q.args = Append(p.args, v)
        BY <2>2, <3>1, ZenonT(30)
      <4>2. \A l \in DOMAIN p.args : l \in DOMAIN Append(p.args, v) /\ Append(p.args, v)[l] = p.args[l]
        <5> HIDE DEF p
        <5>1. QED
          BY <2>2
      <4>3. QED
        BY <4>1, <4>2, ZenonT(30) DEF Elems, TmpsOf
    <3>2. QED
      BY <2>2, <3>1, ZenonT(30)
  <2>4. PhiRead(f, newToOld, source, t, b, TmpsOf(Elems(q.args)))
    <3>1. CASE b # c
      <4>1. Ended(E, c, n, b)
        BY <1>17, <3>1, SMTT(30) DEF Ended
      <4>2. PhiRead(f, newToOld, source, t, b, TmpsOf(Elems(p.args)))
        BY <1>1, <1>17, <2>1, <4>1 DEF Read, EdgesRead
      <4>3. QED
        BY <2>3, <4>2, ZenonT(30) DEF PhiRead
    <3>2. CASE b = c
      <4> SUFFICES ASSUME NEW d \in Blocks(source), NEW j \in DOMAIN f.phis[d],
                          newToOld[f.phis[d][j].to.val] = t, Reigns(f, newToOld, source, t, d, b)
                   PROVE  IsNew(source, f.phis[d][j].to) /\ f.phis[d][j].to.val \in TmpsOf(Elems(q.args))
        BY ZenonT(30) DEF PhiRead
      <4>1. t \in Temps(source) \ Kills(source, c)
        BY <1>17, <2>1, <2>2, <3>2, ZenonT(30)
      <4> HIDE DEF t, p, q
      <4>2. /\ stacks[t] # <<>> /\ stacks[t][Len(stacks[t])] = f.phis[d][j].to
            /\ IsNew(source, f.phis[d][j].to)
        BY <1>10, <3>2, <4>1
      <4> DEFINE v == f.phis[d][j].to
      <4>3. q.args = Append(p.args, v) /\ v \in Ref
        BY <1>17, <2>2, <3>2, <4>2
      <4> HIDE DEF v
      <4>4. v \in Elems(q.args)
        <5>1. Len(p.args) + 1 \in DOMAIN Append(p.args, v) /\ Append(p.args, v)[Len(p.args) + 1] = v
          BY <2>2, <4>3
        <5>2. QED
          BY <4>3, <5>1 DEF Elems
      <4>5. IsTmp(v)
        BY <4>2 DEF IsNew, v
      <4>6. QED
        BY <4>2, <4>4, <4>5, SMTT(30) DEF TmpsOf, v
    <3>3. QED
      BY <3>1, <3>2, SMTT(30)
  <2>5. QED
    BY <1>8, <2>1, <2>4
<1>18. EdgesRead(f', newToOld', source, E, c, 0)
  BY <1>17 DEF EdgesRead
<1>19. QED
  BY <1>1, <1>3, <1>4, <1>15, <1>16, <1>18 DEF Read, E

\* Entering and leaving a block read nothing.
LEMMA EnterReads ==
  ASSUME Analysed, RInv, Enter, Read(f, newToOld, source, entered, Cur, next)
  PROVE  Read(f', newToOld', source', entered', Cur', next')
<1>1. /\ walks \in Seq([blk : Blocks(source), heights : [Temps(source) -> Nat]])
      /\ at \in Blocks(source) /\ at \notin entered /\ next = 0 /\ NTyped
      /\ entered' = entered \cup {at} /\ next' = 1 /\ UNCHANGED <<f, source, newToOld>>
      /\ walks' = Append(walks, [blk |-> at, heights |-> [t \in DOMAIN stacks |-> Len(stacks[t])]])
  BY DEF Enter, RInv, WInv, WalkTyped, Turn
<1>2. Cur' = at
  <2> DEFINE e == [blk |-> at, heights |-> [t \in DOMAIN stacks |-> Len(stacks[t])]]
             n == Len(walks)
  <2>1. e.blk = at /\ e \in [blk : Blocks(source), heights : [Temps(source) -> Nat]]
    <3>1. \A t \in Temps(source) : Len(stacks[t]) \in Nat
      BY <1>1 DEF NTyped
    <3>2. DOMAIN stacks = Temps(source)
      BY <1>1 DEF NTyped
    <3>3. QED
      BY <1>1, <3>1, <3>2
  <2> HIDE DEF e
  <2>2. walks' = Append(walks, e)
    BY <1>1 DEF e
  <2>3. Len(walks') = n + 1 /\ walks'[n + 1] = e
    BY <1>1, <2>1, <2>2, AppendMeans
  <2>4. QED
    BY <2>1, <2>3 DEF Cur, Stack!Last
<1>3. \A b : Ended(entered', at, 1, b) <=> Ended(entered, Cur, next, b)
  BY <1>1 DEF Ended
<1>4. ASSUME NEW b \in Blocks(source), NEW i \in DOMAIN source.ins[b],
             Passed(entered', at, 1, b, Len(f.phis[b]) + i)
      PROVE  Passed(entered, Cur, next, b, Len(f.phis[b]) + i)
  <2> DEFINE u == Len(f.phis[b])
             v == Len(f.ins[b])
  <2>1. u \in Nat /\ v \in Nat /\ i \in 1 .. v
    BY <1>1, NTypedFacts, SameIns
  <2> HIDE DEF u, v
  <2>2. ~(u + i < 1)
    BY <2>1
  <2>3. b # at
    BY <1>4, <2>2 DEF Passed, u
  <2>4. QED
    BY <1>1, <1>4, <2>3 DEF Passed
<1>5. Read(f, newToOld, source, entered', at, 1)
  <2> DEFINE E2 == entered'
             c == Cur
  <2>1. \A b \in Blocks(source) : Ended(E2, at, 1, b) <=> Ended(entered, c, next, b)
    BY <1>3
  <2>2. \A b \in Blocks(source) : \A i \in DOMAIN source.ins[b] :
          Passed(E2, at, 1, b, Len(f.phis[b]) + i) => Passed(entered, c, next, b, Len(f.phis[b]) + i)
    BY <1>4
  <2>3. Read(f, newToOld, source, entered, c, next)
    OBVIOUS
  <2> HIDE DEF E2, c
  <2>4. Read(f, newToOld, source, E2, at, 1)
    BY <2>1, <2>2, <2>3, ReadSame
  <2>5. QED
    BY <2>4 DEF E2
<1>6. QED
  BY <1>1, <1>2, <1>5

LEMMA ReturnReads ==
  ASSUME Return, Read(f, newToOld, source, entered, Cur, next)
  PROVE  Read(f', newToOld', source', entered', Cur', next')
<1>1. next = 0 /\ next' = 0 /\ UNCHANGED <<f, newToOld, source, entered>>
  BY DEF Return
<1>2. \A c, d, b : Ended(entered, c, 0, b) <=> Ended(entered, d, 0, b)
  BY DEF Ended
<1>3. \A c, d, b, m : Passed(entered, c, 0, b, m) <=> Passed(entered, d, 0, b, m)
  BY DEF Passed
<1>4. \A c, d : Read(f, newToOld, source, entered, c, 0) => Read(f, newToOld, source, entered, d, 0)
  BY <1>2, <1>3, ReadSame
<1>5. QED
  BY <1>1, <1>4

\* Where rename starts nothing has been read.
LEMMA StartReads ==
  ASSUME PInv, NextTemp, pc' = "rename"
  PROVE  Read(f', newToOld', source', entered', Cur', next')
<1>1. /\ entered' = {} /\ next' = 0
  BY DEF PInv, NotRenaming, NextTemp
<1>2. /\ \A c, b : ~Ended({}, c, 0, b)
      /\ \A c, b, m : ~Passed({}, c, 0, b, m)
  BY DEF Ended, Passed
<1>3. \A g, N, h, c : Read(g, N, h, {}, c, 0)
  BY <1>2 DEF Read, ArgsRead, JumpsRead, EdgesRead
<1>4. QED
  BY <1>1, <1>3

\* insertPhis gives a block one phi of a temporary.
LEMMA PlacePhisOnce ==
  ASSUME PInv, Analysed, PlacePhis, PhisOnce(f, newToOld, source)
  PROVE  PhisOnce(f', newToOld', source')
<1> DEFINE new == NewPhis(Head(work))
<1>1. /\ \A b \in Blocks(source) :
           f'.phis[b] = IF b \in new THEN Append(f.phis[b], PlainPhi(temp)) ELSE f.phis[b]
      /\ UNCHANGED <<newToOld, source>>
  BY PlacePhisMeans DEF PlacePhis, renameVars
<1>2. \A b \in new : b \notin PhiOf(f, newToOld, temp)
  BY DEF PInv, NewPhis
<1>3. newToOld[PlainPhi(temp).to.val] = temp
  BY DEF PInv, PlacingTyped, NotRenaming, PlainPhi, Tmp
<1>4. \A b \in Blocks(source) : f.phis[b] \in Seq(Phi)
  BY DEF PInv, OnlyPhis
<1>5. PlainPhi(temp) \in Phi
  BY DEF PlainPhi, Phi, Tmp, Ref, RefKinds, PInv, PlacingTyped, Temps
<1>6. Blocks(f) = Blocks(source)
  BY OnlyPhisShape DEF PInv
<1> HIDE DEF new
<1>7. ASSUME NEW b \in Blocks(source), NEW i \in DOMAIN f'.phis[b], NEW j \in DOMAIN f'.phis[b],
             newToOld[f'.phis[b][i].to.val] = newToOld[f'.phis[b][j].to.val]
      PROVE  i = j
  <2>1. CASE b \in new
    <3> DEFINE s == f.phis[b]
               p == PlainPhi(temp)
               u == Len(s)
    <3>1. \A x \in DOMAIN s : newToOld[s[x].to.val] # temp
      BY <1>2, <1>6, <2>1 DEF PhiOf
    <3>2. \A x, y \in DOMAIN s : newToOld[s[x].to.val] = newToOld[s[y].to.val] => x = y
      BY DEF PhisOnce
    <3>3. f'.phis[b] = Append(s, p)
      BY <1>1, <2>1
    <3>4. s \in Seq(Phi) /\ p \in Phi /\ newToOld[p.to.val] = temp
      BY <1>3, <1>4, <1>5
    <3> HIDE DEF s, p
    <3>5. /\ u \in Nat /\ DOMAIN s = 1 .. u /\ DOMAIN Append(s, p) = 1 .. u + 1
          /\ \A x \in 1 .. u : Append(s, p)[x] = s[x]
          /\ Append(s, p)[u + 1] = p
      BY <3>4, AppendMeans
    <3> HIDE DEF u
    <3>6. \A x \in 1 .. u + 1 : x \in 1 .. u \/ x = u + 1
      BY <3>5
    <3> DEFINE z == Append(s, p)
    <3>7. i \in 1 .. u + 1 /\ j \in 1 .. u + 1 /\ newToOld[z[i].to.val] = newToOld[z[j].to.val]
      BY <1>7, <3>3, <3>5
    <3>8. /\ z[u + 1] = p /\ \A x \in 1 .. u : z[x] = s[x]
      BY <3>5
    <3> HIDE DEF z
    <3>9. QED
      BY <3>1, <3>2, <3>4, <3>5, <3>6, <3>7, <3>8
  <2>2. CASE b \notin new
    BY <1>1, <1>7, <2>2 DEF PhisOnce
  <2>3. QED
    BY <2>1, <2>2
<1>8. QED
  BY <1>1, <1>7 DEF PhisOnce

(***************************************************************************)
(* The inductive invariant, with what is read of the phis.                 *)
(***************************************************************************)
NInv ==
  /\ UInv
  /\ pc \notin {"dom", "live"} => PhisOnce(f, newToOld, source)
  /\ pc \in {"rename", "done"} => Read(f, newToOld, source, entered, Cur, next)

\* It holds when SSA is called.
LEMMA InitNInv ==
  ASSUME Init
  PROVE  NInv
BY InitUInv DEF NInv, Init

\* Every step keeps it.
LEMMA NInvStep ==
  ASSUME NInv, [Next]_vars, Analysed'
  PROVE  NInv'
<1>1. UInv /\ UInv' /\ SInv /\ SInv' /\ Analysed
  BY UInvStep DEF NInv, UInv, SInv
<1>2. UNCHANGED <<f, source, newToOld, entered, walks, next>> /\ pc \in {"rename", "done"} => NInv'
  <2> SUFFICES ASSUME UNCHANGED <<f, source, newToOld, entered, walks, next>>, pc \in {"rename", "done"}
               PROVE  NInv'
    OBVIOUS
  <2>1. Cur' = Cur
    BY DEF Cur
  <2>2. QED
    BY <1>1, <2>1 DEF NInv
<1>3. CASE FillDomFron
  BY <1>1, <1>3 DEF NInv, FillDomFron
<1>4. CASE Liveness
  <2>1. pc = "live" /\ UNCHANGED <<f, source>> /\ pc' \in {"live", "phis"}
    BY <1>4 DEF Liveness
  <2>2. f = source /\ SourceOK(source)
    BY <1>1, <2>1 DEF Analysed
  <2>3. \A N : PhisOnce(source, N, source)
    <3>1. \A b \in Blocks(source) : DOMAIN source.phis[b] = {}
      BY <2>2 DEF SourceOK
    <3>2. QED
      BY <3>1 DEF PhisOnce
  <2>4. QED
    BY <1>1, <2>1, <2>2, <2>3 DEF NInv
<1>5. CASE PlacePhis
  <2>1. pc = "phis" /\ pc' = pc /\ PInv
    BY <1>1, <1>5 DEF PlacePhis, SInv
  <2>2. PhisOnce(f', newToOld', source')
    BY <1>1, <1>5, <2>1, PlacePhisOnce DEF NInv
  <2>3. QED
    BY <1>1, <2>1, <2>2 DEF NInv
<1>6. CASE NextTemp
  <2>1. pc = "phis" /\ PInv /\ UNCHANGED <<f, newToOld, source>>
    BY <1>1, <1>6 DEF NextTemp, SInv
  <2>2. pc' = "phis" \/ pc' = "rename"
    BY <1>6, <2>1 DEF NextTemp
  <2>3. pc' = "rename" => Read(f', newToOld', source', entered', Cur', next')
    BY <1>6, <2>1, StartReads
  <2>4. PhisOnce(f', newToOld', source')
    BY <2>1 DEF NInv
  <2>5. QED
    BY <1>1, <2>2, <2>3, <2>4 DEF NInv
<1>7. CASE Enter \/ RenamePhi \/ RenameIns \/ EndBlock \/ Return
  <2>1. /\ pc = "rename" /\ pc' = pc /\ RInv /\ RInv' /\ source' = source
        /\ PhisOnce(f, newToOld, source) /\ Read(f, newToOld, source, entered, Cur, next)
    BY <1>1, <1>7 DEF Enter, RenamePhi, RenameIns, EndBlock, Return, SInv, NInv
  <2>2. Read(f', newToOld', source', entered', Cur', next')
    BY <1>1, <1>7, <2>1, EnterReads, RenamedReads, EndBlockReads, ReturnReads
  <2>3. PhisOnce(f', newToOld', source')
    <3>1. CASE Enter \/ Return
      BY <2>1, <3>1 DEF Enter, Return
    <3>2. CASE RenamePhi \/ RenameIns \/ EndBlock
      <4>1. SameNames(f, newToOld, f', newToOld', source)
        BY <1>1, <2>1, <3>2, RenamedSame, EndBlockSame
      <4>2. QED
        BY <2>1, <4>1, OnceKept
    <3>3. QED
      BY <1>7, <3>1, <3>2
  <2>4. QED
    BY <1>1, <2>1, <2>2, <2>3, SMTT(30) DEF NInv
<1>8. CASE Finish
  BY <1>2, <1>8 DEF Finish, renameVars
<1>9. CASE UNCHANGED vars
  <2>1. UNCHANGED <<f, source, newToOld, entered, walks, next, pc>>
    BY <1>9 DEF vars, renameVars
  <2>2. pc \notin {"rename", "done"} => NInv'
    BY <1>1, <2>1 DEF NInv
  <2>3. QED
    BY <1>2, <2>1, <2>2
<1>10. QED
  BY <1>3, <1>4, <1>5, <1>6, <1>7, <1>8, <1>9 DEF Next

\* The live sets are the least that the equations allow.
LeastFacts(g, I) == \A J : LiveFacts(g, J) => \A b \in Blocks(g) : I[b] \subseteq J[b]

\* A phi reigns in its own block, and on from there as far as nothing else does.
LEMMA ReignsHere ==
  ASSUME Analysed, pc # "dom", NEW t, NEW d \in Blocks(source)
  PROVE  Reigns(f, newToOld, source, t, d, d)
<1>1. OrderOf(source) /\ Dominates(source, d, d)
  BY TreeFacts DEF Dominates
<1>2. ASSUME NEW e \in Blocks(source), SDom(source, d, e), Dominates(source, e, d)
      PROVE  FALSE
  <2>1. d <= e /\ e <= d /\ d # e
    BY <1>1, <1>2 DEF OrderOf, SDom
  <2>2. d \in Nat /\ e \in Nat
    BY DEF Blocks
  <2>3. QED
    BY <2>1, <2>2
<1>3. QED
  BY <1>1, <1>2 DEF Reigns

LEMMA ReignsOn ==
  ASSUME Analysed, pc \notin {"dom", "live"}, RInv,
         NEW t \in Temps(source), NEW d \in PhiOf(f, newToOld, t), d \in Blocks(source),
         NEW p \in Blocks(source), NEW s \in Blocks(source), s \in Succs(source, p),
         t \notin Kills(source, p), t \in in[s], s \notin PhiOf(f, newToOld, t),
         Reigns(f, newToOld, source, t, d, p)
  PROVE  Reigns(f, newToOld, source, t, d, s)
<1>1. FrontiersOf(source, fron) /\ PhisFor(f, newToOld, fron, in, source, t)
  BY TreeFacts DEF RInv, Erased
<1>2. SDom(source, d, s)
  <2>1. s \notin Elems(fron[d])
    BY <1>1 DEF PhisFor, PhisClosed, LiveIn
  <2>2. Dominates(source, d, p)
    BY DEF Reigns
  <2>3. QED
    BY <1>1, <2>1, <2>2 DEF FrontiersOf, InFrontier
<1>3. t \notin Kills(source, d)
  BY DEF Reigns
<1>4. ASSUME NEW e \in Blocks(source), SDom(source, d, e), Dominates(source, e, s)
      PROVE  e \notin PhiOf(f, newToOld, t) /\ (e # s => t \notin Kills(source, e))
  <2>1. CASE e = s
    BY <2>1
  <2>2. CASE e # s
    <3>1. SDom(source, e, s)
      BY <1>4, <2>2 DEF SDom
    <3>2. Dominates(source, e, p)
      BY <3>1, SourceFacts, DominatesPred
    <3>3. QED
      BY <1>4, <3>2 DEF Reigns
  <2>3. QED
    BY <2>1, <2>2
<1>5. QED
  BY <1>2, <1>3, <1>4 DEF Reigns, SDom

(***************************************************************************)
(* Of phis that only each other read, none is there: leave out of every    *)
(* live set the temporaries such a phi names there, and the equations      *)
(* still hold; but a phi is placed only where its temporary is live, and   *)
(* the live sets are the least ones.                                       *)
(***************************************************************************)
LEMMA NoneDead ==
  ASSUME NInv, pc = "done", LeastFacts(source, in)
  PROVE  NoDeadPhis
<1> DEFINE phis == UNION {Elems(f.phis[b]) : b \in Blocks(f)}
           code == UNION {TmpsOf({f.jmp[b].arg}) \cup UNION {Uses(i) : i \in Elems(f.ins[b])} :
                            b \in Blocks(f)}
           read(ps) == UNION {TmpsOf(Elems(p.args)) : p \in ps}
<1>1. SUFFICES ASSUME NEW S \in SUBSET phis, S # {},
                      \A p \in S : ~(Defs(p) \subseteq code \cup read(phis \ S))
               PROVE  FALSE
  BY DEF NoDeadPhis
<1>2. /\ UInv /\ SInv /\ Analysed /\ RInv /\ NTyped /\ Erased(f, newToOld, source, in, fron)
      /\ Read(f, newToOld, source, entered, Cur, next) /\ WInv
      /\ walks = <<>> /\ at = Nil /\ next = 0
  BY DEF NInv, UInv, SInv, RInv
<1>3. entered = Blocks(source) /\ Blocks(f) = Blocks(source) /\ \A b : Succs(f, b) = Succs(source, b)
  BY <1>2, AllEntered, NTypedFacts
<1>4. LiveFacts(source, in)
  BY <1>2 DEF Analysed
<1>5. \A b \in Blocks(source) : Ended(entered, Cur, next, b) /\ \A m : Passed(entered, Cur, next, b, m)
  BY <1>2, <1>3 DEF Ended, Passed
<1>6. \A d \in Blocks(source) : \A j \in DOMAIN f.phis[d] :
        /\ IsTmp(f.phis[d][j].to) /\ newToOld[f.phis[d][j].to.val] \in in[d]
  BY <1>2 DEF Erased
<1>7. \A b \in Blocks(source) : \A i \in DOMAIN f.ins[b] : Uses(f.ins[b][i]) \subseteq code
  BY <1>3 DEF Elems
<1>8. \A b \in Blocks(source) : TmpsOf({f.jmp[b].arg}) \subseteq code
  <2>1. \A b \in Blocks(f) : TmpsOf({f.jmp[b].arg}) \subseteq code
    <3> SUFFICES ASSUME NEW b \in Blocks(f), NEW v \in TmpsOf({f.jmp[b].arg}) PROVE v \in code
      OBVIOUS
    <3>1. v \in TmpsOf({f.jmp[b].arg}) \cup UNION {Uses(i) : i \in Elems(f.ins[b])}
      OBVIOUS
    <3>2. QED
      BY <3>1, Zenon
  <2>2. QED
    BY <1>3, <2>1
<1>9. \A b \in Blocks(source) : \A j \in DOMAIN f.phis[b] :
        f.phis[b][j] \in S \/ TmpsOf(Elems(f.phis[b][j].args)) \subseteq read(phis \ S)
  <2> SUFFICES ASSUME NEW b \in Blocks(source), NEW j \in DOMAIN f.phis[b], f.phis[b][j] \notin S,
                      NEW v \in TmpsOf(Elems(f.phis[b][j].args))
               PROVE  v \in read(phis \ S)
    OBVIOUS
  <2>1. f.phis[b][j] \in phis
    BY <1>3 DEF Elems
  <2>2. QED
    BY <2>1, Zenon
<1>10. \A b \in Blocks(source) : \A j \in DOMAIN f.phis[b] :
        f.phis[b][j] \in S => f.phis[b][j].to.val \notin code /\ f.phis[b][j].to.val \notin read(phis \ S)
  <2> SUFFICES ASSUME NEW b \in Blocks(source), NEW j \in DOMAIN f.phis[b], f.phis[b][j] \in S
               PROVE  f.phis[b][j].to.val \notin code /\ f.phis[b][j].to.val \notin read(phis \ S)
    OBVIOUS
  <2> DEFINE R == read(phis \ S)
             q == f.phis[b][j]
  <2>1. ~(Defs(q) \subseteq code \cup R)
    BY <1>1
  <2>2. Defs(q) \subseteq {q.to.val}
    BY DEF Defs, TmpsOf
  <2> HIDE DEF code, R, q
  <2>3. q.to.val \notin code /\ q.to.val \notin R
    BY <2>1, <2>2
  <2>4. QED
    BY <2>3 DEF R, q
<1> DEFINE Dead(t, b) == \E d \in Blocks(source) : \E j \in DOMAIN f.phis[d] :
                           /\ f.phis[d][j] \in S /\ newToOld[f.phis[d][j].to.val] = t
                           /\ Reigns(f, newToOld, source, t, d, b)
           J == [b \in Blocks(source) |-> {t \in in[b] : ~Dead(t, b)}]
<1>11. PICK b0 \in Blocks(source) : \E j \in DOMAIN f.phis[b0] : f.phis[b0][j] \in S
  BY <1>1, <1>3 DEF Elems
<1>12. PICK j0 \in DOMAIN f.phis[b0] : f.phis[b0][j0] \in S
  BY <1>11
<1> DEFINE R == read(phis \ S)
<1>13. \A b \in Blocks(source) : \A t \in in[b] : t \in J[b] \/ Dead(t, b)
  BY SMTT(30)
<1>14. \A b \in Blocks(source) : \A j \in DOMAIN f.phis[b] :
         f.phis[b][j] \in S => newToOld[f.phis[b][j].to.val] \notin J[b]
  <2> SUFFICES ASSUME NEW b \in Blocks(source), NEW j \in DOMAIN f.phis[b], f.phis[b][j] \in S
               PROVE  newToOld[f.phis[b][j].to.val] \notin J[b]
    OBVIOUS
  <2>1. Reigns(f, newToOld, source, newToOld[f.phis[b][j].to.val], b, b)
    BY <1>2, ReignsHere
  <2>2. QED
    BY <2>1, ZenonT(30)
<1> HIDE DEF phis, code, read, R
<1>15. ASSUME NEW p \in Blocks(source), NEW s \in Blocks(source), s \in Succs(source, p), NEW t \in J[s]
       PROVE  t \in J[p] \cup Kills(source, p)
  <2>1. SUFFICES ASSUME t \notin Kills(source, p), t \notin J[p] PROVE FALSE
    OBVIOUS
  <2>2. t \in in[s] /\ ~Dead(t, s)
    BY <1>15, SMTT(30)
  <2>3. t \in in[p] /\ t \in Temps(source)
    BY <1>4, <1>15, <2>1, <2>2, ZenonT(30) DEF LiveFacts
  <2>4. Dead(t, p)
    BY <1>13, <2>1, <2>3, ZenonT(30)
  <2>5. PICK d \in Blocks(source) : \E j \in DOMAIN f.phis[d] :
          /\ f.phis[d][j] \in S /\ newToOld[f.phis[d][j].to.val] = t
          /\ Reigns(f, newToOld, source, t, d, p)
    BY <2>4
  <2>6. PICK j \in DOMAIN f.phis[d] :
          /\ f.phis[d][j] \in S /\ newToOld[f.phis[d][j].to.val] = t
          /\ Reigns(f, newToOld, source, t, d, p)
    BY <2>5, SMTT(30)
  <2>7. CASE s \in PhiOf(f, newToOld, t)
    <3>1. PICK i \in DOMAIN f.phis[s] : newToOld[f.phis[s][i].to.val] = t
      BY <2>7, SMTT(30) DEF PhiOf
    <3>2. f.phis[s][i] \notin S
      BY <1>14, <1>15, <3>1, ZenonT(30)
    <3>3. PhiRead(f, newToOld, source, t, p, TmpsOf(Elems(f.phis[s][i].args)))
      BY <1>2, <1>5, <1>15, <2>1, <3>1, ZenonT(30) DEF Read, EdgesRead
    <3>4. f.phis[d][j].to.val \in TmpsOf(Elems(f.phis[s][i].args))
      BY <2>6, <3>3 DEF PhiRead
    <3>5. QED
      BY <1>9, <1>10, <2>6, <3>2, <3>4
  <2>8. CASE s \notin PhiOf(f, newToOld, t)
    <3>1. d \in PhiOf(f, newToOld, t)
      BY <1>3, <2>6, SMTT(30) DEF PhiOf
    <3>2. Reigns(f, newToOld, source, t, d, s)
      BY <1>2, <1>15, <2>1, <2>2, <2>3, <2>6, <2>8, <3>1, ReignsOn, ZenonT(30)
    <3>3. QED
      BY <2>2, <2>6, <3>2
  <2>9. QED
    BY <2>7, <2>8
<1>16. ASSUME NEW b \in Blocks(source), NEW n \in DOMAIN source.ins[b], NEW t \in Uses(source.ins[b][n])
       PROVE  t \in J[b] \cup KillsBefore(source, b, n)
  <2>1. SUFFICES ASSUME t \notin KillsBefore(source, b, n), t \notin J[b] PROVE FALSE
    OBVIOUS
  <2>2. t \in in[b] /\ n \in DOMAIN f.ins[b]
    BY <1>2, <1>4, <2>1, SameIns DEF LiveFacts
  <2>3. Dead(t, b)
    BY <1>13, <2>1, <2>2
  <2>4. PICK d \in Blocks(source) : \E j \in DOMAIN f.phis[d] :
          /\ f.phis[d][j] \in S /\ newToOld[f.phis[d][j].to.val] = t
          /\ Reigns(f, newToOld, source, t, d, b)
    BY <2>3
  <2>5. PICK j \in DOMAIN f.phis[d] :
          /\ f.phis[d][j] \in S /\ newToOld[f.phis[d][j].to.val] = t
          /\ Reigns(f, newToOld, source, t, d, b)
    BY <2>4
  <2>6. PhiRead(f, newToOld, source, t, b, Uses(f.ins[b][n]))
    BY <1>2, <1>5, <2>1 DEF Read, ArgsRead
  <2>7. f.phis[d][j].to.val \in Uses(f.ins[b][n])
    BY <2>5, <2>6 DEF PhiRead
  <2>8. QED
    BY <1>7, <1>10, <2>2, <2>5, <2>7
<1>17. ASSUME NEW b \in Blocks(source), NEW t \in TmpsOf({source.jmp[b].arg})
       PROVE  t \in J[b] \cup Kills(source, b)
  <2>1. SUFFICES ASSUME t \notin Kills(source, b), t \notin J[b] PROVE FALSE
    OBVIOUS
  <2>2. t \in in[b]
    BY <1>4, <2>1 DEF LiveFacts
  <2>3. Dead(t, b)
    BY <1>13, <2>1, <2>2
  <2>4. PICK d \in Blocks(source) : \E j \in DOMAIN f.phis[d] :
          /\ f.phis[d][j] \in S /\ newToOld[f.phis[d][j].to.val] = t
          /\ Reigns(f, newToOld, source, t, d, b)
    BY <2>3
  <2>5. PICK j \in DOMAIN f.phis[d] :
          /\ f.phis[d][j] \in S /\ newToOld[f.phis[d][j].to.val] = t
          /\ Reigns(f, newToOld, source, t, d, b)
    BY <2>4
  <2>6. PhiRead(f, newToOld, source, t, b, TmpsOf({f.jmp[b].arg}))
    BY <1>2, <1>5, <2>1 DEF Read, JumpsRead
  <2>7. f.phis[d][j].to.val \in TmpsOf({f.jmp[b].arg})
    BY <2>5, <2>6 DEF PhiRead
  <2>8. QED
    BY <1>8, <1>10, <2>5, <2>7
<1>18. J \in [Blocks(source) -> SUBSET Temps(source)]
  BY <1>4 DEF LiveFacts
<1> HIDE DEF J
<1>19. LiveFacts(source, J)
  <2>1. \A p, s \in Blocks(source) : s \in Succs(source, p) => J[s] \subseteq J[p] \cup Kills(source, p)
    BY <1>15
  <2>2. \A b \in Blocks(source) : \A n \in DOMAIN source.ins[b] :
          Uses(source.ins[b][n]) \subseteq J[b] \cup KillsBefore(source, b, n)
    BY <1>16
  <2>3. \A b \in Blocks(source) : TmpsOf({source.jmp[b].arg}) \subseteq J[b] \cup Kills(source, b)
    BY <1>17
  <2>4. QED
    BY <1>18, <2>1, <2>2, <2>3 DEF LiveFacts
<1>20. in[b0] \subseteq J[b0]
  BY <1>11, <1>19 DEF LeastFacts
<1>21. QED
  BY <1>6, <1>12, <1>14, <1>20

\* Where there are no phis the code's solution sits inside every other.
LEMMA LeastSolution ==
  ASSUME SourceOK(f), Sets!IInv, Sets!Least
  PROVE  LeastFacts(f, in)
<1>1. /\ IsFunction(f) /\ Sets!IsFunction(f)
      /\ \A b \in Blocks(f) : f.phis[b] = <<>>
  BY SameSets DEF SourceOK, Prepared
<1>2. \A b : Sets!Kill(b) = Kills(f, b)
  BY SameSets DEF Sets!Kill, Kills
<1>3. \A b, n : Sets!KilledBefore(b, n) = KillsBefore(f, b, n)
  BY SameSets DEF Sets!KilledBefore, KillsBefore
<1>4. ASSUME NEW J, LiveFacts(f, J), NEW b \in Blocks(f)
      PROVE  in[b] \subseteq J[b]
  <2> DEFINE O == [c \in Blocks(f) |-> (J[c] \cup Kills(f, c)) \cap Temps(f)]
  <2>1. J \in Sets!Candidates /\ O \in Sets!Candidates
    BY <1>4, SameSets DEF LiveFacts, Sets!Candidates
  <2>2. ASSUME NEW c \in Blocks(f)
        PROVE  Sets!NewOut(c, J) \subseteq O[c]
    <3>1. Sets!NewOut(c, J) \subseteq Temps(f)
      BY <1>1, <2>1, FunctionsAll, SameSets, Sets!NewOutType
    <3>2. \A s \in Blocks(f) : Sets!PhiDefs(s) = {} /\ Sets!PhiUses(c, s) = {}
      <4> SUFFICES ASSUME NEW s \in Blocks(f)
                   PROVE  Sets!PhiDefs(s) = {} /\ Sets!PhiUses(c, s) = {}
        OBVIOUS
      <4>1. f.phis[s] = <<>> /\ DOMAIN f.phis[s] = {}
        BY <1>1
      <4>2. Sets!Elems(f.phis[s]) = {}
        BY <4>1 DEF Sets!Elems
      <4>3. Sets!PhiDefs(s) = {}
        BY <4>1 DEF Sets!PhiDefs
      <4>4. Sets!PhiUses(c, s) = {}
        BY <4>2 DEF Sets!PhiUses
      <4>5. QED
        BY <4>3, <4>4
    <3>3. f.s1[c] \in Blocks(f) \cup {Nil} /\ f.s2[c] \in Blocks(f) \cup {Nil}
      BY <1>1 DEF IsFunction
    <3>4. \A v : \A s \in {f.s1[c], f.s2[c]} :
            v \subseteq J[c] \cup Kills(f, c) => Sets!LiveOn(v, c, s, J) \subseteq J[c] \cup Kills(f, c)
      <4> SUFFICES ASSUME NEW v, NEW s \in {f.s1[c], f.s2[c]}, v \subseteq J[c] \cup Kills(f, c)
                   PROVE  Sets!LiveOn(v, c, s, J) \subseteq J[c] \cup Kills(f, c)
        OBVIOUS
      <4>1. CASE s = Nil
        BY <4>1, SameSets DEF Sets!LiveOn
      <4>2. CASE s # Nil
        <5>1. s \in Blocks(f) /\ s \in Succs(f, c)
          BY <3>3, <4>2 DEF Succs
        <5>2. J[s] \subseteq J[c] \cup Kills(f, c)
          BY <1>4, <5>1 DEF LiveFacts
        <5>3. Sets!LiveOn(v, c, s, J) = v \cup J[s]
          BY <3>2, <4>2, <5>1, SameSets DEF Sets!LiveOn
        <5>4. QED
          BY <5>2, <5>3
      <4>3. QED
        BY <4>1, <4>2
    <3>5. Sets!NewOut(c, J) \subseteq J[c] \cup Kills(f, c)
      BY <3>4 DEF Sets!NewOut
    <3>6. QED
      BY <3>1, <3>5
  <2>3. ASSUME NEW c \in Blocks(f)
        PROVE  Sets!NewIn(c, O[c]) \subseteq J[c]
    <3>1. \A n \in DOMAIN f.ins[c] : Uses(f.ins[c][n]) \subseteq J[c] \cup KillsBefore(f, c, n)
      BY <1>4 DEF LiveFacts
    <3>2. TmpsOf({f.jmp[c].arg}) \subseteq J[c] \cup Kills(f, c)
      BY <1>4 DEF LiveFacts
    <3>3. Sets!Gen(c) \subseteq J[c]
      BY <1>2, <1>3, <3>1, <3>2, SameSets DEF Sets!Gen
    <3>4. O[c] \ Sets!Kill(c) \subseteq J[c]
      BY <1>2
    <3>5. QED
      BY <3>3, <3>4 DEF Sets!NewIn
  <2>4. Sets!Covers(J, O)
    BY <2>2, <2>3, SameSets DEF Sets!Covers
  <2>5. QED
    BY <1>4, <2>1, <2>4, SameSets DEF Sets!Least
<1>5. QED
  BY <1>4 DEF LeastFacts

(***************************************************************************)
(* The invariant of SSA: while an analysis runs, the analysis' own; after  *)
(* it, what it has found; and what was said above of the rest.             *)
(***************************************************************************)
Analysing ==
  /\ pc = "dom" => Tree!AInv /\ Live!Start
  /\ pc = "live" => Sets!IInv /\ Sets!Least
  /\ pc \notin {"dom", "live"} => LeastFacts(source, in)

AInv == NInv /\ Analysing

\* When SSA is called nothing has been analysed.
LEMMA InitAnalysing ==
  ASSUME Init
  PROVE  Analysing
<1>1. f \in Functions /\ Dominance!Start /\ Live!Start /\ pc = "dom"
  BY DEF Init
<1>2. Tree!Prepared(f)
  BY <1>1, PreparedAll
<1>3. Tree!Start
  BY <1>1, SameDomStart
<1>4. Tree!AInv
  BY <1>2, <1>3, PreparedAll, Tree!ReadyAInv DEF Tree!Ready
<1>5. QED
  BY <1>1, <1>4 DEF Analysing

\* A step of FillDom or FillFron.
LEMMA FillDomAnalysed ==
  ASSUME Analysed, Analysing, FillDomFron
  PROVE  Analysed' /\ Analysing'
<1>1. pc = "dom" /\ UNCHANGED <<f, source, in, out, lpos, lchanged, lpc>>
  BY DEF FillDomFron, liveVars
<1>2. SourceOK(source) /\ f = source /\ Tree!AInv /\ Live!Start
  BY <1>1 DEF Analysed, Analysing
<1>3. Live!Start'
  BY <1>1, <1>2 DEF Live!Start, Live!Blocks
<1>4. CASE dpc = "done"
  <2>1. pc' = "live" /\ UNCHANGED <<idom, dom, dlink, fron>>
    BY <1>1, <1>4 DEF FillDomFron, domVars
  <2>2. DomFacts(source, idom, dom, dlink, fron)
    BY <1>2, <1>4, PreparedAll, Tree!Leaves, SameDominance
  <2>3. Sets!IInv /\ Sets!Least
    <3>1. Sets!IInv
      BY <1>2, SameLiveStart, SameSets, FunctionsAll, Sets!StartIInv DEF SourceOK, Prepared
    <3>2. Sets!Least
      BY <1>2, SameLiveStart DEF Sets!Start, Sets!Least
    <3>3. QED
      BY <3>1, <3>2
  <2>4. Sets!IInv' /\ Sets!Least'
    <3>1. UNCHANGED Sets!vars
      BY <1>1 DEF Sets!vars, Sets!liveVars
    <3>2. QED
      BY <2>3, <3>1, FunctionsAll, Sets!StutterIInv, Sets!LeastStep
  <2>5. Analysed'
    BY <1>1, <1>2, <2>1, <2>2 DEF Analysed
  <2>6. QED
    BY <2>1, <2>4, <2>5 DEF Analysing
<1>5. CASE dpc # "done"
  <2>1. Dominance!Step /\ pc' = "dom"
    BY <1>1, <1>5 DEF FillDomFron
  <2>2. Tree!Next
    BY <1>1, <2>1, SameDomStep DEF Tree!Next
  <2>3. Tree!AInv'
    BY <1>2, <2>2, PreparedAll, Tree!AStep
  <2>4. Analysed'
    BY <1>1, <1>2, <2>1 DEF Analysed
  <2>5. QED
    BY <1>3, <2>1, <2>3, <2>4 DEF Analysing
<1>6. QED
  BY <1>4, <1>5

\* A step of Liveness.
LEMMA LivenessAnalysed ==
  ASSUME Analysed, Analysing, Liveness
  PROVE  Analysed' /\ Analysing'
<1>1. pc = "live" /\ UNCHANGED <<f, source, idom, dom, dlink, fron>>
  BY DEF Liveness, domVars
<1>2. /\ SourceOK(source) /\ f = source /\ Sets!IInv /\ Sets!Least
      /\ DomFacts(source, idom, dom, dlink, fron)
  BY <1>1 DEF Analysed, Analysing
<1>3. CASE lpc = "done"
  <2>1. pc' = "phis" /\ in' = in
    BY <1>1, <1>3 DEF Liveness, liveVars
  <2>2. LiveFacts(source, in) /\ LeastFacts(source, in)
    BY <1>2, <1>3, SolutionFacts, LeastSolution
  <2>3. Analysed'
    BY <1>1, <1>2, <2>1, <2>2 DEF Analysed
  <2>4. LeastFacts(source, in)'
    BY <1>1, <2>1, <2>2 DEF LeastFacts
  <2>5. QED
    BY <2>1, <2>3, <2>4 DEF Analysing
<1>4. CASE lpc # "done"
  <2>1. Live!Step /\ pc' = "live"
    BY <1>1, <1>4 DEF Liveness
  <2>2. Sets!Next
    BY <1>1, <2>1, SameLiveStep DEF Sets!Next
  <2>3. Sets!IInv' /\ Sets!Least'
    BY <1>2, <2>2, FunctionsAll, Sets!VisitIInv, Sets!EndSweepIInv, Sets!LeastStep
       DEF Sets!Next, Sets!Step
  <2>4. Analysed'
    BY <1>1, <1>2, <2>1 DEF Analysed
  <2>5. QED
    BY <2>1, <2>3, <2>4 DEF Analysing
<1>5. QED
  BY <1>3, <1>4

\* The passes after the analyses change neither the source nor what they found.
LEMMA StaysAnalysed ==
  ASSUME Analysed, Analysing, UNCHANGED <<source, domVars, liveVars>>,
         pc \notin {"dom", "live"}, pc' \in {"phis", "rename", "done"}
  PROVE  Analysed' /\ Analysing'
<1>1. LeastFacts(source, in)'
  BY DEF Analysing, LeastFacts, liveVars
<1>2. QED
  BY <1>1 DEF Analysed, Analysing, domVars, liveVars

\* A step that changes nothing keeps what the analyses know of their variables.
LEMMA StutterAnalysed ==
  ASSUME Analysed, Analysing, UNCHANGED vars
  PROVE  Analysed' /\ Analysing'
<1>1. UNCHANGED <<f, source, domVars, liveVars, pc>>
  BY DEF vars
<1>2. CASE pc = "dom"
  <2>1. UNCHANGED Tree!vars
    BY <1>1 DEF Tree!vars, Tree!domVars, domVars
  <2>2. Tree!AInv'
    BY <1>2, <2>1, PreparedAll, Tree!AStep DEF Analysing
  <2>3. Live!Start'
    BY <1>1, <1>2 DEF Analysing, Live!Start, Live!Blocks, liveVars
  <2>4. QED
    BY <1>1, <1>2, <2>2, <2>3 DEF Analysed, Analysing
<1>3. CASE pc = "live"
  <2>1. UNCHANGED Sets!vars
    BY <1>1 DEF Sets!vars, Sets!liveVars, liveVars
  <2>2. Sets!IInv' /\ Sets!Least'
    BY <1>3, <2>1, FunctionsAll, Sets!StutterIInv, Sets!LeastStep DEF Analysing
  <2>3. QED
    BY <1>1, <1>3, <2>2 DEF Analysed, Analysing, domVars
<1>4. CASE pc \notin {"dom", "live"}
  BY <1>1, <1>4, StaysAnalysed DEF Analysed
<1>5. QED
  BY <1>2, <1>3, <1>4

\* Every step keeps what the analyses found.
LEMMA AnalysedStep ==
  ASSUME Analysed, Analysing, [Next]_vars
  PROVE  Analysed' /\ Analysing'
<1>1. CASE PlacePhis \/ NextTemp \/ Enter \/ RenamePhi \/ RenameIns \/ EndBlock \/ Return \/ Finish
  <2>1. UNCHANGED <<source, domVars, liveVars>> /\ pc \in {"phis", "rename"}
        /\ pc' \in {"phis", "rename", "done"}
    BY <1>1 DEF PlacePhis, NextTemp, Enter, RenamePhi, RenameIns, EndBlock, Return, Finish
  <2>2. QED
    BY <2>1, StaysAnalysed, SMTT(30)
<1>2. QED
  BY <1>1, FillDomAnalysed, LivenessAnalysed, StutterAnalysed DEF Next

\* It is an invariant of the specification.
LEMMA AInvHolds == Spec => []AInv
<1>1. Init => AInv
  BY InitNInv, InitAnalysing DEF AInv
<1>2. AInv /\ [Next]_vars => AInv'
  <2> SUFFICES ASSUME AInv, [Next]_vars PROVE AInv'
    OBVIOUS
  <2>1. Analysed /\ Analysing /\ NInv
    BY DEF AInv, NInv, UInv, SInv
  <2>2. Analysed' /\ Analysing'
    BY <2>1, AnalysedStep
  <2>3. QED
    BY <2>1, <2>2, NInvStep DEF AInv
<1>3. QED
  BY <1>1, <1>2, PTL DEF Spec

(***************************************************************************)
(* SSA.TypeOK for every function: through insertPhis and rename            *)
(* (src/analysis/ssa.go) the function stays well formed, every phi with as *)
(* many blocks as arguments, and newToOld leads from every name to a       *)
(* temporary of the source.                                                *)
(***************************************************************************)
THEOREM TypesThroughRenaming == Spec => []TypeOK
<1>1. AInv => TypeOK
  BY TypesHold DEF AInv, NInv, UInv
<1>2. QED
  BY <1>1, AInvHolds, PTL

(***************************************************************************)
(* SSA.NamesOnPath for every function: while walk runs, a stack of rename  *)
(* holds names given on the path of the dominator tree down to the block   *)
(* it is in, the later calls' on top: a call that returns leaves nothing.  *)
(***************************************************************************)
THEOREM NamesAlongPath == Spec => []NamesOnPath
<1>1. AInv => NamesOnPath
  BY PathHolds DEF AInv, NInv, UInv
<1>2. QED
  BY <1>1, AInvHolds, PTL

(***************************************************************************)
(* Verify.SSAForm for every function: what SSA leaves is SSA form.  No     *)
(* temporary has two definitions, a definition dominates its uses (those   *)
(* of phis at the end of the predecessor), and a phi has at most one       *)
(* argument for an edge; if the source reads nothing before writing it,    *)
(* everything read has a definition, phis have an argument for every edge, *)
(* and VerifySSA (src/analysis/verify.go) accepts the function.            *)
(***************************************************************************)
THEOREM FormReached == Spec => []SSAForm
<1>1. AInv => SSAForm
  BY FormHolds DEF AInv, NInv
<1>2. QED
  BY <1>1, AInvHolds, PTL

(***************************************************************************)
(* SSA.NoDeadPhis for every function: of any set of phis, an instruction,  *)
(* a jump or a phi outside the set reads one, so none lives off itself or  *)
(* off others that nothing reads.  insertPhis asks Liveness, before the    *)
(* renaming, where a temporary is needed (src/analysis/ssa.go:108).        *)
(***************************************************************************)
THEOREM Pruned == Spec => []NoDeadPhis
<1>1. AInv => NoDeadPhis
  <2>1. CASE pc = "done"
    BY <2>1, NoneDead DEF AInv, Analysing
  <2>2. CASE pc # "done"
    BY <2>2 DEF NoDeadPhis
  <2>3. QED
    BY <2>1, <2>2
<1>2. QED
  BY <1>1, AInvHolds, PTL
=============================================================================
