--------------------------- MODULE LivenessProofs ---------------------------
(***************************************************************************)
(* What Liveness computes, for every function: the least solution of its   *)
(* dataflow equations.  The equations are monotone (NewOutMonotone,        *)
(* NewInMonotone), so In and Out stay inside every solution while they     *)
(* grow, and an unchanged sweep has seen every equation hold.  The sets of *)
(* temporaries live along paths are such a solution (PathsCover), so no    *)
(* dead temporary is ever in In or Out; and where no edge wipes what       *)
(* another needs, they are the least one (Exactness).                      *)
(***************************************************************************)
EXTENDS Liveness, GraphProofs

LEMMA Shape ==
  ASSUME IsFunction(f)
  PROVE  /\ f.n \in Nat \ {0}
         /\ \A b \in Blocks(f) : /\ f.s1[b] \in Blocks(f) \cup {Nil}
                                /\ f.s2[b] \in Blocks(f) \cup {Nil}
BY DEF IsFunction

(***************************************************************************)
(* Temporaries a well-formed function mentions are temporaries it has.     *)
(***************************************************************************)
LEMMA GenType ==
  ASSUME IsFunction(f), NEW b \in Blocks(f)
  PROVE  Gen(b) \subseteq Temps(f)
<1>1. TmpsOf({f.jmp[b].arg}) \subseteq Temps(f)
  BY DEF IsFunction, RefOK, TmpsOf
<1>2. ASSUME NEW k \in DOMAIN f.ins[b]
      PROVE  Uses(f.ins[b][k]) \subseteq Temps(f)
  BY DEF IsFunction, RefOK, Uses, TmpsOf
<1>3. QED
  BY <1>1, <1>2 DEF Gen

LEMMA PhiUsesType ==
  ASSUME IsFunction(f), NEW b \in Blocks(f), NEW s \in Blocks(f)
  PROVE  PhiUses(b, s) \subseteq Temps(f)
<1>1. ASSUME NEW i \in DOMAIN f.phis[s], NEW k \in DOMAIN f.phis[s][i].args,
             IsTmp(f.phis[s][i].args[k])
      PROVE  f.phis[s][i].args[k].val \in Temps(f)
  BY <1>1 DEF IsFunction, RefOK, Elems
<1>2. QED
  BY <1>1 DEF PhiUses, TmpsOf, Elems

LEMMA NewOutType ==
  ASSUME IsFunction(f), NEW b \in Blocks(f), NEW I \in Candidates
  PROVE  NewOut(b, I) \subseteq Temps(f)
<1>1. f.s1[b] \in Blocks(f) \cup {Nil} /\ f.s2[b] \in Blocks(f) \cup {Nil}
  BY Shape
<1>2. ASSUME NEW v \in SUBSET Temps(f), NEW s \in Blocks(f) \cup {Nil}
      PROVE  LiveOn(v, b, s, I) \in SUBSET Temps(f)
  BY PhiUsesType DEF LiveOn, Candidates
<1>3. QED
  BY <1>1, <1>2 DEF NewOut

LEMMA NewInType ==
  ASSUME IsFunction(f), NEW b \in Blocks(f), NEW o \in SUBSET Temps(f)
  PROVE  NewIn(b, o) \subseteq Temps(f)
BY GenType DEF NewIn

(***************************************************************************)
(* Monotonicity: larger sets below a block require no less of it.          *)
(***************************************************************************)
LEMMA NewOutMonotone ==
  ASSUME IsFunction(f), NEW b \in Blocks(f),
         NEW I \in Candidates, NEW J \in Candidates,
         \A c \in Blocks(f) : I[c] \subseteq J[c]
  PROVE  NewOut(b, I) \subseteq NewOut(b, J)
<1>1. f.s1[b] \in Blocks(f) \cup {Nil} /\ f.s2[b] \in Blocks(f) \cup {Nil}
  BY Shape
<1>2. ASSUME NEW v, NEW w, v \subseteq w, NEW s \in Blocks(f) \cup {Nil}
      PROVE  LiveOn(v, b, s, I) \subseteq LiveOn(w, b, s, J)
  BY <1>2 DEF LiveOn
<1>3. LiveOn({}, b, f.s1[b], I) \subseteq LiveOn({}, b, f.s1[b], J)
  BY <1>1, <1>2
<1>4. QED
  BY <1>1, <1>2, <1>3 DEF NewOut

LEMMA NewInMonotone ==
  ASSUME NEW b, NEW o, NEW p, o \subseteq p
  PROVE  NewIn(b, o) \subseteq NewIn(b, p)
BY DEF NewIn

-----------------------------------------------------------------------------
(***************************************************************************)
(* The inductive invariant.  A sweep that has changed nothing so far has   *)
(* left every block it visited satisfying its equations: this is what the  *)
(* flag stands for, and what makes stopping right.                         *)
(***************************************************************************)
Settled(b) == NewOut(b, in) \subseteq out[b] /\ NewIn(b, out[b]) \subseteq in[b]

FlagMeans ==
  /\ pc = "sweep" /\ ~changed => \A b \in Blocks(f) : b > pos => Settled(b)
  /\ pc = "done" => \A b \in Blocks(f) : Settled(b)

IInv == TypeOK /\ Supported /\ FlagMeans

LEMMA StartIInv == IsFunction(f) /\ Start => IInv
<1> SUFFICES ASSUME IsFunction(f) /\ Start PROVE IInv
  OBVIOUS
<1>1. IsFunction(f) /\ Start
  OBVIOUS
<1>2. f.n \in Nat \ {0}
  BY <1>1, Shape
<1>3. TypeOK
  <2>1. in \in [Blocks(f) -> SUBSET Temps(f)] /\ out \in [Blocks(f) -> SUBSET Temps(f)]
    BY <1>1 DEF Start
  <2>2. pos \in -1 .. f.n - 1
    BY <1>1, <1>2 DEF Start
  <2>3. QED
    BY <1>1, <2>1, <2>2 DEF TypeOK, Start
<1>4. Supported /\ FlagMeans
  BY <1>1, <1>2 DEF Supported, FlagMeans, Start, Blocks
<1>5. QED
  BY <1>3, <1>4 DEF IInv

LEMMA InitIInv == Init => IInv
BY FunctionsAssumption, StartIInv DEF Init

(***************************************************************************)
(* The equations mention no variable but f, In and Out.                    *)
(***************************************************************************)
LEMMA Frame ==
  ASSUME UNCHANGED <<f, in, out>>
  PROVE  /\ Supported' <=> Supported
         /\ \A b : Settled(b)' <=> Settled(b)
<1>1. \A b : /\ NewOut(b, in)' = NewOut(b, in)
             /\ NewIn(b, out[b])' = NewIn(b, out[b])
  BY DEF NewOut, NewIn, LiveOn, Kill, Gen, KilledBefore, PhiDefs, PhiUses
<1>2. \A b : Settled(b)' <=> Settled(b)
  BY <1>1 DEF Settled
<1>3. Supported' <=> Supported
  BY <1>1 DEF Supported
<1>4. QED
  BY <1>2, <1>3

(***************************************************************************)
(* One visit: the new sets are the old ones with pos's equations added.    *)
(***************************************************************************)
LEMMA VisitIInv ==
  ASSUME IInv, Visit, UNCHANGED f
  PROVE  IInv'
<1> DEFINE o == out[pos] \cup NewOut(pos, in)
           i == in[pos] \cup NewIn(pos, o)
<1>1. /\ IsFunction(f) /\ f.n \in Nat \ {0}
      /\ in \in Candidates /\ out \in Candidates
      /\ pos \in Blocks(f) /\ pos \in Int
  BY Shape DEF IInv, TypeOK, Visit, Candidates, Blocks
<1>2. o \in SUBSET Temps(f) /\ i \in SUBSET Temps(f)
  BY <1>1, NewOutType, NewInType DEF Candidates
<1>3. /\ out' = [out EXCEPT ![pos] = o] /\ in' = [in EXCEPT ![pos] = i]
      /\ changed' = (changed \/ o # out[pos] \/ i # in[pos])
      /\ pos' = pos - 1 /\ pc' = "sweep" /\ pc = "sweep"
  BY DEF Visit
<1>4. in' \in Candidates /\ out' \in Candidates
  BY <1>1, <1>2, <1>3 DEF Candidates
<1>5. \A b \in Blocks(f) : in[b] \subseteq in'[b] /\ out[b] \subseteq out'[b]
  BY <1>1, <1>3 DEF Candidates
<1>6. TypeOK'
  <2>1. pos' \in -1 .. f.n - 1
    BY <1>1, <1>3 DEF Blocks
  <2>2. changed' \in BOOLEAN
    BY <1>3
  <2>3. QED
    BY <1>1, <1>3, <1>4, <2>1, <2>2 DEF TypeOK, Candidates
<1>7. Supported'
  <2> SUFFICES ASSUME NEW b \in Blocks(f)
               PROVE  out'[b] \subseteq NewOut(b, in)' /\ in'[b] \subseteq NewIn(b, out[b])'
    BY DEF Supported
  <2>1. /\ NewOut(b, in)' = NewOut(b, in') /\ NewIn(b, out[b])' = NewIn(b, out'[b])
    BY DEF NewOut, NewIn, LiveOn, Kill, Gen, KilledBefore, PhiDefs, PhiUses
  <2>2. out[b] \subseteq NewOut(b, in) /\ in[b] \subseteq NewIn(b, out[b])
    BY DEF IInv, Supported
  <2>3. NewOut(b, in) \subseteq NewOut(b, in')
    BY <1>1, <1>4, <1>5, NewOutMonotone
  <2>4. NewIn(b, out[b]) \subseteq NewIn(b, out'[b])
    BY <1>5, NewInMonotone
  <2>5. CASE b = pos
    <3>1. out'[b] = o /\ in'[b] = i
      BY <1>1, <1>3, <2>5 DEF Candidates
    <3>2. QED
      BY <2>1, <2>2, <2>3, <2>4, <2>5, <3>1
  <2>6. CASE b # pos
    BY <1>1, <1>3, <2>1, <2>2, <2>3, <2>4, <2>6 DEF Candidates
  <2>7. QED
    BY <2>5, <2>6
<1>8. FlagMeans'
  <2> SUFFICES ASSUME ~changed', NEW b \in Blocks(f), b > pos'
               PROVE  Settled(b)'
    BY <1>3 DEF FlagMeans
  <2>1. o = out[pos] /\ i = in[pos] /\ ~changed
    BY <1>3
  <2>2. out' = out /\ in' = in
    BY <1>1, <1>3, <2>1 DEF Candidates
  <2>3. Settled(b)' <=> Settled(b)
    BY <2>2, Frame
  <2>4. CASE b = pos
    BY <2>1, <2>3, <2>4 DEF Settled
  <2>5. CASE b # pos
    <3>1. b > pos
      BY <1>1, <1>3, <2>5 DEF Blocks
    <3>2. QED
      BY <1>3, <2>1, <2>3, <3>1 DEF IInv, FlagMeans
  <2>6. QED
    BY <2>4, <2>5
<1>9. QED
  BY <1>6, <1>7, <1>8 DEF IInv

LEMMA EndSweepIInv ==
  ASSUME IInv, EndSweep, UNCHANGED f
  PROVE  IInv'
<1>1. /\ IsFunction(f) /\ f.n \in Nat \ {0} /\ pos \in -1 .. f.n - 1
      /\ in' = in /\ out' = out
  BY Shape DEF IInv, TypeOK, EndSweep
<1>2. TypeOK'
  <2>1. CASE changed
    <3>1. pos' = f.n - 1 /\ changed' = FALSE /\ pc' = "sweep"
      BY <2>1 DEF EndSweep
    <3>2. pos' \in -1 .. f.n - 1
      BY <1>1, <3>1
    <3>3. QED
      BY <1>1, <3>1, <3>2 DEF IInv, TypeOK
  <2>2. CASE ~changed
    BY <1>1, <2>2 DEF EndSweep, IInv, TypeOK
  <2>3. QED
    BY <2>1, <2>2
<1>3. Supported'
  BY <1>1, Frame DEF IInv
<1>4. FlagMeans'
  <2> SUFFICES ASSUME NEW b \in Blocks(f),
                      \/ pc' = "sweep" /\ ~changed' /\ b > pos'
                      \/ pc' = "done"
               PROVE  Settled(b)'
    BY DEF FlagMeans
  <2>1. Settled(b)' <=> Settled(b)
    BY <1>1, Frame
  <2>2. CASE changed
    BY <1>1, <2>2 DEF EndSweep, Blocks
  <2>3. CASE ~changed
    <3>1. b > pos
      BY <1>1 DEF EndSweep, Blocks
    <3>2. QED
      BY <2>1, <2>3, <3>1 DEF EndSweep, IInv, FlagMeans
  <2>4. QED
    BY <2>2, <2>3
<1>5. QED
  BY <1>2, <1>3, <1>4 DEF IInv

LEMMA StutterIInv ==
  ASSUME IInv, UNCHANGED vars
  PROVE  IInv'
<1>1. UNCHANGED <<f, in, out, pos, changed, pc>>
  BY DEF vars, liveVars
<1>2. TypeOK' /\ FlagMeans'
  BY <1>1, Frame DEF IInv, TypeOK, FlagMeans
<1>3. QED
  BY <1>1, <1>2, Frame DEF IInv

(***************************************************************************)
(* IInvariant: the invariant holds in every reachable state.               *)
(***************************************************************************)
THEOREM IInvariant == Spec => []IInv
<1>1. IInv /\ [Next]_vars => IInv'
  BY VisitIInv, EndSweepIInv, StutterIInv DEF Next, Step
<1>2. QED
  BY InitIInv, <1>1, PTL DEF Spec

(***************************************************************************)
(* TypeCorrect: In and Out hold temporaries of the function and the sweep  *)
(* position stays on a block or just in front of the first one.            *)
(***************************************************************************)
THEOREM TypeCorrect == Spec => []TypeOK
<1>1. IInv => TypeOK
  BY DEF IInv
<1>2. QED
  BY IInvariant, <1>1, PTL

(***************************************************************************)
(* Fixpoint: when Liveness returns (live.go:61), In and Out satisfy the    *)
(* dataflow equations of every block, with equality.                       *)
(***************************************************************************)
THEOREM Fixpoint == Spec => []Solved
<1>1. IInv => Solved
  BY DEF IInv, Supported, FlagMeans, Settled, Solved
<1>2. QED
  BY IInvariant, <1>1, PTL

(***************************************************************************)
(* LeastSolution: at every moment, In and Out lie inside every solution of *)
(* the equations.  With Fixpoint, what the pass returns is the least one.  *)
(***************************************************************************)
LEMMA LeastStep ==
  ASSUME IInv, Least, [Next]_vars
  PROVE  Least'
<1> SUFFICES ASSUME NEW I \in Candidates', NEW O \in Candidates', Covers(I, O)',
                    NEW b \in Blocks(f)'
             PROVE  in'[b] \subseteq I[b] /\ out'[b] \subseteq O[b]
  BY DEF Least
<1>1. f' = f
  BY DEF Next, vars
<1>2. /\ I \in Candidates /\ O \in Candidates /\ b \in Blocks(f)
      /\ in \in Candidates /\ out \in Candidates /\ IsFunction(f)
  BY <1>1 DEF Candidates, IInv, TypeOK
<1>3. Covers(I, O)
  <2>1. \A c : NewOut(c, I)' = NewOut(c, I) /\ NewIn(c, O[c])' = NewIn(c, O[c])
    BY <1>1 DEF NewOut, NewIn, LiveOn, Kill, Gen, KilledBefore, PhiDefs, PhiUses
  <2>2. QED
    BY <1>1, <2>1 DEF Covers
<1>4. \A c \in Blocks(f) : in[c] \subseteq I[c] /\ out[c] \subseteq O[c]
  BY <1>2, <1>3 DEF Least
<1>5. CASE Visit
  <2> DEFINE o == out[pos] \cup NewOut(pos, in)
             i == in[pos] \cup NewIn(pos, o)
  <2>1. pos \in Blocks(f)
    BY <1>5, Shape DEF IInv, TypeOK, Visit, Blocks
  <2>2. out' = [out EXCEPT ![pos] = o] /\ in' = [in EXCEPT ![pos] = i]
    BY <1>5 DEF Visit
  <2>3. NewOut(pos, in) \subseteq NewOut(pos, I)
    BY <1>2, <1>4, <2>1, NewOutMonotone
  <2>4. o \subseteq O[pos]
    BY <1>3, <1>4, <2>1, <2>3 DEF Covers
  <2>5. NewIn(pos, o) \subseteq NewIn(pos, O[pos])
    BY <2>4, NewInMonotone
  <2>6. i \subseteq I[pos]
    BY <1>3, <1>4, <2>1, <2>5 DEF Covers
  <2>7. QED
    BY <1>2, <1>4, <2>1, <2>2, <2>4, <2>6 DEF Candidates
<1>6. CASE ~Visit
  <2>1. in' = in /\ out' = out
    BY <1>6 DEF Next, Step, EndSweep, vars, liveVars
  <2>2. QED
    BY <1>2, <1>4, <2>1
<1>7. QED
  BY <1>5, <1>6

THEOREM LeastSolution == Spec => []Least
<1>1. Init => Least
  BY DEF Init, Start, Least
<1>2. IInv /\ Least /\ [Next]_vars => Least'
  BY LeastStep
<1>3. QED
  BY IInvariant, <1>1, <1>2, PTL DEF Spec

-----------------------------------------------------------------------------
(***************************************************************************)
(* Exact.  The path sets solve the equations: what a block needs of its    *)
(* successor is carried by the successor's path, the block put in front.   *)
(* The path in front of which it is put is a shortest one: it meets no     *)
(* block twice, so there is room for the block unless it is on the path,   *)
(* and then the path is cut to start at it.                                *)
(***************************************************************************)
LivePath(t, p, m) ==
  /\ m \in Nat \ {0} /\ p \in [1 .. m -> Blocks(f)]
  /\ \A i \in 1 .. m - 1 : p[i + 1] \in Succs(f, p[i]) /\ ~Writes(t, p[i])
  /\ \A i \in 2 .. m : t \notin PhiDefs(p[i])
  /\ \/ ReadsFirst(t, p[m])
     \/ ~Writes(t, p[m]) /\ \E s \in Succs(f, p[m]) : t \in PhiUses(p[m], s)

LEMMA PathLen ==
  ASSUME NEW m \in Nat, NEW p \in [1 .. m -> Blocks(f)]
  PROVE  Len(p) = m
<1>1. p \in Seq(Blocks(f)) /\ DOMAIN p = 1 .. m
  OBVIOUS
<1>2. QED
  BY <1>1

LEMMA LiveMeans ==
  ASSUME f.n \in Nat \ {0}, NEW b \in Blocks(f), NEW t
  PROVE  t \in LiveAtEntry(b) <=>
           t \in Temps(f) /\ \E m \in 1 .. f.n : \E p : p[1] = b /\ LivePath(t, p, m)
<1>1. ASSUME t \in LiveAtEntry(b)
      PROVE  t \in Temps(f) /\ \E m \in 1 .. f.n : \E p : p[1] = b /\ LivePath(t, p, m)
  <2>1. PICK p \in Paths(b) : /\ ReadsAtEnd(t, p)
                              /\ \A i \in 1 .. Len(p) - 1 : ~Writes(t, p[i])
                              /\ \A i \in 2 .. Len(p) : t \notin PhiDefs(p[i])
    BY <1>1 DEF LiveAtEntry
  <2>2. PICK m \in 1 .. f.n : p \in [1 .. m -> Blocks(f)]
    BY DEF Paths
  <2>3. Len(p) = m
    BY <2>2, PathLen
  <2>4. p[1] = b /\ \A i \in 1 .. m - 1 : p[i + 1] \in Succs(f, p[i])
    BY <2>3 DEF Paths
  <2>5. LivePath(t, p, m)
    BY <2>1, <2>2, <2>3, <2>4 DEF LivePath, ReadsAtEnd
  <2>6. QED
    BY <1>1, <2>4, <2>5 DEF LiveAtEntry
<1>2. ASSUME t \in Temps(f), NEW m \in 1 .. f.n, NEW p, p[1] = b, LivePath(t, p, m)
      PROVE  t \in LiveAtEntry(b)
  <2>1. Len(p) = m /\ p \in [1 .. m -> Blocks(f)]
    BY <1>2, PathLen DEF LivePath
  <2>2. p \in Paths(b)
    BY <1>2, <2>1 DEF LivePath, Paths
  <2>3. QED
    BY <1>2, <2>1, <2>2 DEF LivePath, LiveAtEntry, ReadsAtEnd
<1>3. QED
  BY <1>1, <1>2

LEMMA ShortestPath ==
  ASSUME f.n \in Nat \ {0}, NEW t, NEW m \in Nat, NEW p, LivePath(t, p, m)
  PROVE  \E n \in Nat : \E q : /\ LivePath(t, q, n) /\ q[1] = p[1]
                                /\ \A i, j \in 1 .. n : q[i] = q[j] => i = j
<1> DEFINE L == {n \in Nat : \E q : LivePath(t, q, n) /\ q[1] = p[1]}
<1>1. PICK n \in L : \A j \in L : n <= j
  <2>1. L \in SUBSET Nat /\ L # {}
    OBVIOUS
  <2> HIDE DEF L
  <2>2. QED
    BY <2>1, LeastNat
<1>2. PICK q : LivePath(t, q, n) /\ q[1] = p[1]
  BY <1>1
<1>3. n \in Nat \ {0}
  BY <1>2 DEF LivePath
<1>4. ASSUME NEW i \in 1 .. n, NEW j \in 1 .. n, q[i] = q[j], i < j
      PROVE  FALSE
  <2> DEFINE d == j - i
             r == [k \in 1 .. n - d |-> IF k <= i THEN q[k] ELSE q[k + d]]
  <2>1. d \in Nat \ {0} /\ n - d \in Nat \ {0} /\ ~(n <= n - d) /\ i \in 1 .. n - d
    BY <1>3, <1>4
  <2>2. q \in [1 .. n -> Blocks(f)]
    BY <1>2 DEF LivePath
  <2>3. \A k \in 1 .. n - d : k > i => k + d \in 1 .. n
    BY <1>3, <1>4
  <2>4. r \in [1 .. n - d -> Blocks(f)]
    BY <2>1, <2>2, <2>3
  <2>5. ASSUME NEW k \in 1 .. n - d - 1
        PROVE  r[k + 1] \in Succs(f, r[k]) /\ ~Writes(t, r[k])
    <3>1. CASE k < i
      <4>1. r[k] = q[k] /\ r[k + 1] = q[k + 1] /\ k \in 1 .. n - 1
        BY <1>3, <1>4, <3>1
      <4>2. QED
        BY <1>2, <4>1 DEF LivePath
    <3>2. CASE k = i
      <4>1. r[k] = q[j] /\ r[k + 1] = q[j + 1] /\ j \in 1 .. n - 1
        BY <1>3, <1>4, <3>2
      <4>2. QED
        BY <1>2, <4>1 DEF LivePath
    <3>3. CASE k > i
      <4>1. /\ r[k] = q[k + d] /\ r[k + 1] = q[(k + d) + 1]
            /\ k + d \in 1 .. n - 1
        BY <1>3, <1>4, <3>3
      <4>2. QED
        BY <1>2, <4>1 DEF LivePath
    <3>4. QED
      BY <1>4, <3>1, <3>2, <3>3
  <2>6. ASSUME NEW k \in 2 .. n - d
        PROVE  t \notin PhiDefs(r[k])
    <3>1. CASE k <= i
      <4>1. r[k] = q[k] /\ k \in 2 .. n
        BY <1>3, <1>4, <3>1
      <4>2. QED
        BY <1>2, <4>1 DEF LivePath
    <3>2. CASE k > i
      <4>1. r[k] = q[k + d] /\ k + d \in 2 .. n
        BY <1>3, <1>4, <3>2
      <4>2. QED
        BY <1>2, <4>1 DEF LivePath
    <3>3. QED
      BY <1>4, <3>1, <3>2
  <2>7. r[n - d] = q[n]
    <3>1. CASE j = n
      <4>1. n - d = i
        BY <1>3, <3>1
      <4>2. QED
        BY <1>4, <2>1, <3>1, <4>1
    <3>2. CASE j # n
      <4>1. n - d > i /\ (n - d) + d = n
        BY <1>3, <1>4, <3>2
      <4>2. QED
        BY <2>1, <4>1
    <3>3. QED
      BY <3>1, <3>2
  <2>8. r[1] = p[1]
    BY <1>2, <1>4, <2>1
  <2> HIDE DEF d, r
  <2>9. LivePath(t, r, n - d)
    BY <1>2, <2>1, <2>4, <2>5, <2>6, <2>7 DEF LivePath
  <2>10. n - d \in L
    BY <2>1, <2>8, <2>9
  <2>11. QED
    BY <1>1, <2>1, <2>10
<1>5. \A i, j \in 1 .. n : q[i] = q[j] => i = j
  BY <1>3, <1>4
<1>6. QED
  BY <1>2, <1>3, <1>5
LEMMA Prepend ==
  ASSUME IsFunction(f), NEW b \in Blocks(f), NEW s \in Succs(f, b), NEW t,
         t \in LiveAtEntry(s) \ PhiDefs(s), ~Writes(t, b)
  PROVE  t \in LiveAtEntry(b)
<1>1. f.n \in Nat \ {0} /\ s \in Blocks(f)
  BY Shape DEF Succs
<1>a. PICK m0 \in 1 .. f.n : \E p0 : p0[1] = s /\ LivePath(t, p0, m0)
  BY <1>1, LiveMeans
<1>2. PICK p0 : p0[1] = s /\ LivePath(t, p0, m0)
  BY <1>a
<1>b. PICK m \in Nat : \E p : /\ LivePath(t, p, m) /\ p[1] = s
                              /\ \A i, j \in 1 .. m : p[i] = p[j] => i = j
  <2>1. m0 \in Nat
    OBVIOUS
  <2>2. QED
    BY <1>1, <1>2, <2>1, ShortestPath
<1>3. PICK p : /\ LivePath(t, p, m) /\ p[1] = s
               /\ \A i, j \in 1 .. m : p[i] = p[j] => i = j
  BY <1>b
<1>4. m \in Nat \ {0} /\ p \in [1 .. m -> Blocks(f)]
  BY <1>3 DEF LivePath
<1>5. t \in Temps(f)
  BY <1>1, LiveMeans
<1>6. CASE \E i \in 1 .. m : p[i] = b
  <2>1. PICK i \in 1 .. m : p[i] = b
    BY <1>6
  <2> DEFINE n == m - (i - 1)
             q == [k \in 1 .. n |-> p[k + (i - 1)]]
  <2>2. n \in Nat \ {0} /\ \A k \in 1 .. n : k + (i - 1) \in 1 .. m
    BY <1>4
  <2>3. q \in [1 .. n -> Blocks(f)]
    BY <1>4, <2>2
  <2>4. q[1] = b /\ q[n] = p[m]
    BY <1>4, <2>1, <2>2
  <2>5. ASSUME NEW k \in 1 .. n - 1
        PROVE  q[k + 1] \in Succs(f, q[k]) /\ ~Writes(t, q[k])
    <3>1. q[k] = p[k + (i - 1)] /\ q[k + 1] = p[(k + (i - 1)) + 1] /\ k + (i - 1) \in 1 .. m - 1
      BY <1>4
    <3>2. QED
      BY <1>3, <3>1 DEF LivePath
  <2>6. ASSUME NEW k \in 2 .. n
        PROVE  t \notin PhiDefs(q[k])
    <3>1. q[k] = p[k + (i - 1)] /\ k + (i - 1) \in 2 .. m
      BY <1>4
    <3>2. QED
      BY <1>3, <3>1 DEF LivePath
  <2>7. n \in 1 .. f.n
    <3>1. IsFiniteSet(Blocks(f)) /\ Cardinality(Blocks(f)) = f.n
      BY <1>1, FiniteBlocks
    <3>2. IsFiniteSet(1 .. m) /\ Cardinality(1 .. m) = m
      BY <1>4, FS_Interval
    <3>3. ~(f.n < m)
      BY <1>3, <1>4, <3>1, <3>2, FS_PigeonHole
    <3>4. QED
      BY <1>1, <1>4, <2>2, <3>3
  <2> HIDE DEF n, q
  <2>8. LivePath(t, q, n)
    BY <1>3, <2>2, <2>3, <2>4, <2>5, <2>6 DEF LivePath
  <2>9. QED
    BY <1>1, <1>5, <2>4, <2>7, <2>8, LiveMeans
<1>7. CASE \A i \in 1 .. m : p[i] # b
  <2> DEFINE q == [k \in 1 .. m + 1 |-> IF k = 1 THEN b ELSE p[k - 1]]
  <2>1. q \in [1 .. m + 1 -> Blocks(f)] /\ q[1] = b /\ q[m + 1] = p[m]
    BY <1>4
  <2>2. ASSUME NEW k \in 1 .. m
        PROVE  q[k + 1] \in Succs(f, q[k]) /\ ~Writes(t, q[k])
    <3>1. CASE k = 1
      BY <1>3, <1>4, <3>1
    <3>2. CASE k # 1
      <4>1. q[k] = p[k - 1] /\ q[k + 1] = p[(k - 1) + 1] /\ k - 1 \in 1 .. m - 1
        BY <1>4, <3>2
      <4>2. QED
        BY <1>3, <4>1 DEF LivePath
    <3>3. QED
      BY <3>1, <3>2
  <2>3. ASSUME NEW k \in 2 .. m + 1
        PROVE  t \notin PhiDefs(q[k])
    <3>1. CASE k = 2
      <4>1. q[k] = s
        BY <1>3, <1>4, <3>1
      <4>2. QED
        BY <4>1
    <3>2. CASE k # 2
      <4>1. q[k] = p[k - 1] /\ k - 1 \in 2 .. m
        BY <1>4, <3>2
      <4>2. QED
        BY <1>3, <4>1 DEF LivePath
    <3>3. QED
      BY <3>1, <3>2
  <2>4. m + 1 \in 1 .. f.n
    <3>1. IsFiniteSet(Blocks(f)) /\ Cardinality(Blocks(f)) = f.n
      BY <1>1, FiniteBlocks
    <3>2. /\ IsFiniteSet(Blocks(f) \ {b})
          /\ Cardinality(Blocks(f) \ {b}) = f.n - 1
      BY <3>1, FS_RemoveElement
    <3>3. IsFiniteSet(1 .. m) /\ Cardinality(1 .. m) = m
      BY <1>4, FS_Interval
    <3>4. p \in [1 .. m -> Blocks(f) \ {b}]
      BY <1>4, <1>7
    <3>5. ~(f.n - 1 < m)
      BY <1>3, <3>2, <3>3, <3>4, FS_PigeonHole
    <3>6. QED
      BY <1>1, <1>4, <3>5
  <2> HIDE DEF q
  <2>5. LivePath(t, q, m + 1)
    <3>1. m + 1 \in Nat \ {0} /\ m + 1 - 1 = m
      BY <1>4
    <3>2. QED
      BY <1>3, <2>1, <2>2, <2>3, <3>1 DEF LivePath
  <2>6. QED
    BY <1>1, <1>5, <2>1, <2>4, <2>5, LiveMeans
<1>8. QED
  BY <1>6, <1>7

LEMMA HereLive ==                \* a block that reads at its end or before it writes
  ASSUME IsFunction(f), NEW b \in Blocks(f), NEW t \in Temps(f),
         \/ ReadsFirst(t, b)
         \/ ~Writes(t, b) /\ \E s \in Succs(f, b) : t \in PhiUses(b, s)
  PROVE  t \in LiveAtEntry(b)
<1> DEFINE p == [k \in 1 .. 1 |-> b]
<1>1. f.n \in Nat \ {0} /\ 1 \in 1 .. f.n
  BY Shape
<1>2. p \in [1 .. 1 -> Blocks(f)] /\ p[1] = b /\ 1 .. 1 - 1 = {} /\ 2 .. 1 = {}
  OBVIOUS
<1> HIDE DEF p
<1>3. LivePath(t, p, 1)
  BY <1>2 DEF LivePath
<1>4. QED
  BY <1>1, <1>2, <1>3, LiveMeans

LEMMA GenMeans ==
  ASSUME NEW b, NEW t
  PROVE  /\ t \in Gen(b) <=> ReadsFirst(t, b)
         /\ t \in Kill(b) <=> Writes(t, b)
<1>1. t \in Kill(b) <=> Writes(t, b)
  BY DEF Kill, Writes
<1>2. \A k : t \in KilledBefore(b, k) <=> \E j \in 1 .. k - 1 : t \in Defs(f.ins[b][j])
  BY DEF KilledBefore
<1>3. QED
  BY <1>1, <1>2 DEF Gen, ReadsFirst

LiveIn  == [b \in Blocks(f) |-> LiveAtEntry(b)]
LiveOut == [b \in Blocks(f) |-> LiveAtExit(b)]

LEMMA PathsCover ==
  ASSUME IsFunction(f)
  PROVE  LiveIn \in Candidates /\ LiveOut \in Candidates /\ Covers(LiveIn, LiveOut)
<1>1. \A b \in Blocks(f) : LiveAtEntry(b) \in SUBSET Temps(f)
  BY DEF LiveAtEntry
<1>2. \A b \in Blocks(f) : \A s \in Succs(f, b) : s \in Blocks(f)
  BY Shape DEF Succs
<1>3. \A b \in Blocks(f) : LiveAtExit(b) \in SUBSET Temps(f)
  BY <1>1, <1>2, PhiUsesType DEF LiveAtExit
<1>4. ASSUME NEW b \in Blocks(f)
      PROVE  NewOut(b, LiveIn) \subseteq LiveAtExit(b)
  <2>1. ASSUME NEW s \in Blocks(f) \cup {Nil}, s \in {f.s1[b], f.s2[b]},
               NEW v \in SUBSET LiveAtExit(b)
        PROVE  LiveOn(v, b, s, LiveIn) \in SUBSET LiveAtExit(b)
    <3>1. s # Nil => LiveIn[s] = LiveAtEntry(s) /\ s \in Succs(f, b)
      BY <2>1 DEF LiveIn, Succs
    <3>2. QED
      BY <3>1 DEF LiveOn, LiveAtExit
  <2>2. QED
    BY <2>1, Shape DEF NewOut
<1>5. ASSUME NEW b \in Blocks(f), NEW t \in NewIn(b, LiveAtExit(b))
      PROVE  t \in LiveAtEntry(b)
  <2>1. CASE t \in Gen(b)
    <3>1. t \in Temps(f)
      BY <2>1, GenType
    <3>2. QED
      BY <2>1, <3>1, GenMeans, HereLive
  <2>2. CASE t \in LiveAtExit(b) /\ ~Writes(t, b)
    <3>1. PICK s \in Succs(f, b) : t \in (LiveAtEntry(s) \ PhiDefs(s)) \cup PhiUses(b, s)
      BY <2>2 DEF LiveAtExit
    <3>2. t \in Temps(f)
      BY <1>3, <2>2
    <3>3. QED
      BY <2>2, <3>1, <3>2, HereLive, Prepend
  <2>3. QED
    BY <1>5, <2>1, <2>2, GenMeans DEF NewIn
<1>6. QED
  BY <1>1, <1>3, <1>4, <1>5 DEF Covers, LiveIn, LiveOut, Candidates
(***************************************************************************)
(* NothingDead: at every moment a temporary that In or Out holds is live   *)
(* along some path, in every function: nothing is kept alive by mistake.   *)
(***************************************************************************)
OnlyLive == \A b \in Blocks(f) : in[b] \subseteq LiveAtEntry(b) /\ out[b] \subseteq LiveAtExit(b)

LEMMA LeastIsLive ==
  ASSUME IInv, Least
  PROVE  OnlyLive
<1>1. IsFunction(f)
  BY DEF IInv, TypeOK
<1>2. \A b \in Blocks(f) : in[b] \subseteq LiveIn[b] /\ out[b] \subseteq LiveOut[b]
  BY <1>1, PathsCover DEF Least
<1>3. QED
  BY <1>2 DEF OnlyLive, LiveIn, LiveOut

THEOREM NothingDead == Spec => []OnlyLive
<1>1. IInv /\ Least => OnlyLive
  BY LeastIsLive
<1>2. QED
  BY IInvariant, LeastSolution, <1>1, PTL

(***************************************************************************)
(* The other half.  When the equations hold and no edge wipes another's    *)
(* needs, In holds what a path needs: from its end backwards.              *)
(***************************************************************************)
LEMMA EdgeKept ==
  ASSUME IInv, Solved, pc = "done", ~Wiped(f),
         NEW b \in Blocks(f), NEW s \in Succs(f, b)
  PROVE  (in[s] \ PhiDefs(s)) \cup PhiUses(b, s) \subseteq out[b]
<1>1. out[b] = NewOut(b, in)
  BY DEF Solved
<1>2. CASE f.s2[b] = s
  BY <1>1, <1>2 DEF NewOut, LiveOn, Succs
<1>3. CASE f.s2[b] # s
  <2>1. s = f.s1[b] /\ s # Nil
    BY <1>3 DEF Succs
  <2>2. (in[s] \ PhiDefs(s)) \cup PhiUses(b, s) \subseteq LiveOn({}, b, s, in)
    BY <2>1 DEF LiveOn
  <2>3. f.s2[b] = Nil \/ PhiDefs(f.s2[b]) = {}
    <3>1. f.s2[b] = Nil \/ f.phis[f.s2[b]] = <<>>
      BY <1>3, <2>1 DEF Wiped
    <3>2. ASSUME f.phis[f.s2[b]] = <<>> PROVE PhiDefs(f.s2[b]) = {}
      BY <3>2 DEF PhiDefs
    <3>3. QED
      BY <3>1, <3>2
  <2>4. QED
    BY <1>1, <2>1, <2>2, <2>3 DEF NewOut, LiveOn
<1>4. QED
  BY <1>2, <1>3

LEMMA PathKept ==
  ASSUME IInv, Solved, pc = "done", ~Wiped(f),
         NEW t, NEW m \in Nat, NEW p, LivePath(t, p, m)
  PROVE  t \in in[p[1]]
<1> DEFINE Bad == {k \in Nat : k < m /\ t \notin in[p[m - k]]}
<1>1. m \in Nat \ {0} /\ p \in [1 .. m -> Blocks(f)]
  BY DEF LivePath
<1>2. \A b \in Blocks(f) : in[b] = (out[b] \ Kill(b)) \cup Gen(b)
  BY DEF Solved, NewIn
<1>3. ASSUME Bad # {} PROVE FALSE
  <2>1. PICK k \in Bad : \A j \in Bad : k <= j
    <3>1. Bad \in SUBSET Nat
      OBVIOUS
    <3> HIDE DEF Bad
    <3>2. QED
      BY <1>3, <3>1, LeastNat
  <2>2. k \in Nat /\ m - k \in 1 .. m /\ p[m - k] \in Blocks(f)
    BY <1>1
  <2>3. CASE k = 0
    <3> DEFINE l == p[m]
    <3>1. l \in Blocks(f) /\ l = p[m - k]
      BY <1>1, <2>3
    <3>2. CASE ReadsFirst(t, l)
      BY <1>2, <2>1, <3>1, <3>2, GenMeans
    <3>3. CASE ~Writes(t, l) /\ \E s \in Succs(f, l) : t \in PhiUses(l, s)
      BY <1>2, <2>1, <3>1, <3>3, GenMeans, EdgeKept
    <3>4. QED
      BY <3>2, <3>3 DEF LivePath
  <2>4. CASE k # 0
    <3> DEFINE b == p[m - k]
               s == p[m - (k - 1)]
    <3>1. k - 1 \in Nat /\ k - 1 < m /\ ~(k <= k - 1)
      BY <2>1, <2>4
    <3>2. t \in in[s]
      BY <2>1, <3>1
    <3>3. m - (k - 1) = (m - k) + 1 /\ m - k \in 1 .. m - 1 /\ m - (k - 1) \in 2 .. m
      BY <1>1, <2>1, <2>4
    <3>4. s \in Succs(f, b) /\ ~Writes(t, b) /\ t \notin PhiDefs(s)
      BY <3>3 DEF LivePath
    <3>5. t \in out[b]
      BY <2>2, <3>2, <3>4, EdgeKept
    <3>6. QED
      BY <1>2, <2>1, <2>2, <3>4, <3>5, GenMeans
  <2>5. QED
    BY <2>3, <2>4
<1>4. m - 1 \in Nat /\ m - 1 < m /\ m - (m - 1) = 1
  BY <1>1
<1>5. QED
  BY <1>3, <1>4

LEMMA AllLive ==
  ASSUME IInv, Solved, OnlyLive, ~Wiped(f)
  PROVE  Exact
<1> SUFFICES ASSUME pc = "done", NEW b \in Blocks(f)
             PROVE  in[b] = LiveAtEntry(b) /\ out[b] = LiveAtExit(b)
  BY DEF Exact
<1>1. f.n \in Nat \ {0} /\ \A c \in Blocks(f) : \A s \in Succs(f, c) : s \in Blocks(f)
  BY Shape DEF IInv, TypeOK, Succs
<1>2. ASSUME NEW c \in Blocks(f), NEW t \in LiveAtEntry(c)
      PROVE  t \in in[c]
  <2>0. PICK m \in 1 .. f.n : \E p : p[1] = c /\ LivePath(t, p, m)
    BY <1>1, LiveMeans
  <2>1. PICK p : p[1] = c /\ LivePath(t, p, m)
    BY <2>0
  <2>2. m \in Nat
    OBVIOUS
  <2>3. QED
    BY <2>1, <2>2, PathKept
<1>3. LiveAtExit(b) \subseteq out[b]
  BY <1>1, <1>2, EdgeKept DEF LiveAtExit
<1>4. QED
  BY <1>2, <1>3 DEF OnlyLive

(***************************************************************************)
(* Exactness: what Liveness returns (live.go:61) is, in every block, what  *)
(* some path needs and nothing else, for functions of which no block's S2  *)
(* has phis while S1 is another block.  SSA calls Liveness before it has   *)
(* placed any phi (ssa.go:14) and PhiElim after it has removed them all    *)
(* (phi_elim.go:100), so their functions satisfy the hypothesis; on others *)
(* the result may lack a temporary (run liveness_wiped).                   *)
(***************************************************************************)
THEOREM Exactness ==
  ASSUME \A g \in Functions : ~Wiped(g)
  PROVE  Spec => []Exact
<1>1. Init => ~Wiped(f)
  BY DEF Init
<1>2. ~Wiped(f) /\ [Next]_vars => (~Wiped(f))'
  BY DEF Next, vars, Wiped
<1>3. IInv /\ Solved /\ OnlyLive /\ ~Wiped(f) => Exact
  BY AllLive
<1>4. QED
  BY <1>1, <1>2, <1>3, IInvariant, Fixpoint, NothingDead, PTL DEF Spec
=============================================================================
