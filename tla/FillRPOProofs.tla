---------------------------- MODULE FillRPOProofs ----------------------------
(***************************************************************************)
(* The numbering of FillRPO has no holes and no duplicates, whatever the   *)
(* graph.  The argument: the blocks whose calls have returned are counted  *)
(* by the number that is next, so as long as a call is open a number is    *)
(* left for it and the counter has not wrapped; and no block is entered    *)
(* twice, because the mark an open block carries is not the mark of a      *)
(* block that has not been seen.                                           *)
(*                                                                         *)
(* Then what FillRPO and FillPreds leave to the passes that follow them: a *)
(* function that is prepared for FillDom (Prepares), the order of its      *)
(* blocks (Ordered), and the blocks that paths from Start lead to, no more *)
(* and no fewer (KeepsStep).                                               *)
(*                                                                         *)
(* At the end, that numbering a numbered function changes nothing          *)
(* (Stable).                                                               *)
(***************************************************************************)
EXTENDS FillRPO, GraphProofs, SequenceTheorems

Pointers == Blocks(f) \cup {Nil}
Frames   == [block : Blocks(f), todo : Seq(Pointers)]

\* What the walk needs of the function it is given.
Shape ==
  /\ f.n \in Nat \ {0} /\ Word \in Nat /\ f.n + 1 < Word
  /\ f.s1 \in [Blocks(f) -> Pointers] /\ f.s2 \in [Blocks(f) -> Pointers]
  /\ Fields \subseteq DOMAIN f

Typed ==
  /\ Shape
  /\ id \in [Blocks(f) -> 0 .. Word - 1]
  /\ pc \in {"RPO", "walk", "compact", "preds", "done"}

Seen   == {b \in Blocks(f) : id[b] # Unset}
Closed == Seen \ Open                   \* the blocks whose calls have returned

\* The stack: a chain of edges of distinct, marked blocks, from Start.
Chain ==
  /\ stack \in Seq(Frames) /\ stack # <<>>
  /\ stack[1].block = 0
  /\ \A k \in DOMAIN stack : id[stack[k].block] = Mark
  /\ \A j, k \in DOMAIN stack : stack[j].block = stack[k].block => j = k
  /\ \A k \in DOMAIN stack : k > 1 => stack[k].block \in Succs(f, stack[k - 1].block)
  /\ \A k \in DOMAIN stack : Elems(stack[k].todo) \ {Nil} \subseteq Succs(f, stack[k].block)

\* The numbers given so far.
Counted ==
  /\ x \in 0 .. f.n - 1
  /\ Cardinality(Closed) = f.n - 1 - x
  /\ {id[b] : b \in Closed} = x + 1 .. f.n - 1
  /\ \A b, c \in Closed : id[b] = id[c] => b = c

\* No edge leads from a closed block to one that has not been seen, and from an
\* open block only those it has yet to visit do.
Explored ==
  /\ \A b \in Closed : Succs(f, b) \subseteq Seen
  /\ \A k \in DOMAIN stack :
       Succs(f, stack[k].block) \subseteq Seen \cup Elems(stack[k].todo)

\* A closed block was entered from one that is still open or was closed later.
Entered ==
  \A b \in Closed : \E p \in Seen : b \in Succs(f, p) /\ (p \in Open \/ id[p] < id[b])

\* When the walk is over: the numbers given are the largest, once each.
Complete ==
  /\ NUnreachable \in 0 .. f.n - 1
  /\ {id[b] : b \in Seen} = NUnreachable .. f.n - 1
  /\ \A b, c \in Seen : id[b] = id[c] => b = c
  /\ 0 \in Seen /\ id[0] = NUnreachable
  /\ \A b \in Seen : Succs(f, b) \subseteq Seen
  /\ \A b \in Seen \ {0} : \E p \in Seen : b \in Succs(f, p) /\ id[p] < id[b]

IInv ==
  /\ Typed
  /\ pc = "walk" => Chain /\ Counted /\ Explored /\ Entered
  /\ pc = "compact" => Complete
  /\ EnteredFromBelow

-----------------------------------------------------------------------------
(***************************************************************************)
(* Arithmetic of uint32.                                                   *)
(***************************************************************************)
LEMMA Wraps ==
  ASSUME Word \in Nat, NEW v \in 0 .. Word - 1
  PROVE  v % Word = v /\ (v + Word) % Word = v
OBVIOUS

LEMMA Decrement ==
  ASSUME Word \in Nat, NEW v \in Nat, v + 1 < Word
  PROVE  /\ v > 0 => Dec(v) = v - 1
         /\ v = 0 => Dec(v) = Word - 1
         /\ (1 + Dec(v)) % Word = v
<1>1. CASE v > 0
  <2>1. v - 1 \in 0 .. Word - 1 /\ v \in 0 .. Word - 1
    BY <1>1
  <2>2. (v - 1 + Word) % Word = v - 1 /\ v % Word = v
    BY <2>1, Wraps
  <2>3. QED
    BY <1>1, <2>2 DEF Dec
<1>2. CASE v = 0
  <2>1. Word - 1 \in 0 .. Word - 1 /\ Word # 0 /\ 0 \in 0 .. Word - 1
    OBVIOUS
  <2>2. (Word - 1) % Word = Word - 1 /\ (0 + Word) % Word = 0
    BY <2>1, Wraps
  <2>3. v - 1 + Word = Word - 1 /\ 1 + (Word - 1) = 0 + Word
    BY <1>2
  <2>4. QED
    BY <1>2, <2>2, <2>3 DEF Dec
<1>3. QED
  BY <1>1, <1>2

(***************************************************************************)
(* The last element of a sequence replaced; the elements of a tail.        *)
(***************************************************************************)
LEMMA WithoutLast ==
  ASSUME NEW S, NEW s \in Seq(S), s # <<>>
  PROVE  LET t == SubSeq(s, 1, Len(s) - 1)
         IN  /\ t \in Seq(S) /\ Len(t) = Len(s) - 1
             /\ \A k \in 1 .. Len(s) - 1 : t[k] = s[k]
             /\ t = <<>> <=> Len(s) = 1
<1> DEFINE n == Len(s) - 1  t == SubSeq(s, 1, n)
<1>1. n \in Nat /\ \A i \in 1 .. n : s[i] \in S
  OBVIOUS
<1>2. t \in Seq(S) /\ Len(t) = n /\ \A k \in 1 .. n : t[k] = s[k]
  <2> HIDE DEF n
  <2>1. /\ t \in Seq(S) /\ Len(t) = IF 1 <= n THEN n - 1 + 1 ELSE 0
        /\ \A k \in 1 .. n - 1 + 1 : t[k] = s[1 + k - 1]
    BY <1>1, SubSeqProperties
  <2>2. QED
    BY <1>1, <2>1
<1>3. t = <<>> <=> n = 0
  BY <1>2, EmptySeq
<1>4. QED
  BY <1>2, <1>3

LEMMA ReplaceLast ==
  ASSUME NEW S, NEW s \in Seq(S), s # <<>>, NEW e \in S
  PROVE  LET t == Append(SubSeq(s, 1, Len(s) - 1), e)
         IN  /\ t \in Seq(S) /\ Len(t) = Len(s) /\ t[Len(s)] = e
             /\ \A k \in 1 .. Len(s) - 1 : t[k] = s[k]
BY WithoutLast, AppendProperties

LEMMA HeadAndTail ==
  ASSUME NEW S, NEW s \in Seq(S), s # <<>>
  PROVE  /\ Head(s) \in S /\ Tail(s) \in Seq(S)
         /\ Elems(s) = {Head(s)} \cup Elems(Tail(s))
<1>1. Head(s) \in S /\ Tail(s) \in Seq(S) /\ Len(Tail(s)) = Len(s) - 1
  OBVIOUS
<1>2. ASSUME NEW i \in DOMAIN s PROVE s[i] \in {Head(s)} \cup Elems(Tail(s))
  <2>1. i = 1 => s[i] = Head(s)
    OBVIOUS
  <2>2. i > 1 => i - 1 \in DOMAIN Tail(s) /\ Tail(s)[i - 1] = s[i]
    OBVIOUS
  <2>3. QED
    BY <2>1, <2>2 DEF Elems
<1>3. ASSUME NEW i \in DOMAIN Tail(s) PROVE Tail(s)[i] \in Elems(s)
  <2>1. i + 1 \in DOMAIN s /\ Tail(s)[i] = s[i + 1]
    OBVIOUS
  <2>2. QED
    BY <2>1 DEF Elems
<1>4. Head(s) \in Elems(s)
  <2>1. 1 \in DOMAIN s /\ Head(s) = s[1]
    OBVIOUS
  <2>2. QED
    BY <2>1 DEF Elems
<1>5. QED
  BY <1>1, <1>2, <1>3, <1>4 DEF Elems

-----------------------------------------------------------------------------
(***************************************************************************)
(* A new frame has both successors before it.                              *)
(***************************************************************************)
LEMMA NewFrame ==
  ASSUME Shape, NEW b \in Blocks(f)
  PROVE  /\ Frame(b) \in Frames /\ Frame(b).block = b
         /\ Succs(f, b) = Elems(Frame(b).todo) \ {Nil}
<1>1. f.s1[b] \in Pointers /\ f.s2[b] \in Pointers
  BY DEF Shape
<1>2. Visits(b) = <<f.s2[b], f.s1[b]>> \/ Visits(b) = <<f.s1[b], f.s2[b]>>
  BY DEF Visits
<1>3. ASSUME NEW c \in Pointers, NEW d \in Pointers
      PROVE  <<c, d>> \in Seq(Pointers) /\ Elems(<<c, d>>) = {c, d}
  BY DEF Elems
<1>4. Visits(b) \in Seq(Pointers) /\ Elems(Visits(b)) = {f.s1[b], f.s2[b]}
  <2>1. CASE Visits(b) = <<f.s2[b], f.s1[b]>>
    <3>1. <<f.s2[b], f.s1[b]>> \in Seq(Pointers) /\ Elems(<<f.s2[b], f.s1[b]>>) = {f.s2[b], f.s1[b]}
      BY <1>1, <1>3
    <3>2. QED
      BY <2>1, <3>1
  <2>2. CASE Visits(b) = <<f.s1[b], f.s2[b]>>
    <3>1. <<f.s1[b], f.s2[b]>> \in Seq(Pointers) /\ Elems(<<f.s1[b], f.s2[b]>>) = {f.s1[b], f.s2[b]}
      BY <1>1, <1>3
    <3>2. QED
      BY <2>2, <3>1
  <2>3. QED
    BY <1>2, <2>1, <2>2
<1>5. QED
  BY <1>4 DEF Frame, Frames, Succs

LEMMA Successors ==
  ASSUME Shape, NEW b \in Blocks(f)
  PROVE  Succs(f, b) \subseteq Blocks(f)
BY DEF Shape, Succs, Pointers

(***************************************************************************)
(* Facts about the call on top of the stack.                               *)
(***************************************************************************)
LEMMA TopFacts ==
  ASSUME IInv, pc = "walk"
  PROVE  /\ Shape /\ Chain /\ Counted /\ Explored /\ Entered
         /\ stack \in Seq(Frames) /\ Len(stack) \in Nat \ {0} /\ DOMAIN stack = 1 .. Len(stack)
         /\ Top \in Frames /\ Top.block \in Blocks(f) /\ Top.todo \in Seq(Pointers)
         /\ Top.block \in Open /\ Top.block \in Seen /\ Open \subseteq Seen
         /\ \A k \in DOMAIN stack : stack[k].block \in Blocks(f)
         /\ Mark # Unset
<1>1. Shape /\ Chain /\ Counted /\ Explored /\ Entered /\ id \in [Blocks(f) -> 0 .. Word - 1]
  BY DEF IInv, Typed
<1>2. stack \in Seq(Frames) /\ Len(stack) \in Nat \ {0} /\ DOMAIN stack = 1 .. Len(stack)
  BY <1>1 DEF Chain
<1>3. Top \in Frames /\ Top.block \in Blocks(f) /\ Top.todo \in Seq(Pointers)
  <2>1. Top \in Frames
    BY <1>2 DEF Top
  <2>2. QED
    BY <2>1 DEF Frames
<1>4. Mark # Unset
  BY <1>1 DEF Shape, Mark, Unset
<1>5. ASSUME NEW k \in DOMAIN stack PROVE stack[k].block \in Seen
  <2>1. stack[k] \in Frames /\ id[stack[k].block] = Mark
    BY <1>1, <1>2 DEF Chain
  <2>2. QED
    BY <1>4, <2>1 DEF Frames, Seen
<1>6. Top.block \in Open
  BY <1>2 DEF Top, Open
<1>7. ASSUME NEW k \in DOMAIN stack PROVE stack[k].block \in Blocks(f)
  <2>1. stack[k] \in Frames
    BY <1>2
  <2>2. QED
    BY <2>1 DEF Frames
<1>8. QED
  BY <1>1, <1>2, <1>3, <1>4, <1>5, <1>6, <1>7 DEF Open

(***************************************************************************)
(* The stack once the call on top has taken its next successor.            *)
(***************************************************************************)
Advanced == Append(Below, [Top EXCEPT !.todo = Tail(@)])

LEMMA Advance ==
  ASSUME IInv, pc = "walk", Top.todo # <<>>
  PROVE  /\ Advanced \in Seq(Frames) /\ Len(Advanced) = Len(stack)
         /\ Head(Top.todo) \in Pointers
         /\ Head(Top.todo) # Nil => Head(Top.todo) \in Succs(f, Top.block)
         /\ \A k \in 1 .. Len(stack) :
              /\ Advanced[k].block = stack[k].block
              /\ Elems(Advanced[k].todo) \ {Nil} \subseteq Succs(f, stack[k].block)
              /\ Succs(f, stack[k].block)
                   \subseteq Seen \cup {Head(Top.todo)} \cup Elems(Advanced[k].todo)
<1> DEFINE m == Len(stack)  e == [Top EXCEPT !.todo = Tail(@)]
<1>1. /\ stack \in Seq(Frames) /\ stack # <<>> /\ m \in Nat \ {0} /\ DOMAIN stack = 1 .. m
      /\ Top \in Frames /\ Top.todo \in Seq(Pointers)
  BY TopFacts DEF Chain
<1>2. /\ Head(Top.todo) \in Pointers /\ Tail(Top.todo) \in Seq(Pointers)
      /\ Elems(Top.todo) = {Head(Top.todo)} \cup Elems(Tail(Top.todo))
  BY <1>1, HeadAndTail
<1>3. e \in Frames /\ e.block = Top.block /\ e.todo = Tail(Top.todo)
  BY <1>1, <1>2 DEF Frames
<1>4. /\ Advanced \in Seq(Frames) /\ Len(Advanced) = m /\ Advanced[m] = e
      /\ \A k \in 1 .. m - 1 : Advanced[k] = stack[k]
  BY <1>1, <1>3, ReplaceLast DEF Advanced, Below
<1>5. \A k \in 1 .. m : /\ Elems(stack[k].todo) \ {Nil} \subseteq Succs(f, stack[k].block)
                        /\ Succs(f, stack[k].block) \subseteq Seen \cup Elems(stack[k].todo)
  BY <1>1, TopFacts DEF Chain, Explored
<1>6. m \in 1 .. m /\ stack[m] = Top
  BY <1>1 DEF Top
<1>7. ASSUME NEW k \in 1 .. m
      PROVE  /\ Advanced[k].block = stack[k].block
             /\ Elems(Advanced[k].todo) \ {Nil} \subseteq Succs(f, stack[k].block)
             /\ Succs(f, stack[k].block)
                  \subseteq Seen \cup {Head(Top.todo)} \cup Elems(Advanced[k].todo)
  <2>1. CASE k = m
    <3>1. /\ Advanced[k].block = Top.block /\ Advanced[k].todo = Tail(Top.todo)
          /\ stack[k] = Top
      BY <1>3, <1>4, <1>6, <2>1
    <3>2. QED
      BY <1>2, <1>5, <3>1
  <2>2. CASE k # m
    <3>1. Advanced[k] = stack[k]
      BY <1>1, <1>4, <2>2
    <3>2. QED
      BY <1>5, <3>1
  <2>3. QED
    BY <2>1, <2>2
<1>8. Head(Top.todo) # Nil => Head(Top.todo) \in Succs(f, Top.block)
  BY <1>2, <1>5, <1>6
<1>9. QED
  BY <1>2, <1>4, <1>7, <1>8

LEMMA SkipStep ==
  ASSUME IInv, Skip
  PROVE  IInv'
<1> DEFINE m == Len(stack)
<1>1. /\ pc = "walk" /\ pc' = "walk" /\ Top.todo # <<>> /\ ~New(Head(Top.todo))
      /\ stack' = Advanced /\ UNCHANGED <<f, id, x, call, pc>>
  BY DEF Skip, Advanced
<1>2. /\ Shape /\ Chain /\ Counted /\ Explored /\ Entered
      /\ m \in Nat \ {0} /\ DOMAIN stack = 1 .. m
  BY <1>1, TopFacts
<1>3. /\ stack' \in Seq(Frames) /\ Len(stack') = m /\ DOMAIN stack' = 1 .. m /\ stack' # <<>>
      /\ \A k \in 1 .. m :
           /\ stack'[k].block = stack[k].block
           /\ Elems(stack'[k].todo) \ {Nil} \subseteq Succs(f, stack[k].block)
           /\ Succs(f, stack[k].block)
                \subseteq Seen \cup {Head(Top.todo)} \cup Elems(stack'[k].todo)
  <2>1. stack' \in Seq(Frames) /\ Len(stack') = m
    BY <1>1, Advance
  <2>2. DOMAIN stack' = 1 .. m /\ stack' # <<>>
    BY <1>2, <2>1
  <2>3. QED
    BY <1>1, <2>1, <2>2, Advance
<1>4. Open' = Open /\ Seen' = Seen /\ Closed' = Closed /\ Frames' = Frames
  <2>1. Open' = Open
    BY <1>2, <1>3 DEF Open
  <2>2. QED
    BY <1>1, <2>1 DEF Seen, Closed, Frames, Pointers, Blocks, Unset
<1>5. Chain'
  <2>1. \A k \in 1 .. m : /\ stack'[k].block = stack[k].block
                          /\ id'[stack'[k].block] = Mark
                          /\ k > 1 => stack[k].block \in Succs(f, stack[k - 1].block)
    BY <1>1, <1>2, <1>3 DEF Chain
  <2>2. stack'[1].block = 0
    BY <1>2, <1>3 DEF Chain
  <2>3. \A j, k \in 1 .. m : stack'[j].block = stack'[k].block => j = k
    BY <1>2, <1>3 DEF Chain
  <2>4. \A k \in 1 .. m : k > 1 => stack'[k].block \in Succs(f, stack'[k - 1].block)
    BY <1>2, <1>3, <2>1
  <2>5. \A k \in 1 .. m : Elems(stack'[k].todo) \ {Nil} \subseteq Succs(f, stack'[k].block)
    BY <1>3
  <2>6. QED
    BY <1>1, <1>3, <1>4, <2>1, <2>2, <2>3, <2>4, <2>5, ZenonT(40) DEF Chain, Succs
<1>6. Counted' /\ Entered'
  BY <1>1, <1>2, <1>4 DEF Counted, Entered, Succs
<1>7. Explored'
  <2>1. ASSUME NEW k \in 1 .. m
        PROVE  Succs(f, stack[k].block) \subseteq Seen \cup Elems(stack'[k].todo)
    <3>1. stack[k].block \in Blocks(f)
      BY <1>1, <1>2, TopFacts
    <3>2. Succs(f, stack[k].block) \subseteq Blocks(f) \ {Nil}
      BY <1>2, <3>1, Successors DEF Succs
    <3>3. Head(Top.todo) \in Blocks(f) \ {Nil} => Head(Top.todo) \in Seen
      BY <1>1 DEF New, Seen
    <3>4. QED
      BY <1>3, <3>2, <3>3
  <2>2. QED
    BY <1>1, <1>2, <1>3, <1>4, <2>1 DEF Explored, Succs
<1>8. Typed'
  BY <1>1 DEF IInv, Typed, Shape, Pointers, Blocks, Fields
<1>9. QED
  BY <1>1, <1>5, <1>6, <1>7, <1>8 DEF IInv, EnteredFromBelow, Numbered

LEMMA DescendFacts ==
  ASSUME IInv, Descend
  PROVE  LET m == Len(stack)  s == Head(Top.todo) IN
         /\ s \in Blocks(f) /\ s \notin Seen /\ s \in Succs(f, Top.block)
         /\ stack' \in Seq(Frames) /\ Len(stack') = m + 1 /\ DOMAIN stack' = 1 .. m + 1
         /\ stack' # <<>>
         /\ stack'[m + 1] = Frame(s) /\ stack'[m + 1].block = s
         /\ Succs(f, s) = Elems(stack'[m + 1].todo) \ {Nil}
         /\ \A k \in 1 .. m :
              /\ stack'[k].block = stack[k].block
              /\ Elems(stack'[k].todo) \ {Nil} \subseteq Succs(f, stack[k].block)
              /\ Succs(f, stack[k].block) \subseteq Seen \cup {s} \cup Elems(stack'[k].todo)
         /\ \A k \in 1 .. m : stack[k].block \in Seen /\ stack[k].block # s
         /\ Open' = Open \cup {s} /\ Seen' = Seen \cup {s} /\ Frames' = Frames
         /\ \A b \in Seen : id'[b] = id[b]
         /\ Closed' = Closed /\ Closed \subseteq Seen
<1> DEFINE m == Len(stack)  s == Head(Top.todo)
<1>1. /\ pc = "walk" /\ pc' = "walk" /\ Top.todo # <<>> /\ New(s)
      /\ id' = [id EXCEPT ![s] = Mark] /\ stack' = Append(Advanced, Frame(s))
      /\ UNCHANGED <<f, x, call, pc>>
  BY DEF Descend, Advanced
<1>2. /\ Shape /\ Chain /\ Counted /\ Explored /\ Entered /\ Mark # Unset
      /\ m \in Nat \ {0} /\ DOMAIN stack = 1 .. m /\ Open \subseteq Seen
      /\ id \in [Blocks(f) -> 0 .. Word - 1]
      /\ \A k \in 1 .. m : stack[k].block \in Blocks(f)
  BY <1>1, TopFacts DEF IInv, Typed
<1>3. s \in Blocks(f) /\ s \notin Seen /\ s \in Succs(f, Top.block)
  BY <1>1, Advance DEF New, Seen, Pointers
<1>4. /\ stack' \in Seq(Frames) /\ Len(stack') = m + 1 /\ DOMAIN stack' = 1 .. m + 1
      /\ stack' # <<>>
      /\ stack'[m + 1] = Frame(s) /\ \A k \in 1 .. m : stack'[k] = Advanced[k]
  <2>1. Advanced \in Seq(Frames) /\ Len(Advanced) = m /\ Frame(s) \in Frames
    BY <1>1, <1>2, <1>3, Advance, NewFrame
  <2>2. QED
    BY <1>1, <1>2, <2>1, AppendProperties
<1>5. /\ stack'[m + 1].block = s
      /\ Succs(f, s) = Elems(stack'[m + 1].todo) \ {Nil}
  BY <1>2, <1>3, <1>4, NewFrame
<1>6. \A k \in 1 .. m :
        /\ stack'[k].block = stack[k].block
        /\ Elems(stack'[k].todo) \ {Nil} \subseteq Succs(f, stack[k].block)
        /\ Succs(f, stack[k].block) \subseteq Seen \cup {s} \cup Elems(stack'[k].todo)
  BY <1>1, <1>4, Advance
<1>7. \A k \in 1 .. m : stack[k].block \in Seen /\ stack[k].block # s
  BY <1>2, <1>3 DEF Open
<1>8. /\ Open' = Open \cup {s} /\ Seen' = Seen \cup {s} /\ Frames' = Frames
      /\ \A b \in Seen : id'[b] = id[b]
  <2>1. Open' = Open \cup {s}
    <3>1. ASSUME NEW k \in 1 .. m + 1 PROVE k = m + 1 \/ k \in 1 .. m
      BY <1>2
    <3>2. m + 1 \in DOMAIN stack' /\ \A k \in 1 .. m : k \in DOMAIN stack'
      BY <1>2, <1>4
    <3>3. QED
      BY <1>2, <1>4, <1>5, <1>6, <3>1, <3>2, SMTT(30) DEF Open
  <2>2. id' \in [Blocks(f) -> 0 .. Word - 1 \cup {Mark}] /\ id'[s] = Mark
        /\ \A b \in Blocks(f) \ {s} : id'[b] = id[b]
    BY <1>1, <1>2, <1>3
  <2>3. Seen' = Seen \cup {s}
    BY <1>1, <1>2, <1>3, <2>2 DEF Seen, Blocks, Unset
  <2>4. QED
    BY <1>1, <1>3, <2>1, <2>2, <2>3 DEF Seen, Frames, Pointers, Blocks
<1>9. Closed' = Closed /\ Closed \subseteq Seen
  BY <1>2, <1>3, <1>8 DEF Closed
<1>10. QED
  BY <1>3, <1>4, <1>5, <1>6, <1>7, <1>8, <1>9

LEMMA DescendStep ==
  ASSUME IInv, Descend
  PROVE  IInv'
<1> DEFINE m == Len(stack)  s == Head(Top.todo)
<1>1. /\ pc = "walk" /\ pc' = "walk" /\ Top.todo # <<>> /\ New(s)
      /\ id' = [id EXCEPT ![s] = Mark] /\ stack' = Append(Advanced, Frame(s))
      /\ UNCHANGED <<f, x, call, pc>>
  BY DEF Descend, Advanced
<1>2. /\ Shape /\ Chain /\ Counted /\ Explored /\ Entered /\ Mark # Unset
      /\ m \in Nat \ {0} /\ DOMAIN stack = 1 .. m /\ Open \subseteq Seen
      /\ id \in [Blocks(f) -> 0 .. Word - 1]
      /\ \A k \in 1 .. m : stack[k].block \in Blocks(f)
  BY <1>1, TopFacts DEF IInv, Typed
<1>3. s \in Blocks(f) /\ s \notin Seen /\ s \in Succs(f, Top.block)
  BY DescendFacts
<1>4. /\ stack' \in Seq(Frames) /\ Len(stack') = m + 1 /\ DOMAIN stack' = 1 .. m + 1
      /\ stack' # <<>>
      /\ stack'[m + 1] = Frame(s)
  BY DescendFacts
<1>5. /\ stack'[m + 1].block = s
      /\ Succs(f, s) = Elems(stack'[m + 1].todo) \ {Nil}
  BY DescendFacts
<1>6. \A k \in 1 .. m :
        /\ stack'[k].block = stack[k].block
        /\ Elems(stack'[k].todo) \ {Nil} \subseteq Succs(f, stack[k].block)
        /\ Succs(f, stack[k].block) \subseteq Seen \cup {s} \cup Elems(stack'[k].todo)
  BY DescendFacts
<1>7. \A k \in 1 .. m : stack[k].block \in Seen /\ stack[k].block # s
  BY DescendFacts
<1>8. /\ Open' = Open \cup {s} /\ Seen' = Seen \cup {s} /\ Frames' = Frames
      /\ \A b \in Seen : id'[b] = id[b]
  BY DescendFacts
<1>9. Closed' = Closed /\ Closed \subseteq Seen
  BY DescendFacts
<1>10. Chain'
  <2>1. \A k \in 1 .. m + 1 : k = m + 1 \/ k \in 1 .. m
    BY <1>2
  <2>2. stack'[1].block = 0
    BY <1>2, <1>6 DEF Chain
  <2>3. \A k \in 1 .. m + 1 : id'[stack'[k].block] = Mark
    <3>1. id'[s] = Mark
      BY <1>1, <1>2, <1>3
    <3>2. \A k \in 1 .. m : id'[stack[k].block] = Mark
      BY <1>2, <1>7, <1>8 DEF Chain
    <3>3. QED
      BY <1>5, <1>6, <2>1, <3>1, <3>2
  <2>4. \A j, k \in 1 .. m + 1 : stack'[j].block = stack'[k].block => j = k
    BY <1>2, <1>5, <1>6, <1>7, <2>1 DEF Chain
  <2>5. ASSUME NEW k \in 1 .. m + 1, k > 1
        PROVE  stack'[k].block \in Succs(f, stack'[k - 1].block)
    <3>1. k - 1 \in 1 .. m /\ stack'[k - 1].block = stack[k - 1].block
      BY <1>2, <1>6, <2>5
    <3>2. CASE k = m + 1
      BY <1>2, <1>3, <1>5, <3>1, <3>2 DEF Top
    <3>3. CASE k \in 1 .. m
      BY <1>2, <1>6, <2>5, <3>1, <3>3 DEF Chain
    <3>4. QED
      BY <2>1, <3>2, <3>3
  <2>6. \A k \in 1 .. m + 1 : Elems(stack'[k].todo) \ {Nil} \subseteq Succs(f, stack'[k].block)
    BY <1>5, <1>6, <2>1
  <2>7. QED
    BY <1>1, <1>4, <1>8, <2>2, <2>3, <2>4, <2>5, <2>6 DEF Chain, Succs
<1>11. Counted'
  BY <1>1, <1>2, <1>8, <1>9 DEF Counted
<1>12. Entered'
  BY <1>1, <1>2, <1>8, <1>9 DEF Entered, Succs
<1>13. Explored'
  <2>1. \A k \in 1 .. m + 1 : k = m + 1 \/ k \in 1 .. m
    BY <1>2
  <2>2. \A k \in 1 .. m + 1 :
          Succs(f, stack'[k].block) \subseteq Seen' \cup Elems(stack'[k].todo)
    BY <1>5, <1>6, <1>8, <2>1
  <2>3. \A b \in Closed : Succs(f, b) \subseteq Seen'
    BY <1>2, <1>8 DEF Explored
  <2>4. QED
    BY <1>1, <1>4, <1>9, <2>2, <2>3 DEF Explored, Succs
<1>14. Typed'
  <2>1. Mark \in 0 .. Word - 1
    BY <1>2 DEF Mark, Shape
  <2>2. id' \in [Blocks(f) -> 0 .. Word - 1]
    BY <1>1, <1>2, <1>3, <2>1
  <2>3. QED
    BY <1>1, <1>2, <2>2 DEF Typed, Shape, Pointers, Blocks, Fields
<1>15. QED
  BY <1>1, <1>10, <1>11, <1>12, <1>13, <1>14 DEF IInv, EnteredFromBelow, Numbered

LEMMA LeaveFacts ==
  ASSUME IInv, Leave
  PROVE  LET m == Len(stack)  b == Top.block IN
         /\ m \in Nat \ {0} /\ stack' \in Seq(Frames) /\ Len(stack') = m - 1
         /\ DOMAIN stack' = 1 .. m - 1
         /\ Below = <<>> <=> m = 1
         /\ \A k \in 1 .. m - 1 : stack'[k] = stack[k]
         /\ x \in 0 .. f.n - 1 /\ x \in 0 .. Word - 1 /\ x # Unset /\ x + 1 < Word
         /\ id' \in [Blocks(f) -> 0 .. Word - 1] /\ id'[b] = x
         /\ \A c \in Blocks(f) \ {b} : id'[c] = id[c]
         /\ Seen' = Seen /\ Frames' = Frames /\ Open' = Open \ {b}
         /\ Closed' = Closed \cup {b} /\ b \notin Closed /\ Closed \subseteq Seen
         /\ Seen \subseteq Blocks(f) /\ \A c \in Closed : id'[c] = id[c]
<1> DEFINE m == Len(stack)  b == Top.block
<1>1. /\ pc = "walk" /\ Top.todo = <<>>
      /\ id' = [id EXCEPT ![b] = x] /\ x' = Dec(x) /\ stack' = Below
      /\ pc' = IF Below = <<>> THEN "compact" ELSE "walk"
      /\ UNCHANGED <<f, call>>
  BY DEF Leave
<1>2. /\ Shape /\ Chain /\ Counted /\ Explored /\ Entered /\ Mark # Unset
      /\ m \in Nat \ {0} /\ DOMAIN stack = 1 .. m /\ Open \subseteq Seen
      /\ b \in Open /\ b \in Seen /\ b \in Blocks(f) /\ b = stack[m].block /\ Top = stack[m]
      /\ id \in [Blocks(f) -> 0 .. Word - 1]
      /\ stack \in Seq(Frames) /\ stack # <<>>
  BY <1>1, TopFacts DEF IInv, Typed, Top, Chain
<1>3. /\ stack' \in Seq(Frames) /\ Len(stack') = m - 1 /\ DOMAIN stack' = 1 .. m - 1
      /\ \A k \in 1 .. m - 1 : stack'[k] = stack[k]
      /\ Below = <<>> <=> m = 1
  BY <1>1, <1>2, WithoutLast DEF Below
<1>n. m \in Nat /\ m > 0
  BY <1>2
<1>k. /\ \A k \in 1 .. m : k = m \/ k \in 1 .. m - 1
      /\ \A k \in 1 .. m - 1 : k \in 1 .. m /\ k # m /\ (k > 1 => k - 1 \in 1 .. m - 1)
  <2> HIDE DEF m
  <2>1. QED
    BY <1>n
<1>d. \A j, k \in 1 .. m : stack[j].block = stack[k].block => j = k
  BY <1>2 DEF Chain
<1>4. /\ x \in 0 .. f.n - 1 /\ x \in 0 .. Word - 1 /\ x # Unset /\ x + 1 < Word
      /\ f.n \in Nat /\ Word \in Nat
  BY <1>2 DEF Counted, Shape, Unset
<1>5. id' \in [Blocks(f) -> 0 .. Word - 1] /\ id'[b] = x /\ \A c \in Blocks(f) \ {b} : id'[c] = id[c]
  BY <1>1, <1>2, <1>4
<1>6. Seen' = Seen /\ Frames' = Frames
  BY <1>1, <1>2, <1>4, <1>5, SMTT(30) DEF Seen, Frames, Pointers, Blocks, Unset
<1>7. Open' = Open \ {b}
  <2>1. b = stack[m].block /\ m \in 1 .. m
    BY <1>2, <1>n
  <2>2. \A k \in 1 .. m - 1 : stack[k].block # b /\ k \in 1 .. m
    BY <1>k, <1>d, <2>1
  <2>3. Open = {stack[k].block : k \in 1 .. m} /\ Open' = {stack[k].block : k \in 1 .. m - 1}
    BY <1>2, <1>3, ZenonT(40) DEF Open
  <2>4. QED
    BY <1>k, <2>1, <2>2, <2>3
<1>8. Closed' = Closed \cup {b} /\ b \notin Closed /\ Closed \subseteq Seen
  BY <1>2, <1>6, <1>7 DEF Closed
<1>9. Seen \subseteq Blocks(f) /\ \A c \in Closed : id'[c] = id[c]
  BY <1>5, <1>8 DEF Seen
<1>10. QED
  BY <1>2, <1>3, <1>4, <1>5, <1>6, <1>7, <1>8, <1>9

LEMMA LeaveStep ==
  ASSUME IInv, Leave
  PROVE  IInv'
<1> DEFINE m == Len(stack)  b == Top.block
<1>1. /\ pc = "walk" /\ Top.todo = <<>>
      /\ id' = [id EXCEPT ![b] = x] /\ x' = Dec(x) /\ stack' = Below
      /\ pc' = IF Below = <<>> THEN "compact" ELSE "walk"
      /\ UNCHANGED <<f, call>>
  BY DEF Leave
<1>2. /\ Shape /\ Chain /\ Counted /\ Explored /\ Entered /\ Mark # Unset
      /\ m \in Nat \ {0} /\ DOMAIN stack = 1 .. m /\ Open \subseteq Seen
      /\ b \in Open /\ b \in Seen /\ b \in Blocks(f) /\ b = stack[m].block /\ Top = stack[m]
      /\ id \in [Blocks(f) -> 0 .. Word - 1]
      /\ stack \in Seq(Frames) /\ stack # <<>>
  BY <1>1, TopFacts DEF IInv, Typed, Top, Chain
<1>3. /\ stack' \in Seq(Frames) /\ Len(stack') = m - 1 /\ DOMAIN stack' = 1 .. m - 1
      /\ \A k \in 1 .. m - 1 : stack'[k] = stack[k]
      /\ Below = <<>> <=> m = 1
  BY LeaveFacts
<1>n. m \in Nat /\ m > 0
  BY <1>2
<1>k. /\ \A k \in 1 .. m : k = m \/ k \in 1 .. m - 1
      /\ \A k \in 1 .. m - 1 : k \in 1 .. m /\ k # m /\ (k > 1 => k - 1 \in 1 .. m - 1)
  <2> HIDE DEF m
  <2>1. QED
    BY <1>n
<1>d. \A j, k \in 1 .. m : stack[j].block = stack[k].block => j = k
  BY <1>2 DEF Chain
<1>4. /\ x \in 0 .. f.n - 1 /\ x \in 0 .. Word - 1 /\ x # Unset /\ x + 1 < Word
      /\ f.n \in Nat /\ Word \in Nat
  BY <1>2 DEF Counted, Shape, Unset
<1>5. id' \in [Blocks(f) -> 0 .. Word - 1] /\ id'[b] = x /\ \A c \in Blocks(f) \ {b} : id'[c] = id[c]
  BY LeaveFacts
<1>6. Seen' = Seen /\ Frames' = Frames
  BY LeaveFacts
<1>7. Open' = Open \ {b}
  BY LeaveFacts
<1>8. Closed' = Closed \cup {b} /\ b \notin Closed /\ Closed \subseteq Seen
  BY LeaveFacts
<1>9. Seen \subseteq Blocks(f) /\ \A c \in Closed : id'[c] = id[c]
  BY LeaveFacts
<1>10. /\ {id'[c] : c \in Closed'} = x .. f.n - 1
       /\ \A c, d \in Closed' : id'[c] = id'[d] => c = d
  <2>1. {id[c] : c \in Closed} = x + 1 .. f.n - 1 /\ \A c, d \in Closed : id[c] = id[d] => c = d
    BY <1>2 DEF Counted
  <2>2. {id'[c] : c \in Closed'} = {id[c] : c \in Closed} \cup {x}
    BY <1>5, <1>8, <1>9
  <2>3. \A c \in Closed : id[c] > x
    <3>1. \A c \in Closed : id[c] \in x + 1 .. f.n - 1
      BY <2>1
    <3>2. QED
      BY <1>4, <3>1
  <2>4. QED
    BY <1>4, <1>5, <1>8, <1>9, <2>1, <2>2, <2>3
<1>11. IsFiniteSet(Closed') /\ Cardinality(Closed') = f.n - x
  <2>1. IsFiniteSet(Blocks(f)) /\ Closed \subseteq Blocks(f)
    <3>1. 0 \in Int /\ f.n - 1 \in Int
      BY <1>4
    <3>2. IsFiniteSet(0 .. f.n - 1)
      BY <3>1, FS_Interval
    <3>3. QED
      BY <1>8, <1>9, <3>2 DEF Blocks
  <2>2. IsFiniteSet(Closed)
    BY <2>1, FS_Subset
  <2>3. IsFiniteSet(Closed \cup {b}) /\ Cardinality(Closed \cup {b}) = Cardinality(Closed) + 1
    BY <1>8, <2>2, FS_AddElement
  <2>4. Cardinality(Closed) = f.n - 1 - x
    BY <1>2 DEF Counted
  <2>5. QED
    BY <1>4, <1>8, <2>3, <2>4
<1>12. \A c \in Closed' : Succs(f, c) \subseteq Seen
  <2>1. Succs(f, b) \subseteq Seen
    <3>1. Elems(Top.todo) = {}
      BY <1>1 DEF Elems
    <3>2. QED
      BY <1>2, <3>1 DEF Explored
  <2>2. QED
    BY <1>2, <1>8, <2>1 DEF Explored
<1>13. ASSUME NEW c \in Closed
       PROVE  \E p \in Seen : c \in Succs(f, p) /\ (p \in Open' \/ id'[p] < id'[c])
  <2>1. PICK p \in Seen : c \in Succs(f, p) /\ (p \in Open \/ id[p] < id[c])
    BY <1>2 DEF Entered
  <2>2. id[c] \in x + 1 .. f.n - 1 /\ id'[c] = id[c]
    BY <1>2, <1>9 DEF Counted
  <2>3. CASE p = b
    BY <1>4, <1>5, <2>1, <2>2, <2>3
  <2>4. CASE p # b
    BY <1>5, <1>7, <1>9, <2>1, <2>2, <2>4
  <2>5. QED
    BY <2>3, <2>4
<1>14. Typed'
  BY <1>1, <1>2, <1>3, <1>5 DEF Typed, Shape, Pointers, Blocks, Fields
<1>15. CASE m = 1
  <2>1. pc' = "compact" /\ Open' = {}
    BY <1>1, <1>3, <1>15 DEF Open
  <2>2. Closed' = Seen' /\ b = 0
    BY <1>2, <1>15, <2>1 DEF Closed, Chain
  <2>3. NUnreachable' = x
    BY <1>1, <1>4, Decrement DEF NUnreachable
  <2>4. Complete'
    <3>1. \A c \in Seen' \ {0} : \E p \in Seen' : c \in Succs(f, p) /\ id'[p] < id'[c]
      BY <1>6, <1>8, <1>13, <2>1, <2>2
    <3>2. \A c \in Seen' : Succs(f, c) \subseteq Seen'
      BY <1>6, <1>12, <2>2
    <3>3. 0 \in Seen' /\ id'[0] = x
      BY <1>2, <1>5, <1>6, <2>2
    <3>4. QED
      BY <1>1, <1>4, <1>10, <2>2, <2>3, <3>1, <3>2, <3>3 DEF Complete, Succs
  <2>5. QED
    BY <1>14, <2>1, <2>4 DEF IInv, EnteredFromBelow, Numbered
<1>16. CASE m > 1
  <2>1. pc' = "walk" /\ stack' # <<>> /\ 1 \in 1 .. m - 1 /\ m - 1 \in 1 .. m - 1
    BY <1>1, <1>2, <1>3, <1>16
  <2>2. 0 \in Open' /\ stack'[1].block = 0
    BY <1>2, <1>3, <2>1, SMTT(30) DEF Chain, Open
  <2>3. x >= 1
    <3>1. Closed' \subseteq 1 .. f.n - 1
      <4>1. Closed' \subseteq Blocks(f) \ {0}
        BY <1>6, <1>9, <2>2 DEF Closed
      <4>2. QED
        BY <1>4, <4>1 DEF Blocks
    <3>2. IsFiniteSet(1 .. f.n - 1) /\ Cardinality(1 .. f.n - 1) <= f.n - 1
      <4>1. 1 \in Int /\ f.n - 1 \in Nat
        BY <1>4
      <4>2. /\ IsFiniteSet(1 .. f.n - 1)
            /\ Cardinality(1 .. f.n - 1) = IF 1 > f.n - 1 THEN 0 ELSE f.n - 1 - 1 + 1
        BY <4>1, FS_Interval
      <4>3. QED
        BY <4>1, <4>2
    <3>3. Cardinality(Closed') <= Cardinality(1 .. f.n - 1)
      BY <3>1, <3>2, FS_Subset
    <3>4. QED
      BY <1>4, <1>11, <3>2, <3>3, FS_CardinalityType
  <2>4. x' = x - 1
    BY <1>1, <1>4, <2>3, Decrement
  <2>5. Counted'
    BY <1>1, <1>4, <1>10, <1>11, <2>3, <2>4 DEF Counted
  <2>6. Entered'
    <3>1. m - 1 \in DOMAIN stack' /\ stack'[m - 1].block = stack[m - 1].block
          /\ b \in Succs(f, stack[m - 1].block) 
      BY <1>2, <1>3, <1>16, <2>1 DEF Chain
    <3>2. stack[m - 1].block \in Open' /\ Open' \subseteq Seen
      BY <1>2, <1>7, <3>1 DEF Open
    <3>3. \E p \in Seen : b \in Succs(f, p) /\ (p \in Open' \/ id'[p] < id'[b])
      BY <3>1, <3>2
    <3>4. QED
      BY <1>1, <1>6, <1>8, <1>13, <3>3 DEF Entered, Succs
  <2>7. Explored'
    <3>1. \A k \in 1 .. m - 1 :
            Succs(f, stack'[k].block) \subseteq Seen \cup Elems(stack'[k].todo)
      <4>1. \A k \in 1 .. m : Succs(f, stack[k].block) \subseteq Seen \cup Elems(stack[k].todo)
        BY <1>2 DEF Explored
      <4>2. QED
        BY <1>3, <1>k, <4>1
    <3>2. QED
      BY <1>1, <1>3, <1>6, <1>12, <3>1 DEF Explored, Succs
  <2>8. Chain'
    <3>1. /\ \A k \in 1 .. m : stack[k] \in Frames /\ id[stack[k].block] = Mark
          /\ \A k \in 1 .. m : k > 1 => stack[k].block \in Succs(f, stack[k - 1].block)
          /\ \A k \in 1 .. m :
               Elems(stack[k].todo) \ {Nil} \subseteq Succs(f, stack[k].block)
      <4>1. \A k \in 1 .. m : stack[k] \in Frames
        BY <1>2
      <4>2. \A k \in 1 .. m : id[stack[k].block] = Mark
        BY <1>2 DEF Chain
      <4>3. \A k \in 1 .. m : k > 1 => stack[k].block \in Succs(f, stack[k - 1].block)
        BY <1>2 DEF Chain
      <4>4. \A k \in 1 .. m :
              Elems(stack[k].todo) \ {Nil} \subseteq Succs(f, stack[k].block)
        BY <1>2 DEF Chain
      <4>5. QED
        BY <4>1, <4>2, <4>3, <4>4
    <3>2. \A k \in 1 .. m - 1 : id'[stack'[k].block] = Mark
      <4>1. m \in 1 .. m
        BY <1>n
      <4>2. ASSUME NEW k \in 1 .. m - 1
            PROVE  stack[k].block \in Blocks(f) \ {b} /\ id[stack[k].block] = Mark
        BY <1>2, <1>k, <1>d, <3>1, <4>1 DEF Frames
      <4>3. QED
        BY <1>3, <1>5, <4>2
    <3>3. \A j, k \in 1 .. m - 1 : stack'[j].block = stack'[k].block => j = k
      BY <1>3, <1>k, <1>d
    <3>4. \A k \in 1 .. m - 1 : k > 1 => stack'[k].block \in Succs(f, stack'[k - 1].block)
      BY <1>3, <1>k, <3>1
    <3>5. \A k \in 1 .. m - 1 : Elems(stack'[k].todo) \ {Nil} \subseteq Succs(f, stack'[k].block)
      BY <1>3, <1>k, <3>1
    <3>6. QED
      BY <1>1, <1>3, <1>6, <2>1, <2>2, <3>2, <3>3, <3>4, <3>5, ZenonT(60) DEF Chain, Succs
  <2>9. QED
    BY <1>14, <2>1, <2>5, <2>6, <2>7, <2>8 DEF IInv, EnteredFromBelow, Numbered
<1>17. QED
  BY <1>2, <1>15, <1>16

LEMMA StartWalkStep ==
  ASSUME IInv, StartWalk
  PROVE  IInv'
<1>1. /\ id' = [b \in Blocks(f) |-> IF b = 0 THEN Mark ELSE Unset]
      /\ stack' = <<Frame(0)>> /\ x' = f.n - 1 /\ pc' = "walk" /\ UNCHANGED <<f, call>>
  BY DEF StartWalk
<1>2. /\ Shape /\ 0 \in Blocks(f) /\ Mark # Unset
      /\ Mark \in 0 .. Word - 1 /\ Unset \in 0 .. Word - 1
      /\ f.n \in Nat \ {0}
  BY DEF IInv, Typed, Shape, Blocks, Mark, Unset
<1>3. Frame(0) \in Frames /\ Frame(0).block = 0 /\ Succs(f, 0) = Elems(Frame(0).todo) \ {Nil}
  BY <1>2, NewFrame
<1>4. /\ stack' \in Seq(Frames) /\ Len(stack') = 1 /\ DOMAIN stack' = {1} /\ stack' # <<>>
      /\ stack'[1] = Frame(0)
  BY <1>1, <1>3
<1>5. Seen' = {0} /\ Open' = {0} /\ Closed' = {} /\ Frames' = Frames
  <2>1. Seen' = {0}
    BY <1>1, <1>2 DEF Seen, Blocks, Unset
  <2>2. Open' = {0}
    BY <1>3, <1>4 DEF Open
  <2>3. QED
    BY <1>1, <2>1, <2>2 DEF Closed, Frames, Pointers, Blocks
<1>6. Chain'
  BY <1>1, <1>2, <1>3, <1>4, <1>5 DEF Chain, Succs
<1>7. Counted'
  <2>1. Cardinality({}) = 0 /\ x' + 1 .. f.n - 1 = {}
    BY <1>1, <1>2, FS_EmptySet
  <2>2. QED
    BY <1>1, <1>2, <1>5, <2>1 DEF Counted
<1>8. Explored' /\ Entered'
  BY <1>1, <1>2, <1>3, <1>4, <1>5 DEF Explored, Entered, Succs
<1>9. Typed'
  BY <1>1, <1>2 DEF IInv, Typed, Shape, Pointers, Blocks, Fields
<1>10. QED
  BY <1>1, <1>6, <1>7, <1>8, <1>9 DEF IInv, EnteredFromBelow, Numbered

LEMMA PredsStep ==
  ASSUME IInv, Preds
  PROVE  IInv'
<1>1. /\ pc = "preds" /\ f' = FillPreds(f) /\ id' = id /\ pc' \in {"preds", "RPO"}
  BY DEF Preds
<1>2. /\ DOMAIN f' = DOMAIN f /\ f'.n = f.n /\ f'.s1 = f.s1 /\ f'.s2 = f.s2
  BY <1>1 DEF FillPreds, IInv, Typed, Shape, Fields
<1>3. Typed'
  BY <1>1, <1>2 DEF IInv, Typed, Shape, Pointers, Blocks, Fields
<1>4. EnteredFromBelow'
  BY <1>1, <1>2 DEF IInv, EnteredFromBelow, Numbered, Blocks, Succs
<1>5. QED
  BY <1>1, <1>3, <1>4 DEF IInv

(***************************************************************************)
(* Compact: At(i) is the block that is given number i, and f' is f seen    *)
(* through At.                                                             *)
(***************************************************************************)
Kept  == f.n - NUnreachable
At(i) == CHOOSE b \in Blocks(f) : Number[b] = i
To(s) == IF s \in Blocks(f) THEN Number[s] ELSE s

LEMMA Renumbering ==
  ASSUME IInv, pc = "compact"
  PROVE  /\ Kept \in Nat \ {0} /\ Kept <= f.n
         /\ Seen \subseteq Blocks(f) /\ 0 \in Seen /\ Number[0] = 0
         /\ \A b \in Seen : Number[b] \in 0 .. Kept - 1 /\ At(Number[b]) = b
         /\ \A b, c \in Seen : id[b] < id[c] <=> Number[b] < Number[c]
         /\ \A i \in 0 .. Kept - 1 : At(i) \in Seen /\ Number[At(i)] = i
<1> DEFINE u == NUnreachable
           N == f.n - u
           at(i) == CHOOSE b \in Blocks(f) : Number[b] = i
<1>2. Shape /\ Complete /\ id \in [Blocks(f) -> 0 .. Word - 1]
  BY DEF IInv, Typed
<1>3. /\ f.n \in Nat \ {0} /\ Word \in Nat /\ f.n + 1 < Word
      /\ u \in 0 .. f.n - 1 /\ N \in Nat \ {0} /\ N <= f.n
  BY <1>2 DEF Shape, Complete
<1>4. Seen \subseteq Blocks(f) /\ \A b \in Blocks(f) \ Seen : Number[b] = Unset
  BY DEF Seen, Number
<1>5. \A b \in Seen : id[b] \in u .. f.n - 1
  BY <1>2 DEF Complete
<1>6. ASSUME NEW b \in Seen PROVE Number[b] = id[b] - u /\ Number[b] \in 0 .. N - 1
  <2>1. id[b] \in u .. f.n - 1 /\ id[b] # Unset
    BY <1>5 DEF Seen
  <2>2. id[b] - u \in 0 .. Word - 1 /\ id[b] - u \in 0 .. N - 1
    BY <1>3, <2>1
  <2>3. (id[b] - u + Word) % Word = id[b] - u
    BY <1>3, <2>2, Wraps
  <2>4. Number[b] = id[b] - u
    BY <1>4, <2>1, <2>3 DEF Number
  <2>5. QED
    BY <2>2, <2>4
<1>7. ASSUME NEW i \in 0 .. N - 1 PROVE at(i) \in Seen /\ Number[at(i)] = i
  <2>1. i + u \in u .. f.n - 1 /\ i # Unset
    BY <1>3 DEF Unset
  <2>2. PICK b \in Seen : id[b] = i + u
    BY <1>2, <2>1 DEF Complete
  <2>3. Number[b] = i
    BY <1>3, <1>6, <2>2
  <2>4. at(i) \in Blocks(f) /\ Number[at(i)] = i
    BY <1>4, <2>3
  <2>5. QED
    BY <1>4, <2>1, <2>4
<1>8. \A b, c \in Seen : Number[b] = Number[c] => b = c
  <2>1. \A b, c \in Seen : id[b] = id[c] => b = c
    BY <1>2 DEF Complete
  <2>2. \A b \in Seen : id[b] \in Int
    BY <1>3, <1>5
  <2>3. QED
    BY <1>3, <1>6, <2>1, <2>2
<1>9. \A b \in Seen : at(Number[b]) = b
  BY <1>6, <1>7, <1>8
<1>10. 0 \in Seen /\ Number[0] = 0
  <2>1. 0 \in Seen /\ id[0] = u
    BY <1>2 DEF Complete
  <2>2. QED
    BY <1>3, <1>6, <2>1
<1>11. ASSUME NEW b \in Seen, NEW c \in Seen
       PROVE  id[b] < id[c] <=> Number[b] < Number[c]
  <2>1. id[b] \in Int /\ id[c] \in Int /\ u \in Int
    BY <1>3, <1>5
  <2>2. QED
    BY <1>6, <2>1
<1>12. QED
  BY <1>3, <1>4, <1>6, <1>7, <1>9, <1>10, <1>11 DEF Kept, At

LEMMA CompactFields ==
  ASSUME IInv, Compact
  PROVE  /\ DOMAIN f' = DOMAIN f /\ f'.n = Kept /\ f'.ntmp = f.ntmp
         /\ f'.s1 = [i \in 0 .. Kept - 1 |-> To(f.s1[At(i)])]
         /\ f'.s2 = [i \in 0 .. Kept - 1 |-> To(f.s2[At(i)])]
         /\ f'.pred = [i \in 0 .. Kept - 1 |->
                         [k \in DOMAIN f.pred[At(i)] |-> To(f.pred[At(i)][k])]]
         /\ f'.phis = [i \in 0 .. Kept - 1 |->
                         [k \in DOMAIN f.phis[At(i)] |->
                            [f.phis[At(i)][k] EXCEPT
                               !.blks = [j \in DOMAIN @ |-> To(@[j])]]]]
         /\ f'.ins = [i \in 0 .. Kept - 1 |-> f.ins[At(i)]]
         /\ f'.jmp = [i \in 0 .. Kept - 1 |-> f.jmp[At(i)]]
<1>1. f' = Sorted(Number, Kept)
  BY DEF Compact, Kept
<1>2. Fields \subseteq DOMAIN f
  BY DEF IInv, Typed, Shape
<1> HIDE DEF Kept
<1>3. QED
  BY <1>1, <1>2, Zenon DEF Sorted, Fields, At, To

\* An edge between blocks that are kept is an edge between their numbers.
LEMMA EdgesMoved ==
  ASSUME IInv, Compact, NEW b \in Seen
  PROVE  /\ Number[b] \in 0 .. Kept - 1
         /\ \A c \in Succs(f, b) : c \in Seen /\ Number[c] \in Succs(f', Number[b])
         /\ \A i \in Succs(f', Number[b]) : i \in 0 .. Kept - 1 /\ At(i) \in Succs(f, b)
<1>1. /\ Number[b] \in 0 .. Kept - 1 /\ At(Number[b]) = b
      /\ \A c \in Seen : Number[c] \in 0 .. Kept - 1 /\ At(Number[c]) = c
      /\ Kept \in Nat \ {0} /\ b \in Blocks(f) /\ Seen \subseteq Blocks(f)
  BY Renumbering DEF Compact
<1>2. \A c \in Succs(f, b) : c \in Seen
  BY DEF IInv, Compact, Complete
<1>3. f'.s1[Number[b]] = To(f.s1[b]) /\ f'.s2[Number[b]] = To(f.s2[b])
  <2>1. /\ f'.s1 = [i \in 0 .. Kept - 1 |-> To(f.s1[At(i)])]
        /\ f'.s2 = [i \in 0 .. Kept - 1 |-> To(f.s2[At(i)])]
    BY CompactFields
  <2> HIDE DEF Kept, At, To
  <2>2. QED
    BY <1>1, <2>1
<1>4. ASSUME NEW s \in {f.s1[b], f.s2[b]}
      PROVE  /\ s = Nil => To(s) = Nil
             /\ s # Nil => /\ s \in Seen /\ To(s) = Number[s] /\ To(s) # Nil
                           /\ To(s) \in 0 .. Kept - 1 /\ At(To(s)) = s
  <2>1. CASE s = Nil
    <3>1. s \notin Blocks(f)
      BY <2>1 DEF Blocks, Nil
    <3>2. QED
      BY <2>1, <3>1 DEF To
  <2>2. CASE s # Nil
    <3>1. s \in Seen
      BY <1>2, <2>2 DEF Succs
    <3>2. To(s) = Number[s]
      BY <1>1, <3>1 DEF To
    <3>3. QED
      BY <1>1, <2>2, <3>1, <3>2 DEF Nil
  <2>3. QED
    BY <2>1, <2>2
<1>5. QED
  BY <1>1, <1>2, <1>3, <1>4 DEF Succs

LEMMA CompactStep ==
  ASSUME IInv, Compact
  PROVE  IInv'
<1>1. /\ pc = "compact" /\ id' = [i \in 0 .. Kept - 1 |-> i] /\ pc' \in {"preds", "done"}
  BY DEF Compact, Kept
<1>2. Shape /\ Complete
  BY <1>1 DEF IInv, Typed
<1>3. /\ Kept \in Nat \ {0} /\ Kept <= f.n /\ Word \in Nat /\ f.n + 1 < Word /\ f.n \in Nat
  BY <1>1, <1>2, Renumbering DEF Shape
<1>4. /\ DOMAIN f' = DOMAIN f /\ f'.n = Kept
      /\ f'.s1 = [i \in 0 .. Kept - 1 |-> To(f.s1[At(i)])]
      /\ f'.s2 = [i \in 0 .. Kept - 1 |-> To(f.s2[At(i)])]
  BY CompactFields
<1>5. ASSUME NEW i \in 0 .. Kept - 1, NEW s \in {f.s1[At(i)], f.s2[At(i)]}
      PROVE  To(s) \in 0 .. Kept - 1 \cup {Nil}
  <2>1. At(i) \in Seen /\ Seen \subseteq Blocks(f)
    BY <1>1, Renumbering
  <2>2. s # Nil => s \in Seen
    BY <1>2, <2>1 DEF Complete, Succs
  <2>3. s \in Seen => To(s) = Number[s] /\ Number[s] \in 0 .. Kept - 1
    BY <1>1, <2>1, Renumbering DEF To
  <2>4. Nil \notin Blocks(f)
    BY DEF Blocks, Nil
  <2>5. QED
    BY <2>2, <2>3, <2>4 DEF To
<1>6. Typed'
  <2> HIDE DEF Kept, At, To
  <2>1. /\ f'.s1 \in [0 .. Kept - 1 -> 0 .. Kept - 1 \cup {Nil}]
        /\ f'.s2 \in [0 .. Kept - 1 -> 0 .. Kept - 1 \cup {Nil}]
    BY <1>4, <1>5
  <2>2. Fields \subseteq DOMAIN f'
    BY <1>2, <1>4 DEF Shape
  <2>3. f'.n \in Nat \ {0} /\ f'.n + 1 < Word
    BY <1>3, <1>4
  <2>4. id' \in [0 .. Kept - 1 -> 0 .. Word - 1]
    BY <1>1, <1>3
  <2>5. Blocks(f)' = 0 .. Kept - 1 /\ Fields' = Fields
    BY <1>4 DEF Blocks, Fields
  <2>6. QED
    BY <1>1, <1>3, <2>1, <2>2, <2>3, <2>4, <2>5 DEF Typed, Shape, Pointers
<1>7. EnteredFromBelow'
  <2>1. Blocks(f)' = 0 .. Kept - 1
    BY <1>4 DEF Blocks
  <2>2. ASSUME NEW i \in 0 .. Kept - 1, i # 0
        PROVE  \E q \in 0 .. i - 1 : i \in Succs(f', q)
    <3>1. At(i) \in Seen /\ Number[At(i)] = i /\ At(i) # 0
      BY <1>1, <2>2, Renumbering
    <3>2. PICK p \in Seen : At(i) \in Succs(f, p) /\ id[p] < id[At(i)]
      BY <1>2, <3>1 DEF Complete
    <3>3. Number[p] < i /\ Number[p] \in 0 .. Kept - 1
      BY <1>1, <3>1, <3>2, Renumbering
    <3>4. Number[p] \in 0 .. i - 1
      BY <1>3, <3>3
    <3>5. i \in Succs(f', Number[p])
      BY <3>1, <3>2, EdgesMoved
    <3>6. QED
      BY <3>4, <3>5
  <2>3. QED
    BY <2>1, <2>2 DEF EnteredFromBelow, Succs
<1>8. QED
  BY <1>1, <1>6, <1>7 DEF IInv

-----------------------------------------------------------------------------
LEMMA BuildableShape ==
  ASSUME Buildable, Init
  PROVE  Shape
<1>1. IsFunction(f) /\ Fields \subseteq DOMAIN f /\ Word \in Nat /\ f.n + 1 < Word
  BY DEF Init, Buildable
<1>2. QED
  BY <1>1 DEF IsFunction, Shape, Pointers

LEMMA InitIInv ==
  ASSUME Shape, Init
  PROVE  IInv
<1>1. id = [b \in Blocks(f) |-> b] /\ pc = "RPO"
  BY DEF Init
<1>2. id \in [Blocks(f) -> 0 .. Word - 1]
  BY <1>1 DEF Shape, Blocks
<1>3. QED
  BY <1>1, <1>2 DEF IInv, Typed, EnteredFromBelow, Numbered

LEMMA Stutter ==
  ASSUME IInv, UNCHANGED vars
  PROVE  IInv'
<1>1. UNCHANGED <<f, id, stack, x, call, pc>>
  BY DEF vars
<1>2. Typed'
  BY <1>1 DEF IInv, Typed, Shape, Pointers, Blocks, Fields
<1>3. /\ Open' = Open /\ Seen' = Seen /\ Closed' = Closed /\ Frames' = Frames
      /\ NUnreachable' = NUnreachable
  BY <1>1 DEF Open, Seen, Closed, Frames, Pointers, Blocks, Unset, NUnreachable
<1>4. (Chain => Chain') /\ (Counted => Counted') /\ (Entered => Entered')
  BY <1>1, <1>3 DEF Chain, Counted, Entered, Succs
<1>5. (Explored => Explored') /\ (Complete => Complete')
  BY <1>1, <1>3 DEF Explored, Complete, Succs
<1>6. QED
  BY <1>1, <1>2, <1>4, <1>5 DEF IInv, EnteredFromBelow, Numbered

LEMMA StepIInv ==
  ASSUME IInv, [Next]_vars
  PROVE  IInv'
BY StartWalkStep, DescendStep, SkipStep, LeaveStep, CompactStep, PredsStep, Stutter DEF Next

LEMMA IInvInductive ==
  ASSUME Buildable
  PROVE  Spec => []IInv
BY BuildableShape, InitIInv, StepIInv, PTL DEF Spec

LEMMA Implied ==
  ASSUME IInv
  PROVE  Consecutive
BY DEF IInv, Consecutive, Counted, Chain, Closed, Seen

(***************************************************************************)
(* The numbers FillRPO has given are, at every moment of the walk, the     *)
(* ones from nblk-1 down to x+1, once each, and no block is open twice:    *)
(* the recursion ends and the uint32 counter does not run past the blocks  *)
(* that are left, for any graph of fewer than 2^32 - 1 blocks.             *)
(***************************************************************************)
THEOREM NoHoles ==
  ASSUME Buildable
  PROVE  Spec => []Consecutive
<1>1. IInv => Consecutive
  BY Implied
<1>2. QED
  BY <1>1, IInvInductive, PTL

(***************************************************************************)
(* After FillRPO every block but Start has a predecessor with a smaller    *)
(* number: what lets FillDom handle the blocks in order, each with one     *)
(* predecessor that has been handled already.                              *)
(***************************************************************************)
THEOREM Entry ==
  ASSUME Buildable
  PROVE  Spec => []EnteredFromBelow
<1>1. IInv => EnteredFromBelow
  BY DEF IInv
<1>2. QED
  BY <1>1, IInvInductive, PTL

-----------------------------------------------------------------------------
(***************************************************************************)
(* What the numbering leaves for the passes after it: a function still,    *)
(* and Pred lists that name the sources of the edges.  The second call of  *)
(* FillRPO comes after FillPreds, and renumbers blocks that Pred lists     *)
(* already name; it drops none of them, so none of them is dangling.       *)
(***************************************************************************)
\* IsFunction but for the Pred lists, which may name dropped blocks.
Whole(g) ==
  /\ g.ntmp \in Nat
  /\ g.phis \in [Blocks(g) -> Seq(Phi)]
  /\ g.ins \in [Blocks(g) -> Seq(Instruction)]
  /\ g.jmp \in [Blocks(g) -> Jump]
  /\ \A b \in Blocks(g) :
       /\ RefOK(g, g.jmp[b].arg)
       /\ \A i \in DOMAIN g.ins[b] :
            \A r \in Elems(g.ins[b][i].arg) \cup {g.ins[b][i].to} : RefOK(g, r)
       /\ \A i \in DOMAIN g.phis[b] :
            LET p == g.phis[b][i] IN
            /\ Len(p.args) = Len(p.blks)
            /\ \A r \in Elems(p.args) \cup {p.to} : RefOK(g, r)

PredLists(g) == g.pred \in [Blocks(g) -> Seq(Blocks(g))]

FromBelow == \A b \in Blocks(f) \ {0} : \E p \in 0 .. b - 1 : b \in Succs(f, p)

PInv ==
  /\ Whole(f) /\ call \in {1, 2}
  /\ call = 2 => PredLists(f) /\ PredsRight(f) /\ FromBelow
  /\ pc = "done" => call = 2

LEMMA FunctionParts ==
  ASSUME Shape, Whole(f), PredLists(f)
  PROVE  IsFunction(f)
BY DEF Shape, Whole, PredLists, IsFunction, Pointers

\* A sequence changed element by element is a sequence.
LEMMA MapSeq ==
  ASSUME NEW S, NEW s \in Seq(S), NEW T, NEW t \in [DOMAIN s -> T]
  PROVE  t \in Seq(T) /\ Len(t) = Len(s) /\ DOMAIN t = DOMAIN s
<1>1. Len(s) \in Nat /\ DOMAIN s = 1 .. Len(s)
  OBVIOUS
<1>2. t \in Seq(T)
  BY <1>1 DEF Seq
<1>3. QED
  BY <1>1, <1>2

(***************************************************************************)
(* In a numbered function every block is reached.                          *)
(***************************************************************************)
LEMMA AllSeen ==
  ASSUME IInv, pc = "compact", FromBelow
  PROVE  Seen = Blocks(f)
<1> DEFINE Bad == Blocks(f) \ Seen
<1>1. Shape /\ 0 \in Seen /\ \A b \in Seen : Succs(f, b) \subseteq Seen
  BY DEF IInv, Typed, Complete
<1>2. ASSUME Bad # {} PROVE FALSE
  <2>1. PICK m \in Bad : \A j \in Bad : m <= j
    <3>1. Bad \subseteq Nat
      BY DEF Blocks
    <3> HIDE DEF Bad
    <3>2. QED
      BY <1>2, <3>1, LeastNat
  <2>2. m \in Blocks(f) \ {0}
    BY <1>1, <2>1
  <2>3. PICK p \in 0 .. m - 1 : m \in Succs(f, p)
    BY <2>2 DEF FromBelow
  <2>4. p \in Blocks(f) /\ ~(m <= p)
    BY <1>1, <2>2, <2>3 DEF Blocks, Shape
  <2>5. p \in Seen
    BY <2>1, <2>4
  <2>6. QED
    BY <1>1, <2>1, <2>3, <2>5
<1>3. QED
  BY <1>2 DEF Seen

LEMMA WholeKept ==
  ASSUME IInv, Compact, Whole(f)
  PROVE  Whole(f')
<1> DEFINE phi(b, k) == [f.phis[b][k] EXCEPT !.blks = [j \in DOMAIN @ |-> To(@[j])]]
           moved(b) == [k \in DOMAIN f.phis[b] |-> phi(b, k)]
<1>1. /\ f'.n = Kept /\ f'.ntmp = f.ntmp
      /\ f'.phis = [i \in 0 .. Kept - 1 |-> moved(At(i))]
      /\ f'.ins = [i \in 0 .. Kept - 1 |-> f.ins[At(i)]]
      /\ f'.jmp = [i \in 0 .. Kept - 1 |-> f.jmp[At(i)]]
  BY CompactFields
<1>2. Blocks(f') = 0 .. Kept - 1
  BY <1>1 DEF Blocks
<1>3. \A i \in 0 .. Kept - 1 : At(i) \in Blocks(f)
  BY Renumbering DEF Compact
<1>4. ASSUME NEW v \in Nat PROVE To(v) \in Nat
  <2>1. ASSUME v \in Blocks(f) PROVE Number[v] \in Nat
    <3>1. v \in Seen => Number[v] \in 0 .. Kept - 1
      BY Renumbering DEF Compact
    <3>2. v \notin Seen => Number[v] = Unset
      BY <2>1 DEF Seen, Number
    <3>3. Unset \in Nat
      BY DEF IInv, Typed, Shape, Unset
    <3>4. QED
      BY <3>1, <3>2, <3>3
  <2>2. QED
    BY <2>1 DEF To
<1>5. ASSUME NEW b \in Blocks(f), NEW k \in DOMAIN f.phis[b]
      PROVE  /\ phi(b, k) \in Phi
             /\ phi(b, k).to = f.phis[b][k].to /\ phi(b, k).args = f.phis[b][k].args
             /\ Len(phi(b, k).blks) = Len(f.phis[b][k].blks)
  <2> DEFINE p == f.phis[b][k]  q == [j \in DOMAIN p.blks |-> To(p.blks[j])]
  <2>1. p \in Phi
    BY DEF Whole
  <2>2. p.blks \in Seq(Nat) /\ p = [to |-> p.to, args |-> p.args, blks |-> p.blks]
        /\ p.to \in Ref /\ p.args \in Seq(Ref)
    BY <2>1 DEF Phi
  <2>3. q \in [DOMAIN p.blks -> Nat]
    <3>1. \A j \in DOMAIN p.blks : p.blks[j] \in Nat
      BY <2>2
    <3> HIDE DEF p
    <3>2. QED
      BY <1>4, <3>1
  <2>4. q \in Seq(Nat) /\ Len(q) = Len(p.blks)
    <3> HIDE DEF p, q
    <3>1. QED
      BY <2>2, <2>3, MapSeq
  <2>5. phi(b, k) = [p EXCEPT !.blks = q]
    OBVIOUS
  <2> HIDE DEF p, q, phi
  <2>6. phi(b, k) = [to |-> p.to, args |-> p.args, blks |-> q]
    BY <2>2, <2>5
  <2>7. QED
    BY <2>2, <2>4, <2>6 DEF Phi, p
<1> HIDE DEF phi
<1>6. ASSUME NEW b \in Blocks(f)
      PROVE  moved(b) \in Seq(Phi) /\ DOMAIN moved(b) = DOMAIN f.phis[b]
  <2>1. f.phis[b] \in Seq(Phi)
    BY DEF Whole
  <2>2. moved(b) \in [DOMAIN f.phis[b] -> Phi]
    BY <1>5
  <2> HIDE DEF moved
  <2>3. QED
    BY <2>1, <2>2, MapSeq
<1>7. ASSUME NEW b \in Blocks(f), NEW k \in DOMAIN moved(b)
      PROVE  /\ Len(moved(b)[k].args) = Len(moved(b)[k].blks)
             /\ \A r \in Elems(moved(b)[k].args) \cup {moved(b)[k].to} : RefOK(f, r)
  <2>1. k \in DOMAIN f.phis[b] /\ moved(b)[k] = phi(b, k)
    BY <1>6
  <2>2. /\ Len(f.phis[b][k].args) = Len(f.phis[b][k].blks)
        /\ \A r \in Elems(f.phis[b][k].args) \cup {f.phis[b][k].to} : RefOK(f, r)
    BY <2>1 DEF Whole
  <2>3. QED
    BY <1>5, <2>1, <2>2
<1> HIDE DEF moved
<1>8. \A r : RefOK(f, r) => RefOK(f', r)
  BY <1>1 DEF RefOK, Temps
<1> HIDE DEF At, Kept
<1>9. /\ f'.phis \in [0 .. Kept - 1 -> Seq(Phi)]
      /\ f'.ins \in [0 .. Kept - 1 -> Seq(Instruction)]
      /\ f'.jmp \in [0 .. Kept - 1 -> Jump]
  BY <1>1, <1>3, <1>6 DEF Whole
<1>10. ASSUME NEW i \in 0 .. Kept - 1
       PROVE  /\ RefOK(f', f'.jmp[i].arg)
              /\ \A k \in DOMAIN f'.ins[i] :
                   \A r \in Elems(f'.ins[i][k].arg) \cup {f'.ins[i][k].to} : RefOK(f', r)
              /\ \A k \in DOMAIN f'.phis[i] :
                   /\ Len(f'.phis[i][k].args) = Len(f'.phis[i][k].blks)
                   /\ \A r \in Elems(f'.phis[i][k].args) \cup {f'.phis[i][k].to} : RefOK(f', r)
  <2>1. /\ f'.phis[i] = moved(At(i)) /\ f'.ins[i] = f.ins[At(i)] /\ f'.jmp[i] = f.jmp[At(i)]
        /\ At(i) \in Blocks(f)
    BY <1>1, <1>3
  <2>2. /\ RefOK(f, f.jmp[At(i)].arg)
        /\ \A k \in DOMAIN f.ins[At(i)] :
             \A r \in Elems(f.ins[At(i)][k].arg) \cup {f.ins[At(i)][k].to} : RefOK(f, r)
    BY <2>1 DEF Whole
  <2>3. QED
    BY <1>7, <1>8, <2>1, <2>2
<1>11. QED
  BY <1>1, <1>2, <1>9, <1>10 DEF Whole

(***************************************************************************)
(* Where every block is reached, every block is kept, and its Pred list is *)
(* renumbered as the edges are.  So it is in the second call.              *)
(***************************************************************************)
LEMMA PredsMoved ==
  ASSUME IInv, Compact, PredLists(f), PredsRight(f), Seen = Blocks(f)
  PROVE  PredLists(f') /\ PredsRight(f')
<1> DEFINE moved(b) == [k \in DOMAIN f.pred[b] |-> To(f.pred[b][k])]
<1>1. f'.n = Kept /\ f'.pred = [i \in 0 .. Kept - 1 |-> moved(At(i))]
  BY CompactFields
<1>2. Seen = Blocks(f)
  OBVIOUS
<1>3. /\ \A b \in Blocks(f) : Number[b] \in 0 .. Kept - 1 /\ At(Number[b]) = b
      /\ \A i \in 0 .. Kept - 1 : At(i) \in Blocks(f) /\ Number[At(i)] = i
  BY <1>2, Renumbering DEF Compact
<1>4. Blocks(f') = 0 .. Kept - 1
  BY <1>1 DEF Blocks
<1> HIDE DEF At, Kept
<1>5. ASSUME NEW b \in Blocks(f)
      PROVE  /\ moved(b) \in Seq(0 .. Kept - 1)
             /\ Elems(moved(b)) = {Number[p] : p \in Elems(f.pred[b])}
  <2>1. f.pred[b] \in Seq(Blocks(f))
    BY DEF PredLists
  <2>2. \A k \in DOMAIN f.pred[b] : f.pred[b][k] \in Blocks(f)
                                    /\ moved(b)[k] = Number[f.pred[b][k]]
    BY <2>1 DEF To
  <2>3. moved(b) \in [DOMAIN f.pred[b] -> 0 .. Kept - 1]
    BY <1>3, <2>2
  <2> DEFINE t == moved(b)  s == f.pred[b]
  <2>4. Elems(t) = {Number[p] : p \in Elems(s)}
    <3>1. DOMAIN t = DOMAIN s
      OBVIOUS
    <3>2. \A k \in DOMAIN s : t[k] = Number[s[k]]
      BY <2>2
    <3> HIDE DEF s, t
    <3>3. QED
      BY <3>1, <3>2 DEF Elems
  <2> HIDE DEF moved
  <2>5. QED
    BY <2>1, <2>3, <2>4, MapSeq
<1>6. ASSUME NEW i \in 0 .. Kept - 1
      PROVE  /\ f'.pred[i] \in Seq(0 .. Kept - 1)
             /\ Elems(f'.pred[i]) = {q \in 0 .. Kept - 1 : i \in Succs(f', q)}
  <2>1. f'.pred[i] = moved(At(i)) /\ At(i) \in Blocks(f) /\ Number[At(i)] = i
    BY <1>1, <1>3
  <2>2. Elems(f.pred[At(i)]) = {p \in Blocks(f) : At(i) \in Succs(f, p)}
    BY <2>1 DEF PredsRight
  <2>3. ASSUME NEW p \in Blocks(f), At(i) \in Succs(f, p)
        PROVE  Number[p] \in 0 .. Kept - 1 /\ i \in Succs(f', Number[p])
    BY <1>2, <2>1, <2>3, EdgesMoved, <1>3
  <2>4. ASSUME NEW q \in 0 .. Kept - 1, i \in Succs(f', q)
        PROVE  At(q) \in Blocks(f) /\ At(i) \in Succs(f, At(q)) /\ q = Number[At(q)]
    BY <1>2, <1>3, <2>4, EdgesMoved
  <2>5. QED
    BY <1>5, <2>1, <2>2, <2>3, <2>4
<1>7. PredLists(f')
  BY <1>1, <1>3, <1>4, <1>5 DEF PredLists
<1>8. PredsRight(f')
  BY <1>4, <1>6 DEF PredsRight
<1>9. QED
  BY <1>7, <1>8

LEMMA PInit ==
  ASSUME Buildable, Init
  PROVE  PInv
BY DEF Buildable, Init, IsFunction, Whole, PInv

LEMMA PStep ==
  ASSUME IInv, PInv, [Next]_vars
  PROVE  PInv'
<1>1. CASE Compact
  <2>1. IInv' /\ call' = call /\ pc = "compact"
        /\ (pc' = "done" => call # 1) /\ pc' \in {"preds", "done"}
    BY <1>1, CompactStep DEF Compact
  <2>2. Whole(f')
    BY <1>1, WholeKept DEF PInv
  <2>3. call = 2 => PredLists(f') /\ PredsRight(f')
    BY <1>1, <2>1, AllSeen, PredsMoved DEF PInv
  <2>4. FromBelow'
    BY <2>1 DEF IInv, EnteredFromBelow, FromBelow, Numbered
  <2>5. QED
    BY <2>1, <2>2, <2>3, <2>4 DEF PInv
<1>2. CASE Preds
  <2>1. f' = FillPreds(f) /\ pc = "preds" /\ call' \in {1, 2} /\ pc' # "done"
    BY <1>2 DEF Preds, PInv
  <2>2. /\ f'.pred = [c \in Blocks(f) |-> PredsOf(f, c)]
        /\ f'.n = f.n /\ f'.s1 = f.s1 /\ f'.s2 = f.s2 /\ f'.ntmp = f.ntmp
        /\ f'.phis = f.phis /\ f'.ins = f.ins /\ f'.jmp = f.jmp
    <3>1. Fields \subseteq DOMAIN f
      BY DEF IInv, Typed, Shape
    <3>2. QED
      BY <2>1, <3>1 DEF FillPreds, Fields
  <2>3. Blocks(f') = Blocks(f) /\ \A b : Succs(f', b) = Succs(f, b)
    BY <2>2 DEF Blocks, Succs
  <2>4. \A c \in Blocks(f) : /\ PredsOf(f, c) \in Seq(Blocks(f))
                            /\ Elems(PredsOf(f, c)) = {p \in Blocks(f) : c \in Succs(f, p)}
    BY PredsMean DEF IInv, Typed, Shape
  <2>5. PredLists(f')
    BY <2>2, <2>3, <2>4 DEF PredLists
  <2>6. PredsRight(f')
    BY <2>2, <2>3, <2>4 DEF PredsRight
  <2>7. FromBelow'
    BY <2>1, <2>3 DEF IInv, EnteredFromBelow, FromBelow, Numbered
  <2>8. Whole(f')
    BY <2>2, <2>3 DEF PInv, Whole, RefOK, Temps
  <2>9. QED
    BY <2>1, <2>5, <2>6, <2>7, <2>8 DEF PInv
<1>3. CASE StartWalk \/ Descend \/ Skip \/ Leave
  <2>1. f' = f /\ call' = call /\ pc' # "done"
    BY <1>3 DEF StartWalk, Descend, Skip, Leave
  <2>2. QED
    BY <2>1 DEF PInv, FromBelow
<1>4. CASE UNCHANGED vars
  BY <1>4 DEF PInv, FromBelow, vars
<1>5. QED
  BY <1>1, <1>2, <1>3, <1>4 DEF Next

LEMMA LeavesPrepared ==
  ASSUME IInv, PInv, pc = "done"
  PROVE  Prepared(f)
<1>1. Shape /\ Whole(f) /\ PredLists(f) /\ PredsRight(f) /\ FromBelow
  BY DEF IInv, Typed, PInv
<1>2. ASSUME NEW b \in Blocks(f) \ {0}
      PROVE  \E k \in DOMAIN f.pred[b] : f.pred[b][k] < b
  <2>1. PICK p \in 0 .. b - 1 : b \in Succs(f, p)
    BY <1>1 DEF FromBelow
  <2>2. p \in Blocks(f) /\ p < b
    BY <1>1, <2>1 DEF Blocks, Shape
  <2>3. p \in Elems(f.pred[b])
    BY <1>1, <2>1, <2>2 DEF PredsRight
  <2>4. QED
    BY <2>2, <2>3 DEF Elems
<1>3. QED
  BY <1>1, <1>2, FunctionParts DEF Prepared, InOrder

(***************************************************************************)
(* What FillRPO and FillPreds leave is what FillDom relies on, whatever    *)
(* the builder's function: blocks entered from below, Pred lists that name *)
(* the sources of the edges, no pointer to a block that is gone.           *)
(***************************************************************************)
THEOREM Prepares ==
  ASSUME Buildable
  PROVE  Spec => [](pc = "done" => Prepared(f))
<1>1. Init => IInv /\ PInv
  BY BuildableShape, InitIInv, PInit
<1>2. IInv /\ PInv /\ [Next]_vars => (IInv /\ PInv)'
  BY StepIInv, PStep
<1>3. IInv /\ PInv => (pc = "done" => Prepared(f))
  BY LeavesPrepared
<1>4. QED
  BY <1>1, <1>2, <1>3, PTL DEF Spec

-----------------------------------------------------------------------------
(***************************************************************************)
(* An edge that does not go up closes a cycle.  When a call returns, an    *)
(* edge from its block leads to a block that is done, and is numbered      *)
(* higher, or to one whose call is still open further down the stack; from *)
(* there the stack itself is a path back.  All that is entered after an    *)
(* open call is numbered higher than its block, so the path stays among    *)
(* blocks numbered no lower.                                               *)
(***************************************************************************)
\* Paths through blocks of W lead from b to p.
Led(b, p, W) ==
  \A S \in SUBSET Blocks(f) :
    b \in S /\ (\A c \in S : Succs(f, c) \cap W \subseteq S) => p \in S

Since(j) == Closed \cup {stack[i].block : i \in j .. Len(stack)}

NoLower(b) == {c \in Closed : id[c] >= id[b]}

Returned(p, b) ==
  \/ b \in Closed /\ (id[b] > id[p] \/ Led(b, p, NoLower(b)))
  \/ \E j \in DOMAIN stack : stack[j].block = b /\ Led(b, p, Since(j))

AllReturned == \A p \in Closed : \A b \in Succs(f, p) : Returned(p, b)

BInv ==
  /\ pc = "walk" => AllReturned
  /\ pc = "compact" => \A p \in Seen : \A b \in Succs(f, p) :
                         id[b] > id[p] \/ Led(b, p, {c \in Seen : id[c] >= id[b]})
  /\ Numbered => \A p \in Blocks(f) : \A b \in Succs(f, p) :
                         p >= b => Led(b, p, b .. f.n - 1)

LEMMA LedMore ==
  ASSUME NEW b, NEW p, NEW V, NEW W, V \subseteq W, Led(b, p, V)
  PROVE  Led(b, p, W)
BY DEF Led

LEMMA LedSelf == \A b, W : Led(b, b, W)
BY DEF Led

\* The stack is a path.
LEMMA LedUp ==
  ASSUME IInv, pc = "walk", NEW j \in DOMAIN stack
  PROVE  Led(stack[j].block, Top.block, Since(j))
<1> DEFINE m == Len(stack)
<1>1. /\ Chain /\ m \in Nat \ {0} /\ DOMAIN stack = 1 .. m
      /\ Top.block = stack[m].block
  BY TopFacts DEF Top
<1> HIDE DEF m
<1> SUFFICES ASSUME NEW S \in SUBSET Blocks(f), stack[j].block \in S,
                    \A c \in S : Succs(f, c) \cap Since(j) \subseteq S
             PROVE  stack[m].block \in S
  BY <1>1 DEF Led
<1> DEFINE Bad == {i \in j .. m : stack[i].block \notin S}
<1>2. ASSUME Bad # {} PROVE FALSE
  <2>1. PICK i \in Bad : \A l \in Bad : i <= l
    <3>1. Bad \subseteq Nat
      BY <1>1
    <3> HIDE DEF Bad
    <3>2. QED
      BY <1>2, <3>1, LeastNat
  <2>2. i \in 1 .. m /\ i > 1 /\ i - 1 \in j .. m /\ ~(i <= i - 1) /\ i - 1 \in 1 .. m
    BY <1>1, <2>1
  <2>3. stack[i - 1].block \in S
    BY <2>1, <2>2
  <2>4. stack[i].block \in Succs(f, stack[i - 1].block)
    BY <1>1, <2>2 DEF Chain
  <2>5. stack[i].block \in Since(j)
    BY <2>1 DEF Since, m
  <2>6. QED
    BY <2>1, <2>3, <2>4, <2>5
<1>3. m \in j .. m
  BY <1>1
<1>4. QED
  BY <1>2, <1>3

LEMMA StartWalkBack ==
  ASSUME IInv, StartWalk
  PROVE  BInv'
<1>1. /\ id' = [b \in Blocks(f) |-> IF b = 0 THEN Mark ELSE Unset]
      /\ stack' = <<Frame(0)>> /\ pc' = "walk" /\ f' = f
  BY DEF StartWalk
<1>2. /\ Shape /\ 0 \in Blocks(f) /\ Mark # Unset
  BY DEF IInv, Typed, Shape, Blocks, Mark, Unset
<1>3. Frame(0).block = 0
  BY <1>2, NewFrame
<1>4. Closed' = {}
  <2>1. Seen' = {0}
    BY <1>1, <1>2 DEF Seen, Blocks, Unset
  <2>2. Open' = {0}
    BY <1>1, <1>3 DEF Open
  <2>3. QED
    BY <2>1, <2>2 DEF Closed
<1>5. QED
  BY <1>1, <1>4 DEF BInv, AllReturned, Numbered

LEMMA SkipBack ==
  ASSUME IInv, BInv, Skip
  PROVE  BInv'
<1> DEFINE m == Len(stack)
<1>1. /\ pc = "walk" /\ pc' = "walk" /\ Top.todo # <<>>
      /\ stack' = Advanced /\ UNCHANGED <<f, id, x, call, pc>>
  BY DEF Skip, Advanced
<1>2. m \in Nat \ {0} /\ DOMAIN stack = 1 .. m
  BY <1>1, TopFacts
<1>3. /\ Len(stack') = m /\ DOMAIN stack' = 1 .. m
      /\ \A k \in 1 .. m : stack'[k].block = stack[k].block
  <2>1. /\ stack' \in Seq(Frames) /\ Len(stack') = m
        /\ \A k \in 1 .. m : stack'[k].block = stack[k].block
    BY <1>1, Advance
  <2>2. QED
    BY <1>2, <2>1
<1>4. Closed' = Closed
  <2>1. Open' = Open
    BY <1>2, <1>3 DEF Open
  <2>2. QED
    BY <1>1, <2>1 DEF Seen, Closed, Blocks, Unset
<1>5. \A j \in 1 .. m : Since(j)' = Since(j)
  <2> SUFFICES ASSUME NEW j \in 1 .. m PROVE Since(j)' = Since(j)
    OBVIOUS
  <2>1. \A i \in j .. m : i \in 1 .. m
    BY <1>2
  <2>2. QED
    BY <1>3, <1>4, <2>1 DEF Since
<1>6. ASSUME NEW p \in Closed, NEW b \in Succs(f, p)
      PROVE  Returned(p, b)'
  <2>1. Returned(p, b)
    BY <1>1 DEF BInv, AllReturned
  <2>2. CASE b \in Closed /\ (id[b] > id[p] \/ Led(b, p, NoLower(b)))
    BY <1>1, <1>4, <2>2 DEF Returned, NoLower, Led, Blocks, Succs
  <2>3. ASSUME NEW j \in DOMAIN stack, stack[j].block = b, Led(b, p, Since(j))
        PROVE  Returned(p, b)'
    <3>1. j \in DOMAIN stack' /\ stack'[j].block = b /\ Since(j)' = Since(j)
      BY <1>2, <1>3, <1>5, <2>3
    <3>2. Led(b, p, Since(j))'
      BY <1>1, <2>3, <3>1 DEF Led, Blocks, Succs
    <3>3. QED
      BY <3>1, <3>2 DEF Returned
  <2>4. QED
    BY <2>1, <2>2, <2>3 DEF Returned
<1>7. AllReturned'
  BY <1>1, <1>4, <1>6 DEF AllReturned, Succs
<1>8. QED
  BY <1>1, <1>7 DEF BInv, Numbered

LEMMA DescendBack ==
  ASSUME IInv, BInv, Descend
  PROVE  BInv'
<1> DEFINE m == Len(stack)  s == Head(Top.todo)
<1>1. pc = "walk" /\ pc' = "walk" /\ f' = f
  BY DEF Descend
<1>2. m \in Nat \ {0} /\ DOMAIN stack = 1 .. m
  BY <1>1, TopFacts
<1>3. /\ Len(stack') = m + 1 /\ DOMAIN stack' = 1 .. m + 1
      /\ \A k \in 1 .. m : stack'[k].block = stack[k].block
      /\ Closed' = Closed /\ Closed \subseteq Seen
      /\ \A b \in Seen : id'[b] = id[b]
  BY DescendFacts
<1>4. ASSUME NEW j \in 1 .. m
      PROVE  Since(j) \subseteq Since(j)'
  <2>1. \A i \in j .. m : i \in 1 .. m /\ i \in j .. m + 1
    BY <1>2
  <2>2. QED
    BY <1>3, <2>1 DEF Since
<1>5. ASSUME NEW p \in Closed, NEW b \in Succs(f, p)
      PROVE  Returned(p, b)'
  <2>1. Returned(p, b)
    BY <1>1 DEF BInv, AllReturned
  <2>2. CASE b \in Closed /\ (id[b] > id[p] \/ Led(b, p, NoLower(b)))
    <3>1. id'[b] = id[b] /\ id'[p] = id[p] /\ NoLower(b)' = NoLower(b)
      BY <1>3, <2>2 DEF NoLower
    <3>2. Led(b, p, NoLower(b)) => Led(b, p, NoLower(b))'
      BY <1>1, <3>1 DEF Led, Blocks, Succs
    <3>3. QED
      BY <1>3, <2>2, <3>1, <3>2 DEF Returned
  <2>3. ASSUME NEW j \in DOMAIN stack, stack[j].block = b, Led(b, p, Since(j))
        PROVE  Returned(p, b)'
    <3>1. j \in DOMAIN stack' /\ stack'[j].block = b /\ j \in 1 .. m
      BY <1>2, <1>3, <2>3
    <3>2. Led(b, p, Since(j)')
      BY <1>4, <2>3, <3>1, LedMore
    <3>3. Led(b, p, Since(j))'
      BY <1>1, <3>2 DEF Led, Blocks, Succs
    <3>4. QED
      BY <3>1, <3>3 DEF Returned
  <2>4. QED
    BY <2>1, <2>2, <2>3 DEF Returned
<1>6. AllReturned'
  BY <1>1, <1>3, <1>5 DEF AllReturned, Succs
<1>7. QED
  BY <1>1, <1>6 DEF BInv, Numbered

LEMMA LeaveBack ==
  ASSUME IInv, BInv, Leave
  PROVE  BInv'
<1>0. PICK m, t : m = Len(stack) /\ t = Top.block
  OBVIOUS
<1>1. /\ pc = "walk" /\ f' = f /\ stack' = Below
      /\ pc' = IF Below = <<>> THEN "compact" ELSE "walk"
      /\ Top.todo = <<>>
  BY DEF Leave
<1>2. /\ m \in Nat \ {0} /\ DOMAIN stack = 1 .. m /\ t = stack[m].block /\ t \in Blocks(f)
      /\ Chain /\ Counted /\ Explored
  BY <1>0, <1>1, TopFacts DEF Top
<1>3. /\ DOMAIN stack' = 1 .. m - 1 /\ Len(stack') = m - 1
      /\ Below = <<>> <=> m = 1
      /\ \A k \in 1 .. m - 1 : stack'[k] = stack[k]
      /\ id'[t] = x /\ Seen' = Seen /\ Open' = Open \ {t}
      /\ Closed' = Closed \cup {t} /\ t \notin Closed /\ Closed \subseteq Seen
      /\ Seen \subseteq Blocks(f)
      /\ \A c \in Closed : id'[c] = id[c]
  BY <1>0, LeaveFacts
<1>4. x \in Nat /\ \A c \in Closed : id[c] > x /\ id[c] \in Nat
  <2>1. x \in Nat /\ f.n \in Nat /\ \A c \in Closed : id[c] \in x + 1 .. f.n - 1
    BY <1>2 DEF Counted, IInv, Typed, Shape
  <2>2. QED
    BY <2>1
<1>m. m \in Nat /\ m > 0 /\ Len(stack) = m
  BY <1>0, <1>2
<1> USE <1>m
<1>5. Since(m) = Closed'
  <2>1. m .. m = {m}
    BY <1>m
  <2>2. {stack[i].block : i \in m .. m} = {t}
    BY <1>2, <2>1
  <2>3. QED
    BY <1>3, <1>m, <2>2 DEF Since
<1>6. ASSUME NEW j \in 1 .. m - 1
      PROVE  Since(j) \subseteq Since(j)' /\ j \in 1 .. m
  <2>1. j \in 1 .. m /\ \A i \in j .. m : i = m \/ (i \in j .. m - 1 /\ i \in 1 .. m - 1)
    BY <1>m
  <2>2. QED
    BY <1>2, <1>3, <1>m, <2>1 DEF Since
<1>7. ASSUME NEW p, NEW b, NEW W, Led(b, p, W)
      PROVE  \A V : W \subseteq V => Led(b, p, V)'
  BY <1>1, <1>7 DEF Led, Blocks, Succs
\* The block that is open and at place j.
<1>8. ASSUME NEW p \in Closed', NEW j \in 1 .. m, NEW b, b = stack[j].block,
             Led(b, p, Since(j))
      PROVE  Returned(p, b)'
  <2>1. CASE j = m
    <3>1. \A c \in Closed' : id'[c] >= id'[t]
      BY <1>3, <1>4
    <3>2. NoLower(t)' = Closed'
      BY <3>1 DEF NoLower
    <3>3. b = t /\ Led(b, p, NoLower(b))'
      BY <1>2, <1>5, <1>7, <1>8, <2>1, <3>2
    <3>4. QED
      BY <1>3, <3>3 DEF Returned
  <2>2. CASE j # m
    <3>1. j \in 1 .. m - 1
      BY <1>m, <2>2
    <3>2. Led(b, p, Since(j))'
      BY <1>6, <1>7, <1>8, <3>1
    <3>3. j \in DOMAIN stack' /\ stack'[j].block = b
      BY <1>3, <1>8, <3>1
    <3>4. QED
      BY <3>2, <3>3 DEF Returned
  <2>3. QED
    BY <2>1, <2>2
<1>9. ASSUME NEW p \in Closed, NEW b \in Succs(f, p)
      PROVE  Returned(p, b)'
  <2>1. Returned(p, b)
    BY <1>1 DEF BInv, AllReturned
  <2>2. CASE b \in Closed /\ (id[b] > id[p] \/ Led(b, p, NoLower(b)))
    <3>1. id'[b] = id[b] /\ id'[p] = id[p] /\ NoLower(b) \subseteq NoLower(b)'
      BY <1>3, <2>2 DEF NoLower
    <3>2. Led(b, p, NoLower(b)) => Led(b, p, NoLower(b))'
      BY <1>7, <3>1
    <3>3. QED
      BY <1>3, <2>2, <3>1, <3>2 DEF Returned
  <2>3. ASSUME NEW j \in DOMAIN stack, stack[j].block = b, Led(b, p, Since(j))
        PROVE  Returned(p, b)'
    BY <1>2, <1>3, <1>8, <2>3
  <2>4. QED
    BY <2>1, <2>2, <2>3 DEF Returned
<1>10. ASSUME NEW b \in Succs(f, t)
       PROVE  Returned(t, b)'
  <2>1. b \in Seen
    <3>1. m \in DOMAIN stack /\ stack[m] = Top
      BY <1>0, <1>2 DEF Top
    <3>2. Elems(Top.todo) = {}
      BY <1>1 DEF Elems
    <3>3. QED
      BY <1>2, <3>1, <3>2 DEF Explored
  <2>2. CASE b \in Closed
    <3>1. id'[b] > id'[t]
      BY <1>3, <1>4, <2>2
    <3>2. QED
      BY <1>3, <2>2, <3>1 DEF Returned
  <2>3. CASE b \notin Closed
    <3>1. PICK j \in DOMAIN stack : stack[j].block = b
      BY <2>1, <2>3 DEF Closed, Open
    <3>2. Led(b, t, Since(j))
      BY <1>1, <3>1, LedUp, <1>0
    <3>3. QED
      BY <1>2, <1>3, <1>8, <3>1, <3>2
  <2>4. QED
    BY <2>2, <2>3
<1>11. AllReturned'
  <2>1. \A p \in Closed' : p \in Closed \/ p = t
    BY <1>3
  <2>2. \A p : Succs(f, p)' = Succs(f, p)
    BY <1>1 DEF Succs
  <2>3. QED
    BY <1>9, <1>10, <2>1, <2>2 DEF AllReturned
<1>12. CASE m = 1
  <2>1. pc' = "compact" /\ DOMAIN stack' = {} /\ Open' = {}
    BY <1>1, <1>3, <1>12 DEF Open
  <2>2. Closed' = Seen'
    BY <2>1 DEF Closed
  <2>3. \A b : NoLower(b)' = {c \in Seen' : id'[c] >= id'[b]}
    BY <2>2 DEF NoLower
  <2>4. QED
    BY <1>11, <2>1, <2>2, <2>3 DEF BInv, AllReturned, Returned, Numbered
<1>13. CASE m # 1
  BY <1>1, <1>3, <1>11, <1>13 DEF BInv, Numbered
<1>14. QED
  BY <1>12, <1>13

\* The cycle survives the renumbering.
LEMMA CompactBack ==
  ASSUME IInv, BInv, Compact
  PROVE  BInv'
<1> DEFINE K == 0 .. Kept - 1
<1>1. /\ pc = "compact" /\ pc' \in {"preds", "done"}
  BY DEF Compact
<1>2. f'.n = Kept
  BY CompactFields
<1>3. Blocks(f') = K
  BY <1>2 DEF Blocks
<1>4. /\ Seen \subseteq Blocks(f) /\ Kept \in Nat \ {0}
      /\ \A b \in Seen : Number[b] \in K /\ At(Number[b]) = b
      /\ \A b, c \in Seen : id[b] < id[c] <=> Number[b] < Number[c]
      /\ \A i \in K : At(i) \in Seen /\ Number[At(i)] = i
  BY <1>1, Renumbering
<1>5. \A b \in Seen : id[b] \in Int
  BY DEF Seen, IInv, Typed, Shape
<1>6. ASSUME NEW q \in K, NEW i \in Succs(f', q), q >= i
      PROVE  Led(i, q, i .. f.n - 1)'
  <2>1. i \in K /\ At(i) \in Succs(f, At(q)) /\ At(q) \in Seen /\ At(i) \in Seen
        /\ Number[At(i)] = i /\ Number[At(q)] = q
    BY <1>4, EdgesMoved
  <2>2. ~(id[At(i)] > id[At(q)])
    <3>1. ~(Number[At(q)] < Number[At(i)])
      BY <1>4, <1>6, <2>1
    <3>2. QED
      BY <1>4, <1>5, <2>1, <3>1
  <2> DEFINE W == {c \in Seen : id[c] >= id[At(i)]}
  <2>3. Led(At(i), At(q), W)
    BY <1>1, <2>1, <2>2 DEF BInv
  <2> SUFFICES ASSUME NEW U \in SUBSET K, i \in U,
                      \A c \in U : Succs(f', c) \cap (i .. Kept - 1) \subseteq U
               PROVE  q \in U
    BY <1>2, <1>3 DEF Led, Succs
  <2> DEFINE S == {c \in Seen : Number[c] \in U}
  <2>4. S \in SUBSET Blocks(f) /\ At(i) \in S
    BY <1>4, <2>1
  <2>5. ASSUME NEW c \in S, NEW d \in Succs(f, c) \cap W
        PROVE  d \in S
    <3>1. d \in Seen /\ Number[d] \in Succs(f', Number[c]) /\ Number[d] \in K
      BY <2>5, EdgesMoved
    <3>2. ~(Number[d] < i)
      <4>1. ~(id[d] < id[At(i)])
        BY <1>5, <2>1, <2>5
      <4>2. QED
        BY <1>4, <2>1, <3>1, <4>1
    <3>3. Number[d] \in i .. Kept - 1
      BY <1>4, <2>1, <3>1, <3>2
    <3>4. QED
      BY <3>1, <3>3
  <2> HIDE DEF S
  <2>6. At(q) \in S
    BY <2>3, <2>4, <2>5 DEF Led
  <2>7. QED
    BY <2>1, <2>6 DEF S
<1>7. QED
  BY <1>1, <1>2, <1>3, <1>6 DEF BInv, Numbered, Blocks, Succs

LEMMA PredsBack ==
  ASSUME IInv, BInv, Preds
  PROVE  BInv'
<1>1. /\ pc = "preds" /\ f' = FillPreds(f) /\ pc' \in {"preds", "RPO"}
  BY DEF Preds
<1>2. f'.n = f.n /\ f'.s1 = f.s1 /\ f'.s2 = f.s2
  BY <1>1 DEF FillPreds, IInv, Typed, Shape, Fields
<1>3. QED
  BY <1>1, <1>2 DEF BInv, Numbered, Led, Blocks, Succs

LEMMA BStep ==
  ASSUME IInv, BInv, [Next]_vars
  PROVE  BInv'
<1>1. CASE UNCHANGED vars
  <2>1. UNCHANGED <<f, id, stack, x, call, pc>>
    BY <1>1 DEF vars
  <2>2. \A b, p, W : Led(b, p, W) <=> Led(b, p, W)'
    BY <2>1 DEF Led, Succs
  <2>3. Closed' = Closed /\ Seen' = Seen
    BY <2>1 DEF Closed, Seen, Open, Unset, Blocks
  <2>4. (\A j : Since(j)' = Since(j)) /\ \A b : NoLower(b)' = NoLower(b)
    BY <2>1, <2>3 DEF Since, NoLower
  <2>5. \A p, b : Returned(p, b) => Returned(p, b)'
    BY <2>1, <2>2, <2>3, <2>4 DEF Returned
  <2>6. QED
    BY <2>1, <2>2, <2>3, <2>5 DEF BInv, AllReturned, Numbered, Succs, Blocks
<1>2. QED
  BY <1>1, StartWalkBack, SkipBack, DescendBack, LeaveBack, CompactBack, PredsBack DEF Next

LEMMA BInit ==
  ASSUME Init
  PROVE  BInv
BY DEF Init, BInv, Numbered

LEMMA LedReach ==
  ASSUME Shape, NEW b \in Blocks(f), NEW p, Led(b, p, b .. f.n - 1)
  PROVE  p \in ReachIn(f, b, b .. f.n - 1)
<1> DEFINE W == b .. f.n - 1
<1>1. f.n \in Nat \ {0} /\ W \in SUBSET Blocks(f)
  BY DEF Shape, Blocks
<1> HIDE DEF W
<1>2. ReachIn(f, b, W) \subseteq Blocks(f)
  BY <1>1, ReachInside
<1>3. /\ b \in ReachIn(f, b, W)
      /\ \A c \in ReachIn(f, b, W) : Succs(f, c) \cap W \subseteq ReachIn(f, b, W)
  BY <1>1, ReachClosed
<1>4. Led(b, p, W)
  BY DEF W
<1>5. p \in ReachIn(f, b, W)
  BY <1>2, <1>3, <1>4 DEF Led
<1>6. QED
  BY <1>5 DEF W

LEMMA OrderedImplied ==
  ASSUME IInv, BInv
  PROVE  Ordered
<1>1. Shape
  BY DEF IInv, Typed
<1>2. ASSUME Numbered, NEW p \in Blocks(f), NEW b \in Succs(f, p), p >= b
      PROVE  p \in ReachIn(f, b, b .. f.n - 1)
  <2>1. b \in Blocks(f)
    BY <1>1, Successors
  <2>2. Led(b, p, b .. f.n - 1)
    BY <1>2 DEF BInv
  <2>3. QED
    BY <1>1, <2>1, <2>2, LedReach
<1>3. QED
  BY <1>2 DEF IInv, Ordered

(***************************************************************************)
(* What the passes after FillRPO take from the numbering: every block but  *)
(* Start has a predecessor numbered lower, and an edge that does not go up *)
(* closes a cycle among the blocks numbered no lower than its target.      *)
(***************************************************************************)
THEOREM InOrderAndCycles ==
  ASSUME Buildable
  PROVE  Spec => []Ordered
<1>1. Init => IInv /\ BInv
  BY BuildableShape, InitIInv, BInit
<1>2. IInv /\ BInv /\ [Next]_vars => (IInv /\ BInv)'
  BY StepIInv, BStep
<1>3. IInv /\ BInv => Ordered
  BY OrderedImplied
<1>4. QED
  BY <1>1, <1>2, <1>3, PTL DEF Spec

-----------------------------------------------------------------------------
(***************************************************************************)
(* The blocks that are kept are the ones some path from Start leads to.    *)
(***************************************************************************)
LEMMA SeenReached ==
  ASSUME IInv, pc = "compact"
  PROVE  Seen = ReachIn(f, 0, Blocks(f))
<1> DEFINE R == ReachIn(f, 0, Blocks(f))
           Bad == {id[b] : b \in Seen \ R}
<1>1. /\ Shape /\ Complete /\ 0 \in Seen /\ Seen \subseteq Blocks(f)
      /\ \A b \in Seen : Succs(f, b) \subseteq Seen /\ id[b] \in Nat
  BY DEF IInv, Typed, Complete, Seen, Shape
<1>2. f.n \in Nat \ {0} /\ 0 \in Blocks(f)
  BY <1>1 DEF Shape, Blocks
<1>3. R \subseteq Seen
  BY <1>1, <1>2, ReachLeast
<1>4. 0 \in R /\ \A c \in R : Succs(f, c) \cap Blocks(f) \subseteq R
  BY <1>2, ReachClosed
<1> HIDE DEF R
<1>5. ASSUME Bad # {} PROVE FALSE
  <2>1. PICK v \in Bad : \A w \in Bad : v <= w
    <3>1. Bad \subseteq Nat
      BY <1>1
    <3> HIDE DEF Bad
    <3>2. QED
      BY <1>5, <3>1, LeastNat
  <2>2. PICK b \in Seen \ R : v = id[b]
    OBVIOUS
  <2>3. PICK p \in Seen : b \in Succs(f, p) /\ id[p] < id[b]
    BY <1>1, <1>4, <2>2 DEF Complete
  <2>4. p \in R
    <3>1. ~(id[b] <= id[p])
      BY <1>1, <2>2, <2>3
    <3>2. QED
      BY <2>1, <2>2, <3>1
  <2>5. QED
    BY <1>1, <1>4, <2>2, <2>3, <2>4
<1>6. QED
  BY <1>3, <1>5 DEF R

LEMMA KeptCount ==
  ASSUME IInv, pc = "compact"
  PROVE  Kept = Cardinality(Seen)
<1> DEFINE T == 0 .. Kept - 1
           F == [i \in T |-> At(i)]
<1>1. /\ Kept \in Nat \ {0}
      /\ \A b \in Seen : Number[b] \in T /\ At(Number[b]) = b
      /\ \A i \in T : At(i) \in Seen /\ Number[At(i)] = i
  BY Renumbering
<1> HIDE DEF Kept, At, Seen
<1>2. F \in Bijection(T, Seen)
  <2>1. F \in [T -> Seen]
    BY <1>1
  <2>2. \A i, j \in T : F[i] = F[j] => i = j
    BY <1>1
  <2>3. \A b \in Seen : \E i \in T : F[i] = b
    BY <1>1
  <2>4. QED
    BY <2>1, <2>2, <2>3 DEF Bijection, Injection, Surjection, IsInjective
<1>3. IsFiniteSet(T) /\ Cardinality(T) = Kept
  <2> DEFINE m == Kept - 1
  <2>1. 0 \in Int /\ m \in Int /\ ~(0 > m) /\ m - 0 + 1 = Kept
    BY <1>1
  <2> HIDE DEF m
  <2>2. IsFiniteSet(0 .. m) /\ Cardinality(0 .. m) = Kept
    BY <2>1, FS_Interval
  <2>3. QED
    BY <2>2 DEF m
<1>4. ExistsBijection(T, Seen)
  BY <1>2 DEF ExistsBijection
<1>5. Cardinality(Seen) = Cardinality(T)
  BY <1>3, <1>4, FS_Bijection
<1>6. QED
  BY <1>3, <1>5

\* Compact keeps what is reached, and no more.
LEMMA KeepsStep ==
  ASSUME IInv, Compact
  PROVE  /\ {b \in Blocks(f) : id[b] # Unset} = ReachIn(f, 0, Blocks(f))
         /\ f'.n = Cardinality(ReachIn(f, 0, Blocks(f)))
<1>1. pc = "compact" /\ f'.n = Kept
  BY CompactFields DEF Compact
<1>2. Seen = ReachIn(f, 0, Blocks(f)) /\ Kept = Cardinality(Seen)
  BY <1>1, SeenReached, KeptCount
<1>3. QED
  BY <1>1, <1>2 DEF Seen
-----------------------------------------------------------------------------
(***************************************************************************)
(* Numbering a numbered function changes nothing (Stable).  The first walk *)
(* leaves a tree, the edges it entered blocks by, and the second follows   *)
(* the same tree: whatever it finds new it enters by the same edge, and it *)
(* returns from every block when all higher numbers have been given.       *)
(*                                                                         *)
(* The tree is described by the order in which the calls return, which is  *)
(* what the numbers tell.  r ranks the blocks of S: the later a call       *)
(* returns, or will return, the lower; p[c] is the block c was entered     *)
(* from.  b is inside a when all that ranks above a, up to b, was entered  *)
(* from blocks that rank no lower than a.                                  *)
(***************************************************************************)

Inside(S, r, p, a, b) ==
  /\ r[a] <= r[b]
  /\ \A d \in S : r[a] < r[d] /\ r[d] <= r[b] => r[a] <= r[p[d]]

IsTree(g, S, r, p) ==
  /\ \A c \in S : p[c] \in S
  /\ \A c \in S \ {0} : /\ c \in Succs(g, p[c]) /\ r[p[c]] < r[c]
                        /\ Inside(S, r, p, p[c], c)

(***************************************************************************)
(* The successors of b in the order in which the walk takes them.          *)
(***************************************************************************)
Swapped(g, b) == g.s1[b] # Nil /\ g.s2[b] # Nil /\ g.loop[g.s1[b]] > g.loop[g.s2[b]]
V1(g, b) == IF Swapped(g, b) THEN g.s2[b] ELSE g.s1[b]
V2(g, b) == IF Swapped(g, b) THEN g.s1[b] ELSE g.s2[b]

\* Of two blocks entered from one, the first ranks higher.
Elder(g, S, r, p) ==
  \A b \in S : LET c == V1(g, b)  d == V2(g, b) IN
    c \in S \ {0} /\ d \in S \ {0} /\ c # d /\ p[c] = b /\ p[d] = b => r[d] < r[c]

(***************************************************************************)
(* What the walk found at s, coming from b: a block that is open, and then *)
(* b is inside it, or one that had returned before b was entered, or one   *)
(* that was entered from b or from inside the block entered before it.     *)
(***************************************************************************)
Settled(g, S, r, p, b, s) ==
  /\ s \in S
  /\ r[s] <= r[b] => Inside(S, r, p, s, b)
  /\ r[b] < r[s] /\ Inside(S, r, p, b, s) =>
       \/ p[s] = b
       \/ s = V2(g, b) /\ V1(g, b) \in S \ {0} /\ p[V1(g, b)] = b /\ r[V1(g, b)] < r[s]

AllSettled(g, S, r, p) == \A b \in S : \A s \in Succs(g, b) : Settled(g, S, r, p, b, s)

Tree(g, S, r, p) == IsTree(g, S, r, p) /\ Elder(g, S, r, p) /\ AllSettled(g, S, r, p)

-----------------------------------------------------------------------------
(***************************************************************************)
(* A block that is entered ranks between the open blocks and those that    *)
(* have returned; nothing else changes.  t is the block it is entered      *)
(* from, q the new ranks, e the new edges.                                 *)
(***************************************************************************)
Grows(S, r, p, z, t, q, e) ==
  /\ z \notin S /\ t \in S
  /\ r \in [S -> Int] /\ q \in [S \cup {z} -> Int]
  /\ \A a, b \in S : q[a] < q[b] <=> r[a] < r[b]
  /\ \A a \in S : p[a] \in S /\ e[a] = p[a]
  /\ e[z] = t
  /\ \A a \in S : IF r[a] <= r[t] THEN q[a] < q[z] ELSE q[z] < q[a]

LEMMA GrowInside ==
  ASSUME NEW S, NEW r, NEW p, NEW z, NEW t, NEW q, NEW e, Grows(S, r, p, z, t, q, e),
         NEW a \in S, NEW b \in S
  PROVE  /\ Inside(S \cup {z}, q, e, a, b) <=> Inside(S, r, p, a, b)
         /\ q[a] <= q[b] <=> r[a] <= r[b]
<1>1. /\ \A c, d \in S : q[c] <= q[d] <=> r[c] <= r[d]
      /\ \A c \in S : q[c] \in Int /\ r[c] \in Int
      /\ q[z] \in Int
  BY DEF Grows
<1>2. ASSUME Inside(S, r, p, a, b), q[a] < q[z], q[z] <= q[b]
      PROVE  q[a] <= q[e[z]]
  <2>1. r[a] <= r[t]
    BY <1>1, <1>2 DEF Grows
  <2>2. QED
    BY <1>1, <2>1 DEF Grows
<1>3. ASSUME NEW d \in S
      PROVE  /\ q[a] < q[d] /\ q[d] <= q[b] <=> r[a] < r[d] /\ r[d] <= r[b]
             /\ q[a] <= q[e[d]] <=> r[a] <= r[p[d]]
  BY <1>1 DEF Grows
<1>4. QED
  BY <1>1, <1>2, <1>3 DEF Inside

LEMMA GrowSettled ==
  ASSUME NEW g, NEW S, NEW r, NEW p, NEW z, NEW t, NEW q, NEW e, Grows(S, r, p, z, t, q, e),
         NEW b \in S, NEW s, Settled(g, S, r, p, b, s)
  PROVE  Settled(g, S \cup {z}, q, e, b, s)
<1>1. s \in S
  BY DEF Settled
<1>2. /\ Inside(S \cup {z}, q, e, s, b) <=> Inside(S, r, p, s, b)
      /\ Inside(S \cup {z}, q, e, b, s) <=> Inside(S, r, p, b, s)
      /\ q[s] <= q[b] <=> r[s] <= r[b]
  BY <1>1, GrowInside
<1>3. /\ \A c, d \in S : q[c] < q[d] <=> r[c] < r[d]
      /\ \A c \in S : e[c] = p[c]
  BY DEF Grows
<1>4. QED
  BY <1>1, <1>2, <1>3 DEF Settled

LEMMA GrowTree ==
  ASSUME NEW g, NEW S, NEW r, NEW p, NEW z, NEW t, NEW q, NEW e, Grows(S, r, p, z, t, q, e),
         IsTree(g, S, r, p), z \in Succs(g, t)
  PROVE  IsTree(g, S \cup {z}, q, e)
<1>1. \A c \in S \cup {z} : e[c] \in S
  BY DEF Grows
<1>2. ASSUME NEW c \in S \ {0}
      PROVE  /\ c \in Succs(g, e[c]) /\ q[e[c]] < q[c]
             /\ Inside(S \cup {z}, q, e, e[c], c)
  <2>1. /\ e[c] = p[c] /\ p[c] \in S /\ c \in S
        /\ q[p[c]] < q[c] <=> r[p[c]] < r[c]
    BY DEF Grows
  <2>2. Inside(S \cup {z}, q, e, p[c], c) <=> Inside(S, r, p, p[c], c)
    BY <2>1, GrowInside, Zenon
  <2>3. QED
    BY <2>1, <2>2 DEF IsTree
<1>3. /\ z \in Succs(g, e[z]) /\ q[e[z]] < q[z]
      /\ Inside(S \cup {z}, q, e, e[z], z)
  <2>1. e[z] = t /\ q[t] < q[z] /\ q[t] \in Int /\ q[z] \in Int
    BY DEF Grows
  <2>2. ASSUME NEW d \in S, q[t] < q[d], q[d] <= q[z]
        PROVE  FALSE
    BY <2>2 DEF Grows
  <2>3. QED
    BY <2>1, <2>2 DEF Inside
<1>4. QED
  BY <1>1, <1>2, <1>3 DEF IsTree

(***************************************************************************)
(* Ranks that put the blocks in the same order describe the same tree.     *)
(***************************************************************************)
LEMMA SameOrder ==
  ASSUME NEW g, NEW S, NEW r, NEW q, NEW p, \A c \in S : r[c] \in Int /\ q[c] \in Int,
         \A c, d \in S : q[c] < q[d] <=> r[c] < r[d], IsTree(g, S, r, p)
  PROVE  /\ IsTree(g, S, q, p)
         /\ Elder(g, S, r, p) => Elder(g, S, q, p)
         /\ \A b \in S : \A s : Settled(g, S, r, p, b, s) => Settled(g, S, q, p, b, s)
<1>1. \A c, d \in S : q[c] <= q[d] <=> r[c] <= r[d]
  OBVIOUS
<1>2. \A c \in S : p[c] \in S
  BY DEF IsTree
<1>3. \A a, b \in S : Inside(S, r, p, a, b) <=> Inside(S, q, p, a, b)
  BY <1>1, <1>2 DEF Inside
<1>4. IsTree(g, S, q, p)
  BY <1>2, <1>3 DEF IsTree
<1>5. \A b \in S : \A s : Settled(g, S, r, p, b, s) => Settled(g, S, q, p, b, s)
  BY <1>1, <1>2, <1>3 DEF Settled
<1>6. Elder(g, S, r, p) => Elder(g, S, q, p)
  BY DEF Elder
<1>7. QED
  BY <1>4, <1>5, <1>6

-----------------------------------------------------------------------------
(***************************************************************************)
(* The ranks during the walk: a block that has returned ranks by its       *)
(* number, the open ones below them, in the order of the stack.            *)
(***************************************************************************)
Place(b) == CHOOSE k \in DOMAIN stack : stack[k].block = b

Rank == [b \in Seen |-> IF b \in Closed THEN id[b] ELSE Place(b) - Len(stack) - 1]

RankFacts ==
  /\ Rank \in [Seen -> Int]
  /\ \A b \in Closed : Rank[b] = id[b] /\ Rank[b] >= 0
  /\ \A k \in DOMAIN stack : Rank[stack[k].block] = k - Len(stack) - 1
  /\ \A a, b \in Seen : Rank[a] = Rank[b] => a = b

LEMMA RankMeans == IInv /\ pc = "walk" => RankFacts
<1> SUFFICES ASSUME IInv, pc = "walk" PROVE RankFacts
  OBVIOUS
<1> DEFINE m == Len(stack)
<1>1. /\ Chain /\ Counted /\ m \in Nat \ {0} /\ DOMAIN stack = 1 .. m /\ Open \subseteq Seen
      /\ f.n \in Nat
  BY TopFacts DEF Shape
<1>2. /\ x \in Nat /\ \A b \in Closed : id[b] \in x + 1 .. f.n - 1
      /\ \A b, c \in Closed : id[b] = id[c] => b = c
  BY <1>1 DEF Counted
<1>3. ASSUME NEW k \in 1 .. m
      PROVE  /\ Place(stack[k].block) = k
             /\ stack[k].block \in Seen \ Closed
  <2>1. \A j \in 1 .. m : stack[j].block = stack[k].block => j = k
    BY <1>1 DEF Chain
  <2>2. Place(stack[k].block) = k
    BY <1>1, <2>1 DEF Place
  <2>3. stack[k].block \in Open
    BY <1>1 DEF Open
  <2>4. QED
    BY <1>1, <2>2, <2>3 DEF Closed
<1>4. \A b \in Seen \ Closed : \E k \in 1 .. m : b = stack[k].block
  BY <1>1 DEF Closed, Open
<1> HIDE DEF m
<1>5. \A b \in Closed : Rank[b] = id[b] /\ Rank[b] \in Nat /\ b \in Seen
  BY <1>1, <1>2 DEF Rank, Closed
<1>6. \A k \in 1 .. m : Rank[stack[k].block] = k - m - 1 /\ k - m - 1 \in Int /\ k - m - 1 < 0
  BY <1>1, <1>3 DEF Rank, m
<1>7. Rank \in [Seen -> Int]
  <2>1. \A b \in Seen : Rank[b] \in Int
    BY <1>4, <1>5, <1>6
  <2>2. QED
    BY <2>1 DEF Rank
<1>8. ASSUME NEW a \in Seen, NEW b \in Seen, Rank[a] = Rank[b]
      PROVE  a = b
  <2>1. CASE a \in Closed /\ b \in Closed
    BY <1>2, <1>5, <1>8, <2>1
  <2>2. CASE a \notin Closed /\ b \notin Closed
    <3>1. PICK j \in 1 .. m : a = stack[j].block
      BY <1>4, <2>2
    <3>2. PICK k \in 1 .. m : b = stack[k].block
      BY <1>4, <2>2
    <3>3. j = k
      BY <1>1, <1>6, <1>8, <3>1, <3>2
    <3>4. QED
      BY <3>1, <3>2, <3>3
  <2>3. CASE (a \in Closed /\ b \notin Closed) \/ (a \notin Closed /\ b \in Closed)
    BY <1>4, <1>5, <1>6, <1>8, <2>3
  <2>4. QED
    BY <2>1, <2>2, <2>3
<1>9. QED
  BY <1>1, <1>5, <1>6, <1>7, <1>8 DEF RankFacts, m

LEMMA RankNext == (IInv /\ pc = "walk")' => RankFacts'
BY RankMeans, PTL

\* An open block ranks below those that have returned, the top the highest.
LEMMA RankOfOpen ==
  ASSUME IInv, pc = "walk", RankFacts
  PROVE  /\ Top.block \in Seen /\ Rank[Top.block] = -1
         /\ \A b \in Seen : b \in Closed <=> Rank[b] >= 0
         /\ \A b \in Seen : Rank[b] <= Rank[Top.block] <=> b \notin Closed
         /\ \A b \in Seen \ Closed : \E k \in DOMAIN stack : b = stack[k].block
<1> DEFINE m == Len(stack)
<1>1. /\ m \in Nat \ {0} /\ DOMAIN stack = 1 .. m /\ Top.block \in Seen
      /\ m \in 1 .. m /\ stack[m] = Top
  BY TopFacts DEF Top
<1>2. \A b \in Seen \ Closed : \E k \in 1 .. m : b = stack[k].block
  BY <1>1 DEF Closed, Open
<1>3. /\ \A b \in Closed : Rank[b] >= 0
      /\ \A k \in 1 .. m : Rank[stack[k].block] = k - m - 1
      /\ \A b \in Seen : Rank[b] \in Int
  BY <1>1 DEF RankFacts
<1> HIDE DEF m
<1>4. Rank[Top.block] = -1
  BY <1>1, <1>3
<1>5. \A k \in 1 .. m : Rank[stack[k].block] <= -1
  BY <1>1, <1>3
<1>6. QED
  BY <1>1, <1>2, <1>3, <1>4, <1>5

LEMMA DescendRank ==
  ASSUME IInv, Descend, NEW p \in [Blocks(f) -> Blocks(f)], \A c \in Seen : p[c] \in Seen
  PROVE  Grows(Seen, Rank, p, Head(Top.todo), Top.block, Rank',
               [p EXCEPT ![Head(Top.todo)] = Top.block])
<1> DEFINE m == Len(stack)  s == Head(Top.todo)  t == Top.block
           e == [p EXCEPT ![s] = t]
<1>1. pc = "walk" /\ pc' = "walk" /\ IInv'
  BY DescendStep DEF Descend
<1>2. RankFacts /\ RankFacts'
  BY <1>1, RankMeans, RankNext
<1>3. /\ m \in Nat \ {0} /\ DOMAIN stack = 1 .. m
      /\ t = stack[m].block /\ m \in 1 .. m
  BY <1>1, TopFacts DEF Top
<1>4. /\ s \in Blocks(f) /\ s \notin Seen
      /\ Len(stack') = m + 1 /\ DOMAIN stack' = 1 .. m + 1
      /\ stack'[m + 1].block = s
      /\ \A k \in 1 .. m : stack'[k].block = stack[k].block
      /\ Seen' = Seen \cup {s}
      /\ \A b \in Seen : id'[b] = id[b]
      /\ Closed' = Closed /\ Closed \subseteq Seen
  BY DescendFacts
<1> HIDE DEF m
<1>5. \A b \in Closed : Rank'[b] = Rank[b] /\ Rank[b] >= 0 /\ b \in Seen
  BY <1>2, <1>4 DEF RankFacts
<1>6. \A b \in Seen \ Closed : Rank'[b] = Rank[b] - 1 /\ Rank[b] < 0
  <2>1. ASSUME NEW k \in 1 .. m
        PROVE  Rank'[stack[k].block] = Rank[stack[k].block] - 1
    <3>1. k \in DOMAIN stack' /\ stack'[k].block = stack[k].block
      BY <1>3, <1>4
    <3>2. Rank'[stack[k].block] = k - (m + 1) - 1
      BY <1>2, <1>4, <3>1 DEF RankFacts
    <3>3. Rank[stack[k].block] = k - m - 1
      BY <1>2, <1>3 DEF RankFacts, m
    <3>4. QED
      BY <1>3, <3>2, <3>3
  <2>2. \A b \in Seen \ Closed : Rank[b] < 0 /\ \E k \in 1 .. m : b = stack[k].block
    BY <1>1, <1>2, <1>3, RankOfOpen DEF RankFacts
  <2>3. QED
    BY <2>1, <2>2
<1>7. Rank'[s] = -1
  <2>1. m + 1 \in DOMAIN stack'
    BY <1>3, <1>4
  <2>2. Rank'[s] = (m + 1) - (m + 1) - 1
    BY <1>2, <1>4, <2>1 DEF RankFacts
  <2>3. QED
    BY <1>3, <2>2
<1>8. t \in Seen /\ Rank[t] = -1 /\ \A b \in Seen : Rank[b] <= Rank[t] <=> b \notin Closed
  BY <1>1, <1>2, RankOfOpen
<1>9. Rank \in [Seen -> Int] /\ Rank' \in [Seen \cup {s} -> Int]
  BY <1>2, <1>4 DEF RankFacts
<1>10. \A a, b \in Seen : Rank'[a] < Rank'[b] <=> Rank[a] < Rank[b]
  BY <1>5, <1>6, <1>9
<1>11. \A a \in Seen : IF Rank[a] <= Rank[t] THEN Rank'[a] < Rank'[s] ELSE Rank'[s] < Rank'[a]
  BY <1>5, <1>6, <1>7, <1>8, <1>9
<1>12. e[s] = t /\ \A a \in Seen : e[a] = p[a]
  BY <1>4 DEF Seen
<1> HIDE DEF e
<1>13. Grows(Seen, Rank, p, s, t, Rank', e)
  BY <1>4, <1>8, <1>9, <1>10, <1>11, <1>12 DEF Grows
<1>14. QED
  BY <1>13 DEF e

LEMMA LeaveRank ==
  ASSUME IInv, Leave
  PROVE  /\ RankFacts
         /\ pc' = "walk" => RankFacts'
         /\ pc' = "walk" => \A a, b \in Seen : Rank'[a] < Rank'[b] <=> Rank[a] < Rank[b]
         /\ pc' = "compact" => \A a, b \in Seen : id'[a] < id'[b] <=> Rank[a] < Rank[b]
<1> DEFINE m == Len(stack)  t == Top.block
<1>1. pc = "walk" /\ IInv' /\ pc' = IF Below = <<>> THEN "compact" ELSE "walk"
  BY LeaveStep DEF Leave
<1>2. RankFacts /\ (pc' = "walk" => RankFacts')
  BY <1>1, RankMeans, RankNext
<1>3. /\ DOMAIN stack = 1 .. m /\ t = stack[m].block /\ m \in 1 .. m /\ Counted
  BY <1>1, TopFacts DEF Top
<1>4. /\ m \in Nat \ {0} /\ Len(stack') = m - 1 /\ DOMAIN stack' = 1 .. m - 1
      /\ Below = <<>> <=> m = 1
      /\ \A k \in 1 .. m - 1 : stack'[k] = stack[k]
      /\ id'[t] = x
      /\ Seen' = Seen /\ Closed' = Closed \cup {t} /\ t \notin Closed /\ Closed \subseteq Seen
      /\ \A c \in Closed : id'[c] = id[c]
      /\ x \in Nat
  BY LeaveFacts
<1> HIDE DEF m
<1>5. \A b \in Closed : id'[b] = Rank[b] /\ Rank[b] > x
  <2>1. \A b \in Closed : id[b] \in x + 1 .. f.n - 1
    BY <1>3 DEF Counted
  <2>2. f.n \in Nat
    BY DEF IInv, Typed, Shape
  <2>3. QED
    BY <1>2, <1>4, <2>1, <2>2 DEF RankFacts
<1>6. /\ Rank[t] = -1 /\ t \in Seen
      /\ \A b \in Seen \ Closed : \E k \in 1 .. m : b = stack[k].block
      /\ \A b \in Seen : Rank[b] \in Int
  BY <1>1, <1>2, <1>3, RankOfOpen DEF RankFacts
<1>7. \A k \in 1 .. m - 1 : k \in 1 .. m /\ Rank[stack[k].block] = k - m - 1 /\ k - m - 1 < -1
  BY <1>2, <1>3, <1>4, SMTT(30) DEF RankFacts, m
<1>8. \A b \in Seen \ (Closed \cup {t}) : \E k \in 1 .. m - 1 : b = stack[k].block
  <2>1. \A k \in 1 .. m : k = m \/ k \in 1 .. m - 1
    BY <1>4
  <2>2. QED
    BY <1>3, <1>6, <2>1
<1>9. CASE m = 1
  <2>1. Seen = Closed \cup {t}
    BY <1>4, <1>6, <1>8, <1>9
  <2>2. \A b \in Seen : IF b \in Closed THEN id'[b] = Rank[b] /\ Rank[b] > x
                                        ELSE id'[b] = x /\ Rank[b] = -1
    BY <1>4, <1>5, <1>6, <2>1
  <2>3. \A a, b \in Seen : id'[a] < id'[b] <=> Rank[a] < Rank[b]
    BY <1>4, <1>6, <2>2
  <2>4. QED
    BY <1>1, <1>2, <1>4, <1>9, <2>3
<1>10. CASE m # 1
  <2>1. pc' = "walk" /\ RankFacts'
    BY <1>1, <1>2, <1>4, <1>10
  <2>2. \A k \in 1 .. m - 1 : Rank'[stack[k].block] = k - (m - 1) - 1
    BY <1>4, <2>1 DEF RankFacts
  <2>3. \A b \in Closed \cup {t} : Rank'[b] = id'[b]
    BY <1>4, <2>1 DEF RankFacts
  <2>4. \A b \in Seen \ (Closed \cup {t}) : Rank'[b] = Rank[b] + 1 /\ Rank[b] < -1
    BY <1>4, <1>7, <1>8, <2>2
  <2>5. \A b \in Seen : \/ b \in Closed /\ Rank'[b] = Rank[b] /\ Rank[b] > x
                        \/ b = t /\ Rank'[b] = x /\ Rank[b] = -1
                        \/ Rank'[b] = Rank[b] + 1 /\ Rank[b] < -1
    BY <1>4, <1>5, <1>6, <2>3, <2>4
  <2>6. \A a, b \in Seen : Rank'[a] < Rank'[b] <=> Rank[a] < Rank[b]
    BY <1>4, <1>6, <2>5
  <2>7. QED
    BY <1>1, <1>2, <1>4, <1>10, <2>1, <2>6
<1>11. QED
  BY <1>9, <1>10

-----------------------------------------------------------------------------
(***************************************************************************)
(* The successors in turn: with n of them left, Turn(g, b, n) is next.     *)
(***************************************************************************)
Turn(g, b, n) == IF n = 2 THEN V1(g, b) ELSE V2(g, b)

Rest(g, b, n) ==
  IF n = 2 THEN <<V1(g, b), V2(g, b)>> ELSE IF n = 1 THEN <<V2(g, b)>> ELSE <<>>

Left(st, k) == Len(st[k].todo)

InTurn(g, st) == \A k \in DOMAIN st : /\ Left(st, k) \in 0 .. 2
                                      /\ st[k].todo = Rest(g, st[k].block, Left(st, k))

OnPath(st, p) == \A k \in DOMAIN st : k > 1 => p[st[k].block] = st[k - 1].block

LEMMA Turns ==
  ASSUME Shape, NEW b \in Blocks(f)
  PROVE  /\ V1(f, b) \in Pointers /\ V2(f, b) \in Pointers
         /\ Frame(b).todo = Rest(f, b, 2) /\ Frame(b).block = b
         /\ Succs(f, b) = {V1(f, b), V2(f, b)} \ {Nil}
<1>1. f.s1[b] \in Pointers /\ f.s2[b] \in Pointers
  BY DEF Shape
<1>2. Visits(b) = <<V1(f, b), V2(f, b)>>
  BY DEF Visits, V1, V2, Swapped
<1>3. {V1(f, b), V2(f, b)} = {f.s1[b], f.s2[b]}
  BY DEF V1, V2
<1>4. QED
  BY <1>1, <1>2, <1>3 DEF Frame, Rest, Succs, V1, V2

LEMMA RestFacts ==
  ASSUME NEW g, NEW b, NEW n \in 0 .. 2
  PROVE  /\ Len(Rest(g, b, n)) = n
         /\ n > 0 => /\ Rest(g, b, n) # <<>> /\ Head(Rest(g, b, n)) = Turn(g, b, n)
                     /\ Tail(Rest(g, b, n)) = Rest(g, b, n - 1) /\ n - 1 \in 0 .. 2
         /\ n = 0 => Rest(g, b, n) = <<>>
<1>1. n \in {0, 1, 2}
  OBVIOUS
<1>2. CASE n = 0
  BY <1>2 DEF Rest
<1>3. CASE n = 1
  BY <1>3 DEF Rest, Turn
<1>4. CASE n = 2
  BY <1>4 DEF Rest, Turn
<1>5. QED
  BY <1>1, <1>2, <1>3, <1>4

\* The call on top of the stack takes its turn.
LEMMA Taken ==
  ASSUME IInv, pc = "walk", Top.todo # <<>>, InTurn(f, stack)
  PROVE  LET m == Len(stack)  b == Top.block  n == Left(stack, m) IN
         /\ m \in Nat \ {0} /\ DOMAIN stack = 1 .. m /\ stack[m] = Top
         /\ n \in 1 .. 2 /\ b \in Blocks(f)
         /\ Head(Top.todo) = Turn(f, b, n)
         /\ Len(Advanced) = m /\ DOMAIN Advanced = 1 .. m
         /\ Advanced[m].block = b /\ Left(Advanced, m) = n - 1
         /\ \A k \in 1 .. m - 1 : Advanced[k] = stack[k]
         /\ InTurn(f, Advanced)
<1> DEFINE m == Len(stack)  n == Left(stack, m)  b == Top.block
           e == [Top EXCEPT !.todo = Tail(@)]
<1>1. /\ stack \in Seq(Frames) /\ stack # <<>> /\ m \in Nat \ {0} /\ DOMAIN stack = 1 .. m
      /\ Top \in Frames /\ Top.todo \in Seq(Pointers) /\ b \in Blocks(f)
  BY TopFacts DEF Chain
<1>2. m \in DOMAIN stack /\ stack[m] = Top
  BY <1>1 DEF Top
<1>3. n \in 0 .. 2 /\ Top.todo = Rest(f, b, n)
  BY <1>2 DEF InTurn
<1>4. n # 0
  BY <1>3, RestFacts
<1>5. /\ Head(Top.todo) = Turn(f, b, n) /\ Tail(Top.todo) = Rest(f, b, n - 1)
      /\ n - 1 \in 0 .. 2 /\ Len(Rest(f, b, n - 1)) = n - 1
  BY <1>3, <1>4, RestFacts
<1>6. Tail(Top.todo) \in Seq(Pointers)
  BY <1>1, HeadAndTail
<1>7. e \in Frames /\ e.block = b /\ e.todo = Tail(Top.todo)
  BY <1>1, <1>6 DEF Frames
<1>8. /\ Advanced \in Seq(Frames) /\ Len(Advanced) = m /\ Advanced[m] = e
      /\ \A k \in 1 .. m - 1 : Advanced[k] = stack[k]
  BY <1>1, <1>7, ReplaceLast DEF Advanced, Below
<1>9. n \in 1 .. 2 /\ DOMAIN Advanced = 1 .. m
  BY <1>1, <1>3, <1>4, <1>8
<1>10. Advanced[m].block = b /\ Left(Advanced, m) = n - 1 /\ Advanced[m].todo = Rest(f, b, n - 1)
  BY <1>5, <1>7, <1>8 DEF Left
<1>11. ASSUME NEW k \in 1 .. m
       PROVE  /\ Left(Advanced, k) \in 0 .. 2
              /\ Advanced[k].todo = Rest(f, Advanced[k].block, Left(Advanced, k))
  <2>1. CASE k = m
    BY <1>5, <1>10, <2>1
  <2>2. CASE k # m
    <3>1. Advanced[k] = stack[k] /\ k \in DOMAIN stack
      BY <1>1, <1>8, <2>2
    <3>2. Left(Advanced, k) = Left(stack, k)
      BY <3>1 DEF Left
    <3>3. QED
      BY <3>1, <3>2 DEF InTurn
  <2>3. QED
    BY <2>1, <2>2
<1>12. InTurn(f, Advanced)
  BY <1>9, <1>11 DEF InTurn
<1>13. QED
  BY <1>1, <1>2, <1>5, <1>8, <1>9, <1>10, <1>12

\* The call on top of the stack enters its next successor.
LEMMA Entering ==
  ASSUME IInv, Descend, InTurn(f, stack)
  PROVE  LET m == Len(stack)  n == Left(stack, m)  h == Head(Top.todo) IN
         /\ stack'[m].block = Top.block /\ Left(stack', m) = n - 1
         /\ \A k \in 1 .. m - 1 : stack'[k] = stack[k]
         /\ Left(stack', m + 1) = 2 /\ stack'[m + 1].todo = Rest(f, h, 2)
         /\ InTurn(f, stack')
<1>0. PICK m, h : m = Len(stack) /\ h = Head(Top.todo)
  OBVIOUS
<1>1. pc = "walk" /\ Top.todo # <<>> /\ stack' = Append(Advanced, Frame(h))
  BY <1>0 DEF Descend, Advanced
<1>2. /\ m \in Nat \ {0} /\ Len(Advanced) = m /\ DOMAIN Advanced = 1 .. m
      /\ Advanced[m].block = Top.block /\ Left(Advanced, m) = Left(stack, m) - 1
      /\ \A k \in 1 .. m - 1 : Advanced[k] = stack[k]
      /\ InTurn(f, Advanced)
  BY <1>0, <1>1, Taken
<1>3. h \in Blocks(f) /\ DOMAIN stack' = 1 .. m + 1 /\ stack'[m + 1] = Frame(h)
  BY <1>0, DescendFacts
<1>4. /\ \A k \in 1 .. m : stack'[k] = Advanced[k]
      /\ \A k \in 1 .. m + 1 : k = m + 1 \/ k \in 1 .. m
      /\ \A k \in 1 .. m - 1 : k \in 1 .. m
  <2>1. Advanced \in Seq(Frames) /\ Frame(h) \in Frames
    BY <1>1, <1>3, Advance, NewFrame, TopFacts
  <2>2. QED
    BY <1>1, <1>2, <2>1, AppendProperties
<1>5. /\ Left(stack', m + 1) = 2 /\ stack'[m + 1].todo = Rest(f, h, 2)
      /\ stack'[m + 1].block = h
  <2>1. /\ Frame(h).todo = Rest(f, h, 2) /\ Len(Rest(f, h, 2)) = 2
        /\ Frame(h).block = h
    BY <1>1, <1>3, TopFacts, Turns, RestFacts
  <2>2. QED
    BY <1>3, <2>1 DEF Left
<1>6. \A k \in 1 .. m : Left(stack', k) = Left(Advanced, k)
  BY <1>4 DEF Left
<1>7. \A k \in 1 .. m : /\ Left(stack', k) \in 0 .. 2
                        /\ stack'[k].todo = Rest(f, stack'[k].block, Left(stack', k))
  BY <1>2, <1>4, <1>6 DEF InTurn
<1>8. InTurn(f, stack')
  BY <1>3, <1>4, <1>5, <1>7 DEF InTurn
<1>9. m \in 1 .. m
  BY <1>2
<1>10. QED
  BY <1>0, <1>2, <1>4, <1>5, <1>6, <1>8, <1>9

(***************************************************************************)
(* The first walk: the tree of the blocks seen so far.  Found is what a    *)
(* call with n turns left has found.                                       *)
(***************************************************************************)
Found(g, S, r, p, b, n) ==
  /\ \A i \in n + 1 .. 2 : Turn(g, b, i) # Nil => Settled(g, S, r, p, b, Turn(g, b, i))
  /\ \A c \in S \ {0} : p[c] = b => \E i \in n + 1 .. 2 : c = Turn(g, b, i)

Walked(g, st, S, C, r, p) ==
  /\ p \in [Blocks(g) -> Blocks(g)]
  /\ InTurn(g, st) /\ OnPath(st, p)
  /\ IsTree(g, S, r, p) /\ Elder(g, S, r, p)
  /\ \A b \in C : \A s \in Succs(g, b) : Settled(g, S, r, p, b, s)
  /\ \A k \in DOMAIN st : Found(g, S, r, p, st[k].block, Left(st, k))

LEMMA InsideTrans ==
  ASSUME NEW S, NEW r \in [S -> Int], NEW p, NEW a \in S, NEW b \in S, NEW c \in S,
         \A d \in S : p[d] \in S,
         Inside(S, r, p, a, b), Inside(S, r, p, b, c)
  PROVE  Inside(S, r, p, a, c)
BY DEF Inside

\* A block that is open when it is found.
LEMMA FoundOpen ==
  ASSUME IInv, pc = "walk", NEW p, OnPath(stack, p), NEW h \in Seen \ Closed
  PROVE  Rank[h] <= Rank[Top.block] /\ Inside(Seen, Rank, p, h, Top.block)
<1> DEFINE m == Len(stack)  t == Top.block
<1>1. RankFacts /\ m \in Nat \ {0} /\ DOMAIN stack = 1 .. m
  BY RankMeans, TopFacts
<1>2. /\ \A b \in Seen : Rank[b] <= Rank[t] <=> b \notin Closed
      /\ \A b \in Seen \ Closed : \E k \in DOMAIN stack : b = stack[k].block
      /\ t \in Seen
  BY <1>1, RankOfOpen
<1>3. PICK k \in 1 .. m : h = stack[k].block
  BY <1>1, <1>2
<1>4. \A i \in 1 .. m : Rank[stack[i].block] = i - m - 1
  BY <1>1 DEF RankFacts
<1> HIDE DEF m
<1>5. ASSUME NEW d \in Seen, Rank[h] < Rank[d], Rank[d] <= Rank[t]
      PROVE  Rank[h] <= Rank[p[d]]
  <2>1. PICK i \in 1 .. m : d = stack[i].block
    BY <1>1, <1>2, <1>5
  <2>2. k < i /\ i > 1 /\ i - 1 \in 1 .. m
    BY <1>1, <1>3, <1>4, <1>5, <2>1
  <2>3. p[d] = stack[i - 1].block
    BY <1>1, <2>1, <2>2 DEF OnPath
  <2>4. QED
    BY <1>1, <1>3, <1>4, <2>2, <2>3
<1>6. QED
  BY <1>2, <1>5 DEF Inside

\* What is inside b was entered from b, or from inside a block entered from b.
LEMMA ChildAbove ==
  ASSUME NEW g, NEW S, NEW r \in [S -> Int], NEW p, IsTree(g, S, r, p),
         \A a, b \in S : r[a] = r[b] => a = b,
         NEW b \in S, NEW h \in S, r[b] < r[h], Inside(S, r, p, b, h),
         \A c \in S : r[b] < r[c] => r[c] >= 0,
         0 \in S, r[0] <= r[b]
  PROVE  \E c \in S \ {0} : p[c] = b /\ r[b] < r[c] /\ r[c] <= r[h] /\ Inside(S, r, p, c, h)
<1> DEFINE Cand == {c \in S : r[b] < r[c] /\ Inside(S, r, p, c, h)}
           Num == {r[c] : c \in Cand}
<1>0. \A c \in S : r[c] \in Int
  OBVIOUS
<1>1. h \in Cand
  BY <1>0 DEF Inside
<1>2. PICK c \in Cand : \A d \in Cand : r[c] <= r[d]
  <2>1. Num \in SUBSET Nat /\ Num # {}
    BY <1>0, <1>1
  <2>2. \E n \in Num : \A j \in Num : n <= j
    <3> HIDE DEF Num
    <3>1. QED
      BY <2>1, LeastNat
  <2>3. QED
    BY <2>2
<1>3. c \in S \ {0} /\ r[c] <= r[h] /\ p[c] \in S
  BY <1>0, <1>2 DEF Inside, IsTree
<1>4. r[p[c]] < r[c] /\ Inside(S, r, p, p[c], c)
  BY <1>3 DEF IsTree
<1>5. r[b] <= r[p[c]]
  BY <1>2, <1>3 DEF Inside
<1>6. CASE r[b] < r[p[c]]
  <2>1. Inside(S, r, p, p[c], h)
    BY <1>2, <1>3, <1>4, InsideTrans DEF IsTree
  <2>2. p[c] \in Cand
    BY <1>3, <1>6, <2>1
  <2>3. r[c] <= r[p[c]]
    BY <1>2, <2>2
  <2>4. QED
    BY <1>0, <1>3, <1>4, <2>3
<1>7. CASE ~(r[b] < r[p[c]])
  BY <1>0, <1>2, <1>3, <1>5, <1>7
<1>8. QED
  BY <1>6, <1>7

LEMMA FoundSettled ==
  ASSUME IInv, pc = "walk", NEW p, Walked(f, stack, Seen, Closed, Rank, p), Top.todo # <<>>, Head(Top.todo) \in Seen
  PROVE  Settled(f, Seen, Rank, p, Top.block, Head(Top.todo))
<1> DEFINE m == Len(stack)  b == Top.block  h == Head(Top.todo)  n == Left(stack, m)
<1>1. /\ m \in DOMAIN stack /\ stack[m] = Top /\ n \in 1 .. 2 /\ h = Turn(f, b, n)
  BY Taken DEF Walked
<1>2. RankFacts
  BY RankMeans
<1>3. /\ b \in Seen /\ Rank[b] = -1
      /\ \A c \in Seen : c \in Closed <=> Rank[c] >= 0
      /\ \A c \in Seen : Rank[c] <= Rank[b] <=> c \notin Closed
  BY <1>2, RankOfOpen
<1>4. /\ Rank \in [Seen -> Int] /\ \A c, d \in Seen : Rank[c] = Rank[d] => c = d
      /\ \A c \in Seen : Rank[c] \in Int
  BY <1>2 DEF RankFacts
<1>5. CASE h \notin Closed
  <2>1. Rank[h] <= Rank[b] /\ Inside(Seen, Rank, p, h, b)
    BY <1>5, FoundOpen DEF Walked
  <2>2. QED
    BY <1>3, <1>4, <2>1 DEF Settled
<1>6. ASSUME h \in Closed, Inside(Seen, Rank, p, b, h)
      PROVE  p[h] = b \/ (h = V2(f, b) /\ V1(f, b) \in Seen \ {0} /\ p[V1(f, b)] = b
                          /\ Rank[V1(f, b)] < Rank[h])
  <2>1. 0 \in Seen /\ Rank[0] <= Rank[b]
    <3>1. 1 \in DOMAIN stack /\ stack[1].block = 0 /\ Open \subseteq Seen
      BY TopFacts DEF Chain
    <3>2. 0 \in Open
      BY <3>1 DEF Open
    <3>3. QED
      BY <1>3, <3>1, <3>2 DEF Closed
  <2>2. Rank[b] < Rank[h]
    BY <1>3, <1>4, <1>6
  <2>3. \A c \in Seen : Rank[b] < Rank[c] => Rank[c] >= 0
    BY <1>3, <1>4
  <2>4. IsTree(f, Seen, Rank, p)
    BY DEF Walked
  <2>5. PICK c \in Seen \ {0} : p[c] = b /\ Rank[c] <= Rank[h]
    BY <1>3, <1>4, <1>6, <2>1, <2>2, <2>3, <2>4, ChildAbove
  <2>6. PICK i \in n + 1 .. 2 : c = Turn(f, b, i)
    BY <1>1, <2>5 DEF Walked, Found
  <2>7. n = 1 /\ i = 2
    BY <1>1, <2>6
  <2>8. c = V1(f, b) /\ h = V2(f, b)
    BY <1>1, <2>6, <2>7 DEF Turn
  <2>9. c = h \/ Rank[c] < Rank[h]
    BY <1>4, <2>5
  <2>10. QED
    BY <2>5, <2>8, <2>9
<1>7. QED
  BY <1>3, <1>4, <1>5, <1>6 DEF Settled

-----------------------------------------------------------------------------
\* At first the tree has Start and no more.
LEMMA StartWalked ==
  ASSUME IInv, StartWalk
  PROVE  \E p : Walked(f', stack', Seen', Closed', Rank', p)
<1>0. PICK p : p = [b \in Blocks(f) |-> 0]
  OBVIOUS
<1>1. /\ id' = [b \in Blocks(f) |-> IF b = 0 THEN Mark ELSE Unset]
      /\ stack' = <<Frame(0)>> /\ pc' = "walk" /\ f' = f
  BY DEF StartWalk
<1>2. Shape /\ 0 \in Blocks(f) /\ Mark # Unset
  BY DEF IInv, Typed, Shape, Blocks, Mark, Unset
<1>3. Frame(0).block = 0 /\ Frame(0).todo = Rest(f, 0, 2) /\ Len(Rest(f, 0, 2)) = 2
  BY <1>2, Turns, RestFacts
<1>4. DOMAIN stack' = {1} /\ stack'[1] = Frame(0)
  BY <1>1
<1>5. Seen' = {0} /\ Closed' = {}
  <2>1. Seen' = {0}
    BY <1>1, <1>2 DEF Seen, Blocks, Unset
  <2>2. Open' = {0}
    BY <1>3, <1>4 DEF Open
  <2>3. QED
    BY <2>1, <2>2 DEF Closed
<1>6. p \in [Blocks(f) -> Blocks(f)] /\ p[0] = 0
  BY <1>0, <1>2
<1>7. Left(stack', 1) = 2 /\ stack'[1].block = 0
  BY <1>3, <1>4 DEF Left
<1>8. InTurn(f, stack') /\ OnPath(stack', p)
  BY <1>3, <1>4, <1>7 DEF InTurn, OnPath
<1>9. IsTree(f, {0}, Rank', p) /\ Elder(f, {0}, Rank', p)
  BY <1>6 DEF IsTree, Elder
<1>10. Found(f, {0}, Rank', p, 0, 2)
  <2>1. 2 + 1 .. 2 = {} /\ {0} \ {0} = {}
    OBVIOUS
  <2>2. QED
    BY <2>1 DEF Found
<1>11. Walked(f, stack', {0}, {}, Rank', p)
  BY <1>4, <1>6, <1>7, <1>8, <1>9, <1>10 DEF Walked
<1>12. QED
  BY <1>1, <1>5, <1>11

LEMMA SkipWalked ==
  ASSUME IInv, Skip, NEW p, Walked(f, stack, Seen, Closed, Rank, p)
  PROVE  Walked(f', stack', Seen', Closed', Rank', p)
<1>0. PICK m, b, h, n : m = Len(stack) /\ b = Top.block /\ h = Head(Top.todo)
                        /\ n = Left(stack, m)
  OBVIOUS
<1>1. /\ pc = "walk" /\ pc' = "walk" /\ Top.todo # <<>> /\ ~New(h)
      /\ stack' = Advanced /\ f' = f /\ UNCHANGED <<f, id, x, call, pc>>
  BY <1>0 DEF Skip, Advanced
<1>2. InTurn(f, stack)
  BY DEF Walked
<1>3. /\ m \in Nat \ {0} /\ DOMAIN stack = 1 .. m /\ stack[m] = Top
      /\ n \in 1 .. 2 /\ b \in Blocks(f) /\ h = Turn(f, b, n)
      /\ DOMAIN stack' = 1 .. m /\ stack'[m].block = b /\ Left(stack', m) = n - 1
      /\ \A k \in 1 .. m - 1 : stack'[k] = stack[k]
      /\ InTurn(f, stack')
  BY <1>0, <1>1, <1>2, Taken
<1>4. \A k \in 1 .. m : k = m \/ k \in 1 .. m - 1
  BY <1>3
<1>5. \A k \in 1 .. m : stack'[k].block = stack[k].block
  BY <1>0, <1>3, <1>4
<1>6. Seen' = Seen /\ Closed' = Closed /\ Rank' = Rank
  <2>1. Open' = Open
    BY <1>3, <1>5 DEF Open
  <2>2. Seen' = Seen /\ Closed' = Closed
    BY <1>1, <2>1 DEF Seen, Closed, Blocks, Unset
  <2>3. Len(stack') = m
    BY <1>0, <1>1, <1>2, Taken
  <2>4. \A c : Place(c)' = Place(c)
    BY <1>3, <1>5 DEF Place
  <2>5. QED
    BY <1>0, <1>1, <2>2, <2>3, <2>4 DEF Rank
<1>7. h # Nil => Settled(f, Seen, Rank, p, b, h)
  <2>1. h \in Pointers
    BY <1>0, <1>1, Advance
  <2>2. h # Nil => h \in Seen
    BY <1>1, <2>1 DEF New, Seen, Pointers
  <2>3. QED
    BY <1>0, <1>1, <2>2, FoundSettled
<1>8. OnPath(stack', p)
  <2>1. \A k \in 1 .. m : k > 1 => k - 1 \in 1 .. m
    BY <1>3
  <2>2. QED
    BY <1>3, <1>5, <2>1 DEF Walked, OnPath
<1>9. ASSUME NEW k \in 1 .. m
      PROVE  Found(f, Seen, Rank, p, stack'[k].block, Left(stack', k))
  <2>1. Found(f, Seen, Rank, p, stack[k].block, Left(stack, k))
    BY <1>3 DEF Walked
  <2>2. CASE k # m
    <3>1. stack'[k] = stack[k]
      BY <1>3, <1>4, <2>2
    <3>2. QED
      BY <2>1, <3>1 DEF Left
  <2>3. CASE k = m
    <3>1. Found(f, Seen, Rank, p, b, n)
      BY <1>0, <1>3, <2>1, <2>3
    <3>2. n - 1 + 1 .. 2 = n .. 2 /\ \A i \in n .. 2 : i = n \/ i \in n + 1 .. 2
      BY <1>3
    <3>3. \A i \in n + 1 .. 2 : i \in n .. 2
      BY <1>3
    <3>4. Found(f, Seen, Rank, p, b, n - 1)
      BY <1>3, <1>7, <3>1, <3>2, <3>3 DEF Found
    <3>5. QED
      BY <1>3, <2>3, <3>4
  <2>4. QED
    BY <2>2, <2>3
<1>10. QED
  BY <1>1, <1>3, <1>6, <1>8, <1>9 DEF Walked

LEMMA DescendWalked ==
  ASSUME IInv, Descend, NEW p, Walked(f, stack, Seen, Closed, Rank, p)
  PROVE  Walked(f', stack', Seen', Closed', Rank',
                [p EXCEPT ![Head(Top.todo)] = Top.block])
<1>0. PICK m, t, h, n, S, r, q, e :
        /\ m = Len(stack) /\ t = Top.block /\ h = Head(Top.todo) /\ n = Left(stack, m)
        /\ S = Seen /\ r = Rank /\ q = Rank'
        /\ e = [p EXCEPT ![Head(Top.todo)] = Top.block]
  OBVIOUS
<1>1. /\ pc = "walk" /\ pc' = "walk" /\ Top.todo # <<>> /\ f' = f
  BY DEF Descend
<1>2. /\ InTurn(f, stack) /\ OnPath(stack, p) /\ IsTree(f, S, r, p) /\ Elder(f, S, r, p)
      /\ p \in [Blocks(f) -> Blocks(f)]
      /\ \A c \in Closed : \A s \in Succs(f, c) : Settled(f, S, r, p, c, s)
      /\ \A k \in DOMAIN stack : Found(f, S, r, p, stack[k].block, Left(stack, k))
  BY <1>0 DEF Walked
<1>3. /\ m \in Nat \ {0} /\ DOMAIN stack = 1 .. m /\ stack[m] = Top
      /\ n \in 1 .. 2 /\ t \in Blocks(f) /\ h = Turn(f, t, n)
      /\ stack'[m].block = t /\ Left(stack', m) = n - 1 /\ Left(stack', m + 1) = 2
      /\ \A k \in 1 .. m - 1 : stack'[k] = stack[k]
      /\ InTurn(f, stack')
  BY <1>0, <1>1, <1>2, Taken, Entering
<1>4. /\ h \in Blocks(f) /\ h \notin S /\ h \in Succs(f, t)
      /\ DOMAIN stack' = 1 .. m + 1 /\ Len(stack') = m + 1
      /\ stack'[m + 1] = Frame(h) /\ stack'[m + 1].block = h
      /\ \A k \in 1 .. m : stack'[k].block = stack[k].block
      /\ \A k \in 1 .. m : stack[k].block \in S
      /\ Seen' = S \cup {h} /\ Closed' = Closed /\ Closed \subseteq S
  BY <1>0, DescendFacts
<1>5. Grows(S, r, p, h, t, q, e)
  BY <1>0, <1>2, DescendRank DEF IsTree
<1>6. /\ t \in S /\ 0 \in S /\ r[t] = -1
      /\ \A c \in S : c \in Closed <=> r[c] >= 0
      /\ \A c \in S : r[c] <= r[t] <=> c \notin Closed
  <2>1. RankFacts
    BY <1>1, RankMeans
  <2>2. 1 \in DOMAIN stack /\ stack[1].block = 0
    BY <1>1, <1>3, TopFacts DEF Chain
  <2>3. QED
    BY <1>0, <1>1, <1>3, <1>4, <2>1, <2>2, RankOfOpen
<1>7. /\ \A c \in S : r[c] \in Int /\ q[c] \in Int /\ e[c] = p[c] /\ p[c] \in S
      /\ q[h] \in Int /\ e[h] = t
      /\ \A c, d \in S : q[c] < q[d] <=> r[c] < r[d]
      /\ \A c \in Closed : q[h] < q[c]
      /\ q[t] < q[h]
  BY <1>4, <1>5, <1>6 DEF Grows
\* A block that was entered from t has returned.
<1>8. ASSUME NEW c \in S \ {0}, p[c] = t
      PROVE  c \in Closed /\ n = 1 /\ c = V1(f, t) /\ h = V2(f, t)
  <2>1. r[t] < r[c]
    BY <1>2, <1>8 DEF IsTree
  <2>2. c \in Closed
    BY <1>6, <1>7, <1>8, <2>1
  <2>3. m \in DOMAIN stack /\ stack[m].block = t /\ Left(stack, m) = n
    BY <1>0, <1>3
  <2>4. PICK i \in n + 1 .. 2 : c = Turn(f, t, i)
    BY <1>2, <1>8, <2>3 DEF Found
  <2>5. n = 1 /\ i = 2
    BY <1>3
  <2>6. QED
    BY <1>3, <2>2, <2>4, <2>5 DEF Turn
<1>9. IsTree(f, S \cup {h}, q, e)
  BY <1>2, <1>4, <1>5, GrowTree
<1>10. Elder(f, S \cup {h}, q, e)
  <2>1. SUFFICES ASSUME NEW b \in S \cup {h}, NEW c, NEW d, c = V1(f, b), d = V2(f, b),
                        c \in (S \cup {h}) \ {0}, d \in (S \cup {h}) \ {0}, c # d,
                        e[c] = b, e[d] = b
                 PROVE  q[d] < q[c]
    BY DEF Elder
  <2>2. b \in S
    BY <1>4, <1>6, <1>7, <2>1
  <2>3. CASE c \in S /\ d \in S
    <3>1. p[c] = b /\ p[d] = b
      BY <1>7, <2>1, <2>3
    <3>2. r[d] < r[c]
      BY <1>2, <2>1, <2>2, <2>3, <3>1 DEF Elder
    <3>3. QED
      BY <1>7, <2>3, <3>2
  <2>4. CASE d = h
    <3>1. b = t /\ c \in S \ {0} /\ p[c] = t
      BY <1>7, <2>1, <2>4
    <3>2. QED
      BY <1>7, <1>8, <2>4, <3>1
  <2>5. CASE c = h /\ d \in S
    <3>1. b = t /\ d \in S \ {0} /\ p[d] = t
      BY <1>7, <2>1, <2>5
    <3>2. h = V2(f, t)
      BY <1>8, <3>1
    <3>3. QED
      BY <2>1, <2>5, <3>1, <3>2
  <2>6. QED
    BY <2>1, <2>3, <2>4, <2>5
<1>11. ASSUME NEW b \in S, NEW s, Settled(f, S, r, p, b, s)
       PROVE  Settled(f, S \cup {h}, q, e, b, s)
  BY <1>5, <1>11, GrowSettled
<1>12. \A b \in Closed : \A s \in Succs(f, b) : Settled(f, S \cup {h}, q, e, b, s)
  BY <1>2, <1>4, <1>11
<1>13. Settled(f, S \cup {h}, q, e, t, h)
  BY <1>6, <1>7 DEF Settled
<1>14. /\ \A k \in 1 .. m + 1 : k = m + 1 \/ k \in 1 .. m
       /\ \A k \in 1 .. m : k = m \/ k \in 1 .. m - 1
  BY <1>3
<1>17. OnPath(stack', e)
  <2>1. \A k \in 1 .. m : k > 1 => k - 1 \in 1 .. m /\ p[stack[k].block] = stack[k - 1].block
    BY <1>2, <1>3 DEF OnPath
  <2>2. m + 1 - 1 = m /\ m \in 1 .. m
    BY <1>3
  <2>3. \A k \in 1 .. m + 1 : k > 1 => e[stack'[k].block] = stack'[k - 1].block
    BY <1>0, <1>3, <1>4, <1>7, <1>14, <2>1, <2>2
  <2>4. QED
    BY <1>4, <2>3 DEF OnPath
<1>18. ASSUME NEW k \in 1 .. m + 1
       PROVE  Found(f, S \cup {h}, q, e, stack'[k].block, Left(stack', k))
  <2>1. CASE k = m + 1
    <3>1. 2 + 1 .. 2 = {}
      OBVIOUS
    <3>2. \A c \in S \cup {h} : e[c] # h
      BY <1>4, <1>6, <1>7
    <3>3. QED
      BY <1>4, <1>3, <2>1, <3>1, <3>2 DEF Found
  <2>2. ASSUME k \in 1 .. m
        PROVE  /\ Found(f, S, r, p, stack[k].block, Left(stack, k))
               /\ stack[k].block \in S /\ stack'[k].block = stack[k].block
               /\ stack[k].block = t <=> k = m
    <3>1. \A j \in 1 .. m : stack[j].block = stack[k].block => j = k
      BY <1>1, <1>3, <2>2, TopFacts DEF Chain
    <3>2. QED
      BY <1>0, <1>2, <1>3, <1>4, <2>2, <3>1
  <2>3. CASE k \in 1 .. m /\ k # m
    <3> DEFINE b == stack[k].block  l == Left(stack, k)
    <3>1. Left(stack', k) = l
      BY <1>3, <1>14, <2>3 DEF Left
    <3> HIDE DEF b, l
    <3>2. Found(f, S, r, p, b, l) /\ b \in S /\ b # t
      BY <2>2, <2>3 DEF b, l
    <3>3. \A i \in l + 1 .. 2 : Turn(f, b, i) # Nil =>
            Settled(f, S \cup {h}, q, e, b, Turn(f, b, i))
      BY <1>11, <3>2 DEF Found
    <3>4. \A c \in (S \cup {h}) \ {0} : e[c] = b => \E i \in l + 1 .. 2 : c = Turn(f, b, i)
      BY <1>7, <3>2 DEF Found
    <3>5. Found(f, S \cup {h}, q, e, b, l)
      BY <3>3, <3>4 DEF Found
    <3>6. QED
      BY <2>2, <2>3, <3>1, <3>5 DEF b
  <2>4. CASE k = m
    <3>0. n \in 1 .. 2
      BY <1>3
    <3>1. Found(f, S, r, p, t, n) /\ Left(stack', k) = n - 1 /\ stack'[k].block = t
      BY <1>0, <1>3, <1>14, <2>2, <2>4 DEF Left
    <3>2. n - 1 + 1 .. 2 = n .. 2 /\ n \in n .. 2
          /\ \A i \in n .. 2 : i = n \/ i \in n + 1 .. 2
      BY <3>0
    <3>3. \A i \in n + 1 .. 2 : i \in n .. 2
      BY <3>0
    <3>4. \A i \in n .. 2 : Turn(f, t, i) # Nil =>
            Settled(f, S \cup {h}, q, e, t, Turn(f, t, i))
      BY <1>3, <1>6, <1>11, <1>13, <3>1, <3>2 DEF Found
    <3>5. \A c \in (S \cup {h}) \ {0} : e[c] = t => \E i \in n .. 2 : c = Turn(f, t, i)
      BY <1>3, <1>7, <3>1, <3>2, <3>3 DEF Found
    <3>6. Found(f, S \cup {h}, q, e, t, n - 1)
      BY <3>2, <3>4, <3>5 DEF Found
    <3>7. QED
      BY <3>1, <3>6
  <2>5. QED
    BY <1>14, <2>1, <2>3, <2>4
<1>19. e \in [Blocks(f) -> Blocks(f)]
  BY <1>0, <1>2, <1>3, <1>4
<1>20. Walked(f, stack', S \cup {h}, Closed, q, e)
  BY <1>4, <1>9, <1>10, <1>3, <1>12, <1>17, <1>18, <1>19 DEF Walked
<1>21. QED
  BY <1>0, <1>1, <1>4, <1>20

\* A block that is left keeps its place in the order.
LEMMA LeaveWalked ==
  ASSUME IInv, Leave, NEW p, Walked(f, stack, Seen, Closed, Rank, p)
  PROVE  /\ pc' = "walk" => Walked(f', stack', Seen', Closed', Rank', p)
         /\ pc' = "compact" => Tree(f', Seen', id', p)
<1>0. PICK m, t, S, r : m = Len(stack) /\ t = Top.block /\ S = Seen /\ r = Rank
  OBVIOUS
<1>1. /\ pc = "walk" /\ Top.todo = <<>> /\ f' = f
      /\ pc' = IF Below = <<>> THEN "compact" ELSE "walk"
  BY DEF Leave
<1>2. /\ InTurn(f, stack) /\ OnPath(stack, p) /\ IsTree(f, S, r, p) /\ Elder(f, S, r, p)
      /\ p \in [Blocks(f) -> Blocks(f)]
      /\ \A c \in Closed : \A s \in Succs(f, c) : Settled(f, S, r, p, c, s)
      /\ \A k \in DOMAIN stack : Found(f, S, r, p, stack[k].block, Left(stack, k))
  BY <1>0 DEF Walked
<1>3. /\ m \in Nat \ {0} /\ DOMAIN stack = 1 .. m /\ DOMAIN stack' = 1 .. m - 1
      /\ stack[m] = Top
      /\ Below = <<>> <=> m = 1
      /\ \A k \in 1 .. m - 1 : stack'[k] = stack[k]
      /\ Seen' = S /\ Closed' = Closed \cup {t} /\ Closed \subseteq S /\ S \subseteq Blocks(f)
      /\ id' \in [Blocks(f) -> 0 .. Word - 1] /\ t \in S /\ Word \in Nat /\ Shape
  <2>1. /\ DOMAIN stack = 1 .. m /\ stack[m] = Top /\ t \in S /\ Shape /\ Word \in Nat
    BY <1>0, <1>1, TopFacts DEF Top, Shape
  <2>2. QED
    BY <1>0, <2>1, LeaveFacts
<1>4. \A s \in Succs(f, t) : Settled(f, S, r, p, t, s)
  <2>1. m \in Nat \ {0}
    BY <1>3
  <2>2. m \in 1 .. m
    BY <2>1
  <2>3. stack[m].todo = <<>> /\ Len(<<>>) = 0
    <3>1. Top.todo = <<>>
      BY <1>1
    <3>2. stack[m] = Top
      BY <1>3
    <3>3. QED
      BY <3>1, <3>2
  <2>4. Left(stack, m) = 0 /\ m \in DOMAIN stack /\ stack[m].block = t
    BY <1>0, <1>3, <2>2, <2>3 DEF Left
  <2>5. Found(f, S, r, p, t, 0)
    BY <1>2, <2>4
  <2>6. Turn(f, t, 1) = V2(f, t) /\ Turn(f, t, 2) = V1(f, t) /\ {1, 2} \subseteq 0 + 1 .. 2
    BY DEF Turn
  <2>7. Succs(f, t) = {V1(f, t), V2(f, t)} \ {Nil}
    BY <1>3, Turns
  <2>8. QED
    BY <2>5, <2>6, <2>7 DEF Found
<1>5. \A b \in Closed' : \A s \in Succs(f, b) : Settled(f, S, r, p, b, s)
  BY <1>2, <1>3, <1>4
<1>6. RankFacts
  BY LeaveRank
<1>7. \A c \in S : r[c] \in Int
  BY <1>0, <1>6 DEF RankFacts
<1>8. ASSUME pc' = "walk"
      PROVE  Walked(f', stack', Seen', Closed', Rank', p)
  <2>0. PICK q : q = Rank'
    OBVIOUS
  <2>1. /\ \A c \in S : q[c] \in Int
        /\ \A a, b \in S : q[a] < q[b] <=> r[a] < r[b]
    <3>1. RankFacts' /\ \A a, b \in Seen : Rank'[a] < Rank'[b] <=> Rank[a] < Rank[b]
      BY <1>8, LeaveRank
    <3>2. Rank' \in [Seen' -> Int]
      BY <3>1 DEF RankFacts
    <3>3. QED
      BY <1>0, <1>3, <2>0, <3>1, <3>2
  <2>2. /\ IsTree(f, S, q, p) /\ Elder(f, S, q, p)
        /\ \A b \in S : \A s : Settled(f, S, r, p, b, s) => Settled(f, S, q, p, b, s)
    BY <1>2, <1>7, <2>1, SameOrder
  <2>3. \A b \in Closed' : \A s \in Succs(f, b) : Settled(f, S, q, p, b, s)
    BY <1>3, <1>5, <2>2
  <2>4. ASSUME NEW k \in 1 .. m - 1
        PROVE  /\ k \in 1 .. m /\ Left(stack', k) = Left(stack, k)
               /\ Found(f, S, q, p, stack'[k].block, Left(stack', k))
    <3>1. k \in 1 .. m /\ stack'[k] = stack[k]
      BY <1>3
    <3>2. Left(stack', k) = Left(stack, k)
      BY <3>1 DEF Left
    <3>3. Found(f, S, r, p, stack[k].block, Left(stack, k)) /\ stack[k].block \in S
      BY <1>0, <1>1, <1>2, <1>3, <3>1, TopFacts DEF Open
    <3>4. Found(f, S, q, p, stack[k].block, Left(stack, k))
      BY <2>2, <3>3 DEF Found
    <3>5. QED
      BY <3>1, <3>2, <3>4
  <2>5. InTurn(f, stack')
    BY <1>2, <1>3, <2>4 DEF InTurn
  <2>6. OnPath(stack', p)
    <3>1. \A k \in 1 .. m - 1 : k \in 1 .. m /\ (k > 1 => k - 1 \in 1 .. m - 1)
      BY <1>3
    <3>2. QED
      BY <1>2, <1>3, <3>1 DEF OnPath
  <2>7. Walked(f, stack', S, Closed', q, p)
    BY <1>2, <1>3, <2>2, <2>3, <2>4, <2>5, <2>6 DEF Walked
  <2>8. QED
    BY <1>1, <1>3, <2>0, <2>7
<1>9. ASSUME pc' = "compact"
      PROVE  Tree(f', Seen', id', p)
  <2>0. PICK q : q = id'
    OBVIOUS
  <2>1. \A c \in S : q[c] \in Int
    BY <1>3, <2>0
  <2>2. \A a, b \in S : q[a] < q[b] <=> r[a] < r[b]
    BY <1>0, <1>9, <2>0, LeaveRank
  <2>3. /\ IsTree(f, S, q, p) /\ Elder(f, S, q, p)
        /\ \A b \in S : \A s : Settled(f, S, r, p, b, s) => Settled(f, S, q, p, b, s)
    BY <1>2, <1>7, <2>1, <2>2, SameOrder
  <2>4. Closed' = S
    <3>1. m = 1
      BY <1>1, <1>3, <1>9
    <3>2. DOMAIN stack' = {} /\ Open' = {}
      BY <1>3, <3>1 DEF Open
    <3>3. QED
      BY <1>3, <3>2 DEF Closed
  <2>5. AllSettled(f, S, q, p)
    BY <1>5, <2>3, <2>4 DEF AllSettled
  <2>6. QED
    BY <1>1, <1>3, <2>0, <2>3, <2>5 DEF Tree
<1>10. QED
  BY <1>8, <1>9

-----------------------------------------------------------------------------
(***************************************************************************)
(* The tree under the new numbers.                                         *)
(***************************************************************************)
Relabels(g, h, S, K, r, at, num) ==
  /\ at \in [K -> S] /\ num \in [S -> K]
  /\ K \subseteq Int /\ Nil \notin S /\ Nil \notin K
  /\ \A b \in S : r[b] \in Int /\ at[num[b]] = b
  /\ \A i \in K : num[at[i]] = i
  /\ \A b, c \in S : r[b] < r[c] <=> num[b] < num[c]
  /\ 0 \in S /\ num[0] = 0
  /\ \A i \in K : /\ V1(g, at[i]) \in S \cup {Nil} /\ V2(g, at[i]) \in S \cup {Nil}
                  /\ V1(h, i) = IF V1(g, at[i]) = Nil THEN Nil ELSE num[V1(g, at[i])]
                  /\ V2(h, i) = IF V2(g, at[i]) = Nil THEN Nil ELSE num[V2(g, at[i])]

LEMMA Relabel ==
  ASSUME NEW g, NEW h, NEW S, NEW K, NEW r, NEW p, NEW at, NEW num,
         Relabels(g, h, S, K, r, at, num), Tree(g, S, r, p)
  PROVE  Tree(h, K, [i \in K |-> i], [i \in K |-> num[p[at[i]]]])
<1>0. /\ at \in [K -> S] /\ num \in [S -> K] /\ K \subseteq Int /\ Nil \notin S /\ Nil \notin K
      /\ \A b \in S : r[b] \in Int /\ at[num[b]] = b
      /\ \A i \in K : num[at[i]] = i
      /\ \A b, c \in S : r[b] < r[c] <=> num[b] < num[c]
      /\ 0 \in S /\ num[0] = 0
  BY DEF Relabels
<1> DEFINE q == [i \in K |-> i]  e == [i \in K |-> num[p[at[i]]]]
<1>1. /\ IsTree(g, S, r, p) /\ Elder(g, S, r, p) /\ AllSettled(g, S, r, p)
      /\ \A b \in S : p[b] \in S
  BY DEF Tree, IsTree
<1>2. ASSUME NEW i \in K
      PROVE  /\ q[i] = i /\ i \in Int /\ e[i] \in K /\ at[e[i]] = p[at[i]] /\ at[i] \in S
             /\ at[i] = 0 <=> i = 0
  BY <1>0, <1>1
<1> HIDE DEF q, e
<1>3. \A i, j \in K : /\ q[i] < q[j] <=> r[at[i]] < r[at[j]]
                      /\ q[i] <= q[j] <=> r[at[i]] <= r[at[j]]
  BY <1>0, <1>2
<1>4. ASSUME NEW i \in K, NEW j \in K
      PROVE  Inside(K, q, e, i, j) <=> Inside(S, r, p, at[i], at[j])
  <2>1. ASSUME Inside(S, r, p, at[i], at[j]) PROVE Inside(K, q, e, i, j)
    BY <1>2, <1>3, <2>1 DEF Inside
  <2>2. ASSUME Inside(K, q, e, i, j), NEW d \in S, r[at[i]] < r[d], r[d] <= r[at[j]]
        PROVE  r[at[i]] <= r[p[d]]
    <3>1. num[d] \in K /\ at[num[d]] = d
      BY <1>0
    <3>2. q[i] < q[num[d]] /\ q[num[d]] <= q[j]
      BY <1>3, <2>2, <3>1
    <3>4. q[i] <= q[e[num[d]]]
      BY <2>2, <3>1, <3>2 DEF Inside
    <3>3. r[at[i]] <= r[at[e[num[d]]]] /\ at[e[num[d]]] = p[at[num[d]]]
      BY <1>2, <1>3, <3>1, <3>4
    <3>5. QED
      BY <3>1, <3>3
  <2>3. QED
    BY <1>3, <2>1, <2>2 DEF Inside
<1>5. ASSUME NEW i \in K
      PROVE  /\ Succs(h, i) = {V1(h, i), V2(h, i)} \ {Nil}
             /\ Succs(g, at[i]) = {V1(g, at[i]), V2(g, at[i])} \ {Nil}
             /\ \A j \in Succs(h, i) : j \in K /\ at[j] \in Succs(g, at[i])
             /\ \A c \in Succs(g, at[i]) : c \in S /\ num[c] \in Succs(h, i)
             /\ V1(h, i) \in K <=> V1(g, at[i]) \in S
             /\ V2(h, i) \in K <=> V2(g, at[i]) \in S
             /\ V1(h, i) \in K => at[V1(h, i)] = V1(g, at[i])
             /\ V2(h, i) \in K => at[V2(h, i)] = V2(g, at[i])
  <2>1. /\ Succs(h, i) = {V1(h, i), V2(h, i)} \ {Nil}
        /\ Succs(g, at[i]) = {V1(g, at[i]), V2(g, at[i])} \ {Nil}
    BY DEF Succs, V1, V2
  <2>2. \/ V1(g, at[i]) = Nil /\ V1(h, i) = Nil
        \/ /\ V1(g, at[i]) \in S /\ V1(h, i) \in K
           /\ V1(h, i) = num[V1(g, at[i])] /\ at[V1(h, i)] = V1(g, at[i])
    <3>1. PICK c, d : c = V1(g, at[i]) /\ d = V1(h, i)
      OBVIOUS
    <3>2. c \in S \cup {Nil} /\ d = IF c = Nil THEN Nil ELSE num[c]
      BY <3>1 DEF Relabels
    <3>3. c = Nil => d = Nil
      BY <3>2
    <3>4. c # Nil => c \in S /\ d \in K /\ d = num[c] /\ at[d] = c
      BY <1>0, <3>2
    <3>5. QED
      BY <3>1, <3>2, <3>3, <3>4
  <2>3. \/ V2(g, at[i]) = Nil /\ V2(h, i) = Nil
        \/ /\ V2(g, at[i]) \in S /\ V2(h, i) \in K
           /\ V2(h, i) = num[V2(g, at[i])] /\ at[V2(h, i)] = V2(g, at[i])
    <3>1. PICK c, d : c = V2(g, at[i]) /\ d = V2(h, i)
      OBVIOUS
    <3>2. c \in S \cup {Nil} /\ d = IF c = Nil THEN Nil ELSE num[c]
      BY <3>1 DEF Relabels
    <3>3. c = Nil => d = Nil
      BY <3>2
    <3>4. c # Nil => c \in S /\ d \in K /\ d = num[c] /\ at[d] = c
      BY <1>0, <3>2
    <3>5. QED
      BY <3>1, <3>2, <3>3, <3>4
  <2>4. QED
    BY <1>0, <2>1, <2>2, <2>3
<1>6. IsTree(h, K, q, e)
  <2>1. ASSUME NEW i \in K \ {0}
        PROVE  i \in Succs(h, e[i]) /\ q[e[i]] < q[i] /\ Inside(K, q, e, e[i], i)
    <3>1. /\ at[i] \in S \ {0} /\ at[e[i]] = p[at[i]] /\ e[i] \in K /\ num[at[i]] = i
      BY <1>0, <1>2
    <3>2. /\ at[i] \in Succs(g, at[e[i]]) /\ r[at[e[i]]] < r[at[i]]
          /\ Inside(S, r, p, at[e[i]], at[i])
      BY <1>1, <3>1 DEF IsTree
    <3>3. num[at[i]] \in Succs(h, e[i])
      BY <1>5, <3>1, <3>2
    <3>4. QED
      BY <1>3, <1>4, <3>1, <3>2, <3>3
  <2>2. QED
    BY <1>2, <2>1 DEF IsTree
<1>7. Elder(h, K, q, e)
  <2>1. SUFFICES ASSUME NEW i \in K, NEW c, NEW d, c = V1(h, i), d = V2(h, i),
                        c \in K \ {0}, d \in K \ {0}, c # d, e[c] = i, e[d] = i
                 PROVE  q[d] < q[c]
    BY DEF Elder
  <2>2. /\ at[c] = V1(g, at[i]) /\ at[d] = V2(g, at[i])
        /\ at[c] \in S \ {0} /\ at[d] \in S \ {0} /\ at[c] # at[d]
        /\ p[at[c]] = at[i] /\ p[at[d]] = at[i]
    BY <1>0, <1>2, <1>5, <2>1
  <2>3. r[at[d]] < r[at[c]]
    BY <1>1, <1>2, <2>2 DEF Elder
  <2>4. QED
    BY <1>3, <2>1, <2>3
<1>8. AllSettled(h, K, q, e)
  <2>1. SUFFICES ASSUME NEW i \in K, NEW j \in Succs(h, i)
                 PROVE  Settled(h, K, q, e, i, j)
    BY DEF AllSettled
  <2>2. j \in K /\ at[j] \in Succs(g, at[i])
    BY <1>5
  <2>3. Settled(g, S, r, p, at[i], at[j])
    BY <1>1, <1>2, <2>2 DEF AllSettled
  <2>4. q[j] <= q[i] => Inside(K, q, e, j, i)
    BY <1>3, <1>4, <2>2, <2>3 DEF Settled
  <2>5. ASSUME q[i] < q[j], Inside(K, q, e, i, j)
        PROVE  \/ e[j] = i
               \/ j = V2(h, i) /\ V1(h, i) \in K \ {0} /\ e[V1(h, i)] = i /\ q[V1(h, i)] < q[j]
    <3>1. \/ p[at[j]] = at[i]
          \/ /\ at[j] = V2(g, at[i]) /\ V1(g, at[i]) \in S \ {0} /\ p[V1(g, at[i])] = at[i]
             /\ r[V1(g, at[i])] < r[at[j]]
      BY <1>3, <1>4, <2>2, <2>3, <2>5 DEF Settled
    <3>2. CASE p[at[j]] = at[i]
      <4>1. at[e[j]] = at[i] /\ e[j] \in K
        BY <1>2, <2>2, <3>2
      <4>2. num[at[e[j]]] = e[j] /\ num[at[i]] = i
        BY <1>0, <4>1
      <4>3. QED
        BY <4>1, <4>2
    <3>3. CASE /\ at[j] = V2(g, at[i]) /\ V1(g, at[i]) \in S \ {0} /\ p[V1(g, at[i])] = at[i]
               /\ r[V1(g, at[i])] < r[at[j]]
      <4>1. /\ V1(h, i) \in K /\ at[V1(h, i)] = V1(g, at[i])
            /\ V2(h, i) \in K /\ at[V2(h, i)] = at[j]
        BY <1>2, <1>5, <2>2, <3>3
      <4>2. V2(h, i) = j
        BY <1>0, <2>2, <4>1
      <4>3. V1(h, i) # 0 /\ e[V1(h, i)] = i
        <5>1. PICK v \in K : v = V1(h, i)
          BY <4>1
        <5>2. at[v] # 0 /\ p[at[v]] = at[i] /\ at[e[v]] = p[at[v]] /\ e[v] \in K
          BY <1>2, <3>3, <4>1, <5>1
        <5>3. v # 0
          BY <1>2, <5>2
        <5>4. num[at[e[v]]] = e[v] /\ num[at[i]] = i
          BY <1>0, <5>2
        <5>5. QED
          BY <5>1, <5>2, <5>3, <5>4
      <4>4. q[V1(h, i)] < q[j]
        BY <1>3, <2>2, <3>3, <4>1
      <4>5. QED
        BY <4>1, <4>2, <4>3, <4>4
    <3>4. QED
      BY <3>1, <3>2, <3>3
  <2>6. QED
    BY <2>2, <2>4, <2>5 DEF Settled
<1>9. QED
  BY <1>6, <1>7, <1>8 DEF Tree, q, e

LEMMA LoopMoved ==
  ASSUME IInv, Compact
  PROVE  f'.loop = [i \in 0 .. Kept - 1 |-> f.loop[At(i)]]
<1>1. f' = Sorted(Number, Kept)
  BY DEF Compact, Kept
<1>2. Fields \subseteq DOMAIN f
  BY DEF IInv, Typed, Shape
<1> HIDE DEF Kept
<1>3. QED
  BY <1>1, <1>2, Zenon DEF Sorted, Fields, At

Same(g) == [b \in Blocks(g) |-> b]

\* The first call of FillRPO leaves a tree of all blocks, ranked by number.
LEMMA CompactTree ==
  ASSUME IInv, Compact, NEW p, Tree(f, Seen, id, p)
  PROVE  \E e : Tree(f', Blocks(f'), Same(f'), e)
<1>0. PICK K, S, h, at, num :
        /\ K = 0 .. Kept - 1 /\ S = Seen /\ h = f'
        /\ at = [i \in 0 .. Kept - 1 |-> At(i)] /\ num = [b \in Seen |-> Number[b]]
  OBVIOUS
<1>1. pc = "compact" /\ Shape /\ Complete
  BY DEF Compact, IInv, Typed
<1>2. /\ Kept \in Nat \ {0} /\ S \subseteq Blocks(f) /\ 0 \in S /\ num[0] = 0
      /\ \A b \in S : num[b] = Number[b] /\ num[b] \in K /\ at[num[b]] = b
      /\ \A b, c \in S : id[b] < id[c] <=> num[b] < num[c]
      /\ \A i \in K : at[i] = At(i) /\ at[i] \in S /\ num[at[i]] = i
  BY <1>0, <1>1, Renumbering
<1>3. at \in [K -> S] /\ num \in [S -> K]
  BY <1>0, <1>2
<1>4. K \subseteq Int /\ Nil \notin K /\ Nil \notin S /\ \A b \in S : id[b] \in Int
  <2>1. K \subseteq Int /\ Nil \notin K
    BY <1>0, <1>2 DEF Nil
  <2>2. Nil \notin S
    BY <1>2 DEF Blocks, Nil
  <2>3. \A b \in S : id[b] \in Int
    BY <1>1, <1>2 DEF IInv, Typed, Shape
  <2>4. QED
    BY <2>1, <2>2, <2>3
<1>5. /\ h.s1 = [i \in K |-> To(f.s1[At(i)])] /\ h.s2 = [i \in K |-> To(f.s2[At(i)])]
      /\ h.loop = [i \in K |-> f.loop[At(i)]] /\ h.n = Kept
  BY <1>0, CompactFields, LoopMoved
<1> HIDE DEF At, To, Kept
<1>6. ASSUME NEW i \in K, NEW s \in {f.s1[at[i]], f.s2[at[i]]}
      PROVE  /\ s \in S \cup {Nil}
             /\ To(s) = IF s = Nil THEN Nil ELSE num[s]
             /\ s # Nil => h.loop[num[s]] = f.loop[s]
  <2>1. s # Nil => s \in S
    BY <1>0, <1>1, <1>2 DEF Complete, Succs
  <2>2. s \in S => To(s) = num[s]
    BY <1>0, <1>2 DEF To
  <2>3. Nil \notin Blocks(f)
    BY DEF Blocks, Nil
  <2>4. s = Nil => To(s) = Nil
    BY <2>3 DEF To
  <2>5. s \in S => h.loop[num[s]] = f.loop[s]
    BY <1>2, <1>5
  <2>6. QED
    BY <2>1, <2>2, <2>4, <2>5
<1>7. ASSUME NEW i \in K
      PROVE  /\ V1(f, at[i]) \in S \cup {Nil} /\ V2(f, at[i]) \in S \cup {Nil}
             /\ V1(h, i) = IF V1(f, at[i]) = Nil THEN Nil ELSE num[V1(f, at[i])]
             /\ V2(h, i) = IF V2(f, at[i]) = Nil THEN Nil ELSE num[V2(f, at[i])]
  <2>1. h.s1[i] = To(f.s1[at[i]]) /\ h.s2[i] = To(f.s2[at[i]])
    BY <1>2, <1>5
  <2>2. \A s \in S : num[s] # Nil
    BY <1>2, <1>4
  <2>3. /\ f.s1[at[i]] \in S \cup {Nil} /\ f.s2[at[i]] \in S \cup {Nil}
        /\ h.s1[i] = IF f.s1[at[i]] = Nil THEN Nil ELSE num[f.s1[at[i]]]
        /\ h.s2[i] = IF f.s2[at[i]] = Nil THEN Nil ELSE num[f.s2[at[i]]]
        /\ f.s1[at[i]] # Nil => h.loop[h.s1[i]] = f.loop[f.s1[at[i]]]
        /\ f.s2[at[i]] # Nil => h.loop[h.s2[i]] = f.loop[f.s2[at[i]]]
    BY <1>6, <2>1
  <2>4. Swapped(h, i) <=> Swapped(f, at[i])
    BY <2>2, <2>3 DEF Swapped
  <2>5. QED
    BY <2>3, <2>4 DEF V1, V2
<1>8. Tree(h, K, [i \in K |-> i], [i \in K |-> num[p[at[i]]]])
  <2>1. Tree(f, S, id, p)
    BY <1>0
  <2>2. /\ \A b \in S : at[num[b]] = b
        /\ \A i \in K : num[at[i]] = i
        /\ \A b, c \in S : id[b] < id[c] <=> num[b] < num[c]
        /\ 0 \in S /\ num[0] = 0
    BY <1>2
  <2>3. Relabels(f, h, S, K, id, at, num)
    <3>1. \A b \in S : id[b] \in Int /\ at[num[b]] = b
      BY <1>4, <2>2
    <3>2. K \subseteq Int /\ Nil \notin S /\ Nil \notin K
      BY <1>4
    <3>3. QED
      BY <1>3, <1>7, <2>2, <3>1, <3>2, Zenon DEF Relabels
  <2>4. QED
    BY <2>1, <2>3, Relabel
<1>9. Blocks(h) = K
  BY <1>0, <1>5 DEF Blocks
<1>10. QED
  BY <1>0, <1>8, <1>9 DEF Same

-----------------------------------------------------------------------------
(***************************************************************************)
(* The second walk goes along the tree: the calls in progress are a path   *)
(* of it, the blocks that have returned have the numbers they had, and a   *)
(* block entered from one that has been seen is one which that call, still *)
(* in progress, has yet to visit.                                          *)
(***************************************************************************)
Rising(st) == \A j, k \in DOMAIN st : j < k => st[j].block < st[k].block

Along(g, st, S, C, num, p) ==
  /\ InTurn(g, st) /\ OnPath(st, p) /\ Rising(st)
  /\ \A b \in C : num[b] = b
  /\ \A k \in DOMAIN st : k + 1 \in DOMAIN st /\ Left(st, k) # 0 =>
       Left(st, k) = 1 /\ st[k + 1].block = V1(g, st[k].block)
  /\ \A c \in Blocks(g) \ S : p[c] \in S =>
       \E k \in DOMAIN st : p[c] = st[k].block /\ c \in Elems(st[k].todo)

\* What is left to visit, of a call with one turn.
LEMMA LastTurn ==
  ASSUME NEW g, NEW st, NEW k \in DOMAIN st, InTurn(g, st), NEW c \in Elems(st[k].todo)
  PROVE  /\ Left(st, k) # 0
         /\ Left(st, k) = 1 => c = V2(g, st[k].block)
<1>1. Left(st, k) \in 0 .. 2 /\ st[k].todo = Rest(g, st[k].block, Left(st, k))
  BY DEF InTurn
<1>2. Left(st, k) # 0
  BY <1>1 DEF Rest, Elems
<1>3. ASSUME Left(st, k) = 1 PROVE c = V2(g, st[k].block)
  <2>1. st[k].todo = <<V2(g, st[k].block)>>
    BY <1>1, <1>3 DEF Rest
  <2>2. QED
    BY <2>1 DEF Elems
<1>4. QED
  BY <1>2, <1>3

\* A higher block that has not been seen is inside one that is next for the top.
LEMMA Onward ==
  ASSUME IInv, pc = "walk", NEW p, Tree(f, Blocks(f), Same(f), p),
         Along(f, stack, Seen, Closed, id, p),
         NEW s \in Blocks(f) \ Seen, Top.block < s
  PROVE  \E d \in Blocks(f) \ Seen :
           /\ p[d] = Top.block /\ d \in Elems(Top.todo)
           /\ d <= s /\ Inside(Blocks(f), Same(f), p, d, s)
<1>0. PICK B, r, m, t : B = Blocks(f) /\ r = Same(f) /\ m = Len(stack) /\ t = Top.block
  OBVIOUS
<1>1. /\ B \subseteq Nat /\ 0 \in Seen /\ Seen \subseteq B
      /\ m \in Nat \ {0} /\ DOMAIN stack = 1 .. m /\ stack[m] = Top
      /\ \A k \in 1 .. m : stack[k].block \in Seen
      /\ \A k \in 1 .. m : k > 1 => stack[k].block # 0
      /\ t \in Seen
  <2>1. /\ Shape /\ Chain /\ m \in Nat \ {0} /\ DOMAIN stack = 1 .. m /\ stack[m] = Top
        /\ Open \subseteq Seen /\ t \in Seen
    BY <1>0, TopFacts DEF Top
  <2>2. 1 \in 1 .. m /\ stack[1].block = 0
        /\ \A j, k \in 1 .. m : stack[j].block = stack[k].block => j = k
    BY <2>1 DEF Chain
  <2>3. \A k \in 1 .. m : stack[k].block \in Seen
    BY <2>1 DEF Open
  <2>4. B \subseteq Nat /\ Seen \subseteq B
    BY <1>0, <2>1 DEF Shape, Blocks, Seen
  <2>5. QED
    BY <2>1, <2>2, <2>3, <2>4
<1>2. /\ r \in [B -> Int] /\ \A b \in B : r[b] = b
      /\ IsTree(f, B, r, p) /\ Elder(f, B, r, p) /\ \A b \in B : p[b] \in B
  BY <1>0, <1>1 DEF Same, Tree, IsTree
<1> DEFINE Cand == {d \in B \ Seen : Inside(B, r, p, d, s)}
<1>3. s \in Cand
  BY <1>0, <1>2 DEF Inside
<1>4. PICK d \in Cand : \A c \in Cand : d <= c
  <2>1. Cand \subseteq Nat
    BY <1>1
  <2> HIDE DEF Cand
  <2>2. QED
    BY <1>3, <2>1, LeastNat
<1>5. /\ d \in B \ {0} /\ d \in Nat /\ p[d] \in B /\ p[d] \in Nat /\ d <= s
      /\ d \in Succs(f, p[d]) /\ p[d] < d /\ Inside(B, r, p, p[d], d)
      /\ Inside(B, r, p, d, s)
  <2>1. d \in B \ {0} /\ p[d] \in B
    BY <1>1, <1>2
  <2>2. r[p[d]] < r[d] /\ d \in Succs(f, p[d]) /\ Inside(B, r, p, p[d], d)
    BY <1>2, <2>1 DEF IsTree
  <2>3. r[d] <= r[s]
    BY DEF Inside
  <2>4. QED
    BY <1>0, <1>1, <1>2, <2>1, <2>2, <2>3
<1>6. p[d] \in Seen
  <2>1. Inside(B, r, p, p[d], s)
    BY <1>0, <1>2, <1>5, InsideTrans
  <2>2. p[d] \notin Cand
    BY <1>4, <1>5
  <2>3. QED
    BY <1>5, <2>1, <2>2
<1>7. PICK k \in 1 .. m : p[d] = stack[k].block /\ d \in Elems(stack[k].todo)
  BY <1>0, <1>1, <1>6 DEF Along
<1>8. CASE k = m
  BY <1>0, <1>1, <1>5, <1>7, <1>8
<1>9. CASE k # m
  <2>1. k + 1 \in 1 .. m /\ k \in 1 .. m
    BY <1>1, <1>9
  <2>2. InTurn(f, stack)
    BY DEF Along
  <2>3. Left(stack, k) # 0
    BY <1>1, <1>7, <2>2, LastTurn
  <2>4. Left(stack, k) = 1 /\ stack[k + 1].block = V1(f, p[d])
    BY <1>1, <1>7, <2>1, <2>3 DEF Along
  <2>5. d = V2(f, p[d])
    BY <1>1, <1>7, <2>2, <2>4, LastTurn
  <2>6. PICK c : c = V1(f, p[d])
    OBVIOUS
  <2>7. c \in Seen /\ c # d /\ c \in B \ {0} /\ p[c] = p[d]
    <3>1. p[stack[k + 1].block] = stack[k + 1 - 1].block
      BY <1>1, <2>1 DEF Along, OnPath
    <3>2. k + 1 - 1 = k /\ k + 1 > 1
      BY <1>1
    <3>3. QED
      BY <1>1, <1>7, <2>1, <2>4, <2>6, <3>1, <3>2
  <2>8. d < c
    <3>1. r[d] < r[c]
      BY <1>2, <1>5, <2>5, <2>6, <2>7 DEF Elder
    <3>2. QED
      BY <1>2, <1>5, <2>7, <3>1
  <2>9. c <= t
    <3>1. \A j, l \in 1 .. m : j < l => stack[j].block < stack[l].block
      BY <1>1 DEF Along, Rising
    <3>2. k + 1 = m \/ k + 1 < m
      BY <1>1, <2>1
    <3>3. m \in 1 .. m
      BY <1>1
    <3>4. stack[k + 1].block <= stack[m].block
      <4>1. CASE k + 1 = m
        <5>1. stack[m].block \in Nat
          BY <1>1, <3>3
        <5>2. QED
          BY <4>1, <5>1
      <4>2. CASE k + 1 < m
        <5>1. stack[k + 1].block < stack[m].block
          BY <2>1, <3>1, <3>3, <4>2
        <5>2. stack[k + 1].block \in Nat /\ stack[m].block \in Nat
          BY <1>1, <2>1, <3>3
        <5>3. QED
          BY <5>1, <5>2
      <4>3. QED
        BY <3>2, <4>1, <4>2
    <3>5. QED
      BY <1>0, <1>1, <2>4, <2>6, <3>4
  <2>10. r[d] < r[c] /\ r[c] <= r[s]
    BY <1>0, <1>1, <1>2, <1>5, <2>7, <2>8, <2>9
  <2>11. r[d] <= r[p[c]]
    BY <1>5, <2>7, <2>10 DEF Inside
  <2>12. QED
    BY <1>2, <1>5, <2>7, <2>11
<1>10. QED
  BY <1>8, <1>9

LEMMA RestElems ==
  ASSUME NEW g, NEW b
  PROVE  /\ Elems(Rest(g, b, 0)) = {}
         /\ \A n \in 1 .. 2 :
              Elems(Rest(g, b, n)) = {Turn(g, b, n)} \cup Elems(Rest(g, b, n - 1))
         /\ Elems(Rest(g, b, 2)) = {V1(g, b), V2(g, b)}
<1>1. Elems(Rest(g, b, 0)) = {}
  BY DEF Rest, Elems
<1>2. Elems(Rest(g, b, 1)) = {V2(g, b)}
  BY DEF Rest, Elems
<1>3. Elems(Rest(g, b, 2)) = {V1(g, b), V2(g, b)}
  BY DEF Rest, Elems
<1>4. ASSUME NEW n \in 1 .. 2
      PROVE  Elems(Rest(g, b, n)) = {Turn(g, b, n)} \cup Elems(Rest(g, b, n - 1))
  <2>1. CASE n = 1
    BY <1>1, <1>2, <2>1 DEF Turn
  <2>2. CASE n = 2
    BY <1>2, <1>3, <2>2 DEF Turn
  <2>3. QED
    BY <2>1, <2>2
<1>5. QED
  BY <1>1, <1>3, <1>4

LEMMA StartAlong ==
  ASSUME IInv, StartWalk, NEW p, Tree(f, Blocks(f), Same(f), p)
  PROVE  Along(f', stack', Seen', Closed', id', p)
<1>1. /\ id' = [b \in Blocks(f) |-> IF b = 0 THEN Mark ELSE Unset]
      /\ stack' = <<Frame(0)>> /\ f' = f
  BY DEF StartWalk
<1>2. Shape /\ 0 \in Blocks(f) /\ Mark # Unset
  BY DEF IInv, Typed, Shape, Blocks, Mark, Unset
<1>3. /\ Frame(0).block = 0 /\ Frame(0).todo = Rest(f, 0, 2) /\ Len(Rest(f, 0, 2)) = 2
      /\ Succs(f, 0) \subseteq Elems(Rest(f, 0, 2))
  BY <1>2, Turns, RestFacts, RestElems
<1>4. DOMAIN stack' = {1} /\ stack'[1] = Frame(0)
  BY <1>1
<1>5. Seen' = {0} /\ Closed' = {}
  <2>1. Seen' = {0}
    BY <1>1, <1>2 DEF Seen, Blocks, Unset
  <2>2. Open' = {0}
    BY <1>3, <1>4 DEF Open
  <2>3. QED
    BY <2>1, <2>2 DEF Closed
<1>6. Left(stack', 1) = 2 /\ stack'[1].block = 0
  BY <1>3, <1>4 DEF Left
<1>7. InTurn(f, stack') /\ OnPath(stack', p) /\ Rising(stack')
  BY <1>3, <1>4, <1>6 DEF InTurn, OnPath, Rising
<1>8. \A c \in Blocks(f) \ {0} : p[c] = 0 => c \in Elems(stack'[1].todo)
  BY <1>3, <1>4 DEF Tree, IsTree
<1>9. 1 + 1 \notin {1}
  OBVIOUS
<1>10. QED
  BY <1>1, <1>4, <1>5, <1>6, <1>7, <1>8, <1>9 DEF Along

LEMMA SkipAlong ==
  ASSUME IInv, Skip, NEW p, Along(f, stack, Seen, Closed, id, p)
  PROVE  Along(f', stack', Seen', Closed', id', p)
<1>0. PICK m, b, h, n : m = Len(stack) /\ b = Top.block /\ h = Head(Top.todo)
                        /\ n = Left(stack, m)
  OBVIOUS
<1>1. /\ pc = "walk" /\ Top.todo # <<>> /\ ~New(h)
      /\ stack' = Advanced /\ f' = f /\ id' = id
  BY <1>0 DEF Skip, Advanced
<1>2. InTurn(f, stack)
  BY DEF Along
<1>3. /\ m \in Nat \ {0} /\ DOMAIN stack = 1 .. m /\ stack[m] = Top
      /\ n \in 1 .. 2 /\ b \in Blocks(f) /\ h = Turn(f, b, n)
      /\ DOMAIN stack' = 1 .. m /\ stack'[m].block = b /\ Left(stack', m) = n - 1
      /\ \A k \in 1 .. m - 1 : stack'[k] = stack[k]
      /\ InTurn(f, stack')
  BY <1>0, <1>1, <1>2, Taken
<1>4. \A k \in 1 .. m : k = m \/ k \in 1 .. m - 1
  BY <1>3
<1>5. \A k \in 1 .. m : stack'[k].block = stack[k].block
  BY <1>0, <1>3, <1>4
<1>6. Seen' = Seen /\ Closed' = Closed
  <2>1. Open' = Open
    BY <1>3, <1>5 DEF Open
  <2>2. QED
    BY <1>1, <2>1 DEF Seen, Closed, Blocks, Unset
<1>7. OnPath(stack', p) /\ Rising(stack')
  <2>1. \A k \in 1 .. m : k > 1 => k - 1 \in 1 .. m
    BY <1>3
  <2>2. OnPath(stack', p)
    BY <1>3, <1>5, <2>1 DEF Along, OnPath
  <2>3. Rising(stack')
    BY <1>3, <1>5 DEF Along, Rising
  <2>4. QED
    BY <2>2, <2>3
<1>8. ASSUME NEW k \in 1 .. m, k + 1 \in 1 .. m, Left(stack', k) # 0
      PROVE  Left(stack', k) = 1 /\ stack'[k + 1].block = V1(f, stack'[k].block)
  <2>1. k # m
    BY <1>3, <1>8
  <2>2. stack'[k] = stack[k] /\ Left(stack', k) = Left(stack, k)
    BY <1>3, <1>4, <2>1 DEF Left
  <2>3. Left(stack, k) = 1 /\ stack[k + 1].block = V1(f, stack[k].block)
    BY <1>3, <1>8, <2>2 DEF Along
  <2>4. QED
    BY <1>5, <1>8, <2>2, <2>3
<1>9. ASSUME NEW c \in Blocks(f) \ Seen, p[c] \in Seen
      PROVE  \E k \in 1 .. m : p[c] = stack'[k].block /\ c \in Elems(stack'[k].todo)
  <2>1. PICK k \in 1 .. m : p[c] = stack[k].block /\ c \in Elems(stack[k].todo)
    BY <1>3, <1>9 DEF Along
  <2>2. CASE k # m
    <3>1. stack'[k] = stack[k]
      BY <1>3, <1>4, <2>2
    <3>2. QED
      BY <2>1, <3>1
  <2>3. CASE k = m
    <3>1. c # h
      <4>1. c # Nil
        BY <1>9 DEF Blocks, Nil
      <4>2. id[c] = Unset
        BY <1>9 DEF Seen
      <4>3. QED
        BY <1>1, <4>1, <4>2 DEF New
    <3>2. stack[m].todo = Rest(f, b, n) /\ stack[m].block = b
      BY <1>0, <1>2, <1>3 DEF InTurn
    <3>3. stack'[m].todo = Rest(f, b, n - 1)
      BY <1>3 DEF InTurn
    <3>4. Elems(Rest(f, b, n)) = {h} \cup Elems(Rest(f, b, n - 1))
      BY <1>3, RestElems
    <3>5. c \in Elems(stack'[m].todo)
      BY <2>1, <2>3, <3>1, <3>2, <3>3, <3>4
    <3>6. QED
      BY <1>5, <2>1, <2>3, <3>5
  <2>4. QED
    BY <2>2, <2>3
<1>10. QED
  BY <1>1, <1>3, <1>6, <1>7, <1>8, <1>9 DEF Along

\* The open blocks are not above the one on top.
LEMMA OpenBelow ==
  ASSUME IInv, pc = "walk", Rising(stack), NEW c \in Seen \ Closed
  PROVE  c <= Top.block
<1>1. PICK m : m = Len(stack) /\ m \in Nat \ {0} /\ DOMAIN stack = 1 .. m
  BY TopFacts
<1>2. m \in 1 .. m /\ Top = stack[m] /\ Top.block \in Nat
  BY <1>1, TopFacts DEF Top, Blocks
<1>3. PICK k \in 1 .. m : c = stack[k].block
  BY <1>1 DEF Closed, Open
<1>4. CASE k = m
  BY <1>2, <1>3, <1>4
<1>5. CASE k # m
  <2>1. k < m
    BY <1>1, <1>5
  <2>2. stack[k].block < stack[m].block
    BY <1>1, <1>2, <2>1 DEF Rising
  <2>3. c \in Nat
    BY DEF Seen, Blocks
  <2>4. QED
    BY <1>2, <1>3, <2>2, <2>3
<1>6. QED
  BY <1>4, <1>5

\* While blocks get the numbers they had, those above x are the ones that returned.
LEMMA Above ==
  ASSUME IInv, pc = "walk", \A b \in Closed : id[b] = b, NEW c \in Blocks(f)
  PROVE  x \in Nat /\ x < f.n /\ f.n \in Nat /\ (c \in Closed <=> x < c)
<1>1. /\ x \in 0 .. f.n - 1 /\ {id[b] : b \in Closed} = x + 1 .. f.n - 1 /\ f.n \in Nat
  BY TopFacts DEF Counted, Shape
<1>2. c \in Closed => c \in x + 1 .. f.n - 1
  BY <1>1
<1>3. c \in x + 1 .. f.n - 1 => c \in Closed
  BY <1>1
<1>4. c \in 0 .. f.n - 1
  BY DEF Blocks
<1>5. QED
  BY <1>1, <1>2, <1>3, <1>4

\* A block that is found new was entered from the same block in the first walk.
LEMMA SameEdge ==
  ASSUME IInv, Descend, NEW p, Tree(f, Blocks(f), Same(f), p),
         Along(f, stack, Seen, Closed, id, p)
  PROVE  p[Head(Top.todo)] = Top.block
<1>0. PICK B, r, m, t, h, n :
        /\ B = Blocks(f) /\ r = Same(f) /\ m = Len(stack) /\ t = Top.block
        /\ h = Head(Top.todo) /\ n = Left(stack, m)
  OBVIOUS
<1>1. pc = "walk" /\ Top.todo # <<>>
  BY DEF Descend
<1>2. /\ InTurn(f, stack) /\ OnPath(stack, p) /\ Rising(stack)
      /\ \A b \in Closed : id[b] = b
  BY DEF Along
<1>3. /\ m \in Nat \ {0} /\ DOMAIN stack = 1 .. m /\ stack[m] = Top
      /\ n \in 1 .. 2 /\ t \in B /\ h = Turn(f, t, n)
  BY <1>0, <1>1, <1>2, Taken
<1>4. h \in B /\ h \notin Seen /\ h \in Succs(f, t) /\ t \in Seen /\ B \subseteq Nat
  BY <1>0, <1>1, DescendFacts, TopFacts DEF Blocks
<1>5. /\ r \in [B -> Int] /\ \A b \in B : r[b] = b
      /\ IsTree(f, B, r, p) /\ \A b \in B : p[b] \in B
      /\ Settled(f, B, r, p, t, h)
  <2>1. r \in [B -> Int] /\ \A b \in B : r[b] = b
    BY <1>0, <1>4 DEF Same
  <2>2. IsTree(f, B, r, p) /\ AllSettled(f, B, r, p)
    BY <1>0 DEF Tree
  <2>3. \A b \in B : p[b] \in B
    BY <2>2 DEF IsTree
  <2>4. Settled(f, B, r, p, t, h)
    BY <1>3, <1>4, <2>2 DEF AllSettled
  <2>5. QED
    BY <2>1, <2>2, <2>3, <2>4
<1>6. CASE h < t
  <2>1. Inside(B, r, p, h, t)
    BY <1>3, <1>4, <1>5, <1>6 DEF Settled
  <2> DEFINE Up == {k \in 1 .. m : h < stack[k].block}
  <2>2. m \in Up
    BY <1>0, <1>3, <1>6
  <2>3. PICK k \in Up : \A j \in Up : k <= j
    <3>1. Up \subseteq Nat
      OBVIOUS
    <3> HIDE DEF Up
    <3>2. QED
      BY <2>2, <3>1, LeastNat
  <2>4. /\ \A j \in 1 .. m : stack[j].block \in Seen /\ stack[j].block \in B
        /\ stack[1].block = 0
    BY <1>0, <1>1, <1>3, TopFacts DEF Chain, Open
  <2>5. k > 1 /\ k - 1 \in 1 .. m
    BY <1>3, <1>4, <2>3, <2>4
  <2>6. stack[k - 1].block < h
    <3>1. k - 1 \notin Up
      BY <2>3, <2>5
    <3>2. stack[k - 1].block # h /\ stack[k - 1].block \in Nat
      BY <1>4, <2>4, <2>5
    <3>3. QED
      BY <1>4, <2>5, <3>1, <3>2
  <2>7. p[stack[k].block] = stack[k - 1].block
    BY <1>2, <1>3, <2>3, <2>5 DEF OnPath
  <2>8. stack[k].block <= t
    BY <1>0, <1>1, <1>2, <1>3, <2>3, <2>4, OpenBelow DEF Closed, Open
  <2>9. r[h] <= r[p[stack[k].block]]
    BY <1>3, <1>4, <1>5, <2>1, <2>3, <2>4, <2>8 DEF Inside
  <2>10. PICK q \in B : q = stack[k - 1].block
    BY <2>4, <2>5
  <2>11. r[h] <= r[q]
    BY <2>7, <2>9, <2>10
  <2>12. r[h] = h /\ r[q] = q
    BY <1>4, <1>5
  <2>13. h <= q /\ q < h
    BY <2>6, <2>10, <2>11, <2>12
  <2>14. QED
    BY <1>4, <2>13
<1>7. CASE t < h
  <2>1. PICK d \in B \ Seen : p[d] = t /\ d <= h /\ Inside(B, r, p, d, h)
    BY <1>0, <1>1, <1>4, <1>7, Onward
  <2>2. d # 0
    <3>1. 0 \in Seen
      <4>1. 1 \in DOMAIN stack /\ stack[1].block = 0 /\ Open \subseteq Seen
        BY <1>1, <1>3, TopFacts DEF Chain
      <4>2. QED
        BY <4>1 DEF Open
    <3>2. QED
      BY <2>1, <3>1
  <2>3. Inside(B, r, p, t, d)
    BY <1>5, <2>1, <2>2 DEF IsTree
  <2>4. Inside(B, r, p, t, h)
    BY <1>3, <1>4, <1>5, <2>1, <2>3, InsideTrans
  <2>5. r[t] < r[h]
    BY <1>3, <1>4, <1>5, <1>7
  <2>6. CASE h = V2(f, t) /\ V1(f, t) \in B \ {0} /\ p[V1(f, t)] = t /\ r[V1(f, t)] < r[h]
    <3>1. PICK c \in B \ {0} : c = V1(f, t) /\ p[c] = t /\ c < h
      BY <1>4, <1>5, <2>6
    <3>2. t < c
      <4>1. r[p[c]] < r[c]
        BY <1>5, <3>1 DEF IsTree
      <4>2. QED
        BY <1>3, <1>5, <3>1, <4>1
    <3>3. n = 1
      <4>1. n = 2 => h = c
        BY <1>3, <3>1 DEF Turn
      <4>2. QED
        BY <1>3, <1>4, <3>1, <4>1
    <3>4. c \in Seen
      <4>1. SUFFICES ASSUME c \notin Seen PROVE FALSE
        OBVIOUS
      <4>2. PICK k \in 1 .. m : p[c] = stack[k].block /\ c \in Elems(stack[k].todo)
        BY <1>0, <1>3, <1>4, <3>1, <4>1 DEF Along
      <4>3. k = m
        <5>1. \A i, j \in 1 .. m : stack[i].block = stack[j].block => i = j
          BY <1>1, <1>3, TopFacts DEF Chain
        <5>2. stack[m].block = t /\ m \in 1 .. m
          BY <1>0, <1>3
        <5>3. QED
          BY <3>1, <4>2, <5>1, <5>2
      <4>4. c = V2(f, t)
        <5>1. Left(stack, m) = 1 /\ stack[m].block = t /\ m \in DOMAIN stack
          BY <1>0, <1>3, <3>3
        <5>2. QED
          BY <1>2, <4>2, <4>3, <5>1, LastTurn
      <4>5. QED
        BY <1>4, <2>6, <3>1, <4>4
    <3>5. c \in Closed
      <4>1. c \notin Closed => c <= t
        BY <1>0, <1>1, <1>2, <3>4, OpenBelow
      <4>2. c \in Nat /\ t \in Nat
        BY <1>3, <1>4, <3>1
      <4>3. QED
        BY <3>2, <4>1, <4>2
    <3>6. x < c /\ x \in Nat /\ (h \in Closed <=> x < h)
      BY <1>0, <1>1, <1>2, <1>4, <3>1, <3>5, Above
    <3>7. h \in Closed
      BY <1>4, <3>1, <3>6
    <3>8. QED
      BY <1>4, <3>7 DEF Closed
  <2>7. QED
    BY <1>0, <1>5, <2>4, <2>5, <2>6 DEF Settled
<1>8. CASE h = t
  BY <1>4, <1>8
<1>9. QED
  BY <1>0, <1>3, <1>4, <1>6, <1>7, <1>8

LEMMA DescendAlong ==
  ASSUME IInv, Descend, NEW p, Tree(f, Blocks(f), Same(f), p),
         Along(f, stack, Seen, Closed, id, p)
  PROVE  Along(f', stack', Seen', Closed', id', p)
<1>0. PICK B, m, t, h, n, S :
        /\ B = Blocks(f) /\ m = Len(stack) /\ t = Top.block
        /\ h = Head(Top.todo) /\ n = Left(stack, m) /\ S = Seen
  OBVIOUS
<1>1. pc = "walk" /\ Top.todo # <<>> /\ f' = f
  BY DEF Descend
<1>2. /\ InTurn(f, stack) /\ OnPath(stack, p) /\ Rising(stack)
      /\ \A b \in Closed : id[b] = b
  BY DEF Along
<1>3. /\ m \in Nat \ {0} /\ DOMAIN stack = 1 .. m /\ stack[m] = Top
      /\ n \in 1 .. 2 /\ t \in B /\ h = Turn(f, t, n)
      /\ stack'[m].block = t /\ Left(stack', m) = n - 1
      /\ Left(stack', m + 1) = 2 /\ stack'[m + 1].todo = Rest(f, h, 2)
      /\ \A k \in 1 .. m - 1 : stack'[k] = stack[k]
      /\ InTurn(f, stack')
  BY <1>0, <1>1, <1>2, Taken, Entering
<1>4. /\ h \in B /\ h \notin S
      /\ DOMAIN stack' = 1 .. m + 1 /\ stack'[m + 1].block = h
      /\ \A k \in 1 .. m : stack'[k].block = stack[k].block /\ stack[k].block \in S
      /\ Seen' = S \cup {h} /\ Closed' = Closed /\ Closed \subseteq S
      /\ \A b \in S : id'[b] = id[b]
  BY <1>0, DescendFacts
<1>5. p[h] = t
  BY <1>0, SameEdge
<1>6. /\ \A k \in 1 .. m + 1 : k = m + 1 \/ k \in 1 .. m
      /\ \A k \in 1 .. m : k = m \/ k \in 1 .. m - 1
      /\ m \in 1 .. m /\ m + 1 - 1 = m
  BY <1>3
<1>7. 0 \in S /\ B \subseteq Nat /\ S \subseteq B /\ Shape
  <2>1. /\ 1 \in DOMAIN stack /\ stack[1].block = 0 /\ Shape
    BY <1>1, <1>3, TopFacts DEF Chain
  <2>2. QED
    BY <1>0, <1>3, <1>4, <2>1 DEF Blocks, Seen
<1>8. IsTree(f, B, Same(f), p)
  BY <1>0 DEF Tree
<1>9. t < h
  <2>1. h \in B \ {0}
    BY <1>4, <1>7
  <2>2. Same(f)[p[h]] < Same(f)[h]
    BY <1>8, <2>1 DEF IsTree
  <2>3. QED
    BY <1>0, <1>3, <1>4, <1>5, <2>2 DEF Same
<1>10. OnPath(stack', p)
  <2>1. \A k \in 1 .. m : k > 1 => k - 1 \in 1 .. m /\ p[stack[k].block] = stack[k - 1].block
    BY <1>2, <1>3 DEF OnPath
  <2>2. \A k \in 1 .. m + 1 : k > 1 => p[stack'[k].block] = stack'[k - 1].block
    BY <1>3, <1>4, <1>5, <1>6, <2>1
  <2>3. QED
    BY <1>4, <2>2 DEF OnPath
<1>11. Rising(stack')
  <2>1. SUFFICES ASSUME NEW j \in 1 .. m + 1, NEW k \in 1 .. m + 1, j < k
                 PROVE  stack'[j].block < stack'[k].block
    BY <1>4 DEF Rising
  <2>2. j \in 1 .. m
    BY <1>3, <2>1
  <2>3. CASE k \in 1 .. m
    BY <1>2, <1>3, <1>4, <2>1, <2>2, <2>3 DEF Rising
  <2>4. CASE k = m + 1
    <3>1. stack[j].block = t \/ stack[j].block < t
      <4>1. j = m \/ j < m
        BY <1>3, <2>2
      <4>2. stack[m].block = t
        BY <1>0, <1>3
      <4>3. QED
        BY <1>2, <1>3, <1>6, <2>2, <4>1, <4>2 DEF Rising
    <3>2. stack[j].block \in Nat /\ t \in Nat /\ h \in Nat
      BY <1>3, <1>4, <1>7, <2>2
    <3>3. QED
      BY <1>4, <1>9, <2>2, <2>4, <3>1, <3>2
  <2>5. QED
    BY <1>6, <2>3, <2>4
<1>12. \A b \in Closed : id'[b] = b
  BY <1>2, <1>4
<1>13. ASSUME NEW k \in 1 .. m + 1, k + 1 \in 1 .. m + 1, Left(stack', k) # 0
       PROVE  Left(stack', k) = 1 /\ stack'[k + 1].block = V1(f, stack'[k].block)
  <2>1. k \in 1 .. m
    BY <1>3, <1>13
  <2>2. CASE k = m
    <3>1. n = 2
      BY <1>3, <1>13, <2>2
    <3>2. h = V1(f, t)
      BY <1>3, <3>1 DEF Turn
    <3>3. QED
      BY <1>3, <1>4, <2>2, <3>1, <3>2
  <2>3. CASE k # m
    <3>1. k \in 1 .. m - 1 /\ k + 1 \in 1 .. m
      BY <1>3, <2>1, <2>3
    <3>2. Left(stack', k) = Left(stack, k)
      BY <1>3, <3>1 DEF Left
    <3>3. Left(stack, k) = 1 /\ stack[k + 1].block = V1(f, stack[k].block)
      BY <1>3, <1>13, <2>1, <3>1, <3>2 DEF Along
    <3>4. QED
      BY <1>4, <2>1, <3>1, <3>2, <3>3
  <2>4. QED
    BY <2>2, <2>3
<1>14. ASSUME NEW c \in B \ (S \cup {h}), p[c] \in S \cup {h}
       PROVE  \E k \in 1 .. m + 1 : p[c] = stack'[k].block /\ c \in Elems(stack'[k].todo)
  <2>1. CASE p[c] = h
    <3>1. c \in Succs(f, h)
      BY <1>7, <1>8, <1>14, <2>1 DEF IsTree
    <3>2. c \in {V1(f, h), V2(f, h)}
      BY <1>0, <1>4, <1>7, <3>1, Turns
    <3>3. c \in Elems(Rest(f, h, 2))
      BY <3>2, RestElems
    <3>4. m + 1 \in 1 .. m + 1
      BY <1>3
    <3>5. QED
      BY <1>3, <1>4, <2>1, <3>3, <3>4
  <2>2. CASE p[c] \in S
    <3>1. PICK k \in 1 .. m : p[c] = stack[k].block /\ c \in Elems(stack[k].todo)
      BY <1>0, <1>3, <1>14, <2>2 DEF Along
    <3>2. k \in 1 .. m + 1
      BY <1>3
    <3>3. CASE k # m
      <4>1. stack'[k] = stack[k]
        BY <1>3, <1>6, <3>3
      <4>2. QED
        BY <3>1, <3>2, <4>1
    <3>4. CASE k = m
      <4>1. stack[m].todo = Rest(f, t, n) /\ stack[m].block = t
        BY <1>0, <1>2, <1>3, <1>6 DEF InTurn
      <4>2. stack'[m].todo = Rest(f, t, n - 1)
        BY <1>3, <1>4, <3>2, <3>4 DEF InTurn
      <4>3. Elems(Rest(f, t, n)) = {h} \cup Elems(Rest(f, t, n - 1))
        BY <1>3, RestElems
      <4>4. c \in Elems(stack'[m].todo)
        BY <1>14, <3>1, <3>4, <4>1, <4>2, <4>3
      <4>5. QED
        BY <1>4, <3>1, <3>2, <3>4, <4>4
    <3>5. QED
      BY <3>3, <3>4
  <2>3. QED
    BY <1>14, <2>1, <2>2
<1>15. Along(f, stack', S \cup {h}, Closed, id', p)
  BY <1>0, <1>3, <1>4, <1>10, <1>11, <1>12, <1>13, <1>14 DEF Along
<1>16. QED
  BY <1>1, <1>4, <1>15

\* A block that is left gets the number it had.
LEMMA LeftSame ==
  ASSUME IInv, Leave, NEW p, Tree(f, Blocks(f), Same(f), p),
         Along(f, stack, Seen, Closed, id, p)
  PROVE  x = Top.block
<1>0. PICK t : t = Top.block
  OBVIOUS
<1>1. pc = "walk" /\ Top.todo = <<>>
  BY DEF Leave
<1>2. Rising(stack) /\ \A b \in Closed : id[b] = b
  BY DEF Along
<1>3. t \in Blocks(f) /\ t \in Nat /\ t \notin Closed
  BY <1>0, <1>1, TopFacts DEF Blocks, Closed
<1>4. x \in Nat /\ x < f.n /\ f.n \in Nat /\ ~(x < t)
  BY <1>1, <1>2, <1>3, Above
<1>5. x \in Blocks(f)
  BY <1>4 DEF Blocks
<1>6. x \notin Closed
  <2>1. x \in Closed <=> x < x
    BY <1>1, <1>2, <1>5, Above
  <2>2. QED
    BY <1>4, <2>1
<1>7. CASE t < x
  <2>1. x \notin Seen
    <3>1. x \in Seen => x <= t
      BY <1>0, <1>1, <1>2, <1>6, OpenBelow
    <3>2. QED
      BY <1>3, <1>4, <1>7, <3>1
  <2>2. \E d : d \in Elems(Top.todo)
    BY <1>0, <1>1, <1>5, <1>7, <2>1, Onward
  <2>3. QED
    BY <1>1, <2>2 DEF Elems
<1>8. QED
  BY <1>0, <1>3, <1>4, <1>7

LEMMA LeaveAlong ==
  ASSUME IInv, Leave, NEW p, Tree(f, Blocks(f), Same(f), p),
         Along(f, stack, Seen, Closed, id, p)
  PROVE  /\ Along(f', stack', Seen', Closed', id', p)
         /\ pc' = "compact" => \A b \in Seen' : id'[b] = b
<1>0. PICK m, t : m = Len(stack) /\ t = Top.block
  OBVIOUS
<1>1. /\ pc = "walk" /\ Top.todo = <<>> /\ f' = f
      /\ pc' = IF Below = <<>> THEN "compact" ELSE "walk"
  BY DEF Leave
<1>2. /\ InTurn(f, stack) /\ OnPath(stack, p) /\ Rising(stack)
      /\ \A b \in Closed : id[b] = b
  BY DEF Along
<1>3. /\ m \in Nat \ {0} /\ DOMAIN stack = 1 .. m /\ DOMAIN stack' = 1 .. m - 1
      /\ stack[m] = Top
      /\ Below = <<>> <=> m = 1
      /\ \A k \in 1 .. m - 1 : stack'[k] = stack[k]
      /\ Seen' = Seen /\ Closed' = Closed \cup {t}
      /\ id'[t] = x /\ \A c \in Closed : id'[c] = id[c]
  <2>1. DOMAIN stack = 1 .. m /\ stack[m] = Top
    BY <1>0, <1>1, TopFacts DEF Top
  <2>2. QED
    BY <1>0, <2>1, LeaveFacts
<1>4. \A b \in Closed' : id'[b] = b
  BY <1>0, <1>2, <1>3, LeftSame
<1>5. \A k \in 1 .. m - 1 : /\ k \in 1 .. m /\ Left(stack', k) = Left(stack, k)
                            /\ k > 1 => k - 1 \in 1 .. m - 1
  BY <1>3 DEF Left
<1>6. InTurn(f, stack') /\ OnPath(stack', p) /\ Rising(stack')
  <2>1. InTurn(f, stack')
    BY <1>2, <1>3, <1>5 DEF InTurn
  <2>2. OnPath(stack', p)
    BY <1>2, <1>3, <1>5 DEF OnPath
  <2>3. Rising(stack')
    BY <1>2, <1>3, <1>5 DEF Rising
  <2>4. QED
    BY <2>1, <2>2, <2>3
<1>7. ASSUME NEW k \in 1 .. m - 1, k + 1 \in 1 .. m - 1, Left(stack', k) # 0
      PROVE  Left(stack', k) = 1 /\ stack'[k + 1].block = V1(f, stack'[k].block)
  <2>1. k \in DOMAIN stack /\ k + 1 \in DOMAIN stack /\ Left(stack, k) # 0
    BY <1>3, <1>5, <1>7
  <2>2. Left(stack, k) = 1 /\ stack[k + 1].block = V1(f, stack[k].block)
    BY <2>1 DEF Along
  <2>3. QED
    BY <1>3, <1>5, <1>7, <2>2
<1>8. ASSUME NEW c \in Blocks(f) \ Seen, p[c] \in Seen
      PROVE  \E k \in 1 .. m - 1 : p[c] = stack'[k].block /\ c \in Elems(stack'[k].todo)
  <2>1. PICK k \in 1 .. m : p[c] = stack[k].block /\ c \in Elems(stack[k].todo)
    BY <1>3, <1>8 DEF Along
  <2>2. k # m
    <3>1. Elems(Top.todo) = {}
      BY <1>1 DEF Elems
    <3>2. QED
      BY <1>3, <2>1, <3>1
  <2>3. k \in 1 .. m - 1
    BY <1>3, <2>2
  <2>4. QED
    BY <1>3, <2>1, <2>3
<1>9. Along(f', stack', Seen', Closed', id', p)
  BY <1>1, <1>3, <1>4, <1>6, <1>7, <1>8 DEF Along
<1>10. ASSUME pc' = "compact" PROVE Seen' = Closed'
  <2>1. m = 1
    BY <1>1, <1>3, <1>10
  <2>2. DOMAIN stack' = {} /\ Open' = {}
    BY <1>3, <2>1 DEF Open
  <2>3. QED
    BY <2>2 DEF Closed
<1>11. QED
  BY <1>4, <1>9, <1>10

-----------------------------------------------------------------------------
(***************************************************************************)
(* When every block has the number it had, the sorted function is the      *)
(* function: as a record, and field by field.                              *)
(***************************************************************************)
Tidy(g) ==
  /\ g = [k \in DOMAIN g |-> g[k]]
  /\ g.loop = [b \in Blocks(g) |-> g.loop[b]]

Moving == {"n", "s1", "s2", "pred", "phis", "ins", "jmp", "loop"}

LEMMA CompactRest ==
  ASSUME IInv, Compact
  PROVE  /\ f' = [k \in DOMAIN f |-> f'[k]]
         /\ \A k \in DOMAIN f \ Moving : f'[k] = f[k]
<1>1. f' = Sorted(Number, Kept)
  BY DEF Compact, Kept
<1> HIDE DEF Kept
<1>2. \A k \in DOMAIN f \ Moving : f'[k] = f[k]
  BY <1>1 DEF Sorted, Moving
<1>3. f' = [k \in DOMAIN f |-> f'[k]]
  BY <1>1 DEF Sorted
<1>4. QED
  BY <1>2, <1>3

\* Every block has the number it had.
LEMMA SameNumbers ==
  ASSUME IInv, pc = "compact", FromBelow, \A b \in Seen : id[b] = b
  PROVE  /\ Kept = f.n
         /\ \A b \in Blocks(f) : At(b) = b
         /\ \A s : To(s) = s
<1>1. Shape /\ Complete /\ Seen = Blocks(f) /\ f.n \in Nat /\ Word \in Nat
  BY AllSeen DEF IInv, Typed, Shape
<1>2. NUnreachable = 0
  BY <1>1 DEF Complete
<1>3. Kept = f.n
  BY <1>1, <1>2 DEF Kept
<1>4. ASSUME NEW b \in Blocks(f) PROVE Number[b] = b
  <2>1. id[b] = b /\ id[b] # Unset
    BY <1>1 DEF Seen
  <2>2. b \in 0 .. Word - 1
    BY <1>1 DEF Shape, Blocks
  <2>3. Number[b] = (b - 0 + Word) % Word
    BY <1>2, <2>1 DEF Number
  <2>4. b - 0 = b
    BY <2>2
  <2>5. QED
    BY <1>1, <2>2, <2>3, <2>4, Wraps
<1>5. \A b \in Blocks(f) : At(b) = b
  BY <1>1, <1>4, Renumbering
<1>6. \A s : To(s) = s
  BY <1>4 DEF To
<1>7. QED
  BY <1>3, <1>5, <1>6

LEMMA CompactSame ==
  ASSUME IInv, Compact, Whole(f), PredLists(f), FromBelow, Tidy(f),
         \A b \in Seen : id[b] = b
  PROVE  f' = f
<1> DEFINE B == Blocks(f)
<1>1. pc = "compact" /\ Shape
  BY DEF Compact, IInv, Typed
<1>2. Kept = f.n /\ (\A b \in B : At(b) = b) /\ \A s : To(s) = s
  BY <1>1, SameNumbers
<1>3. B = 0 .. Kept - 1
  BY <1>2 DEF Blocks
<1> HIDE DEF B, Kept, At, To
<1>4. f'.n = f.n
  BY <1>2, CompactFields
<1>5. f'.s1 = f.s1 /\ f'.s2 = f.s2
  <2>1. f.s1 = [b \in B |-> f.s1[b]] /\ f.s2 = [b \in B |-> f.s2[b]]
    BY <1>1 DEF Shape, B
  <2>2. f'.s1 = [b \in B |-> To(f.s1[At(b)])] /\ f'.s2 = [b \in B |-> To(f.s2[At(b)])]
    BY <1>3, CompactFields
  <2>3. QED
    BY <1>2, <2>1, <2>2
<1>6. f'.ins = f.ins /\ f'.jmp = f.jmp /\ f'.loop = f.loop
  <2>1. /\ f.ins = [b \in B |-> f.ins[b]] /\ f.jmp = [b \in B |-> f.jmp[b]]
        /\ f.loop = [b \in B |-> f.loop[b]]
    BY DEF Whole, Tidy, B
  <2>2. /\ f'.ins = [b \in B |-> f.ins[At(b)]] /\ f'.jmp = [b \in B |-> f.jmp[At(b)]]
        /\ f'.loop = [b \in B |-> f.loop[At(b)]]
    BY <1>3, CompactFields, LoopMoved
  <2>3. QED
    BY <1>2, <2>1, <2>2
<1>7. f'.pred = f.pred
  <2>1. /\ f.pred = [b \in B |-> f.pred[b]]
        /\ \A b \in B : f.pred[b] \in Seq(B)
    BY DEF PredLists, B
  <2>2. f'.pred = [b \in B |-> [k \in DOMAIN f.pred[At(b)] |-> To(f.pred[At(b)][k])]]
    BY <1>3, CompactFields
  <2>3. ASSUME NEW b \in B
        PROVE  [k \in DOMAIN f.pred[At(b)] |-> To(f.pred[At(b)][k])] = f.pred[b]
    <3>1. f.pred[b] = [k \in DOMAIN f.pred[b] |-> f.pred[b][k]]
      BY <2>1
    <3>2. QED
      BY <1>2, <3>1
  <2>4. QED
    BY <2>1, <2>2, <2>3
<1>8. f'.phis = f.phis
  <2> DEFINE moved(p) == [p EXCEPT !.blks = [j \in DOMAIN @ |-> To(@[j])]]
  <2>1. /\ f.phis = [b \in B |-> f.phis[b]]
        /\ \A b \in B : f.phis[b] \in Seq(Phi)
    BY DEF Whole, B
  <2>2. f'.phis = [b \in B |-> [k \in DOMAIN f.phis[At(b)] |-> moved(f.phis[At(b)][k])]]
    BY <1>3, CompactFields
  <2>3. ASSUME NEW p \in Phi PROVE moved(p) = p
    <3>1. p.blks = [j \in DOMAIN p.blks |-> p.blks[j]]
      BY DEF Phi
    <3>2. [j \in DOMAIN p.blks |-> To(p.blks[j])] = p.blks
      BY <1>2, <3>1
    <3>3. QED
      BY <3>2 DEF Phi
  <2> HIDE DEF moved
  <2>4. ASSUME NEW b \in B
        PROVE  [k \in DOMAIN f.phis[At(b)] |-> moved(f.phis[At(b)][k])] = f.phis[b]
    <3>1. /\ f.phis[b] = [k \in DOMAIN f.phis[b] |-> f.phis[b][k]]
          /\ \A k \in DOMAIN f.phis[b] : f.phis[b][k] \in Phi
      BY <2>1
    <3>2. QED
      BY <1>2, <2>3, <3>1
  <2>5. QED
    BY <2>1, <2>2, <2>4
<1>9. \A k \in DOMAIN f : f'[k] = f[k]
  BY <1>4, <1>5, <1>6, <1>7, <1>8, CompactRest DEF Moving
<1>10. QED
  BY <1>9, CompactRest DEF Tidy

-----------------------------------------------------------------------------
(***************************************************************************)
(* The first call of FillRPO grows the tree, the second follows it.        *)
(***************************************************************************)
Second == call = 2 \/ pc = "preds"

SInv ==
  /\ call = 1 /\ pc = "walk" => \E p : Walked(f, stack, Seen, Closed, Rank, p)
  /\ call = 1 /\ pc = "compact" => \E p : Tree(f, Seen, id, p)
  /\ Second =>
       /\ Tidy(f)
       /\ \E p : /\ Tree(f, Blocks(f), Same(f), p)
                 /\ pc = "walk" => Along(f, stack, Seen, Closed, id, p)
                 /\ pc = "compact" => \A b \in Seen : id[b] = b

LEMMA SInit ==
  ASSUME Init
  PROVE  SInv
BY DEF Init, SInv, Second

LEMMA StartWalkS ==
  ASSUME IInv, PInv, SInv, StartWalk
  PROVE  SInv'
<1>1. /\ f' = f /\ call' = call /\ pc = "RPO" /\ pc' = "walk" /\ call \in {1, 2}
  BY DEF StartWalk, PInv
<1>2. CASE call = 1
  BY <1>1, <1>2, StartWalked DEF SInv, Second
<1>3. CASE call = 2
  <2>1. PICK p : Tidy(f) /\ Tree(f, Blocks(f), Same(f), p)
    BY <1>3 DEF SInv, Second
  <2>2. Along(f', stack', Seen', Closed', id', p)
    BY <2>1, StartAlong
  <2>3. QED
    BY <1>1, <1>3, <2>1, <2>2 DEF SInv, Second
<1>4. QED
  BY <1>1, <1>2, <1>3

LEMMA DescendS ==
  ASSUME IInv, PInv, SInv, Descend
  PROVE  SInv'
<1>1. /\ f' = f /\ call' = call /\ pc = "walk" /\ pc' = "walk" /\ call \in {1, 2}
  BY DEF Descend, PInv
<1>2. CASE call = 1
  <2>1. PICK p : Walked(f, stack, Seen, Closed, Rank, p)
    BY <1>1, <1>2 DEF SInv
  <2>2. \E e : Walked(f', stack', Seen', Closed', Rank', e)
    BY <2>1, DescendWalked
  <2>3. QED
    BY <1>1, <1>2, <2>2 DEF SInv, Second
<1>3. CASE call = 2
  <2>1. PICK p : /\ Tidy(f) /\ Tree(f, Blocks(f), Same(f), p)
                 /\ Along(f, stack, Seen, Closed, id, p)
    BY <1>1, <1>3 DEF SInv, Second
  <2>2. Along(f', stack', Seen', Closed', id', p)
    BY <2>1, DescendAlong
  <2>3. QED
    BY <1>1, <1>3, <2>1, <2>2 DEF SInv, Second
<1>4. QED
  BY <1>1, <1>2, <1>3

LEMMA SkipS ==
  ASSUME IInv, PInv, SInv, Skip
  PROVE  SInv'
<1>1. /\ f' = f /\ call' = call /\ pc = "walk" /\ pc' = "walk" /\ call \in {1, 2}
  BY DEF Skip, PInv
<1>2. CASE call = 1
  <2>1. PICK p : Walked(f, stack, Seen, Closed, Rank, p)
    BY <1>1, <1>2 DEF SInv
  <2>2. Walked(f', stack', Seen', Closed', Rank', p)
    BY <2>1, SkipWalked
  <2>3. QED
    BY <1>1, <1>2, <2>2 DEF SInv, Second
<1>3. CASE call = 2
  <2>1. PICK p : /\ Tidy(f) /\ Tree(f, Blocks(f), Same(f), p)
                 /\ Along(f, stack, Seen, Closed, id, p)
    BY <1>1, <1>3 DEF SInv, Second
  <2>2. Along(f', stack', Seen', Closed', id', p)
    BY <2>1, SkipAlong
  <2>3. QED
    BY <1>1, <1>3, <2>1, <2>2 DEF SInv, Second
<1>4. QED
  BY <1>1, <1>2, <1>3

LEMMA LeaveS ==
  ASSUME IInv, PInv, SInv, Leave
  PROVE  SInv'
<1>1. /\ f' = f /\ call' = call /\ pc = "walk" /\ pc' \in {"walk", "compact"}
      /\ call \in {1, 2}
  BY DEF Leave, PInv
<1>2. CASE call = 1
  <2>1. PICK p : Walked(f, stack, Seen, Closed, Rank, p)
    BY <1>1, <1>2 DEF SInv
  <2>2. /\ pc' = "walk" => Walked(f', stack', Seen', Closed', Rank', p)
        /\ pc' = "compact" => Tree(f', Seen', id', p)
    BY <2>1, LeaveWalked
  <2>3. QED
    BY <1>1, <1>2, <2>2 DEF SInv, Second
<1>3. CASE call = 2
  <2>1. PICK p : /\ Tidy(f) /\ Tree(f, Blocks(f), Same(f), p)
                 /\ Along(f, stack, Seen, Closed, id, p)
    BY <1>1, <1>3 DEF SInv, Second
  <2>2. /\ Along(f', stack', Seen', Closed', id', p)
        /\ pc' = "compact" => \A b \in Seen' : id'[b] = b
    BY <2>1, LeaveAlong
  <2>3. QED
    BY <1>1, <1>3, <2>1, <2>2 DEF SInv, Second
<1>4. QED
  BY <1>1, <1>2, <1>3

LEMMA CompactS ==
  ASSUME IInv, PInv, SInv, Compact
  PROVE  SInv'
<1>1. /\ call' = call /\ pc = "compact" /\ pc' \in {"preds", "done"} /\ call \in {1, 2}
  BY DEF Compact, PInv
<1>2. CASE call = 1
  <2>1. PICK p : Tree(f, Seen, id, p)
    BY <1>1, <1>2 DEF SInv
  <2>2. \E e : Tree(f', Blocks(f'), Same(f'), e)
    BY <2>1, CompactTree
  <2>3. Tidy(f')
    <3>1. DOMAIN f' = DOMAIN f /\ f'.n = Kept
      BY CompactFields
    <3>2. f'.loop = [i \in Blocks(f') |-> f.loop[At(i)]]
      BY <3>1, LoopMoved DEF Blocks
    <3>3. f'.loop = [i \in Blocks(f') |-> f'.loop[i]]
      BY <3>2
    <3>4. QED
      BY <3>1, <3>3, CompactRest DEF Tidy
  <2>4. QED
    BY <1>1, <1>2, <2>2, <2>3 DEF SInv, Second
<1>3. CASE call = 2
  <2>1. PICK p : /\ Tidy(f) /\ Tree(f, Blocks(f), Same(f), p)
                 /\ \A b \in Seen : id[b] = b
    BY <1>1, <1>3 DEF SInv, Second
  <2>2. f' = f
    BY <1>3, <2>1, CompactSame DEF PInv
  <2>3. QED
    BY <1>1, <1>3, <2>1, <2>2 DEF SInv, Second
<1>4. QED
  BY <1>1, <1>2, <1>3

\* The tree is one of edges and loop depths: Pred lists are not part of it.
LEMMA TreeOfEdges ==
  ASSUME NEW g, NEW h, NEW S, NEW r, NEW p, Tree(g, S, r, p),
         h.s1 = g.s1, h.s2 = g.s2, h.loop = g.loop
  PROVE  Tree(h, S, r, p)
<1>1. \A b : Succs(h, b) = Succs(g, b) /\ V1(h, b) = V1(g, b) /\ V2(h, b) = V2(g, b)
  BY DEF Succs, V1, V2, Swapped
<1>2. \A b, s : Settled(h, S, r, p, b, s) <=> Settled(g, S, r, p, b, s)
  BY <1>1 DEF Settled
<1>3. QED
  BY <1>1, <1>2 DEF Tree, IsTree, Elder, AllSettled

LEMMA PredsS ==
  ASSUME IInv, PInv, SInv, Preds
  PROVE  SInv'
<1>1. /\ f' = FillPreds(f) /\ pc = "preds" /\ pc' \in {"preds", "RPO"}
      /\ (call' = 2 \/ pc' = "preds")
  BY DEF Preds, PInv
<1>2. /\ f'.n = f.n /\ f'.s1 = f.s1 /\ f'.s2 = f.s2 /\ f'.loop = f.loop
      /\ f' = [k \in DOMAIN f |-> f'[k]] /\ DOMAIN f' = DOMAIN f
  BY <1>1 DEF FillPreds, IInv, Typed, Shape, Fields
<1>3. Blocks(f') = Blocks(f) /\ Same(f') = Same(f)
  BY <1>2 DEF Blocks, Same
<1>4. PICK p : Tidy(f) /\ Tree(f, Blocks(f), Same(f), p)
  BY <1>1 DEF SInv, Second
<1>5. Tree(f', Blocks(f'), Same(f'), p)
  BY <1>2, <1>3, <1>4, TreeOfEdges
<1>6. Tidy(f')
  BY <1>2, <1>3, <1>4 DEF Tidy
<1>7. QED
  BY <1>1, <1>5, <1>6 DEF SInv, Second

LEMMA SStep ==
  ASSUME IInv, PInv, SInv, [Next]_vars
  PROVE  SInv'
<1>1. CASE UNCHANGED vars
  <2>1. UNCHANGED <<f, id, stack, x, call, pc>>
    BY <1>1 DEF vars
  <2>2. Seen' = Seen /\ Closed' = Closed
    BY <2>1 DEF Closed, Seen, Open, Unset, Blocks
  <2>3. Rank' = Rank
    BY <2>1, <2>2 DEF Rank, Place
  <2>4. QED
    BY <2>1, <2>2, <2>3 DEF SInv, Second
<1>2. QED
  BY <1>1, StartWalkS, DescendS, SkipS, LeaveS, CompactS, PredsS DEF Next

\* The second call of FillRPO changes nothing.
LEMMA StableStep ==
  ASSUME IInv, PInv, SInv, [Next]_vars, pc = "compact", call = 2
  PROVE  f' = f
<1>1. PICK p : Tidy(f) /\ \A b \in Seen : id[b] = b
  BY DEF SInv, Second
<1>2. CASE Compact
  BY <1>1, <1>2, CompactSame DEF PInv
<1>3. CASE ~Compact
  BY <1>3 DEF Next, StartWalk, Descend, Skip, Leave, Preds, vars
<1>4. QED
  BY <1>2, <1>3

(***************************************************************************)
(* Numbering a numbered function changes nothing, whatever its graph and   *)
(* the loop depths by which the walk chooses its way: SSA, which fills     *)
(* Pred before it numbers the blocks again, keeps Pred right.              *)
(***************************************************************************)
THEOREM NumberedOnce ==
  ASSUME Buildable
  PROVE  Spec => [][pc = "compact" /\ call = 2 => f' = f]_vars
<1>1. Init => IInv /\ PInv /\ SInv
  BY BuildableShape, InitIInv, PInit, SInit
<1>2. IInv /\ PInv /\ SInv /\ [Next]_vars => (IInv /\ PInv /\ SInv)'
  BY StepIInv, PStep, SStep
<1>3. IInv /\ PInv /\ SInv /\ [Next]_vars => [pc = "compact" /\ call = 2 => f' = f]_vars
  BY StableStep
<1>4. QED
  BY <1>1, <1>2, <1>3, PTL DEF Spec
=============================================================================
