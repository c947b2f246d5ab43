------------------------------- MODULE MCLower -------------------------------
(***************************************************************************)
(* The back of the pipeline on functions of three blocks.  Some functions  *)
(* are there for PhiElim, with phis in every combination that do not read  *)
(* each other; the others are followed to the text, with the registers of  *)
(* arm64.                                                                  *)
(***************************************************************************)
EXTENDS Lower, MCGraphs

ArgRegsOfArm64 == <<0, 1, 2, 3, 4, 5, 6, 7>>
PoolOfArm64 == <<19, 20, 21, 22, 23, 24, 25, 26, 27, 28, 8, 9, 10, 11, 12, 13, 14, 15>>
                 \o ArgRegsOfArm64
CalleeSaveOfArm64 == 19 .. 28

\* Two edges of a block lead to different blocks.
Single(e) == \A b \in DOMAIN e : e[b][2] = Nil \/ e[b][1] # e[b][2]

Joins(g) == {b \in Blocks(g) : Len(g.pred[b]) > 1}

Unnested(g) == [loop |-> [b \in Blocks(g) |-> 0]] @@ g

(***************************************************************************)
(* For PhiElim.  Block b counts in temporary b.  A block that several      *)
(* edges enter has a phi, temporary 3 + b, of the counters of its          *)
(* predecessors or of itself; two blocks read both.  Some have a second    *)
(* phi, of constants.                                                      *)
(***************************************************************************)
Base(g, b) == IF b \in Joins(g) THEN Tmp(3 + b) ELSE Con(1)

Counter(g) ==
  [g EXCEPT !.ins = [b \in Blocks(g) |->
              <<Set2(b, "add", Base(g, b), Con(2)), Store(Tmp(b), Base(g, (b + 1) % 3))>>],
            !.jmp = [b \in Blocks(g) |->
              IF @[b].type = "jmp" THEN @[b] ELSE [@[b] EXCEPT !.arg = Base(g, b)]]]

ArgOf(b, p, self) == IF self /\ p = b THEN Tmp(3 + b) ELSE Tmp(p)

WithPhis(g, self, two) ==
  [g EXCEPT !.phis = [b \in Blocks(g) |->
     LET from  == g.pred[b]
         one   == PhiOf(3 + b, [k \in DOMAIN from |-> ArgOf(b, from[k], self)], from)
         other == PhiOf(6, [k \in DOMAIN from |-> Con(k)], from)
     IN  CASE b \notin Joins(g) -> <<>>
           [] b \in Joins(g) /\ two -> <<one, other>>
           [] OTHER -> <<one>>]]

ForPhiElim ==
  {Unnested(WithPhis(Counter(Bare(3, 7, e)), self, two)) :
     e \in {d \in Graphs(3) : Single(d) /\ d[2][2] = Nil}, self \in BOOLEAN, two \in BOOLEAN}

(***************************************************************************)
(* For the whole back end.  Temporaries 1 and 2 are parameters, 4 is the   *)
(* address of an alloc; 0 is the number of a name from before SSA, which   *)
(* nothing uses.  A block has six of its own; the first is what its jump   *)
(* reads, the last a phi of such values of its predecessors.               *)
(*   use    computes from the parameters and stores                        *)
(*   fresh  calls twice with values computed for the call, and uses the    *)
(*          second result                                                  *)
(*   count  adds to the phi                                                *)
(*   slot   stores to the alloc, so reloads its address                    *)
(*   test   compares twice: a store reads the first result, the jump the   *)
(*          second, and where that is a branch a phi reads the first       *)
(***************************************************************************)
Plain(op, t) == [op |-> op, to |-> t, arg |-> <<Undef, Undef, Undef>>]
Pass(r)      ==     \* as test/main.go writes it in places; for Builder.Call see ByBuilder below
   [op |-> "arg", to |-> Undef, arg |-> <<r, Undef, Undef>>]
Call(to)     == [op |-> "call", to |-> to, arg |-> <<Con(9), Undef, Undef>>]

Own(b, k) == 5 + 6 * b + k

Code(c, b) ==
  LET t(k) == Own(b, k) IN
  CASE c = "use"   -> <<Set2(t(0), "add", Tmp(1), Tmp(2)), Store(Tmp(t(0)), Con(1))>>
    [] c = "fresh" -> <<Set2(t(1), "sub", Tmp(1), Con(1)), Set2(t(2), "sub", Tmp(2), Con(1)),
                        Pass(Tmp(t(2))), Pass(Tmp(t(1))), Call(Undef),
                        Set2(t(3), "add", Tmp(1), Tmp(2)),
                        Pass(Tmp(t(3))), Call(Tmp(t(0))), Store(Tmp(t(0)), Tmp(1))>>
    [] c = "count" -> <<Set2(t(0), "add", Tmp(t(5)), Tmp(1)), Store(Tmp(t(0)), Tmp(2))>>
    [] c = "slot"  -> <<Set(t(0), "load", Tmp(4)), Store(Tmp(t(0)), Tmp(4))>>
    [] c = "test"  -> <<Set2(t(1), "cslt", Tmp(1), Con(3)), Store(Tmp(1), Tmp(t(1))),
                        Set2(t(0), "cne", Tmp(2), Con(4))>>

\* What a phi reads of block b.  Emit never writes a comparison that it fuses with
\* the branch, even if a phi reads it.
Outcome(g, c, b) == Tmp(Own(b, IF c[b + 1] = "test" /\ g.s2[b] # Nil THEN 1 ELSE 0))

Entry == <<Plain("par", Tmp(1)), Plain("par", Tmp(2)), Plain("alloc8", Tmp(4))>>

Fill(g, c) ==
  [g EXCEPT !.ins = [b \in Blocks(g) |->
              (IF b = 0 THEN Entry ELSE <<>>) \o Code(c[b + 1], b)],
            !.phis = [b \in Blocks(g) |->
              IF c[b + 1] # "count" THEN <<>>
              ELSE <<PhiOf(Own(b, 5), [k \in DOMAIN g.pred[b] |-> Outcome(g, c, g.pred[b][k])],
                           g.pred[b])>>],
            !.jmp = [b \in Blocks(g) |->
              IF @[b].type = "jmp" THEN @[b]
              ELSE [@[b] EXCEPT !.arg = Tmp(Own(b, 0))]]]

\* Every graph of three blocks, without edges to Start and without phis.
Kinds == <<"use", "fresh", "slot", "test">>

ThreeBlocks ==
  {Unnested(Fill(Bare(3, 23, e), <<a, Kinds[k], Kinds[(k % 4) + 1]>>)) :
     e \in {d \in Graphs(3) : Single(d) /\ \A b \in 0 .. 2 : d[b][1] # 0 /\ d[b][2] # 0},
     a \in {"use", "fresh", "test"}, k \in 1 .. 4}

(***************************************************************************)
(* Structured code, with a phi where blocks count: a branch with one arm   *)
(* and one with two, a loop of one block, a loop with its test at the head *)
(* and one with it at the end; and a branch inside a loop.                 *)
(***************************************************************************)
Structured ==
  {<< <<1, 2>>, <<2, Nil>>, <<Nil, Nil>> >>,
   << <<1, 2>>, <<3, Nil>>, <<3, Nil>>, <<Nil, Nil>> >>,
   << <<1, Nil>>, <<1, 2>>, <<Nil, Nil>> >>,
   << <<1, Nil>>, <<2, 3>>, <<1, Nil>>, <<Nil, Nil>> >>,
   << <<1, Nil>>, <<2, Nil>>, <<1, 3>>, <<Nil, Nil>> >>}

BranchInLoop ==
  << <<1, Nil>>, <<2, 6>>, <<3, 4>>, <<5, Nil>>, <<5, Nil>>, <<1, Nil>>, <<Nil, Nil>> >>

Graph(e) == Bare(Len(e), 5 + 6 * Len(e), [b \in 0 .. Len(e) - 1 |-> e[b + 1]])

KindsOf(b, g) ==
  CASE b = 0 -> {"use"}
    [] b \in Joins(g) -> Elems(Kinds) \cup {"count"}
    [] OTHER -> Elems(Kinds)

WithKinds(e) ==
  LET g == Graph(e)
  IN  {Unnested(Fill(g, c)) :
         c \in {d \in [1 .. g.n -> Elems(Kinds) \cup {"count"}] :
                  \A b \in Blocks(g) : d[b + 1] \in KindsOf(b, g)}}

InLoop ==
  {Unnested(Fill(Graph(BranchInLoop), <<"use", "count", k, l, m, "count", n>>)) :
     k \in {"use", "test"}, l \in {"use", "slot"}, m \in {"fresh", "test"}, n \in {"use", "fresh"}}

ForText == ThreeBlocks \cup (UNION {WithKinds(e) : e \in Structured}) \cup InLoop

MCFunctions == ForPhiElim \cup ForText

(***************************************************************************)
(* A loop that exchanges two values on its back edge.                      *)
(*   @start jmp @loop                                                      *)
(*   @loop  %x =l phi @start 1, @loop %y                                   *)
(*          %y =l phi @start 2, @loop %x                                   *)
(*          jnz %x, @loop, @end                                            *)
(*   @end   ret %x                                                         *)
(***************************************************************************)
Swap ==
  Unnested([Bare(3, 2, [b \in 0 .. 2 |-> <<<<1, Nil>>, <<1, 2>>, <<Nil, Nil>>>>[b + 1]])
     EXCEPT !.phis[1] = <<PhiOf(0, <<Con(1), Tmp(1)>>, <<0, 1>>),
                          PhiOf(1, <<Con(2), Tmp(0)>>, <<0, 1>>)>>,
            !.jmp[1].arg = Tmp(0),
            !.jmp[2].arg = Tmp(0)])

SwapOnly == {Swap}

(***************************************************************************)
(* A parameter that one branch returns and the other goes on to use.       *)
(*   function l $early(l %a) {                                             *)
(*   @start jnz %a, @then, @else                                           *)
(*   @then  ret %a                                                         *)
(*   @else  %d =l sub %a, 1                                                *)
(*          storel %a, 2                                                   *)
(*          ret %d                                                         *)
(*   }                                                                     *)
(***************************************************************************)
Early ==
  Unnested([Bare(3, 3, [b \in 0 .. 2 |-> <<<<2, 1>>, <<Nil, Nil>>, <<Nil, Nil>>>>[b + 1]])
     EXCEPT !.ins[0] = <<Plain("par", Tmp(1))>>,
            !.ins[1] = <<Set2(2, "sub", Tmp(1), Con(1)), Store(Tmp(1), Con(2))>>,
            !.jmp[0].arg = Tmp(1), !.jmp[1].arg = Tmp(2), !.jmp[2].arg = Tmp(1)])

EarlyOnly == {Early}

(***************************************************************************)
(* A call as Builder.Call writes it, of the function that adds two         *)
(* numbers (test/main.go:180): the first constants of the function, so     *)
(* that the first one has the number of Undef.                             *)
(*   @start %x =l call $add(10, 20)                                        *)
(*          ret %x                                                         *)
(***************************************************************************)
PassTo(r) == [op |-> "arg", to |-> r, arg |-> <<Undef, Undef, Undef>>]

ByBuilder ==
  Unnested([Bare(1, 65, [b \in {0} |-> <<Nil, Nil>>])
     EXCEPT !.ins[0] = <<PassTo(Con(0)), PassTo(Con(1)), Call(Tmp(64))>>,
            !.jmp[0].arg = Tmp(64)])

ByBuilderOnly == {ByBuilder}
=============================================================================
