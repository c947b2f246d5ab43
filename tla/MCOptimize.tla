----------------------------- MODULE MCOptimize -----------------------------
(***************************************************************************)
(* Inputs of the optimisation passes: straight-line code, a diamond and a  *)
(* loop in SSA form, with what each pass has to tell apart in their        *)
(* blocks; and, for DCE, functions of three blocks in any form.            *)
(***************************************************************************)
EXTENDS Optimize, MCGraphs, TLC

Edges(name) ==
  CASE name = "diamond" -> <<<<1, 2>>, <<3, Nil>>, <<3, Nil>>, <<Nil, Nil>>>>
    [] name = "loop"    -> <<<<1, Nil>>, <<2, 3>>, <<1, Nil>>, <<Nil, Nil>>>>

Shape(name) == Bare(4, 9, [b \in 0 .. 3 |-> Edges(name)[b + 1]])

(***************************************************************************)
(* The dominator tree of both shapes, threaded as FillDom does: the last   *)
(* child found is the head of the list.                                    *)
(***************************************************************************)
Idom(name) == IF name = "diamond" THEN <<Nil, 0, 0, 0>> ELSE <<Nil, 0, 1, 1>>

Head_(S) == IF S = {} THEN Nil ELSE CHOOSE b \in S : \A c \in S : c <= b

Tree(name) ==
  LET idom(b) == Idom(name)[b + 1]
  IN  [dom   |-> [b \in 0 .. 3 |-> Head_({c \in 1 .. 3 : idom(c) = b})],
       dlink |-> [b \in 0 .. 3 |-> Head_({c \in 1 .. b - 1 : b > 0 /\ idom(c) = idom(b)})]]

Input(p, g, name) ==
  [pass |-> p, fn |-> g, out |-> [b \in Blocks(g) |-> {}],
   dom |-> Tree(name).dom, dlink |-> Tree(name).dlink]

(***************************************************************************)
(* The functions: temporaries 0 and 1 come from outside, then block 0      *)
(* computes 2, block 1 computes 3 and block 2 computes 4.  A diamond joins *)
(* 3 and 4 in phi 5 of block 3; a loop has phi 5 of 2 and 4 in block 1.    *)
(* Phi 6 is a second one, with arguments of its own.  Block 3 computes 7   *)
(* and shows it; at the end what temporary reads holds is returned.        *)
(***************************************************************************)
Ins(t, x) == IF x[1] = "none" THEN <<>> ELSE <<Set2(t, x[1], x[2], x[3])>>

Outside == <<Set(0, "load", Con(1)), Set(1, "load", Con(2))>>

Merging(name, args, more) ==
  IF name = "diamond" THEN <<PhiOf(5, args, <<1, 2>>), PhiOf(6, more, <<1, 2>>)>>
  ELSE <<PhiOf(5, args, <<0, 2>>), PhiOf(6, more, <<0, 2>>)>>

Build(name, x, args, more, reads) ==
  [Shape(name) EXCEPT
     !.ins  = [b \in 0 .. 3 |->
                 CASE b = 0 -> Outside \o Ins(2, x[1])
                   [] b = 1 -> Ins(3, x[2])
                   [] b = 2 -> Ins(4, x[3])
                   [] b = 3 -> Ins(7, x[4]) \o <<Store(Tmp(7), Tmp(1)), Store(Tmp(6), Con(2))>>],
     !.phis = [b \in 0 .. 3 |-> IF b = (IF name = "diamond" THEN 3 ELSE 1)
                                  THEN Merging(name, args, more) ELSE <<>>],
     !.jmp  = [b \in 0 .. 3 |-> IF @[b].type = "jnz"
                                  THEN [@[b] EXCEPT !.arg = Tmp(IF name = "diamond" THEN 2 ELSE 5)]
                                  ELSE [@[b] EXCEPT !.arg = IF b = 3 THEN Tmp(reads) ELSE Undef]]]

Codes(X) == X[1] \X X[2] \X X[3] \X X[4]

Programs(p, name, X, A, M) ==
  {Input(p, Build(name, x, a, m, 7), name) : x \in Codes(X), a \in A, m \in M}

-----------------------------------------------------------------------------
(***************************************************************************)
(* CopyProp: chains of copies that end in a parameter, in a phi or in each *)
(* other across blocks, and phis that become copies when others have been  *)
(* found to be.                                                            *)
(***************************************************************************)
Copy(t)    == <<"copy", Tmp(t), Undef>>
Add(t, u)  == <<"add", Tmp(t), Tmp(u)>>
Sub(t, u)  == <<"sub", Tmp(t), Tmp(u)>>

Copied ==
  Programs("CopyProp", "diamond",
    <<{Copy(0), Add(0, 1)}, {Copy(2), Copy(0), Add(0, 2)}, {Copy(0), Sub(2, 0)},
      {Copy(5), Sub(5, 6)}>>,
    {<<Tmp(3), Tmp(4)>>, <<Tmp(2), Tmp(2)>>, <<Tmp(0), Tmp(4)>>},
    {<<Tmp(2), Tmp(2)>>, <<Tmp(0), Tmp(4)>>})
  \cup
  Programs("CopyProp", "loop",
    <<{Copy(0), Add(0, 1)}, {Copy(5), Copy(6), Add(5, 6)}, {Copy(3), Copy(0), Add(3, 1)},
      {Copy(3), Sub(5, 6)}>>,
    {<<Tmp(2), Tmp(4)>>, <<Tmp(0), Tmp(4)>>, <<Tmp(1), Tmp(1)>>},
    {<<Tmp(0), Tmp(4)>>, <<Tmp(1), Tmp(1)>>})

(***************************************************************************)
(* GVN: sums in both orders, differences, copies; in one block, in a       *)
(* dominator, and in the other branch, which is not one; equal phis.       *)
(***************************************************************************)
Exprs == {Add(0, 1), Add(1, 0), Sub(1, 0)}

Numbered ==
  Programs("GVN", "diamond", <<Exprs, Exprs \cup {Add(2, 1)}, Exprs, Exprs \cup {Sub(0, 1)}>>,
    {<<Tmp(3), Tmp(4)>>, <<Tmp(2), Tmp(2)>>}, {<<Tmp(3), Tmp(4)>>})
  \cup
  Programs("GVN", "loop", <<{Add(0, 1), Sub(1, 0)}, {Add(1, 0), Add(5, 6), Sub(1, 0)},
                            {Add(6, 5), Sub(3, 1)}, {Sub(3, 1), Add(1, 2), Sub(5, 6)}>>,
    {<<Tmp(2), Tmp(4)>>, <<Tmp(0), Tmp(4)>>}, {<<Tmp(2), Tmp(4)>>})

(***************************************************************************)
(* SCCP: constants on one side or both sides of a join, carried round a    *)
(* loop, given up there; and single operations on all operands for which   *)
(* Fold is right.  Number 0 of the table is not used.                      *)
(***************************************************************************)
Inc(t)  == <<"add", Tmp(t), Con(1)>>
Dec(t)  == <<"sub", Tmp(t), Con(1)>>
Two     == <<"add", Con(1), Con(1)>>

WithTable(I, con) == {[x EXCEPT !.fn = @ @@ [con |-> con]] : x \in I}

Propagating ==
  WithTable(
    Programs("SCCP", "diamond", <<{Two, Add(0, 1)}, {Two, Inc(2)}, {Inc(2)}, {Inc(5)}>>,
      {<<Tmp(3), Tmp(4)>>, <<Con(2), Con(2)>>, <<Tmp(3), Con(2)>>}, {<<Con(2), Con(2)>>})
    \cup
    Programs("SCCP", "loop", <<{Two, Add(0, 1)}, {Inc(5)}, {Dec(3), Inc(3)}, {Inc(6)}>>,
      {<<Con(2), Tmp(4)>>, <<Tmp(2), Tmp(4)>>}, {<<Con(1), Tmp(6)>>, <<Con(2), Tmp(0)>>}),
    <<9, 1, 2, 14>>)

Opcode(op, wide) == IF wide THEN op ELSE CHOOSE n \in DOMAIN Narrow : Narrow[n] = op

OneOperation(op, l, r) ==
  [pass |-> "SCCP", out |-> [b \in {0} |-> {}], dom |-> <<>>, dlink |-> <<>>,
   fn |-> [n |-> 1, ntmp |-> 2, con |-> <<9, l, r>>,
           s1 |-> [b \in {0} |-> Nil], s2 |-> [b \in {0} |-> Nil], pred |-> [b \in {0} |-> <<>>],
           phis |-> [b \in {0} |-> <<>>], jmp |-> [b \in {0} |-> [type |-> "ret", arg |-> Undef]],
           ins |-> [b \in {0} |-> <<Set2(0, op, Con(1), IF Unclassed(op) = "neg" THEN Undef ELSE Con(2)),
                                   Store(Tmp(0), Con(1))>>]]]

\* Both ends of each half, and of the signed numbers of both classes.
Operands == {0, 1, 2, 3, 4, 7, 8, 12, 15}

Folding ==
  {OneOperation(Opcode(x[1], x[2]), x[3], x[4]) :
     x \in {y \in IntOps \X BOOLEAN \X Operands \X Operands : Fits(y[1], y[2], y[3], y[4])}}

-----------------------------------------------------------------------------
(***************************************************************************)
(* DCE, with the Out sets that are live by definition (Liveness,           *)
(* LiveAtExit), and with larger ones, on functions of three blocks: loops, *)
(* chains of dead code across blocks, results of calls nobody reads,       *)
(* instructions without a result, phis.                                    *)
(***************************************************************************)
Bodies == {"chain", "call", "store"}

Code(c) ==
  CASE c = "chain" -> <<Set2(1, "add", Tmp(0), Con(1)), Set(0, "copy", Tmp(1))>>
    [] c = "call"  -> <<[op |-> "call", to |-> Tmp(0), arg |-> <<Con(1), Tmp(1), Undef>>],
                        [op |-> "add", to |-> Undef, arg |-> <<Tmp(0), Tmp(1), Undef>>]>>
    [] c = "store" -> <<Set(1, "load", Con(1)), Store(Tmp(0), Con(1)), Set(1, "copy", Con(2))>>

Fill(g, c) ==
  [g EXCEPT !.ins = [b \in Blocks(g) |-> Code(c[b])],
            !.jmp = [b \in Blocks(g) |-> IF @[b].type = "jnz" THEN [@[b] EXCEPT !.arg = Tmp(1)]
                                         ELSE @[b]]]

Plain ==
  {Fill(Bare(3, 2, e), c) :
     e \in {d \in Graphs(3) : d[2][2] = Nil /\ \A b \in 0 .. 2 : d[b][2] = Nil \/ d[b][1] # d[b][2]},
     c \in {d \in [0 .. 2 -> Bodies] : d[0] # d[2] /\ d[0] # d[1]}}

\* The blocks that two edges enter get a phi of temporary 0.
WithPhi(g) ==
  [g EXCEPT !.phis = [b \in Blocks(g) |->
     IF Len(g.pred[b]) < 2 THEN <<>>
     ELSE <<PhiOf(0, [k \in DOMAIN g.pred[b] |-> Tmp(k % 2)], g.pred[b])>>]]

Phis == {WithPhi(g) : g \in {h \in Plain : h.ins[0] = Code("chain")}}

\* Liveness, for its reference definition; its own variables play no part.
Of(g) == INSTANCE Liveness WITH
           f <- g, in <- <<>>, out <- <<>>, pos <- 0, changed <- FALSE, pc <- "done",
           Functions <- {}

Removing(g, more) ==
  [pass |-> "DCE", fn |-> g, dom |-> <<>>, dlink |-> <<>>,
   out |-> [b \in Blocks(g) |-> Of(g)!LiveAtExit(b) \cup more]]

MCInputs ==
  Copied \cup Numbered \cup Propagating \cup Folding
    \cup {Removing(g, {}) : g \in Plain} \cup {Removing(g, {0}) : g \in Phis}

(***************************************************************************)
(* A function of two parameters that uses the second one only.             *)
(*   function l $second(l %a, l %b) {                                      *)
(*   @start                                                                *)
(*          ret %b                                                         *)
(*   }                                                                     *)
(***************************************************************************)
Second ==
  [Bare(1, 2, [b \in {0} |-> <<Nil, Nil>>])
     EXCEPT !.ins[0] = <<Set(0, "par", Undef), Set(1, "par", Undef)>>,
            !.jmp[0].arg = Tmp(1)]

SecondOnly == {Removing(Second, {})}
=============================================================================
