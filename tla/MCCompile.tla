----------------------------- MODULE MCCompile -----------------------------
(***************************************************************************)
(* SSA and Simplify, then DCE, on small functions.                         *)
(***************************************************************************)
EXTENDS Compile, MCGraphs

(***************************************************************************)
(* What a block may do.  The first four work on temporaries 0 and 1, and   *)
(* exercise SSA; the others multiply into temporary 2 or read it.          *)
(***************************************************************************)
Code(c) ==
  CASE c = "none" -> <<>>
    [] c = "set"  -> <<Set(0, "copy", Con(1)), Set(1, "copy", Con(2))>>
    [] c = "swap" -> <<Set2(1, "add", Tmp(0), Tmp(1)), Set(0, "copy", Tmp(1))>>
    [] c = "bump" -> <<Set2(0, "add", Tmp(0), Con(1)), Store(Tmp(0), Tmp(1))>>
    [] c = "load" -> <<Set(0, "load", Con(1)), Set(1, "load", Con(2))>>
    [] c = "mul"  -> <<Set2(2, "mul", Tmp(0), Tmp(1)), Set(1, "copy", Tmp(0))>>
    [] c = "add"  -> <<Set2(0, "add", Tmp(1), Tmp(2)), Store(Tmp(0), Con(1))>>
    [] c = "sub"  -> <<Set2(2, "mul", Tmp(1), Tmp(0)), Set2(1, "sub", Tmp(0), Tmp(2)),
                       Store(Tmp(1), Con(1))>>

\* t is what the jumps read.
Fill(g, c, t) ==
  [g EXCEPT !.ins = [b \in Blocks(g) |-> Code(c[b + 1])],
            !.jmp = [b \in Blocks(g) |-> IF @[b].type = "jmp" THEN @[b]
                                         ELSE [@[b] EXCEPT !.arg = Tmp(t)]]]

\* The last block returns; doubled edges and edges to Start are there.
Shapes == {d \in Graphs(3) : d[2][2] = Nil}

Three ==
  {Fill(Bare(3, 2, e), c, 0) :
     e \in Shapes, c \in {"none", "set"} \X {"none", "set", "swap"} \X {"none", "swap"}}

\* No edge leads to Start and the last block returns; loops inside.
Four ==
  {Fill(Bare(4, 2, e), <<c[1], c[2], c[3], "bump">>, 0) :
     e \in {d \in [0 .. 3 -> Ends(4)] :
              /\ d[3][1] = Nil
              /\ \A b \in 0 .. 2 : d[b][1] # 0 /\ d[b][2] # 0 /\ d[b][1] # d[b][2]
              /\ InRPO(4, d)},
     c \in {"none", "set"} \X {"none", "swap"} \X {"none", "swap"}}

\* A product in one block, a sum or difference in another, loops between them.
Products ==
  {Fill(Bare(3, 3, e), <<"load", c[1], c[2]>>, 1) :
     e \in Shapes, c \in {"load", "mul", "add"} \X {"mul", "add", "sub"}}

MCFunctions == Three \cup Four \cup Products

(***************************************************************************)
(* A value computed in one block and returned by the next one.             *)
(*   @start %a =l load 1                                                   *)
(*          jmp @end                                                       *)
(*   @end   ret %a                                                         *)
(***************************************************************************)
TwoBlocks ==
  [Bare(2, 1, [b \in 0 .. 1 |-> <<<<1, Nil>>, <<Nil, Nil>>>>[b + 1]])
     EXCEPT !.ins[0] = <<Set(0, "load", Con(1))>>,
            !.jmp[1].arg = Tmp(0)]

TwoBlocksOnly == {TwoBlocks}
=============================================================================
