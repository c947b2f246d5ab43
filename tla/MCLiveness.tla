----------------------------- MODULE MCLiveness -----------------------------
(***************************************************************************)
(* Liveness on every graph of MaxBlocks blocks, with every block using,    *)
(* setting, using then setting, or ignoring a temporary; the sets of one   *)
(* temporary do not depend on those of another.                            *)
(***************************************************************************)
EXTENDS Liveness, MCGraphs

CONSTANT MaxBlocks

Bodies == {"none", "use", "set", "useset"}

\* The end of a block reads the temporary itself where its jump has an argument.
Fill(g, c) ==
  [g EXCEPT
    !.ins = [b \in Blocks(g) |->
       CASE c[b] = "none"   -> <<>>
         [] c[b] = "use"    -> IF g.jmp[b].type = "jmp" THEN <<Store(Tmp(0), Con(1))>> ELSE <<>>
         [] c[b] = "set"    -> <<Set(0, "copy", Con(1))>>
         [] c[b] = "useset" -> <<Set(0, "add", Tmp(0))>>],
    !.jmp = [b \in Blocks(g) |->
       [g.jmp[b] EXCEPT !.arg =
          IF c[b] = "use" /\ g.jmp[b].type # "jmp" THEN Tmp(0) ELSE Con(1)]]]

\* Graphs without doubled edges.
Single(e) == \A b \in DOMAIN e : e[b][2] = Nil \/ e[b][1] # e[b][2]

PlainFunctions ==
  {Fill(Bare(MaxBlocks, 1, e), c) :
     e \in {d \in Graphs(MaxBlocks) : Single(d)}, c \in [0 .. MaxBlocks - 1 -> Bodies]}

(***************************************************************************)
(* Functions with phis.  A block that several edges enter may set the      *)
(* temporary by a phi, on each edge from its own old value or not.         *)
(***************************************************************************)
WithPhi(g, j, a) ==
  [g EXCEPT !.phis[j] = <<PhiOf(0, [k \in DOMAIN g.pred[j] |-> a[k]], g.pred[j])>>]

PhiFunctions ==
  {WithPhi(g, j, a) :
     g \in {Fill(Bare(MaxBlocks, 1, e), c) :
              e \in {d \in Graphs(MaxBlocks) : Single(d)},
              c \in [0 .. MaxBlocks - 1 -> {"none", "use"}]},
     j \in 1 .. MaxBlocks - 1, a \in [1 .. MaxBlocks -> {Tmp(0), Con(1)}]}

Joined(g) == \A b \in Blocks(g) : g.phis[b] # <<>> => Len(g.pred[b]) > 1

MCFunctions == PlainFunctions \cup {g \in PhiFunctions : Joined(g) /\ ~Wiped(g)}

(***************************************************************************)
(* A do-while loop in SSA form: its condition leads out of the loop (S1)   *)
(* or back to its head (S2), and x, a phi of the head, is read after it.   *)
(*   @start jmp @loop                                                      *)
(*   @loop  %x =l phi @start 1, @loop %y                                   *)
(*          %y =l add %x, 1                                                *)
(*          jnz %y, @end, @loop                                            *)
(*   @end   ret %x                                                         *)
(***************************************************************************)
DoWhile ==
  [Bare(3, 2, [b \in 0 .. 2 |-> <<<<1, Nil>>, <<2, 1>>, <<Nil, Nil>>>>[b + 1]])
     EXCEPT !.phis[1] = <<PhiOf(0, <<Con(1), Tmp(1)>>, <<0, 1>>)>>,
            !.ins[1]  = <<Set2(1, "add", Tmp(0), Con(1))>>,
            !.jmp[1].arg = Tmp(1),
            !.jmp[2].arg = Tmp(0)]

DoWhileOnly == {DoWhile}
=============================================================================
