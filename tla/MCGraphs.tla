------------------------------ MODULE MCGraphs ------------------------------
(***************************************************************************)
(* Inputs for the model-checking modules: every control-flow graph of a    *)
(* few blocks that a call of FillRPO can leave behind, and the functions   *)
(* built on them.  Only MC modules extend this one, so recursive           *)
(* operators are used freely.                                              *)
(***************************************************************************)
EXTENDS QbeIR

\* The successor pointers of a block: a return, a jump, a conditional jump.
Ends(n) ==
  {<<Nil, Nil>>} \cup {<<a, Nil>> : a \in 0 .. n - 1}
    \cup ((0 .. n - 1) \X (0 .. n - 1))

\* The blocks in the order a depth-first walk (S1, then S2) leaves them.
RECURSIVE PostOrder(_, _, _)
PostOrder(e, b, left) ==                \* left: <<visited, post-order so far>>
  IF b = Nil \/ b \in left[1] THEN left
  ELSE LET w == PostOrder(e, e[b][2], PostOrder(e, e[b][1], <<left[1] \cup {b}, left[2]>>))
       IN  <<w[1], Append(w[2], b)>>

\* FillRPO (with equal loop depths) leaves exactly the graphs it numbers as they are.
InRPO(n, e) == PostOrder(e, 0, <<{}, <<>>>>)[2] = [i \in 1 .. n |-> n - i]

Graphs(n) == {e \in [0 .. n - 1 -> Ends(n)] : InRPO(n, e)}

JumpType(e) == IF e[1] = Nil THEN "ret" ELSE IF e[2] = Nil THEN "jmp" ELSE "jnz"

\* The function with the end points e, and nothing in its blocks.
Bare(n, ntmp, e) ==
  FillPreds(
    [n |-> n, ntmp |-> ntmp,
     s1 |-> [b \in 0 .. n - 1 |-> e[b][1]], s2 |-> [b \in 0 .. n - 1 |-> e[b][2]],
     pred |-> [b \in 0 .. n - 1 |-> <<>>],
     phis |-> [b \in 0 .. n - 1 |-> <<>>],
     ins  |-> [b \in 0 .. n - 1 |-> <<>>],
     jmp  |-> [b \in 0 .. n - 1 |-> [type |-> JumpType(e[b]), arg |-> Undef]]])

\* Instructions as the builder writes them: three arguments, unused ones Undef.
Set(t, op, r)  == [op |-> op, to |-> Tmp(t), arg |-> <<r, Undef, Undef>>]
Set2(t, op, r, q) == [op |-> op, to |-> Tmp(t), arg |-> <<r, q, Undef>>]
Store(r, q)    == [op |-> "storel", to |-> Undef, arg |-> <<r, q, Undef>>]
PhiOf(t, args, blks) == [to |-> Tmp(t), args |-> args, blks |-> blks]
=============================================================================
