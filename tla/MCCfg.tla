------------------------------- MODULE MCCfg -------------------------------
(***************************************************************************)
(* The control-flow analyses on every graph of three blocks (unreachable   *)
(* blocks, loops, doubled edges and self-loops included), on graphs of     *)
(* four blocks with a region of two blocks that has any edges, and on a    *)
(* family of five blocks whose Idoms take up to four sweeps to settle:     *)
(* nested and overlapping loops, irreducible regions and loops through     *)
(* Start are among them.                                                   *)
(***************************************************************************)
EXTENDS Cfg, MCGraphs, TLC

AsBuilt(n, e, d) ==
  [pred |-> [b \in 0 .. n - 1 |-> <<>>], loop |-> d] @@ Bare(n, 0, e)

NoLoops(n) == [b \in 0 .. n - 1 |-> 0]

\* With the depths of FillLoop when it is called before, and when it is not.
Three ==
  {AsBuilt(3, e, d) : e \in [0 .. 2 -> Ends(3)], d \in {NoLoops(3), [b \in 0 .. 2 |-> b]}}

Four ==
  {AsBuilt(4, [b \in 0 .. 3 |-> <<<<1, 2>>, e1, e2, e3>>[b + 1]], NoLoops(4)) :
     e1 \in Ends(4), e2 \in Ends(4), e3 \in {<<Nil, Nil>>} \cup ((0 .. 3) \X {Nil})}

Single(e) == e[2] = Nil \/ e[1] # e[2]

\* Start enters a chain of blocks at both ends; the last two lead anywhere.
Five ==
  {AsBuilt(5, [b \in 0 .. 4 |-> <<<<1, 4>>, <<2, Nil>>, <<3, Nil>>, d3, d4>>[b + 1]], NoLoops(5)) :
     d3 \in {d \in Ends(5) : Single(d)}, d4 \in {d \in Ends(5) : Single(d)}}

AllGraphs == Three \cup Four \cup Five
=============================================================================
