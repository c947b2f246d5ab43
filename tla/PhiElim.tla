------------------------------ MODULE PhiElim ------------------------------
(***************************************************************************)
(* PhiElim (src/opt/phi_elim.go): phis become copies on the edges into     *)
(* their block.  The edges are taken from two nested Go maps, so their     *)
(* order is a choice of the runtime: all the edges out of one block, in    *)
(* any order, then those of another one.  At the end the pass numbers the  *)
(* blocks and computes liveness again; both are the state machines of      *)
(* their own modules.                                                      *)
(***************************************************************************)
EXTENDS QbeIR
LOCAL INSTANCE SequencesExt

\* Definitions marked "mutant" are slips the properties must catch; no other
\* definition uses them.

CONSTANTS
  Functions,  \* functions in SSA form
  Word        \* as in FillRPO

VARIABLES
  f,          \* the function
  edgeCopies, \* the copies still to be placed: <<pred, succ>> to a list of them
  pred,       \* the block whose edges are being dealt with, or Nil
  id, stack, x, call, rpc,             \* FillRPO
  in, out, lpos, lchanged, lpc,        \* Liveness
  pc          \* "collect", "edges", "number", "live" or "done"

rpoVars  == <<id, stack, x, call, rpc>>
liveVars == <<in, out, lpos, lchanged, lpc>>
vars == <<f, edgeCopies, pred, rpoVars, liveVars, pc>>

Order == INSTANCE FillRPO WITH pc <- rpc
Live == INSTANCE Liveness WITH pos <- lpos, changed <- lchanged, pc <- lpc

Start ==
  /\ edgeCopies = <<>> /\ pred = Nil
  /\ id = [b \in Blocks(f) |-> b] /\ stack = <<>> /\ x = 0
  /\ call = 2 /\ rpc = "preds"
  /\ Live!Start
  /\ pc = "collect"

-----------------------------------------------------------------------------
(***************************************************************************)
(* The phis leave their block; what they copy is remembered for each edge, *)
(* phi by phi.                                                             *)
(***************************************************************************)
OnEdge(p, s) ==                         \* the copies of the edge from p to s
  LET of(phi) == LET ks == SetToSortSeq({k \in DOMAIN phi.args : phi.blks[k] = p}, <)
                 IN  [k \in DOMAIN ks |-> [to |-> phi.to, arg |-> phi.args[ks[k]]]]
  IN  FlattenSeq([j \in DOMAIN f.phis[s] |-> of(f.phis[s][j])])

CopiedOn(p, s) == \E phi \in Elems(f.phis[s]) : \E k \in DOMAIN phi.args : phi.blks[k] = p

Collect ==
  /\ pc = "collect"
  /\ edgeCopies' = [e \in {d \in Blocks(f) \X Blocks(f) : CopiedOn(d[1], d[2])} |->
                      OnEdge(e[1], e[2])]
  /\ f' = [f EXCEPT !.phis = [b \in Blocks(f) |-> <<>>]]
  /\ pc' = "edges"
  /\ UNCHANGED <<pred, rpoVars, liveVars>>

(***************************************************************************)
(* The code for a list of copies: each goes through a temporary of its     *)
(* own, and is complete before the next one starts.                        *)
(***************************************************************************)
Copy(to, arg) == [op |-> "copy", to |-> to, arg |-> <<arg, Undef, Undef>>]

CopyIns(copies) ==
  [n \in 1 .. 2 * Len(copies) |->
     LET c == copies[(n + 1) \div 2]
         tmp == Tmp(f.ntmp + (n - 1) \div 2)
     IN  IF n % 2 = 1 THEN Copy(tmp, c.arg) ELSE Copy(c.to, tmp)]

\* A block that jumps only to s takes the code at its end.
AtEnd(p, code) == [f EXCEPT !.ins[p] = @ \o code]

\* One that branches gets a new block on the edge, which becomes block f.n.
Split(p, s, code) ==
  LET new == f.n
      with(fun, v) == [b \in 0 .. f.n |-> IF b = new THEN v ELSE fun[b]]
      onS1 == f.s1[p] = s
  IN  [f EXCEPT
        !.n    = f.n + 1,
        !.s1   = with(IF onS1 THEN [@ EXCEPT ![p] = new] ELSE @, s),
        !.s2   = with(IF ~onS1 /\ f.s2[p] = s THEN [@ EXCEPT ![p] = new] ELSE @, Nil),
        !.pred = with(f.pred, <<>>),
        !.phis = with(f.phis, <<>>),
        !.ins  = with(f.ins, code),
        !.jmp  = with(f.jmp, [type |-> "jmp", arg |-> Undef]),
        !.loop = with(f.loop, 0)]

OnThisPred(e) ==                        \* the inner loop has not run out of edges
  \/ pred = e[1]
  \/ \A d \in DOMAIN edgeCopies : d[1] # pred

PlaceEdge_AlwaysAtEnd(e) ==                               \* mutant
  /\ pc = "edges" /\ e \in DOMAIN edgeCopies /\ OnThisPred(e)
  /\ LET copies == edgeCopies[e]
     IN  f' = [AtEnd(e[1], CopyIns(copies)) EXCEPT !.ntmp = @ + Len(copies)]
  /\ edgeCopies' = [d \in DOMAIN edgeCopies \ {e} |-> edgeCopies[d]]
  /\ pred' = e[1]
  /\ UNCHANGED <<rpoVars, liveVars, pc>>

PlaceEdge(e) ==
  /\ pc = "edges" /\ e \in DOMAIN edgeCopies /\ OnThisPred(e)
  /\ LET copies == edgeCopies[e]
         code == CopyIns(copies)
         g == IF f.s2[e[1]] = Nil THEN AtEnd(e[1], code) ELSE Split(e[1], e[2], code)
     IN  f' = [g EXCEPT !.ntmp = @ + Len(copies)]
  /\ edgeCopies' = [d \in DOMAIN edgeCopies \ {e} |-> edgeCopies[d]]
  /\ pred' = e[1]
  /\ UNCHANGED <<rpoVars, liveVars, pc>>

EdgesDone_NotNumbered ==                                  \* mutant
  /\ pc = "edges" /\ DOMAIN edgeCopies = {}
  /\ id' = [b \in Blocks(f) |-> b]
  /\ pc' = "number" /\ rpc' = "done"
  /\ UNCHANGED <<f, edgeCopies, pred, stack, x, call, liveVars>>

EdgesDone ==
  /\ pc = "edges" /\ DOMAIN edgeCopies = {}
  /\ id' = [b \in Blocks(f) |-> b]
  /\ pc' = "number"
  /\ UNCHANGED <<f, edgeCopies, pred, stack, x, call, rpc, liveVars>>

-----------------------------------------------------------------------------
Number ==                               \* FillPreds, FillRPO; Liveness starts afresh
  /\ pc = "number"
  /\ IF rpc = "done"
       THEN /\ in' = [b \in Blocks(f) |-> {}] /\ out' = [b \in Blocks(f) |-> {}]
            /\ lpos' = f.n - 1
            /\ pc' = "live"
            /\ UNCHANGED <<f, rpoVars, lchanged, lpc>>
       ELSE Order!Next /\ UNCHANGED <<liveVars, pc>>
  /\ UNCHANGED <<edgeCopies, pred>>

Liveness ==
  /\ pc = "live"
  /\ IF lpc = "done" THEN pc' = "done" /\ UNCHANGED liveVars
                     ELSE Live!Step /\ UNCHANGED pc
  /\ UNCHANGED <<f, edgeCopies, pred, rpoVars>>

Step ==
  \/ Collect \/ EdgesDone \/ Number \/ Liveness
  \/ \E e \in DOMAIN edgeCopies : PlaceEdge(e)

(***************************************************************************)
(* Solution: In and Out solve the equations of the function.               *)
(***************************************************************************)
Solution ==
  \A b \in Blocks(f) : out[b] = Live!NewOut(b, in) /\ in[b] = Live!NewIn(b, out[b])
=============================================================================
