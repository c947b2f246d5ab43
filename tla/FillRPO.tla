------------------------------- MODULE FillRPO -------------------------------
(***************************************************************************)
(* FillRPO and FillPreds (src/analysis/cfg.go).  FillRPO numbers the       *)
(* blocks reachable from Start in reverse post-order, drops the others and *)
(* sorts f.Blocks by number.  The recursive walk rpoRec is an explicit     *)
(* stack here: a frame is a call that has not returned, with the           *)
(* successors it has yet to visit.                                         *)
(*                                                                         *)
(* Build calls FillRPO and then FillPreds (builder.go:221); SSA calls them *)
(* again, in the other order (ssa.go:10).  The calls are modelled in that  *)
(* sequence, the second pair on what the first one left.                   *)
(***************************************************************************)
EXTENDS QbeIR

\* Definitions marked "mutant" are slips the properties must catch; no other
\* definition uses them.

CONSTANTS
  Functions,      \* functions as the builder leaves them, Start being block 0
  Word            \* 2^32: a uint32 holds 0 .. Word - 1

Fields == {"n", "ntmp", "s1", "s2", "pred", "phis", "ins", "jmp", "loop"}

Buildable ==                    \* what the constants are to be
  /\ \A g \in Functions :
       IsFunction(g) /\ g.loop \in [Blocks(g) -> Nat] /\ Fields \subseteq DOMAIN g
  /\ Word \in Nat /\ \A g \in Functions : g.n + 1 < Word

VARIABLES
  f,          \* the function; FillRPO rewrites it when the walk is over
  id,         \* b.Id of every block
  stack,      \* the calls of rpoRec in progress, innermost last
  x,          \* what the last call returned: the next number to give
  call,       \* 1 in Build, 2 in SSA
  pc          \* "RPO", "walk", "compact", "preds" or "done"

vars == <<f, id, stack, x, call, pc>>

Unset == Word - 1                               \* ^uint32(0)
Mark  == 1                                      \* the temporary mark

Dec(v) == (v - 1 + Word) % Word                 \* uint32 decrement

(***************************************************************************)
(* The successors of b in the order rpoRec visits them: the deeper loop is *)
(* visited last and so is numbered next to b.                              *)
(***************************************************************************)
Visits_OnlyS1(b) == <<f.s1[b]>>                           \* mutant
Visits_ById(b) ==                                         \* mutant
  IF f.s1[b] # Nil /\ f.s2[b] # Nil /\ f.s1[b] > f.s2[b]
    THEN <<f.s2[b], f.s1[b]>>
    ELSE <<f.s1[b], f.s2[b]>>

Visits(b) ==
  IF f.s1[b] # Nil /\ f.s2[b] # Nil /\ f.loop[f.s1[b]] > f.loop[f.s2[b]]
    THEN <<f.s2[b], f.s1[b]>>
    ELSE <<f.s1[b], f.s2[b]>>

Top   == stack[Len(stack)]
Below == SubSeq(stack, 1, Len(stack) - 1)

New(s) == s # Nil /\ id[s] = Unset               \* rpoRec goes into s

Frame(b) == [block |-> b, todo |-> Visits(b)]

-----------------------------------------------------------------------------
Init ==
  /\ f \in Functions
  /\ id = [b \in Blocks(f) |-> b]               \* what the builder gave it
  /\ stack = <<>> /\ x = 0
  /\ call = 1 /\ pc = "RPO"

StartWalk ==                   \* reset the numbers and call rpoRec(f.Start, nblk-1)
  /\ pc = "RPO"
  /\ id' = [b \in Blocks(f) |-> IF b = 0 THEN Mark ELSE Unset]
  /\ stack' = <<Frame(0)>>
  /\ x' = f.n - 1
  /\ pc' = "walk"
  /\ UNCHANGED <<f, call>>

Descend_Unmarked ==               \* mutant; the bound on the stack is for TLC
  /\ pc = "walk" /\ Top.todo # <<>>
  /\ LET s == Head(Top.todo) IN
     /\ New(s)
     /\ Len(stack) < 5
     /\ stack' = Append(Append(Below, [Top EXCEPT !.todo = Tail(@)]), Frame(s))
  /\ UNCHANGED <<f, id, x, call, pc>>

Descend ==                     \* the next successor is a block not yet seen
  /\ pc = "walk" /\ Top.todo # <<>>
  /\ LET s == Head(Top.todo) IN
     /\ New(s)
     /\ id' = [id EXCEPT ![s] = Mark]
     /\ stack' = Append(Append(Below, [Top EXCEPT !.todo = Tail(@)]), Frame(s))
  /\ UNCHANGED <<f, x, call, pc>>

Skip ==                        \* nil, or seen already: the call returns at once
  /\ pc = "walk" /\ Top.todo # <<>>
  /\ ~New(Head(Top.todo))
  /\ stack' = Append(Below, [Top EXCEPT !.todo = Tail(@)])
  /\ UNCHANGED <<f, id, x, call, pc>>

Leave ==                       \* both successors done: number the block
  /\ pc = "walk" /\ Top.todo = <<>>
  /\ id' = [id EXCEPT ![Top.block] = x]
  /\ x' = Dec(x)
  /\ stack' = Below
  /\ pc' = IF Below = <<>> THEN "compact" ELSE "walk"
  /\ UNCHANGED <<f, call>>

(***************************************************************************)
(* f with its blocks sorted by number: the unnumbered ones are gone.  A    *)
(* pointer to block b becomes num[b]; a phi or a predecessor list that     *)
(* names a dropped block keeps a pointer whose Id is Unset, in the second  *)
(* call too.                                                               *)
(***************************************************************************)
Sorted(num, n) ==
  LET at(i) == CHOOSE b \in Blocks(f) : num[b] = i
      to(s) == IF s \in Blocks(f) THEN num[s] ELSE s
      moved(g) == [i \in 0 .. n - 1 |-> g[at(i)]]
      each(seq, Op(_)) == [k \in DOMAIN seq |-> Op(seq[k])]
  IN  [f EXCEPT
        !.n    = n,
        !.s1   = [i \in 0 .. n - 1 |-> to(f.s1[at(i)])],
        !.s2   = [i \in 0 .. n - 1 |-> to(f.s2[at(i)])],
        !.pred = [i \in 0 .. n - 1 |-> each(f.pred[at(i)], to)],
        !.phis = [i \in 0 .. n - 1 |->
                    each(f.phis[at(i)], LAMBDA p : [p EXCEPT !.blks = each(@, to)])],
        !.ins  = moved(f.ins),
        !.jmp  = moved(f.jmp),
        !.loop = moved(f.loop)]

NUnreachable == (1 + x) % Word

Number ==                      \* the final b.Id of every block
  [b \in Blocks(f) |-> IF id[b] = Unset THEN Unset ELSE (id[b] - NUnreachable + Word) % Word]

Compact_Unsorted ==                                       \* mutant
  /\ pc = "compact"
  /\ LET num == [b \in Blocks(f) |->
                   IF id[b] = Unset THEN Unset
                   ELSE Cardinality({c \in 0 .. b - 1 : id[c] # Unset})]
         n == Cardinality({b \in Blocks(f) : id[b] # Unset})
     IN  f' = Sorted(num, n) /\ id' = [i \in 0 .. n - 1 |-> i]
  /\ pc' = IF call = 1 THEN "preds" ELSE "done"
  /\ UNCHANGED <<stack, x, call>>

Compact ==                     \* drop the unreachable blocks, shift the numbers down
  /\ pc = "compact"
  /\ f' = Sorted(Number, f.n - NUnreachable)
  /\ id' = [i \in 0 .. f.n - NUnreachable - 1 |-> i]
  /\ pc' = IF call = 1 THEN "preds" ELSE "done"
  /\ UNCHANGED <<stack, x, call>>

Preds ==                       \* FillPreds; in SSA it comes before FillRPO
  /\ pc = "preds"
  /\ f' = FillPreds(f)
  /\ IF call = 1 THEN call' = 2 /\ UNCHANGED pc ELSE pc' = "RPO" /\ UNCHANGED call
  /\ UNCHANGED <<id, stack, x>>

Next == StartWalk \/ Descend \/ Skip \/ Leave \/ Compact \/ Preds

Spec == Init /\ [][Next]_vars /\ WF_vars(Next)
-----------------------------------------------------------------------------
(***************************************************************************)
(* Consecutive: the numbers of the calls that have returned are distinct,  *)
(* and are those from nblk-1 down to x+1; no block is open twice.          *)
(***************************************************************************)
Open == {stack[k].block : k \in DOMAIN stack}

Consecutive ==
  pc = "walk" =>
    LET closed == {b \in Blocks(f) : id[b] # Unset} \ Open IN
    /\ {id[b] : b \in closed} = x + 1 .. f.n - 1
    /\ \A b, c \in closed : id[b] = id[c] => b = c
    /\ \A j, k \in DOMAIN stack : stack[j].block = stack[k].block => j = k

(***************************************************************************)
(* Ordered: a smaller number for some predecessor of every block, and a    *)
(* cycle for every edge that does not go up.                               *)
(***************************************************************************)
Numbered == pc \in {"preds", "done"}

EnteredFromBelow ==
  Numbered => \A b \in Blocks(f) \ {0} : \E p \in 0 .. b - 1 : b \in Succs(f, p)

Ordered ==
  /\ EnteredFromBelow
  /\ Numbered => \A p \in Blocks(f) : \A b \in Succs(f, p) :
                   p >= b => p \in ReachIn(f, b, b .. f.n - 1)
=============================================================================
