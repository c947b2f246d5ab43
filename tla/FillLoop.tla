------------------------------ MODULE FillLoop ------------------------------
(***************************************************************************)
(* FillLoop and loopMark (src/analysis/cfg.go): the loop depth of every    *)
(* block, as a power of ten.  For each edge back to a block hd that is not *)
(* numbered higher, loopMark goes backwards over Pred from the source of   *)
(* the edge, marks what it meets with hd, and stops at lower numbers and   *)
(* at the mark.  A call of loopMark does its own block and then calls      *)
(* itself on every predecessor, so the calls still to be made are a list.  *)
(* A depth is a uint32 and wraps: from ten nested loops on it is no longer *)
(* the power of ten.                                                       *)
(***************************************************************************)
EXTENDS QbeIR

\* Definitions marked "mutant" are slips the properties must catch; no other
\* definition uses them.

CONSTANT Word   \* as in FillRPO

VARIABLES
  f,          \* the function, numbered, with its Pred lists
  loop,       \* b.Loop
  visit,      \* b.Visit: the head that marked the block last
  todo,       \* the calls of loopMark still to be made
  pos, k,     \* the block whose predecessors are looked at, and which of them
  pc          \* "loops" or "done"

loopVars == <<loop, visit, todo, pos, k, pc>>

Start ==
  /\ loop = [b \in Blocks(f) |-> 1] /\ visit = [b \in Blocks(f) |-> Nil]
  /\ todo = <<>> /\ pos = 0 /\ k = 1 /\ pc = "loops"

NextPred ==
  /\ pc = "loops" /\ todo = <<>> /\ pos < f.n /\ k <= Len(f.pred[pos])
  /\ todo' = IF f.pred[pos][k] >= pos THEN <<f.pred[pos][k]>> ELSE <<>>
  /\ k' = k + 1
  /\ UNCHANGED <<f, loop, visit, pos, pc>>

NextBlock ==
  /\ pc = "loops" /\ todo = <<>> /\ pos < f.n /\ k > Len(f.pred[pos])
  /\ pos' = pos + 1 /\ k' = 1
  /\ UNCHANGED <<f, loop, visit, todo, pc>>

Outside_AnyHead(b) == b < pos \/ visit[b] # Nil           \* mutant

Outside(b) == b < pos \/ visit[b] = pos

LoopMark ==                             \* a call, for the head pos
  /\ pc = "loops" /\ todo # <<>>
  /\ LET b == Head(todo) IN
     IF Outside(b) THEN todo' = Tail(todo) /\ UNCHANGED <<loop, visit>>
     ELSE /\ visit' = [visit EXCEPT ![b] = pos]
          /\ loop' = [loop EXCEPT ![b] = (10 * @) % Word]
          /\ todo' = f.pred[b] \o Tail(todo)
  /\ UNCHANGED <<f, pos, k, pc>>

Finish ==
  /\ pc = "loops" /\ todo = <<>> /\ pos >= f.n
  /\ pc' = "done"
  /\ UNCHANGED <<f, loop, visit, todo, pos, k>>

Step == NextPred \/ NextBlock \/ LoopMark \/ Finish

-----------------------------------------------------------------------------
(***************************************************************************)
(* A block is in the loop of h if a path from it leads back to h without   *)
(* passing a block that is numbered lower.                                 *)
(***************************************************************************)
InLoopOf(h, b) ==
  /\ b >= h
  /\ \E p \in ReachIn(f, b, h .. f.n - 1) : h \in Succs(f, p)

Depth(b) == Cardinality({h \in Blocks(f) : InLoopOf(h, b)})

\* What FillLoop has for a block that is in d loops: 1, and ten times it for each,
\* in a uint32.
Power(d) ==
  LET tens[j \in 0 .. f.n] == IF j = 0 THEN 1 ELSE (10 * tens[j - 1]) % Word
  IN  tens[d]
=============================================================================
