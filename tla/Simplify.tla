------------------------------ MODULE Simplify ------------------------------
(***************************************************************************)
(* Simplify (src/arch/arm64/peep.go): a product read once, by a sum or a   *)
(* difference, is fused with it (madd, msub), and its own instruction      *)
(* becomes a nop.  The pass moves a computation from the definition to the *)
(* use, perhaps to another block, on the word of the tables that FillUse   *)
(* left; it does not bring them up to date.                                *)
(*                                                                         *)
(* Classes are not modelled: all operands are integers of the same class.  *)
(***************************************************************************)
EXTENDS QbeIR

\* Definitions marked "mutant" are slips the properties below must catch; no
\* other definition uses them.

Nowhere == <<Nil, 0>>                            \* a nil *Instruction

VARIABLES
  f,          \* the function
  temps,      \* Temps[t]: NDef, NUse and Def of every temporary
  pos, i,     \* the block and the instruction the pass is at
  pc          \* "peep" or "done"

vars == <<f, temps, pos, i, pc>>

Start == pos = 0 /\ i = 1 /\ pc = "peep"

Here == f.ins[pos][i]
DefOf(r) == temps[r.val].Def
InsAt(site) == f.ins[site[1]][site[2]]

(***************************************************************************)
(* r names a product of two temporaries that nothing else reads.           *)
(***************************************************************************)
Fusible_AnyUses(r) ==                                     \* mutant
  /\ DefOf(r) # Nowhere
  /\ InsAt(DefOf(r)).op = "mul"
  /\ IsTmp(InsAt(DefOf(r)).arg[1]) /\ IsTmp(InsAt(DefOf(r)).arg[2])

Fusible(r) ==
  /\ DefOf(r) # Nowhere
  /\ InsAt(DefOf(r)).op = "mul"
  /\ IsTmp(InsAt(DefOf(r)).arg[1]) /\ IsTmp(InsAt(DefOf(r)).arg[2])
  /\ temps[r.val].NUse = 1

\* The operands of the current instruction that are fused with it, in order.
Terms(n) == IsTmp(Here.arg[1]) /\ IsTmp(Here.arg[2]) /\ Fusible(Here.arg[n])

Factors ==
  CASE Here.op = "add" -> {n \in {1, 2} : Terms(n) /\ (n = 2 => ~Terms(1))}
    [] Here.op = "sub" -> {n \in {2} : Terms(n)}
    [] OTHER           -> {}

(***************************************************************************)
(* The instruction takes the two factors and the other operand; the        *)
(* product keeps its operands and its result.                              *)
(***************************************************************************)
Fused(n) ==
  LET product == InsAt(DefOf(Here.arg[n]))
  IN  [Here EXCEPT !.op = IF @ = "add" THEN "madd" ELSE "msub",
                   !.arg = <<product.arg[1], product.arg[2], Here.arg[3 - n]>>]

Fuse ==
  /\ pc = "peep" /\ pos < f.n /\ i <= Len(f.ins[pos])
  /\ \E n \in Factors :
       LET site == DefOf(Here.arg[n])
       IN  f' = [f EXCEPT !.ins[pos][i] = Fused(n), !.ins[site[1]][site[2]].op = "nop"]
  /\ i' = i + 1
  /\ UNCHANGED <<temps, pos, pc>>

Pass ==
  /\ pc = "peep" /\ pos < f.n /\ i <= Len(f.ins[pos])
  /\ Factors = {}
  /\ i' = i + 1
  /\ UNCHANGED <<f, temps, pos, pc>>

NextBlock ==
  /\ pc = "peep" /\ pos < f.n /\ i > Len(f.ins[pos])
  /\ pos' = pos + 1 /\ i' = 1
  /\ UNCHANGED <<f, temps, pc>>

Finish ==
  /\ pc = "peep" /\ pos >= f.n
  /\ pc' = "done"
  /\ UNCHANGED <<f, temps, pos, i>>

Step == Fuse \/ Pass \/ NextBlock \/ Finish
=============================================================================
