-------------------------------- MODULE Emit --------------------------------
(***************************************************************************)
(* Emit (src/arch/arm64/emit.go) as far as it decides anything: the order  *)
(* in which instructions reach the text, and what a conditional jump       *)
(* tests.  A comparison is held back (t.PendingCmp) until something reads  *)
(* its result, another comparison or a call comes, or the block ends; if   *)
(* the block ends by testing just that result, the two become a compare    *)
(* and a conditional branch, and the result is never written.              *)
(*                                                                         *)
(* Emit leaves the function as it is; asm is the text it writes.           *)
(***************************************************************************)
EXTENDS Machine

VARIABLES
  f,          \* the function
  asm,        \* the blocks written so far, in order: their code and their jump
  code,       \* what has been written of the block at hand
  pending,    \* t.PendingCmp: no comparison, or one
  pos, i,     \* the block, and how many of its instructions have been seen
  pc          \* "block", "ins" or "done"

vars == <<f, asm, code, pending, pos, i, pc>>

Start ==
  /\ asm = <<>> /\ code = <<>> /\ pending = <<>>
  /\ pos = 0 /\ i = 0
  /\ pc = "block"

Comparisons == {"ceq", "ceqw", "cne", "cnew"} \cup Orders

\* What emitInsDirect has a case for; of anything else it writes a comment.
Emitted == {"add", "sub", "mul", "div", "udiv", "addw", "subw", "mulw", "divw", "udivw",
            "neg", "negw", "copy", "load", "loadub", "storeb", "storel", "madd", "msub", "call"}
             \cup Allocs \cup Comparisons

Text(ins) == IF ins.op \in Emitted THEN <<ins>> ELSE <<>>

-----------------------------------------------------------------------------
EnterBlock ==
  /\ pc = "block" /\ pos < f.n
  /\ code' = <<>> /\ pending' = <<>> /\ i' = 0
  /\ pc' = "ins"
  /\ UNCHANGED <<f, asm, pos>>

ReadsPending_FirstOnly(ins) ==                            \* mutant
  \E c \in Elems(pending) : ins.arg[1] = c.to

ReadsPending(ins) == \E c \in Elems(pending) : c.to \in Elems(ins.arg)

EmitIns ==
  /\ pc = "ins" /\ i < Len(f.ins[pos])
  /\ LET ins == f.ins[pos][i + 1] IN
     IF ins.op \in Comparisons
       THEN code' = code \o pending /\ pending' = <<ins>>
       ELSE IF ReadsPending(ins) \/ ins.op = "call"
              THEN code' = code \o pending \o Text(ins) /\ pending' = <<>>
              ELSE code' = code \o Text(ins) /\ UNCHANGED pending
  /\ i' = i + 1
  /\ UNCHANGED <<f, asm, pos, pc>>

\* emitJump: the comparison sets the flags only, and the jump reads them.
Fuses == f.jmp[pos].type = "jnz" /\ ReadsPending([arg |-> <<f.jmp[pos].arg>>])

FlagsOnly(cs) == [k \in DOMAIN cs |-> [cs[k] EXCEPT !.to = Flags]]

EmitJump ==
  /\ pc = "ins" /\ i = Len(f.ins[pos])
  /\ asm' = Append(asm,
       IF Fuses THEN [code |-> code \o FlagsOnly(pending),
                      jmp |-> [f.jmp[pos] EXCEPT !.arg = Flags]]
                ELSE [code |-> code \o pending, jmp |-> f.jmp[pos]])
  /\ pending' = <<>>
  /\ pos' = pos + 1
  /\ pc' = "block"
  /\ UNCHANGED <<f, code, i>>

Finish ==
  /\ pc = "block" /\ pos = f.n
  /\ pc' = "done"
  /\ UNCHANGED <<f, asm, code, pending, pos, i>>

Step == EnterBlock \/ EmitIns \/ EmitJump \/ Finish

\* The text, as a function of the machine.
Assembled ==
  [f EXCEPT !.ins = [b \in Blocks(f) |-> asm[b + 1].code],
            !.jmp = [b \in Blocks(f) |-> asm[b + 1].jmp]]
=============================================================================
