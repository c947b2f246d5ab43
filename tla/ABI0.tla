-------------------------------- MODULE ABI0 --------------------------------
(***************************************************************************)
(* ABI0 (src/arch/arm64/abi.go): calls, parameters and results become      *)
(* copies to and from the registers of the calling convention.             *)
(*                                                                         *)
(* Arguments and parameters are integers and fit the argument registers:   *)
(* floats, aggregates and arguments on the stack are not modelled.         *)
(***************************************************************************)
EXTENDS Machine
LOCAL INSTANCE SequencesExt
LOCAL INSTANCE FiniteSetsExt

VARIABLES
  f,          \* the function
  pos,        \* the block
  pc          \* "lower" or "done"

vars == <<f, pos, pc>>

Start == pos = 0 /\ pc = "lower"

MoveTo(to, from) == [op |-> "copy", to |-> to, arg |-> <<from, Undef, Undef>>]

Result == Reg(ArgRegs[1])

(***************************************************************************)
(* selret: a value is returned in the result register, and the block then  *)
(* ends in a jump without a target.                                        *)
(***************************************************************************)
Returned(b) ==
  IF f.jmp[b].type = "ret" THEN Append(f.ins[b], MoveTo(Result, f.jmp[b].arg)) ELSE f.ins[b]

JumpOf(b) ==
  IF f.jmp[b].type = "ret" THEN [type |-> "jmp", arg |-> Undef] ELSE f.jmp[b]

(***************************************************************************)
(* selcall: the arg instructions since the call before, wherever they      *)
(* stand, become copies right before the call, one after the other.        *)
(***************************************************************************)
LastCall(code, i) == Max({0} \cup {c \in 1 .. i - 1 : code[c].op = "call"})

ArgsOf(code, i) ==
  SelectSeq(SubSeq(code, LastCall(code, i) + 1, i - 1),
            LAMBDA ins : ins.op = "arg")

SelCall(args, call) ==
  [k \in DOMAIN args |-> MoveTo(Reg(ArgRegs[k]), args[k].arg[1])]
    \o <<call>>
    \o (IF IsUndef(call.to) THEN <<>> ELSE <<MoveTo(call.to, Result)>>)

Lowered(code) ==
  FlattenSeq([i \in DOMAIN code |->
    CASE code[i].op = "arg"  -> <<>>
      [] code[i].op = "call" -> SelCall(ArgsOf(code, i), code[i])
      [] OTHER               -> <<code[i]>>])

LowerBlock ==
  /\ pc = "lower" /\ pos < f.n
  /\ f' = [f EXCEPT !.ins[pos] = Lowered(Returned(pos)), !.jmp[pos] = JumpOf(pos)]
  /\ pos' = pos + 1
  /\ UNCHANGED pc

(***************************************************************************)
(* selpar: the pars of the start block, in order, read the registers.      *)
(***************************************************************************)
ParNumber(code, i) == Cardinality({c \in 1 .. i : code[c].op = "par"})

ParamsRead(code) ==
  [i \in DOMAIN code |->
     IF code[i].op = "par" THEN MoveTo(code[i].to, Reg(ArgRegs[ParNumber(code, i)])) ELSE code[i]]

LowerParams ==
  /\ pc = "lower" /\ pos = f.n
  /\ f' = [f EXCEPT !.ins[0] = ParamsRead(@)]
  /\ pc' = "done"
  /\ UNCHANGED pos

Step == LowerBlock \/ LowerParams
=============================================================================
