------------------------------ MODULE Machine ------------------------------
(***************************************************************************)
(* What lowered code does, next to what the code it came from does.  A     *)
(* place is a temporary, a register or a stack slot; places holds what     *)
(* each of them contains, as the term that computed it.  Before ABI0 a     *)
(* call takes the values of the arg instructions before it and gives its   *)
(* result to a temporary; after it, a call takes what the argument         *)
(* registers hold, leaves its result in the first of them, and keeps       *)
(* nothing but the callee-saved registers (AAPCS64, which                  *)
(* src/arch/arm64/abi.go names).                                           *)
(***************************************************************************)
EXTENDS Semantics, TLC
LOCAL INSTANCE SequencesExt
LOCAL INSTANCE Functions

CONSTANTS
  ArgRegs,     \* the registers that pass arguments, in order; the first returns results
  Pool,        \* the order in which registers are tried (rega.go:178)
  CalleeSave   \* the registers a call keeps, and a function must keep

ASSUME MachineAssumption ==
  /\ ArgRegs \in Seq(Nat) /\ ArgRegs # <<>> /\ Pool \in Seq(Nat) /\ CalleeSave \subseteq Nat
  /\ CalleeSave \cap Elems(ArgRegs) = {}

Reg(r)  == [kind |-> "RReg", val |-> r]
Slot(k) == [kind |-> "RSlot", val |-> k]

Flags   == [kind |-> "Flags", val |-> 0]      \* what a compare leaves for a branch

IsReg(r)  == r.kind = "RReg"
IsSlot(r) == r.kind = "RSlot"

Holds(x, r) ==
  IF IsTmp(r) \/ IsReg(r) \/ IsSlot(r) \/ r = Flags
    THEN IF r \in DOMAIN x.places THEN x.places[r] ELSE <<"unset", r.kind, r.val>>
    ELSE <<r.kind, r.val>>

Puts(x, r, v) ==
  IF IsUndef(r) THEN x
  ELSE [x EXCEPT !.places = (r :> v) @@ @]

(***************************************************************************)
(* An execution starts with the parameters in the argument registers.      *)
(***************************************************************************)
Arrive(g) ==
  [at |-> 0, places |-> [r \in {Reg(a) : a \in Elems(ArgRegs)} |->
                           <<"par", CHOOSE k \in DOMAIN ArgRegs : ArgRegs[k] = r.val>>],
   args |-> <<>>, pars |-> 0, trace |-> <<>>, effects |-> 0, turns |-> 0]

\* low: the code is lowered, arguments and results are in registers.
CallIns(x, ins, low) ==
  LET passed == IF low THEN [k \in DOMAIN ArgRegs |-> Holds(x, Reg(ArgRegs[k]))] ELSE x.args
      result == <<"result", x.effects>>
      lost   == {r \in DOMAIN x.places : IsReg(r) /\ r.val \notin CalleeSave}
      after  == IF low
                  THEN Puts([x EXCEPT !.places = Restrict(@, DOMAIN @ \ lost)],
                            Reg(ArgRegs[1]), result)
                  ELSE Puts(x, ins.to, result)
  IN  [after EXCEPT !.trace = Append(@, [what |-> "call", vals |-> <<Holds(x, ins.arg[1])>>,
                                         args |-> passed]),
                    !.effects = @ + 1, !.args = <<>>]

\* An arg passes its operand: Builder.Call writes it where results go, and ABI0 takes
\* it from the first operand (src/builder/builder.go:214, abi.go:342).
Passed(x, ins) == Holds(x, IF IsUndef(ins.arg[1]) THEN ins.to ELSE ins.arg[1])

MachineIns(x, ins, low) ==
  LET vals == [k \in DOMAIN ins.arg |-> Holds(x, ins.arg[k])]
      shown == [x EXCEPT !.trace = Append(@, [what |-> ins.op, vals |-> vals, args |-> <<>>]),
                         !.effects = @ + 1]
  IN  CASE ins.op = "par"  -> [Puts(x, ins.to, <<"par", x.pars + 1>>) EXCEPT !.pars = @ + 1]
        [] ins.op = "arg"  -> [x EXCEPT !.args = Append(@, Passed(x, ins))]
        [] ins.op = "call" -> CallIns(x, ins, low)
        [] ins.op \in Loads -> Puts(x, ins.to, IF IsSlot(ins.arg[1]) THEN vals[1]
                                               ELSE <<ins.op, vals[1], x.effects>>)
        [] ins.op \in Stores -> IF IsSlot(ins.arg[2]) THEN Puts(x, ins.arg[2], vals[1])
                                                      ELSE shown
        [] OTHER -> Puts(x, ins.to, Computed(ins.op, vals))

MachineJump(g, x, turn, low) ==
  LET show(what, v) == Append(x.trace, [what |-> what, vals |-> <<v>>, args |-> <<>>])
      cond == Holds(x, g.jmp[x.at].arg)
  IN  CASE g.s1[x.at] = Nil ->
             [x EXCEPT !.at = Nil,
                !.trace = show("return", IF low THEN Holds(x, Reg(ArgRegs[1])) ELSE cond)]
        [] g.s1[x.at] # Nil /\ g.s2[x.at] = Nil -> [x EXCEPT !.at = g.s1[x.at]]
        [] OTHER -> [x EXCEPT !.at = IF turn = 1 THEN g.s1[x.at] ELSE g.s2[x.at],
                              !.trace = show("branch", cond), !.turns = @ + 1]

MachineBlock(g, x, turns, low) ==
  LET code == g.ins[x.at]
      after[k \in 0 .. Len(code)] ==
        IF k = 0 THEN x ELSE MachineIns(after[k - 1], code[k], low)
  IN  IF x.at = Nil \/ x.turns = Len(turns) THEN x
      ELSE MachineJump(g, after[Len(code)], turns[x.turns + 1], low)

Execution(g, turns, steps, low) ==
  LET run[k \in 0 .. steps] ==
        IF k = 0 THEN Arrive(g) ELSE MachineBlock(g, run[k - 1], turns, low)
  IN  run[steps]

(***************************************************************************)
(* The lowered function g does what the function h does: along every path  *)
(* of up to steps blocks the same effects, branches, calls and result.  A  *)
(* call may find more in the argument registers than it is passed.         *)
(***************************************************************************)
SameEvent(e, d) == /\ e.what = d.what /\ e.vals = d.vals
                   /\ IsPrefix(d.args, e.args)

Implements(g, h, steps) ==
  \A turns \in Turns(h, steps) :
    LET low  == Execution(g, turns, steps, TRUE).trace
        high == Execution(h, turns, steps, FALSE).trace
    IN  Len(low) = Len(high) /\ \A k \in DOMAIN high : SameEvent(low[k], high[k])
=============================================================================
