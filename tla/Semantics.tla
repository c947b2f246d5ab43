----------------------------- MODULE Semantics -----------------------------
(***************************************************************************)
(* What a function does, as a reference to compare the passes with.  The   *)
(* semantics is symbolic: a value is the term that computes it, so two     *)
(* functions agree on a path for all inputs when their traces are equal.   *)
(* A trace holds what an execution shows: its side effects, the conditions *)
(* it branches on and the value it returns.  This is the meaning the       *)
(* emitter gives to the operations (src/arch/arm64/emit.go) and phis have  *)
(* by definition: all read on entry, before any is written.                *)
(***************************************************************************)
EXTENDS Arithmetic
LOCAL INSTANCE SequencesExt

Unknown == <<"unknown">>          \* what a temporary holds before it is written

(***************************************************************************)
(* A constant is a symbol, unless the function has its table (g.con, the   *)
(* field Constants): then it is a number, as an immediate is, which is     *)
(* extended from 32 to 64 bits with its sign.                              *)
(***************************************************************************)
Literal(v) == <<"literal", v>>
IsLiteral(v) == v[1] = "literal"

Constants(g) == IF "con" \in DOMAIN g THEN g.con ELSE <<>>

Immediate(v) == Wrap(Signed(v, Bits(FALSE)), Bits(TRUE))

Value(x, r) ==
  CASE IsTmp(r) -> x.env[r.val]
    [] r.kind = "RCon" /\ r.val < Len(x.con) -> Literal(x.con[r.val + 1])
    [] r.kind = "RInt" -> Literal(Immediate(r.val))
    [] OTHER -> <<r.kind, r.val>>

(***************************************************************************)
(* An execution: the block it is about to run and the one it comes from,   *)
(* the values of the temporaries, the trace, the number of side effects,   *)
(* and the number of branches taken.  A load depends on the side effects   *)
(* before it.  A par reads the next register of the calling convention:    *)
(* selpar (src/arch/arm64/abi.go:243) gives it the number of pars that     *)
(* stand before it.                                                        *)
(***************************************************************************)
Begin(g) == [at |-> 0, from |-> Nil, env |-> [t \in Temps(g) |-> Unknown],
             con |-> Constants(g),
             trace |-> <<>>, effects |-> 0, pars |-> 0, turns |-> 0]

Write(env, r, v) == IF IsTmp(r) THEN [env EXCEPT ![r.val] = v] ELSE env

RunPhis(g, x) ==
  LET phis  == g.phis[x.at]
      defs(t) == {i \in DOMAIN phis : phis[i].to = Tmp(t)}
      came(p) == {k \in DOMAIN p.args : p.blks[k] = x.from}
      read(p) == IF came(p) = {} THEN Unknown
                 ELSE Value(x, p.args[CHOOSE k \in came(p) : TRUE])
  IN  [x EXCEPT !.env = [t \in DOMAIN x.env |->
         IF defs(t) = {} THEN x.env[t] ELSE read(phis[CHOOSE i \in defs(t) : TRUE])]]

(***************************************************************************)
(* The fused instructions are the sum and the difference they stand for,   *)
(* and a sum does not depend on the order of its terms.                    *)
(***************************************************************************)
Sum(a, b)        == <<"add", {a, b}>>
Difference(a, b) == <<"sub", <<a, b>>>>
Product(a, b)    == <<"mul", <<a, b>>>>

Numeric(op, v) ==                 \* a division by zero has no literal for a result
  /\ Unclassed(op) \in IntOps
  /\ IsLiteral(v[1]) /\ (Unclassed(op) = "neg" \/ IsLiteral(v[2]))
  /\ Unclassed(op) \in Divisions => Wrap(v[2][2], Bits(IsWide(op))) # 0

Computed(op, v) ==
  CASE Numeric(op, v) ->
         Literal(Exact(Unclassed(op), IsWide(op), v[1][2],
                       IF Unclassed(op) = "neg" THEN 0 ELSE v[2][2]))
    [] op = "copy" -> v[1]
    [] op = "add"  -> Sum(v[1], v[2])
    [] op = "sub"  -> Difference(v[1], v[2])
    [] op = "mul"  -> Product(v[1], v[2])
    [] op = "madd" -> Sum(Product(v[1], v[2]), v[3])
    [] op = "msub" -> Difference(v[3], Product(v[1], v[2]))
    [] OTHER       -> <<op, v>>

RunIns(x, ins) ==
  LET vals == [i \in DOMAIN ins.arg |-> Value(x, ins.arg[i])]
      when == <<"after", x.effects>>
      result == CASE ins.op \in Pures  -> Computed(ins.op, vals)
                  [] ins.op \in Params -> <<ins.op, x.pars>>
                  [] OTHER -> <<ins.op, vals, when>>
      done == [x EXCEPT !.env = Write(x.env, ins.to, result),
                        !.pars = IF ins.op \in Params THEN @ + 1 ELSE @]
  IN  IF HasSideEffects(ins)
        THEN [done EXCEPT !.trace = Append(@, <<ins.op, vals>>), !.effects = @ + 1]
        ELSE done

\* turn is the branch a conditional jump takes, 1 or 2.
RunJump(g, x, turn) ==
  LET show(what) == Append(x.trace, <<what, <<Value(x, g.jmp[x.at].arg)>>>>)
  IN  CASE g.s1[x.at] = Nil ->
             [x EXCEPT !.at = Nil, !.trace = show("return")]
        [] g.s1[x.at] # Nil /\ g.s2[x.at] = Nil ->
             [x EXCEPT !.at = g.s1[x.at], !.from = x.at]
        [] OTHER ->
             [x EXCEPT !.at = IF turn = 1 THEN g.s1[x.at] ELSE g.s2[x.at], !.from = x.at,
                       !.trace = show("branch"), !.turns = @ + 1]

RunBlock(g, x, turns) ==
  IF x.at = Nil \/ x.turns = Len(turns) THEN x
  ELSE RunJump(g, FoldLeft(RunIns, RunPhis(g, x), g.ins[x.at]), turns[x.turns + 1])

\* The trace of the first steps blocks, branching as turns says.
Trace(g, turns, steps) ==
  LET run[k \in 0 .. steps] == IF k = 0 THEN Begin(g) ELSE RunBlock(g, run[k - 1], turns)
  IN  run[steps].trace

\* The ways to branch on a path of steps blocks of h; what is not taken is 1.
Turns(h, steps) ==
  LET ahead(w) ==
        CASE w.at = Nil -> {w}
          [] w.at # Nil /\ h.s2[w.at] = Nil -> {[w EXCEPT !.at = h.s1[w.at]]}
          [] OTHER -> {[at |-> h.s1[w.at], took |-> Append(w.took, 1)],
                       [at |-> h.s2[w.at], took |-> Append(w.took, 2)]}
      ways[k \in 0 .. steps] ==
        IF k = 0 THEN {[at |-> 0, took |-> <<>>]} ELSE UNION {ahead(w) : w \in ways[k - 1]}
  IN  {[k \in 1 .. steps |-> IF k \in DOMAIN w.took THEN w.took[k] ELSE 1] : w \in ways[steps]}

(***************************************************************************)
(* g behaves like its source h: along every path of up to steps blocks of  *)
(* h, everything h shows is shown by g, in the same order.  g may have     *)
(* more blocks on the path than h has (split edges), at most one per edge. *)
(***************************************************************************)
Behaves(g, h, steps) ==
  \A turns \in Turns(h, steps) :
    IsPrefix(Trace(h, turns, steps), Trace(g, turns, 2 * steps))
=============================================================================
