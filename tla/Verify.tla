------------------------------- MODULE Verify -------------------------------
(***************************************************************************)
(* VerifySSA (src/analysis/verify.go), which nothing calls, applied to     *)
(* what SSA leaves.  Blocks that read are compared with the first block    *)
(* that writes, by the Idoms that FillDom left: neither the order within a *)
(* block nor the arguments of phis are looked at.  The numbers that        *)
(* VerifySSA passes over, 0 to 63, are those of registers, which the       *)
(* functions here do not have.                                             *)
(***************************************************************************)
EXTENDS SSA

DefinedTimes(t) == NDef(f, t)

FindDefBlock(t) ==
  LET bs == {b \in Blocks(f) : t \in Given(b)} IN IF bs = {} THEN Nil ELSE CHOOSE b \in bs : \A c \in bs : b <= c

CheckDom(t, useBlock) ==
  LET d == FindDefBlock(t)
  IN  d # Nil /\ (d = useBlock \/ Dominance!IsSdom(d, useBlock))

Reads(b) == TmpsOf({f.jmp[b].arg}) \cup UNION {Uses(x) : x \in Elems(f.ins[b])}

VerifySSA ==
  /\ \A t \in Temps(f) : DefinedTimes(t) <= 1
  /\ \A b \in Blocks(f) : \A t \in Reads(b) : CheckDom(t, b)

-----------------------------------------------------------------------------
(***************************************************************************)
(* SSAForm: VerifySSA accepts the result, and so does a check that follows *)
(* from the definition of the form, before Simplify and at every step of   *)
(* it.  Every temporary has at most one definition, and it dominates every *)
(* use: within a block by position, in a phi at the end of the             *)
(* predecessor.  If the source reads nothing before writing it, every      *)
(* temporary read has a definition, and every phi has one argument for     *)
(* each of its block's predecessors.                                       *)
(***************************************************************************)
SingleDef == \A t \in Temps(f) : temps[t].NDef <= 1

DefinedBefore(t, b, i) ==
  \/ \E j \in 1 .. i - 1 : t \in Defs(f.ins[b][j])
  \/ \E p \in Elems(f.phis[b]) : t \in Defs(p)
  \/ \E d \in Blocks(f) \ {b} : t \in Given(d) /\ Dominance!Dom(d, b)

DefinedAtEnd(t, b) == DefinedBefore(t, b, Len(f.ins[b]) + 1)

Strict == in[0] = {}

DefsReachUses ==
  LET ok(t, reached) == IF Strict \/ temps[t].NDef > 0 THEN reached ELSE TRUE
  IN  \A b \in Blocks(f) :
        /\ \A i \in DOMAIN f.ins[b] :
             \A t \in Uses(f.ins[b][i]) : ok(t, DefinedBefore(t, b, i))
        /\ \A t \in TmpsOf({f.jmp[b].arg}) : ok(t, DefinedAtEnd(t, b))
        /\ \A p \in Elems(f.phis[b]) : \A i \in DOMAIN p.args :
             \A t \in TmpsOf({p.args[i]}) : ok(t, DefinedAtEnd(t, p.blks[i]))

OneArgPerEdge ==
  \A b \in Blocks(f) : \A p \in Elems(f.phis[b]) :
    /\ \A i, j \in DOMAIN p.blks : p.blks[i] = p.blks[j] => i = j
    /\ Elems(p.blks) \subseteq Elems(f.pred[b])
    /\ Strict => Elems(p.blks) = Elems(f.pred[b])

SSAForm ==
  pc = "done" => SingleDef /\ DefsReachUses /\ OneArgPerEdge /\ (Strict => VerifySSA)
=============================================================================
