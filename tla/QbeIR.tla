------------------------------- MODULE QbeIR -------------------------------
(***************************************************************************)
(* The intermediate representation the passes work on (src/ir).  A pass    *)
(* reads and writes one function: blocks joined by two successor pointers, *)
(* each block holding phis, instructions and a jump whose operands are     *)
(* references.  A function is a value here (a record), so that a pass is a *)
(* state machine with a variable f holding the function it transforms.     *)
(*                                                                         *)
(* Block identity.  After FillRPO the block with Id i sits at f.Blocks[i], *)
(* so a block is named by that index; Nil stands for the nil pointer.      *)
(***************************************************************************)
EXTENDS Integers, Sequences, FiniteSets

Nil == -1                                   \* a nil *Block

(***************************************************************************)
(* References.  The kind is part of the value: RTmp and RCon numbers live  *)
(* in different spaces.  Undef is constant number 0, which is also the     *)
(* number GetCon gives to the first constant of a function.                *)
(***************************************************************************)
RefKinds == {"RTmp", "RCon", "RInt", "RSlot", "RReg", "RSym"}
Ref == [kind : RefKinds, val : Nat]

Tmp(v) == [kind |-> "RTmp", val |-> v]
Con(v) == [kind |-> "RCon", val |-> v]
Int32(v) == [kind |-> "RInt", val |-> v]
Sym(v) == [kind |-> "RSym", val |-> v]
Undef  == Con(0)

IsTmp(r)   == r.kind = "RTmp"
IsUndef(r) == r = Undef

(***************************************************************************)
(* Instructions, phis and jumps.  All operands are integers.  An operation *)
(* with a class is an opcode of its own: the plain name is class l, the    *)
(* name with a w is class w.  Only constant folding tells them apart.      *)
(***************************************************************************)
Divisions == {"div", "rem", "udiv", "urem"}
IntOps == Divisions \cup {"add", "sub", "neg", "mul", "and", "or", "xor",
                          "shl", "shr", "sar", "ceq", "cne"}

Narrow == [addw |-> "add", subw |-> "sub", negw |-> "neg", mulw |-> "mul", divw |-> "div",
           remw |-> "rem", udivw |-> "udiv", uremw |-> "urem", andw |-> "and", orw |-> "or",
           xorw |-> "xor", shlw |-> "shl", shrw |-> "shr", sarw |-> "sar",
           ceqw |-> "ceq", cnew |-> "cne"]

IsWide(op)   == op \notin DOMAIN Narrow
Unclassed(op) == IF IsWide(op) THEN op ELSE Narrow[op]

Stores == {"storeb", "storeh", "storew", "storel", "stores", "stored"}
Allocs == {"alloc4", "alloc8", "alloc16"}
Calls  == {"call", "arg", "argc"}
VarArg == {"vastart", "vaarg"}
Orders == {"cslt", "csle", "csgt", "csge", "csltw", "cslew", "csgtw", "csgew"}
Extensions == {"extub", "extsb", "extuw", "extsw"}
Pures  == {"copy", "madd", "msub", "nop"} \cup IntOps \cup DOMAIN Narrow \cup Orders \cup Extensions
Loads  == {"load", "loadub", "loadsb"}
Params == {"par"}
Opcodes == Stores \cup Allocs \cup Calls \cup VarArg \cup Pures \cup Loads \cup Params

HasSideEffects(ins) == ins.op \in Stores \cup Calls \cup VarArg \cup Allocs

Instruction == [op : Opcodes, to : Ref, arg : Seq(Ref)]
Phi         == [to : Ref, args : Seq(Ref), blks : Seq(Nat)]
Jump        == [type : {"none", "ret", "jmp", "jnz"}, arg : Ref]

TmpsOf_AnyKind(refs) == {r.val : r \in refs}             \* mutant

TmpsOf(refs) == {r.val : r \in {q \in refs : IsTmp(q)}}
Elems(s)     == {s[i] : i \in DOMAIN s}

Uses(ins) == TmpsOf(Elems(ins.arg))         \* temporaries an instruction reads
Defs(x)   == TmpsOf({x.to})                 \* what an instruction or phi writes

(***************************************************************************)
(* The shape every pass relies on: blocks 0 .. n-1, successors that are    *)
(* blocks of the function or nil, temporaries numbered below ntmp.         *)
(***************************************************************************)
Blocks(g) == 0 .. g.n - 1
Temps(g)  == 0 .. g.ntmp - 1

RefOK(g, r) == r \in Ref /\ (IsTmp(r) => r.val \in Temps(g))

IsFunction(g) ==
  /\ g.n \in Nat \ {0}
  /\ g.ntmp \in Nat
  /\ g.s1 \in [Blocks(g) -> Blocks(g) \cup {Nil}]
  /\ g.s2 \in [Blocks(g) -> Blocks(g) \cup {Nil}]
  /\ g.pred \in [Blocks(g) -> Seq(Blocks(g))]
  /\ g.phis \in [Blocks(g) -> Seq(Phi)]
  /\ g.ins \in [Blocks(g) -> Seq(Instruction)]
  /\ g.jmp \in [Blocks(g) -> Jump]
  /\ \A b \in Blocks(g) :
       /\ RefOK(g, g.jmp[b].arg)
       /\ \A i \in DOMAIN g.ins[b] :
            \A r \in Elems(g.ins[b][i].arg) \cup {g.ins[b][i].to} : RefOK(g, r)
       /\ \A i \in DOMAIN g.phis[b] :
            LET p == g.phis[b][i] IN
            /\ Len(p.args) = Len(p.blks)
            /\ \A r \in Elems(p.args) \cup {p.to} : RefOK(g, r)

Succs(g, b) == {g.s1[b], g.s2[b]} \ {Nil}

\* The blocks of W that paths from b through blocks of W lead to, b included.
ReachIn(g, b, W) ==
  LET after[k \in 0 .. g.n] ==
        IF k = 0 THEN {b}
        ELSE LET some == after[k - 1]
             IN  some \cup (W \cap (UNION {Succs(g, c) : c \in some}))
  IN  after[g.n]

(***************************************************************************)
(* FillPreds: for every block in order, the block is appended to the Pred  *)
(* list of its S1 and then of its S2; a block whose two successors are     *)
(* equal is listed twice.                                                  *)
(***************************************************************************)
Listed(g, b, c) == (IF g.s1[b] = c THEN <<b>> ELSE <<>>)
                     \o (IF g.s2[b] = c THEN <<b>> ELSE <<>>)

PredsOf(g, c) ==
  LET upto[k \in 0 .. g.n] ==
        IF k = 0 THEN <<>> ELSE upto[k - 1] \o Listed(g, k - 1, c)
  IN  upto[g.n]

FillPreds(g) == [g EXCEPT !.pred = [c \in Blocks(g) |-> PredsOf(g, c)]]

(***************************************************************************)
(* What FillRPO and FillPreds leave, and FillDom relies on: the blocks are *)
(* numbered so that every block but Start has a predecessor with a smaller *)
(* number, and Pred lists the sources of the edges.                        *)
(***************************************************************************)
InOrder(g) ==
  \A b \in Blocks(g) \ {0} : \E k \in DOMAIN g.pred[b] : g.pred[b][k] < b

PredsRight(g) ==
  \A b \in Blocks(g) : Elems(g.pred[b]) = {p \in Blocks(g) : b \in Succs(g, p)}

Prepared(g) == IsFunction(g) /\ InOrder(g) /\ PredsRight(g)
=============================================================================
