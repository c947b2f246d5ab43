-------------------------------- MODULE GVN --------------------------------
(***************************************************************************)
(* GVN (src/opt/gvn.go): global value numbering over SSA form.  A walk     *)
(* down the dominator tree keeps a table from expressions to temporaries:  *)
(* what is in the table has been computed by a dominator.  An instruction  *)
(* that computes it again is dropped and its result replaced, from there   *)
(* on; the phis and jumps are brought up to date when the walk is over.    *)
(* On the way back a block takes its own expressions out of the table.     *)
(***************************************************************************)
EXTENDS QbeIR
LOCAL INSTANCE SequencesExt
LOCAL INSTANCE TLC

\* Definitions marked "mutant" are slips the properties must catch; no other
\* definition uses them.

VARIABLES
  f,             \* the function
  dom, dlink,    \* its dominator tree, as FillDom threads it: read only
  valueTable,    \* expression -> the temporary that holds it
  replacements,  \* what every temporary is replaced by, itself at first
  scopes,        \* the open calls of walk: [blk, keys], the innermost last
  next,          \* the block walk is called on next, Nil if there is none
  pc             \* "walk" or "done"

gvnVars == <<dom, dlink, valueTable, replacements, scopes, next, pc>>

Start ==
  /\ valueTable = <<>> /\ replacements = [t \in Temps(f) |-> Tmp(t)]
  /\ scopes = <<>> /\ next = 0 /\ pc = "walk"

-----------------------------------------------------------------------------
Commutative == {"add", "mul", "and", "or", "xor", "ceq",
                "addw", "mulw", "andw", "orw", "xorw", "ceqw"}

InsExpr_AllCommute(ins) ==                                \* mutant
  LET swap == ins.arg[1].val > ins.arg[2].val
  IN  <<ins.op, IF swap THEN <<ins.arg[2], ins.arg[1], ins.arg[3]>> ELSE ins.arg>>

InsExpr(ins) ==                         \* formatInsExpr
  LET swap == ins.op \in Commutative /\ ins.arg[1].val > ins.arg[2].val
  IN  <<ins.op, IF swap THEN <<ins.arg[2], ins.arg[1], ins.arg[3]>> ELSE ins.arg>>

PhiExpr(p) == <<"phi", p.args, p.blks>> \* formatPhiExpr: the arguments as they are

(***************************************************************************)
(* An expression x.to computes: found in the table, or put there.          *)
(***************************************************************************)
Lookup(s, expr, to) ==
  IF expr \in DOMAIN s.table
    THEN [s EXCEPT !.repl[to.val] = s.table[expr]]
    ELSE [s EXCEPT !.table = @ @@ (expr :> to), !.keys = Append(@, expr)]

AfterPhi(s, p) == Lookup(s, PhiExpr(p), p.to)

Replace(repl, r) == IF IsTmp(r) THEN repl[r.val] ELSE r

AfterIns(s, ins) ==
  LET now  == [ins EXCEPT !.arg = [k \in DOMAIN @ |-> Replace(s.repl, @[k])]]
      expr == InsExpr(now)
      keep == [s EXCEPT !.ins = Append(@, now)]
  IN  CASE ins.op = "nop" -> s
        [] ins.op # "nop" /\ (IsUndef(ins.to) \/ HasSideEffects(ins)) -> keep
        [] OTHER -> Lookup(IF expr \in DOMAIN s.table THEN s ELSE keep, expr, ins.to)

Walk ==                                 \* a call of walk, up to its recursion
  /\ pc = "walk" /\ next # Nil
  /\ LET s == FoldLeft(AfterIns,
                FoldLeft(AfterPhi, [table |-> valueTable, repl |-> replacements,
                                    keys |-> <<>>, ins |-> <<>>], f.phis[next]), f.ins[next])
     IN  /\ valueTable' = s.table /\ replacements' = s.repl
         /\ scopes' = Append(scopes, [blk |-> next, keys |-> s.keys])
         /\ f' = [f EXCEPT !.ins[next] = s.ins]
  /\ next' = dom[next]
  /\ UNCHANGED <<dom, dlink, pc>>

Leave ==                                \* its return: the next child of the parent
  /\ pc = "walk" /\ next = Nil /\ scopes # <<>>
  /\ valueTable' = [e \in DOMAIN valueTable \ Elems(Last(scopes).keys) |-> valueTable[e]]
  /\ next' = dlink[Last(scopes).blk]
  /\ scopes' = Front(scopes)
  /\ UNCHANGED <<f, dom, dlink, replacements, pc>>

Update ==                               \* the jumps and the arguments of the phis
  /\ pc = "walk" /\ next = Nil /\ scopes = <<>>
  /\ LET now(r) == Replace(replacements, r)
         with(p) == [p EXCEPT !.args = [k \in DOMAIN @ |-> now(@[k])]]
     IN  f' = [f EXCEPT !.jmp  = [b \in Blocks(f) |-> [@[b] EXCEPT !.arg = now(@)]],
                        !.phis = [b \in Blocks(f) |-> [k \in DOMAIN @[b] |-> with(@[b][k])]]]
  /\ pc' = "done"
  /\ UNCHANGED <<dom, dlink, valueTable, replacements, scopes, next>>

Step == Walk \/ Leave \/ Update

-----------------------------------------------------------------------------
(***************************************************************************)
(* Nothing is left twice: no block computes what a block above it in the   *)
(* tree, or itself, computes.  A sum is the same in either order, unless   *)
(* a temporary and a constant that have the same number are added: these   *)
(* two the pass tells apart by their order.                                *)
(***************************************************************************)
Children(b) ==
  LET from[k \in 0 .. f.n] ==
        IF k = 0 THEN {dom[b]} \ {Nil}
        ELSE from[k - 1] \cup ({dlink[c] : c \in from[k - 1]} \ {Nil})
  IN  from[f.n]

Above(b) ==                             \* the blocks that dominate b, b included
  LET up[k \in 0 .. f.n] ==
        IF k = 0 THEN {b} ELSE up[k - 1] \cup {c \in Blocks(f) : Children(c) \cap up[k - 1] # {}}
  IN  up[f.n]

Meaning(ins) ==
  LET a == ins.arg[1]  c == ins.arg[2]
  IN  <<ins.op, IF ins.op \in Commutative /\ (a.val # c.val \/ a = c)
                  THEN <<{a, c}, ins.arg[3]>> ELSE ins.arg>>

Computations ==                         \* where they are: block and place
  {p \in UNION {{b} \X DOMAIN f.ins[b] : b \in Blocks(f)} :
     LET ins == f.ins[p[1]][p[2]] IN ~IsUndef(ins.to) /\ ~HasSideEffects(ins)}

NothingTwice ==
  \A p, q \in Computations :
    p # q /\ q[1] \in Above(p[1]) =>
      Meaning(f.ins[p[1]][p[2]]) # Meaning(f.ins[q[1]][q[2]])
=============================================================================
