-------------------------------- MODULE SCCP --------------------------------
(***************************************************************************)
(* SCCP (src/opt/sccp.go): constant propagation over SSA form.  Every      *)
(* temporary has a lattice value, Top until something is known of it, then *)
(* a constant, then Bot.  Blocks wait in a queue, in order; temporaries    *)
(* whose value changed wait in a Go map, so which of them is taken next is *)
(* a choice of the runtime.  When nothing waits the constants are written  *)
(* into the code.                                                          *)
(*                                                                         *)
(* visitPhi merges all the arguments and visitJump queues both successors, *)
(* whatever is known of the condition: the pass does not read edgeExec.    *)
(***************************************************************************)
EXTENDS Fold, Semantics
LOCAL INSTANCE SequencesExt

Join == INSTANCE SequencesExt             \* by name, for the proofs to refer to

\* Definitions marked "mutant" are slips the properties must catch; no other
\* definition uses them.

VARIABLES
  f,          \* the function, with its table of constants f.con
  lat,        \* states: the lattice value of every temporary
  flowWL,     \* the blocks that wait
  ssaWL,      \* the temporaries that wait
  todo,       \* what is still to be visited of a block, or of the uses of a temporary
  blockExec,  \* the blocks that have been visited
  pos,        \* the block transform is at
  pc          \* "flow", "transform" or "done"

sccpVars == <<lat, flowWL, ssaWL, todo, blockExec, pos, pc>>

Top    == <<"top">>
Bot    == <<"bot">>
Is(v)  == <<"con", v>>
IsCon(s) == s[1] = "con"

Start ==
  /\ lat = [t \in Temps(f) |-> Top]
  /\ flowWL = <<0>> /\ ssaWL = {} /\ todo = <<>> /\ blockExec = {}
  /\ pos = 0 /\ pc = "flow"

-----------------------------------------------------------------------------
Merge_LastWins(s, r) ==                                   \* mutant
  IF Bot \in {s, r} THEN Bot ELSE IF r = Top THEN s ELSE r

Merge(s, r) ==                                            \* mergeLat
  IF Bot \in {s, r} THEN Bot ELSE IF s = Top THEN r ELSE IF r \in {Top, s} THEN s ELSE Bot

(***************************************************************************)
(* getLat.  An argument that is not there, Undef, is read as the first     *)
(* constant of the function.                                               *)
(***************************************************************************)
LatOf(g, l, r) ==
  IF r.kind = "RCon" THEN Is(g.con[r.val + 1])
  ELSE IF r.kind = "RInt" THEN Is(Immediate(r.val))
  ELSE IF IsTmp(r) THEN l[r.val] ELSE Bot

PhiLat(g, l, p) ==
  LET upto[k \in 0 .. Len(p.args)] ==
        IF k = 0 THEN Top ELSE Merge(upto[k - 1], LatOf(g, l, p.args[k]))
  IN  upto[Len(p.args)]

\* A second operand that is Undef does not count; Fold is then given zero for it.
InsLat(g, l, ins) ==
  LET binary == ~IsUndef(ins.arg[2])
      s1 == LatOf(g, l, ins.arg[1])
      s2 == IF binary THEN LatOf(g, l, ins.arg[2]) ELSE Is(0)
      v  == FoldInt(Unclassed(ins.op), IsWide(ins.op), s1[2], s2[2])
  IN  IF Bot \in {s1, s2} THEN Bot ELSE IF Top \in {s1, s2} THEN Top
      ELSE IF v = NoFold THEN Bot ELSE Is(v)

IsPhi(x) == "args" \in DOMAIN x

ValueOf(g, l, x) == IF IsPhi(x) THEN PhiLat(g, l, x) ELSE InsLat(g, l, x)

(***************************************************************************)
(* One visit: the value of what x defines.  A change is recorded, and the  *)
(* temporary waits for its uses to be visited.                             *)
(***************************************************************************)
Visit ==
  /\ pc = "flow" /\ todo # <<>>
  /\ LET x == Head(todo)  v == ValueOf(f, lat, x) IN
     IF ~IsTmp(x.to) \/ v = lat[x.to.val] THEN UNCHANGED <<lat, ssaWL>>
     ELSE lat' = [lat EXCEPT ![x.to.val] = v] /\ ssaWL' = ssaWL \cup {x.to.val}
  /\ todo' = Tail(todo)
  /\ UNCHANGED <<f, flowWL, blockExec, pos, pc>>

\* visitJump: both successors.
JumpsTo(b) == (IF f.s1[b] = Nil THEN <<>> ELSE <<f.s1[b]>>)
                \o (IF f.s2[b] = Nil THEN <<>> ELSE <<f.s2[b]>>)

ItemsOf(g, b) == g.phis[b] \o g.ins[b]

Idle == pc = "flow" /\ todo = <<>>

SkipBlock ==                            \* the first waiting block has been visited
  /\ Idle /\ flowWL # <<>> /\ Head(flowWL) \in blockExec
  /\ flowWL' = Tail(flowWL)
  /\ UNCHANGED <<f, lat, ssaWL, todo, blockExec, pos, pc>>

VisitBlock ==
  /\ Idle /\ flowWL # <<>> /\ Head(flowWL) \notin blockExec
  /\ LET b == Head(flowWL) IN
     /\ blockExec' = blockExec \cup {b}
     /\ todo' = ItemsOf(f, b)
     /\ flowWL' = Tail(flowWL) \o JumpsTo(b)
  /\ UNCHANGED <<f, lat, ssaWL, pos, pc>>

(***************************************************************************)
(* The Uses of t, as FillUse lists them: block by block the phis and the   *)
(* instructions that read it, and the jump.                                *)
(***************************************************************************)
Reads(x, t) == Tmp(t) \in Elems(IF IsPhi(x) THEN x.args ELSE x.arg)

UsedBy(t, b) ==
  Join!FlattenSeq([k \in DOMAIN ItemsOf(f, b) |->
    IF Reads(ItemsOf(f, b)[k], t) THEN <<ItemsOf(f, b)[k]>> ELSE <<>>])

\* The parts of the blocks that have been visited, one after the other.
InVisited(part) ==
  Join!FlattenSeq([k \in 1 .. f.n |-> IF k - 1 \in blockExec THEN part[k - 1] ELSE <<>>])

UsesOf_FirstBlock(t) == UsedBy(t, 0)                      \* mutant

UsesOf(t) == InVisited([b \in Blocks(f) |-> UsedBy(t, b)])

JumpsOn(t) ==
  InVisited([b \in Blocks(f) |-> IF f.jmp[b].arg = Tmp(t) THEN JumpsTo(b) ELSE <<>>])

VisitUses(t) ==                         \* t is taken from the map
  /\ Idle /\ flowWL = <<>> /\ t \in ssaWL
  /\ ssaWL' = ssaWL \ {t}
  /\ todo' = UsesOf(t) /\ flowWL' = JumpsOn(t)
  /\ UNCHANGED <<f, lat, blockExec, pos, pc>>

Propagated ==
  /\ Idle /\ flowWL = <<>> /\ ssaWL = {}
  /\ pc' = "transform"
  /\ UNCHANGED <<f, lat, flowWL, ssaWL, todo, blockExec, pos>>

-----------------------------------------------------------------------------
(***************************************************************************)
(* transform: in a visited block, the arguments of instructions that have  *)
(* a constant value are replaced, in order, and the instructions that      *)
(* define one become nops.  Phis and jumps are left as they are.  GetCon   *)
(* appends a value to the table of constants if it is not there; the       *)
(* numbers of those that are do not change.                                *)
(***************************************************************************)
Known(r) == IsTmp(r) /\ IsCon(lat[r.val])

GetCon(con, v) == IF v \in Elems(con) THEN con ELSE Append(con, v)

ReadIn(b) == FlattenSeq([k \in DOMAIN f.ins[b] |-> SelectSeq(f.ins[b][k].arg, Known)])

NewTable(b) == FoldLeft(LAMBDA con, r : GetCon(con, lat[r.val][2]), f.con, ReadIn(b))

Replaced(con, r) ==
  IF Known(r) THEN Con((CHOOSE k \in DOMAIN con : con[k] = lat[r.val][2]) - 1) ELSE r

TransformedIns(con, ins) ==
  [ins EXCEPT !.arg = [k \in DOMAIN @ |-> Replaced(con, @[k])],
              !.op = IF Known(ins.to) THEN "nop" ELSE @]

TransformBlock ==
  /\ pc = "transform" /\ pos < f.n
  /\ f' = IF pos \in blockExec
            THEN [f EXCEPT !.con = NewTable(pos),
                           !.ins[pos] = [k \in DOMAIN @ |-> TransformedIns(NewTable(pos), @[k])]]
            ELSE [f EXCEPT !.ins[pos] = <<>>, !.phis[pos] = <<>>, 
                             !.jmp[pos] = [type |-> "none", arg |-> Tmp(0)]]
  /\ pos' = pos + 1
  /\ UNCHANGED <<lat, flowWL, ssaWL, todo, blockExec, pc>>

Finish ==
  /\ pc = "transform" /\ pos >= f.n
  /\ pc' = "done"
  /\ UNCHANGED <<f, lat, flowWL, ssaWL, todo, blockExec, pos>>

Step ==
  \/ Visit \/ SkipBlock \/ VisitBlock \/ (\E t \in ssaWL : VisitUses(t)) \/ Propagated
  \/ TransformBlock \/ Finish

-----------------------------------------------------------------------------
(***************************************************************************)
(* What the lattice values should be: the greatest solution of the         *)
(* equations of the blocks that can run.  A round evaluates every          *)
(* definition; a temporary goes down twice at most.                        *)
(***************************************************************************)
Work(g, B) == UNION {Elems(ItemsOf(g, b)) : b \in B}

Evaluated(g, l) ==
  LET items == Work(g, ReachIn(g, 0, Blocks(g)))
      defs(t) == {x \in items : x.to = Tmp(t)}
  IN  [t \in Temps(g) |-> IF defs(t) = {} THEN Top ELSE ValueOf(g, l, CHOOSE x \in defs(t) : TRUE)]

Solution(g) ==
  LET round[k \in 0 .. 2 * g.ntmp] ==
        IF k = 0 THEN [t \in Temps(g) |-> Top] ELSE Evaluated(g, round[k - 1])
  IN  round[2 * g.ntmp]

(***************************************************************************)
(* transform does not look at phis and jumps, so an instruction that has   *)
(* become a nop should not be one that they read.                          *)
(***************************************************************************)
Replaceable(g, l) ==
  \A b \in Blocks(g) : \A ins \in Elems(g.ins[b]) :
    IsTmp(ins.to) /\ IsCon(l[ins.to.val]) =>
      \A c \in Blocks(g) : /\ g.jmp[c].arg # ins.to
                           /\ \A p \in Elems(g.phis[c]) : ins.to \notin Elems(p.args)
=============================================================================
