------------------------------ MODULE CopyProp ------------------------------
(***************************************************************************)
(* CopyProp (src/opt/copy.go): copy propagation over SSA form.  Sweeps     *)
(* over the blocks note, for every temporary, what it is a copy of: the    *)
(* operand of a copy, or the common root of all the arguments of a phi.    *)
(* When a sweep notes nothing new, reads are replaced by roots, and the    *)
(* copies and phis that are no longer read are dropped.                    *)
(***************************************************************************)
EXTENDS QbeIR
LOCAL INSTANCE SequencesExt

\* Definitions marked "mutant" are slips the properties must catch; no other
\* definition uses them.

VARIABLES
  f,          \* the function
  cpy,        \* what every temporary is a copy of, itself at first
  pos,        \* the block the sweep is at
  changed,    \* the sweep has noted something new
  pc          \* "sweep", "replace" or "done"

copyVars == <<cpy, pos, changed, pc>>

Start == cpy = [t \in Temps(f) |-> Tmp(t)] /\ pos = 0 /\ changed = FALSE /\ pc = "sweep"

(***************************************************************************)
(* findRoot follows cpy by number, whatever the kind of the reference it   *)
(* has reached, up to one that is its own copy.  In a cycle it never ends, *)
(* and nothing is Followed from a temporary of the cycle.                  *)
(***************************************************************************)
Followed(c, r) ==
  LET after[k \in 0 .. f.ntmp] == IF k = 0 THEN r ELSE c[after[k - 1].val]
  IN  after[f.ntmp]

Hangs(c) == \E t \in Temps(f) : c[Followed(c, Tmp(t)).val] # Followed(c, Tmp(t))

FindRoot(c, r) == IF IsTmp(r) THEN Followed(c, r) ELSE r

-----------------------------------------------------------------------------
IsPhi(x) == "args" \in DOMAIN x

Sources(x) == IF IsPhi(x) THEN Elems(x.args) ELSE {x.arg[1]}

IsCopy(c, x) ==
  IF IsPhi(x) THEN Cardinality({FindRoot(c, r) : r \in Sources(x)}) = 1
  ELSE x.op = "copy" /\ IsTmp(x.to) /\ IsTmp(x.arg[1])

Note(s, x) ==
  LET root == FindRoot(s.cpy, CHOOSE r \in Sources(x) : TRUE)
  IN  IF IsCopy(s.cpy, x) /\ s.cpy[x.to.val] # root
        THEN [cpy |-> [s.cpy EXCEPT ![x.to.val] = root], changed |-> TRUE]
        ELSE s

SweepBlock ==
  /\ pc = "sweep" /\ pos < f.n /\ ~Hangs(cpy)
  /\ LET s == FoldLeft(Note, [cpy |-> cpy, changed |-> changed], f.ins[pos] \o f.phis[pos])
     IN  cpy' = s.cpy /\ changed' = s.changed
  /\ pos' = pos + 1
  /\ UNCHANGED <<f, pc>>

EndSweep_Once ==                                          \* mutant
  /\ pc = "sweep" /\ pos >= f.n
  /\ pos' = 0 /\ changed' = FALSE /\ pc' = "replace"
  /\ UNCHANGED <<f, cpy>>

EndSweep ==
  /\ pc = "sweep" /\ pos >= f.n
  /\ pos' = 0 /\ changed' = FALSE
  /\ pc' = IF changed THEN "sweep" ELSE "replace"
  /\ UNCHANGED <<f, cpy>>

-----------------------------------------------------------------------------
Root(r) == FindRoot(cpy, r)

RootsOf(refs) == [k \in DOMAIN refs |-> Root(refs[k])]

Replaced(x) == IF IsPhi(x) THEN [x EXCEPT !.args = RootsOf(@)] ELSE [x EXCEPT !.arg = RootsOf(@)]

\* A phi, or a copy, whose result is a copy of something else.
Redundant(x) == (IsPhi(x) \/ (x.op = "copy" /\ IsTmp(x.to))) /\ Root(x.to) # x.to

ReplacedIn(s) ==
  LET kept == SelectSeq(s, LAMBDA x : ~Redundant(x))
  IN  [k \in DOMAIN kept |-> Replaced(kept[k])]

ReplaceBlock ==
  /\ pc = "replace" /\ pos < f.n /\ ~Hangs(cpy)
  /\ f' = [f EXCEPT !.ins[pos] = ReplacedIn(@), !.phis[pos] = ReplacedIn(@),
                    !.jmp[pos].arg = Root(@)]
  /\ pos' = pos + 1
  /\ UNCHANGED <<cpy, changed, pc>>

Finish ==
  /\ pc = "replace" /\ pos >= f.n
  /\ pc' = "done"
  /\ UNCHANGED <<f, cpy, pos, changed>>

Step == SweepBlock \/ EndSweep \/ ReplaceBlock \/ Finish

-----------------------------------------------------------------------------
(***************************************************************************)
(* Nothing is left to propagate: no copy of a temporary, and no phi all    *)
(* the arguments of which are one value.                                   *)
(***************************************************************************)
NoCopies ==
  \A b \in Blocks(f) :
    /\ \A ins \in Elems(f.ins[b]) : ins.op = "copy" => ~IsTmp(ins.arg[1])
    /\ \A p \in Elems(f.phis[b]) : Cardinality(Elems(p.args)) > 1
=============================================================================
