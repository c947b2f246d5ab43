------------------------------ MODULE Optimize ------------------------------
(***************************************************************************)
(* The optimisation passes of src/opt, each on functions of its own: SCCP, *)
(* CopyProp, GVN and DCE.  The first three are not called by main.go, so   *)
(* there is no order to compose them in: a behaviour runs one pass on one  *)
(* function in SSA form (DCE: in any form), with the tables other passes   *)
(* have left in it.                                                        *)
(***************************************************************************)
EXTENDS Fold, Semantics
LOCAL INSTANCE SequencesExt

CONSTANTS
  Inputs,     \* [pass, fn, out, dom, dlink]: the tables are what the pass reads
  Steps       \* how many blocks of a path the semantics is compared on

Passes == {"SCCP", "CopyProp", "GVN", "DCE"}

\* A function is a record with at least these fields (ir.Fn).
Fields == {"n", "ntmp", "s1", "s2", "pred", "phis", "ins", "jmp"}

HasFields(g) == g = [x \in DOMAIN g |-> g[x]] /\ Fields \subseteq DOMAIN g

\* An instruction has room for three operands (ir.Instruction), and in SSA form no
\* two phis or instructions write the same temporary.
ThreeArgs(g) == \A b \in Blocks(g) : \A ins \in Elems(g.ins[b]) : Len(ins.arg) = 3

SingleDefs(g) ==
  \A b, c \in Blocks(g) : \A x \in Elems(g.phis[b] \o g.ins[b]), y \in Elems(g.phis[c] \o g.ins[c]) :
    IsTmp(x.to) /\ x.to = y.to => x = y

ASSUME InputsAssumption ==
  \A i \in Inputs :
    /\ i.pass \in Passes
    /\ IsFunction(i.fn) /\ HasFields(i.fn)
    /\ ThreeArgs(i.fn) /\ (i.pass # "DCE" => SingleDefs(i.fn))
    /\ i.out \in [Blocks(i.fn) -> SUBSET Nat]

VARIABLES
  f, pass,
  source,                                       \* history: f as it was at first
  pos, changed,                                 \* the block a sweep is at, its flag
  lat, flowWL, ssaWL, todo, blockExec, spc,     \* SCCP
  cpy, cpc,                                     \* CopyProp
  dom, dlink, valueTable, replacements, scopes, next, gpc,   \* GVN
  out, i, live, dead, dpc                       \* DCE

sccpVars == <<lat, flowWL, ssaWL, todo, blockExec, spc>>
copyVars == <<cpy, cpc>>
gvnVars  == <<dom, dlink, valueTable, replacements, scopes, next, gpc>>
dceVars  == <<out, i, live, dead, dpc>>
vars == <<f, pass, source, pos, changed, sccpVars, copyVars, gvnVars, dceVars>>

Constant == INSTANCE SCCP WITH pc <- spc
Copying == INSTANCE CopyProp WITH pc <- cpc
Numbering == INSTANCE GVN WITH pc <- gpc
Dead == INSTANCE DCE WITH pc <- dpc

Init ==
  /\ \E input \in Inputs :
       /\ f = input.fn /\ pass = input.pass
       /\ out = input.out /\ dom = input.dom /\ dlink = input.dlink
  /\ source = f
  /\ Constant!Start /\ Copying!Start /\ Numbering!Start /\ Dead!Start

RunSCCP ==
  /\ pass = "SCCP" /\ Constant!Step
  /\ UNCHANGED <<pass, source, changed, copyVars, gvnVars, dceVars>>

RunCopyProp ==
  /\ pass = "CopyProp" /\ Copying!Step
  /\ UNCHANGED <<pass, source, sccpVars, gvnVars, dceVars>>

RunGVN ==
  /\ pass = "GVN" /\ Numbering!Step
  /\ UNCHANGED <<pass, source, pos, changed, sccpVars, copyVars, dceVars>>

RunDCE ==
  /\ pass = "DCE" /\ Dead!Step
  /\ UNCHANGED <<pass, source, sccpVars, copyVars, gvnVars>>

Next == RunSCCP \/ RunCopyProp \/ RunGVN \/ RunDCE

Spec == Init /\ [][Next]_vars /\ WF_vars(Next)

Done == "done" \in {spc, cpc, gpc, dpc}

-----------------------------------------------------------------------------
(***************************************************************************)
(* TypeOK: what a pass leaves of the function is a function, at every      *)
(* step, and its tables speak of the function's temporaries and blocks.    *)
(***************************************************************************)
TypeOK ==
  /\ IsFunction(f)
  /\ pos \in 0 .. f.n /\ changed \in BOOLEAN
  /\ DOMAIN lat = Temps(f) /\ Elems(flowWL) \cup blockExec \subseteq Blocks(f)
  /\ ssaWL \subseteq Temps(f)
  /\ \A t \in Temps(f) : RefOK(f, cpy[t]) /\ RefOK(f, replacements[t])
  /\ next \in Blocks(f) \cup {Nil} /\ Len(scopes) <= f.n
  /\ Dead!InBlock

(***************************************************************************)
(* Preserved: on every path the function does what it did before the pass, *)
(* and with DCE, which sweeps again and again, after every block of every  *)
(* sweep.  DCE needs Out sets that hold at least what is live on leaving a *)
(* block; SCCP, constants that no phi and no jump reads from an            *)
(* instruction.                                                            *)
(***************************************************************************)
Comparable ==
  CASE pass = "SCCP" -> Done /\ Constant!Replaceable(source, lat)
    [] pass = "DCE"  -> dpc \in {"block", "done"}
    [] OTHER -> Done

Preserved == Comparable => Behaves(f, source, Steps)

(***************************************************************************)
(* Settled: a pass leaves nothing it would still remove: no instruction or *)
(* phi that is dead by the Out sets, no copy of a temporary, no expression *)
(* that a dominator has computed.                                          *)
(***************************************************************************)
Settled ==
  Done => CASE pass = "DCE" -> Dead!NothingDead
            [] pass = "CopyProp" -> Copying!NoCopies
            [] pass = "GVN" -> Numbering!NothingTwice
            [] pass = "SCCP" -> TRUE

(***************************************************************************)
(* Confluent: whichever temporary the runtime takes from the map each      *)
(* time, SCCP ends with the same lattice values, the greatest solution of  *)
(* its equations: no change of a temporary is left without a visit of its  *)
(* uses, and no constant is given up for the order of the visits.          *)
(***************************************************************************)
Confluent == spc \in {"transform", "done"} => lat = Constant!Solution(source)

(***************************************************************************)
(* ConstantsHold: a temporary that SCCP takes for a constant has that      *)
(* value on every path, each time it is written.                           *)
(***************************************************************************)
Reached(turns) ==                       \* the executions after 0, 1, ... blocks
  LET run[k \in 0 .. Steps] ==
        IF k = 0 THEN Begin(source) ELSE RunBlock(source, run[k - 1], turns)
  IN  {run[k] : k \in 0 .. Steps}

ConstantsHold ==
  spc = "transform" /\ pos = 0 =>
    \A turns \in Turns(source, Steps) : \A x \in Reached(turns) : \A t \in Temps(source) :
      Constant!IsCon(lat[t]) => x.env[t] \in {Unknown, Literal(lat[t][2])}

(***************************************************************************)
(* Descends: what SCCP knows of a temporary only ever goes down, from Top  *)
(* to one constant to Bot, which is why its work lists run empty.          *)
(***************************************************************************)
Descends ==
  [][\A t \in Temps(f) : lat'[t] = lat[t] \/ lat[t] = <<"top">> \/ lat'[t] = <<"bot">>]_vars

(***************************************************************************)
(* Termination: every pass comes to an end, round loops and for every      *)
(* order in which the map of SCCP gives its keys.                          *)
(***************************************************************************)
Termination == <>Done
=============================================================================
