------------------------------- MODULE Lower -------------------------------
(***************************************************************************)
(* The back of the pipeline (src/main.go:69-76): PhiElim, Spill, ABI0,     *)
(* Allocate and Emit, one after the other on the same function.  What one  *)
(* pass leaves is what the next one finds: PhiElim computes In and Out,    *)
(* Spill overwrites them, ABI0 puts instructions between, and Allocate     *)
(* reads the sets; Emit reads what Allocate wrote into the code.           *)
(***************************************************************************)
EXTENDS Machine

CONSTANTS
  Functions,  \* functions in SSA form
  ToText,     \* those that are followed past PhiElim
  Word,       \* as in FillRPO
  NGPR,       \* how many registers Spill believes there are
  Steps       \* how many blocks of a path the semantics is compared on

Fields == {"n", "ntmp", "s1", "s2", "pred", "phis", "ins", "jmp", "loop"}

(***************************************************************************)
(* SSA has numbered the blocks, and neither Simplify nor DCE touches the   *)
(* graph; a block PhiElim adds is for an edge of the function.             *)
(***************************************************************************)
ASSUME FunctionsAssumption ==
  /\ ToText \subseteq Functions /\ Word \in Nat
  /\ \A g \in Functions :
       /\ Prepared(g) /\ Fields \subseteq DOMAIN g /\ 3 * g.n + 1 < Word
       /\ g.loop \in [Blocks(g) -> Nat]
       /\ \A b \in Blocks(g) : \A i \in DOMAIN g.phis[b] :
            Elems(g.phis[b][i].blks) \subseteq Elems(g.pred[b])

VARIABLES
  f,                                                         \* the function
  in, out,                     \* block -> temporaries live at its start and end
  source,                      \* history: the function PhiElim was given
  noPhis,                      \* history: the function PhiElim has left
  edgeCopies, pred, id, stack, x, call, rpc, lpos, lchanged, lpc, ppc,  \* PhiElim
  slot, spos, sj, slive, spc,                                \* Spill
  apos, apc,                                                 \* ABI0
  st, pos, j, round, pc,                                     \* Allocate
  asm, code, pending, epos, ei, epc                          \* Emit

phiVars   == <<edgeCopies, pred, id, stack, x, call, rpc, lpos, lchanged, lpc, ppc>>
spillVars == <<slot, spos, sj, slive, spc>>
abiVars   == <<apos, apc>>
raVars    == <<st, pos, j, round, pc>>
emitVars  == <<asm, code, pending, epos, ei, epc>>
vars == <<f, in, out, source, noPhis, phiVars, spillVars, abiVars, raVars, emitVars>>

Phis    == INSTANCE PhiElim WITH pc <- ppc
Spiller == INSTANCE Spill WITH K <- NGPR, pos <- spos, j <- sj, live <- slive, pc <- spc
Abi     == INSTANCE ABI0 WITH pos <- apos, pc <- apc
Alloc   == INSTANCE RegAlloc
Emitter == INSTANCE Emit WITH pos <- epos, i <- ei, pc <- epc

Init ==
  /\ f \in Functions /\ source = f /\ noPhis = f
  /\ Phis!Start
  /\ Spiller!Start /\ Abi!Start /\ Alloc!Start /\ Emitter!Start

RunPhiElim ==
  /\ Phis!Step
  /\ UNCHANGED <<source, noPhis, spillVars, abiVars, raVars, emitVars>>

PhisLeft == ppc = "done" /\ spc = "call"          \* PhiElim has just returned

CallSpill ==
  /\ PhisLeft /\ source \in ToText
  /\ Spiller!Call
  /\ noPhis' = f
  /\ UNCHANGED <<source, phiVars, abiVars, raVars, emitVars>>

RunSpill ==
  /\ Spiller!Step
  /\ UNCHANGED <<source, noPhis, phiVars, abiVars, raVars, emitVars>>

RunABI0 ==
  /\ spc = "done"
  /\ Abi!Step
  /\ UNCHANGED <<in, out, source, noPhis, phiVars, spillVars, raVars, emitVars>>

Allocate ==
  /\ apc = "done"
  /\ Alloc!Step
  /\ UNCHANGED <<source, noPhis, phiVars, spillVars, abiVars, emitVars>>

RunEmit ==
  /\ pc = "done"
  /\ Emitter!Step
  /\ UNCHANGED <<in, out, source, noPhis, phiVars, spillVars, abiVars, raVars>>

Next == RunPhiElim \/ CallSpill \/ RunSpill \/ RunABI0 \/ Allocate \/ RunEmit

Spec == Init /\ [][Next]_vars /\ WF_vars(Next)
-----------------------------------------------------------------------------
(***************************************************************************)
(* TypeOK: the function stays well formed while blocks are added and edges *)
(* redirected, spill code and copies put in and temporaries replaced, and  *)
(* every new temporary is counted.                                         *)
(***************************************************************************)
TypeOK ==
  /\ IsFunction(f) /\ f.loop \in [Blocks(f) -> Nat]
  /\ DOMAIN edgeCopies \subseteq Blocks(f) \X Blocks(f)
  /\ ppc = "done" =>
       in \in [Blocks(f) -> SUBSET Temps(f)] /\ out \in [Blocks(f) -> SUBSET Temps(f)]
  /\ spc # "call" => DOMAIN slot = Temps(f)
  /\ ppc \in {"collect", "edges", "number", "live", "done"}
  /\ spc \in {"call", "block", "scan", "rewrite", "done"} /\ apc \in {"lower", "done"}
  /\ pc \in {"block", "scan", "done", "panic"} /\ epc \in {"block", "ins", "done"}

(***************************************************************************)
(* PhisGone: the copies do on every edge what the phis did, whatever the   *)
(* order the maps give the edges in, and renumbering does not change it.   *)
(* PhiElim promises this for every function ("It handles parallel copy     *)
(* semantics by using intermediate temporaries", phi_elim.go:11).          *)
(***************************************************************************)
PhisGone == PhisLeft => Behaves(f, source, Steps)

(***************************************************************************)
(* Ready: what Spill and Allocate take over.  There are no phis, Pred      *)
(* lists the edges as they are now, the new blocks are numbered in order,  *)
(* and In and Out solve the equations of the code with the copies in it.   *)
(***************************************************************************)
Ready ==
  PhisLeft =>
    /\ \A b \in Blocks(f) : /\ f.phis[b] = <<>>
                            /\ Elems(f.pred[b]) = {p \in Blocks(f) : b \in Succs(f, p)}
    /\ \A p \in Blocks(f) : \A b \in Succs(f, p) :
         p >= b => p \in ReachIn(f, b, b .. f.n - 1)
    /\ Phis!Solution

(***************************************************************************)
(* Apart: while a block is scanned, two temporaries that hold registers    *)
(* hold different ones, and no register a temporary holds counts as free.  *)
(* Copies to argument registers free them without asking whose they are    *)
(* (rega.go:126), and temporary 0 stands for no temporary.                 *)
(***************************************************************************)
Apart ==
  pc = "scan" =>
    /\ \A t, u \in DOMAIN st.t2r \ {0} : t # u => st.t2r[t] # st.t2r[u]
    /\ \A t \in DOMAIN st.t2r \ {0} : st.t2r[t] \in st.live

(***************************************************************************)
(* AllRegisters: the pool is never exhausted ("Register pressure too       *)
(* high!", rega.go:188), and no temporary is left, neither in an           *)
(* instruction nor in a jump: what TestRegAlloc asks of one block          *)
(* (ra_test.go:32) for every block and jump.                               *)
(***************************************************************************)
Refs(b) == {f.jmp[b].arg} \cup
             (UNION {{ins.to} \cup Elems(ins.arg) : ins \in Elems(f.ins[b])})

AllRegisters ==
  /\ pc # "panic"
  /\ pc = "done" => \A b \in Blocks(f) : TmpsOf(Refs(b)) = {}

(***************************************************************************)
(* SavesAll: the prologue saves every callee-saved register that the text  *)
(* of any block writes (Emit, emit.go:24, saves F.CalleeSaved).            *)
(***************************************************************************)
SavesAll ==
  epc = "done" =>
    \A k \in DOMAIN asm : \A ins \in Elems(asm[k].code) :
      IsReg(ins.to) /\ ins.to.val \in CalleeSave => ins.to.val \in st.saved

(***************************************************************************)
(* Preserved: run on registers, slots, flags and the calling convention,   *)
(* the text shows what the function without phis shows, along every path.  *)
(* A temporary that is live across a call survives it: assign has a        *)
(* parameter "calleeSavedOnly" for that (rega.go:171).  A comparison that  *)
(* is held back is written before its result is read, or only sets the     *)
(* flags when the branch reads it.  (Nothing else may read it then, and    *)
(* nothing may write its operands while it is held: emit.go:76, :142.)     *)
(***************************************************************************)
Preserved == epc = "done" => Implements(Emitter!Assembled, noPhis, Steps)
=============================================================================
