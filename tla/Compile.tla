------------------------------ MODULE Compile ------------------------------
(***************************************************************************)
(* The front of the pipeline (src/main.go:66-68): SSA, Simplify and DCE,   *)
(* one after the other on the same function.  What one pass leaves in the  *)
(* function's tables is what the next one finds: Simplify reads the NUse   *)
(* and Def that the last FillUse of SSA wrote, and DCE the Out sets of the *)
(* Liveness that SSA ran before it renamed the temporaries.                *)
(***************************************************************************)
EXTENDS Verify

VARIABLES
  ppos, pi, ppc,                               \* Simplify
  cpos, ci, live, dead, cchanged, cpc          \* DCE

peepVars == <<ppos, pi, ppc>>
dceVars  == <<cpos, ci, live, dead, cchanged, cpc>>

Peep == INSTANCE Simplify WITH pos <- ppos, i <- pi, pc <- ppc
Dead == INSTANCE DCE WITH pos <- cpos, i <- ci, changed <- cchanged, pc <- cpc

CompileInit == Init /\ Peep!Start /\ Dead!Start

RunSSA == Next /\ UNCHANGED <<peepVars, dceVars>>

RunSimplify ==
  /\ pc = "done"
  /\ Peep!Step
  /\ UNCHANGED <<source, domVars, liveVars, phiVars, renameVars, pc, dceVars>>

RunDCE ==
  /\ ppc = "done"
  /\ Dead!Step
  /\ UNCHANGED <<source, domVars, in, lpos, lchanged, lpc, phiVars, renameVars, temps, pc, peepVars>>

(***************************************************************************)
(* The first two passes on their own, and all three.                       *)
(***************************************************************************)
FrontSpec ==
  CompileInit /\ [][RunSSA \/ RunSimplify]_<<vars, peepVars, dceVars>>
              /\ WF_<<vars, peepVars, dceVars>>(RunSSA \/ RunSimplify)

CompileNext == RunSSA \/ RunSimplify \/ RunDCE

CompileSpec ==
  CompileInit /\ [][CompileNext]_<<vars, peepVars, dceVars>>
              /\ WF_<<vars, peepVars, dceVars>>(CompileNext)

-----------------------------------------------------------------------------
(***************************************************************************)
(* SimplifyPreserved: when Simplify is done the function does what its     *)
(* source did, wherever the products that were moved stood: no path from   *)
(* the product to the sum writes one of its factors again, and the reads   *)
(* counted before the pass are still the reads there are.                  *)
(***************************************************************************)
SimplifyPreserved == ppc = "done" => Behaves(f, source, Steps)

(***************************************************************************)
(* DCEPreserved: so it does when DCE is done.  DCE relies on it that b.Out *)
(* is "LiveOut ... (from Liveness analysis)" (dce.go:15).                  *)
(***************************************************************************)
DCEPreserved == cpc = "done" => Behaves(f, source, Steps)
=============================================================================
