-------------------------------- MODULE DCE --------------------------------
(***************************************************************************)
(* DCE (src/opt/dce.go): dead code elimination.  Every block is scanned    *)
(* from its end, starting from its Out set; what is not live and has no    *)
(* side effect goes.  The sweeps over the blocks are repeated while one    *)
(* removes something.  Out is what the last call of Liveness left: the     *)
(* pass does not compute it again.                                         *)
(***************************************************************************)
EXTENDS QbeIR

\* Definitions marked "mutant" are slips the properties must catch; no other
\* definition uses them.

VARIABLES
  f,          \* the function
  out,        \* b.Out of every block: read only
  pos,        \* the block the sweep is at
  i,          \* the instruction the scan is at
  live,       \* what is live after that instruction
  dead,       \* the instructions of the block found dead (isDead)
  changed,    \* the sweep has removed something
  pc          \* "block", "scan", "sweep" or "done"

dceVars == <<out, pos, i, live, dead, changed, pc>>

Start ==
  /\ pos = 0 /\ i = 0 /\ live = {} /\ dead = {} /\ changed = FALSE /\ pc = "block"

-----------------------------------------------------------------------------
EnterBlock_PastEnd ==                                     \* mutant
  /\ pc = "block" /\ pos < f.n
  /\ live' = out[pos] \cup TmpsOf({f.jmp[pos].arg})
  /\ i' = Len(f.ins[pos]) + 1 /\ dead' = {}
  /\ pc' = "scan"
  /\ UNCHANGED <<f, out, pos, changed>>

EnterBlock ==
  /\ pc = "block" /\ pos < f.n
  /\ live' = out[pos] \cup TmpsOf({f.jmp[pos].arg})
  /\ i' = Len(f.ins[pos]) /\ dead' = {}
  /\ pc' = "scan"
  /\ UNCHANGED <<f, out, pos, changed>>

(***************************************************************************)
(* An instruction is dead if what it writes is not live, or if it writes   *)
(* nothing at all, unless it has a side effect.                            *)
(***************************************************************************)
IsDead(ins, after) ==
  /\ ~HasSideEffects(ins)
  /\ IsUndef(ins.to) \/ (IsTmp(ins.to) /\ ins.to.val \notin after)

Scan ==                                       \* one turn, from the last instruction
  /\ pc = "scan" /\ i > 0
  /\ LET ins == f.ins[pos][i] IN
     IF IsDead(ins, live)
       THEN dead' = dead \cup {i} /\ changed' = TRUE /\ UNCHANGED live
       ELSE live' = (live \ Defs(ins)) \cup Uses(ins) /\ UNCHANGED <<dead, changed>>
  /\ i' = i - 1
  /\ UNCHANGED <<f, out, pos, pc>>

(***************************************************************************)
(* At the head of the block: the dead instructions go, and the phis whose  *)
(* result is not live there.                                               *)
(***************************************************************************)
Without(s, D) ==                        \* the k-th that is kept, for every k
  LET place(k) == CHOOSE j \in DOMAIN s \ D : Cardinality((1 .. j) \ D) = k
  IN  [k \in 1 .. Cardinality(DOMAIN s \ D) |-> s[place(k)]]

DeadPhis(b, atHead) ==
  {j \in DOMAIN f.phis[b] : IsTmp(f.phis[b][j].to) /\ f.phis[b][j].to.val \notin atHead}

LeaveBlock ==
  /\ pc = "scan" /\ i = 0
  /\ f' = [f EXCEPT !.ins[pos]  = IF changed THEN Without(@, dead) ELSE @,
                    !.phis[pos] = Without(@, DeadPhis(pos, live))]
  /\ changed' = (changed \/ DeadPhis(pos, live) # {})
  /\ pos' = pos + 1 /\ pc' = "block"
  /\ UNCHANGED <<out, i, live, dead>>

EndSweep_FlagKept ==                                      \* mutant
  /\ pc = "block" /\ pos >= f.n
  /\ IF changed THEN pos' = 0 /\ UNCHANGED <<changed, pc>>
                ELSE pc' = "done" /\ UNCHANGED <<pos, changed>>
  /\ UNCHANGED <<f, out, i, live, dead>>

EndSweep ==
  /\ pc = "block" /\ pos >= f.n
  /\ IF changed THEN pos' = 0 /\ changed' = FALSE /\ UNCHANGED pc
                ELSE pc' = "done" /\ UNCHANGED <<pos, changed>>
  /\ UNCHANGED <<f, out, i, live, dead>>

Step == EnterBlock \/ Scan \/ LeaveBlock \/ EndSweep

-----------------------------------------------------------------------------
(***************************************************************************)
(* The scan stays inside the block it is at.                               *)
(***************************************************************************)
InBlock ==
  pc = "scan" => /\ pos \in Blocks(f) /\ i <= Len(f.ins[pos])
                 /\ dead \subseteq i + 1 .. Len(f.ins[pos])

(***************************************************************************)
(* Nothing is left that a sweep would remove, although code that goes      *)
(* makes other code dead.                                                  *)
(***************************************************************************)
LiveAfter(b, n) ==                      \* what is live after instruction n of b
  LET upto[j \in n .. Len(f.ins[b])] ==
        IF j = Len(f.ins[b]) THEN out[b] \cup TmpsOf({f.jmp[b].arg})
        ELSE (upto[j + 1] \ Defs(f.ins[b][j + 1])) \cup Uses(f.ins[b][j + 1])
  IN  upto[n]

NothingDead ==
  \A b \in Blocks(f) :
    /\ \A n \in DOMAIN f.ins[b] : ~IsDead(f.ins[b][n], LiveAfter(b, n))
    /\ \A p \in Elems(f.phis[b]) : Defs(p) \subseteq LiveAfter(b, 0)
=============================================================================
