------------------------------ MODULE Liveness ------------------------------
(***************************************************************************)
(* Liveness (src/analysis/live.go): which temporaries are live on entry to *)
(* (In) and on exit from (Out) every block.  The pass sweeps the blocks    *)
(* from last to first, growing In and Out, until a whole sweep changes     *)
(* nothing.  One action is one turn of the inner loop; the end of a sweep  *)
(* is an action of its own.                                                *)
(***************************************************************************)
EXTENDS QbeIR

\* Definitions marked "mutant" are slips the properties below must catch; no
\* other definition uses them.

CONSTANT Functions                \* the functions the pass may be called on

ASSUME FunctionsAssumption == \A g \in Functions : IsFunction(g)

VARIABLES
  f,          \* the function under analysis, which the pass only reads
  in, out,    \* b.In and b.Out of every block
  pos,        \* the block the sweep is at; -1 when it has run off the front
  changed,    \* the sweep has grown some set
  pc          \* "sweep" or "done"

liveVars == <<in, out, pos, changed, pc>>
vars == <<f, liveVars>>

(***************************************************************************)
(* Gen and Kill.  Gen holds what the block reads before writing it; an     *)
(* instruction reads its arguments before it writes its result.            *)
(***************************************************************************)
Kill(b) == UNION {Defs(f.ins[b][i]) : i \in DOMAIN f.ins[b]}

KilledBefore(b, k) == UNION {Defs(f.ins[b][i]) : i \in 1 .. k - 1}

Gen(b) ==
  (UNION {Uses(f.ins[b][k]) \ KilledBefore(b, k) : k \in DOMAIN f.ins[b]})
    \cup (TmpsOf({f.jmp[b].arg}) \ Kill(b))

PhiDefs(s) == UNION {Defs(f.phis[s][i]) : i \in DOMAIN f.phis[s]}

PhiUses(b, s) ==                    \* what the edge from b to s reads
  UNION {TmpsOf({p.args[k] : k \in {j \in DOMAIN p.args : p.blks[j] = b}}) :
           p \in Elems(f.phis[s])}

(***************************************************************************)
(* liveOn(v, b, s) adds to v what s needs of b.  It clears the results of  *)
(* the phis of s from everything v holds by then, so the call for S2 sees  *)
(* what the call for S1 put there.                                         *)
(***************************************************************************)
LiveOn_ClearsLast(v, b, s, I) ==                          \* mutant
  IF s = Nil THEN v ELSE (v \cup I[s] \cup PhiUses(b, s)) \ PhiDefs(s)

LiveOn(v, b, s, I) ==
  IF s = Nil THEN v ELSE ((v \cup I[s]) \ PhiDefs(s)) \cup PhiUses(b, s)

NewOut(b, I) == LiveOn(LiveOn({}, b, f.s1[b], I), b, f.s2[b], I)

NewIn(b, o) == (o \ Kill(b)) \cup Gen(b)

-----------------------------------------------------------------------------
Start_StaleSets ==                                        \* mutant
  /\ in  = [b \in Blocks(f) |-> Temps(f)]
  /\ out = [b \in Blocks(f) |-> {}]
  /\ pos = f.n - 1
  /\ changed = FALSE
  /\ pc = "sweep"

Start ==                          \* the sets and the flag a call begins with
  /\ in  = [b \in Blocks(f) |-> {}]
  /\ out = [b \in Blocks(f) |-> {}]
  /\ pos = f.n - 1
  /\ changed = FALSE
  /\ pc = "sweep"

Init == f \in Functions /\ Start

Visit_FlagOverwritten ==                                  \* mutant
  /\ pc = "sweep" /\ pos >= 0
  /\ LET o == out[pos] \cup NewOut(pos, in)
         i == in[pos] \cup NewIn(pos, o)
     IN  /\ out' = [out EXCEPT ![pos] = o]
         /\ in'  = [in EXCEPT ![pos] = i]
         /\ changed' = (o # out[pos] \/ i # in[pos])
  /\ pos' = pos - 1
  /\ UNCHANGED pc

Visit ==
  /\ pc = "sweep" /\ pos >= 0
  /\ LET o == out[pos] \cup NewOut(pos, in)
         i == in[pos] \cup NewIn(pos, o)
     IN  /\ out' = [out EXCEPT ![pos] = o]
         /\ in'  = [in EXCEPT ![pos] = i]
         /\ changed' = (changed \/ o # out[pos] \/ i # in[pos])
  /\ pos' = pos - 1
  /\ UNCHANGED pc

EndSweep_FlagKept ==                                      \* mutant
  /\ pc = "sweep" /\ pos < 0
  /\ IF changed THEN pos' = f.n - 1 /\ UNCHANGED <<pc, changed>>
                ELSE pc' = "done" /\ UNCHANGED <<pos, changed>>
  /\ UNCHANGED <<in, out>>

EndSweep ==
  /\ pc = "sweep" /\ pos < 0
  /\ IF changed THEN pos' = f.n - 1 /\ changed' = FALSE /\ UNCHANGED pc
                ELSE pc' = "done" /\ UNCHANGED <<pos, changed>>
  /\ UNCHANGED <<in, out>>

Step == Visit \/ EndSweep

Next == Step /\ UNCHANGED f

\* A single goroutine runs the pass to its end: it never stops between steps.
Spec == Init /\ [][Next]_vars /\ WF_vars(Next)

-----------------------------------------------------------------------------
(***************************************************************************)
(* TypeOK: the variables stay in their ranges whatever the function.       *)
(***************************************************************************)
TypeOK ==
  /\ IsFunction(f)
  /\ in  \in [Blocks(f) -> SUBSET Temps(f)]
  /\ out \in [Blocks(f) -> SUBSET Temps(f)]
  /\ pos \in -1 .. f.n - 1
  /\ changed \in BOOLEAN
  /\ pc \in {"sweep", "done"}

(***************************************************************************)
(* A solution of the dataflow equations, as an upper bound: every block    *)
(* holds at least what its successors and its own code require.            *)
(***************************************************************************)
Candidates == [Blocks(f) -> SUBSET Temps(f)]

Covers(I, O) ==
  \A b \in Blocks(f) : NewOut(b, I) \subseteq O[b] /\ NewIn(b, O[b]) \subseteq I[b]

(***************************************************************************)
(* Least: at every moment of the iteration In and Out are inside every     *)
(* solution, so no temporary is ever reported live without a reason, also  *)
(* round a loop, where the sets feed themselves.                           *)
(***************************************************************************)
Least ==
  \A I, O \in Candidates :
    Covers(I, O) => \A b \in Blocks(f) : in[b] \subseteq I[b] /\ out[b] \subseteq O[b]

(***************************************************************************)
(* Supported: every member of In and Out is put there by an equation whose *)
(* right-hand side still holds it: no update outruns what justified it.    *)
(***************************************************************************)
Supported ==
  \A b \in Blocks(f) : out[b] \subseteq NewOut(b, in) /\ in[b] \subseteq NewIn(b, out[b])

(***************************************************************************)
(* Solved: the pass stops only when the equations hold of every block,     *)
(* those visited before the last change of the sweep included.  This is    *)
(* what the changed flag has to get right.                                 *)
(***************************************************************************)
Solved ==
  pc = "done" =>
    \A b \in Blocks(f) : out[b] = NewOut(b, in) /\ in[b] = NewIn(b, out[b])

(***************************************************************************)
(* The reference definition, by paths: t is live on entry to b when some   *)
(* path from b reaches a read of t, in a block or on an edge, that no      *)
(* write of t precedes.  A phi writes its result on the edges into its     *)
(* block, after they have read its arguments.                              *)
(***************************************************************************)
Paths(b) ==
  {p \in UNION {[1 .. k -> Blocks(f)] : k \in 1 .. f.n} :
     /\ p[1] = b
     /\ \A i \in 1 .. Len(p) - 1 : p[i + 1] \in Succs(f, p[i])}

Writes(t, b) == \E j \in DOMAIN f.ins[b] : t \in Defs(f.ins[b][j])

ReadsFirst(t, b) ==                 \* before b itself writes it
  \/ \E k \in DOMAIN f.ins[b] :
       /\ t \in Uses(f.ins[b][k])
       /\ \A j \in 1 .. k - 1 : t \notin Defs(f.ins[b][j])
  \/ t \in TmpsOf({f.jmp[b].arg}) /\ ~Writes(t, b)

ReadsAtEnd(t, p) ==
  LET l == p[Len(p)] IN
  \/ ReadsFirst(t, l)
  \/ ~Writes(t, l) /\ \E s \in Succs(f, l) : t \in PhiUses(l, s)

LiveAtEntry(b) ==
  {t \in Temps(f) :
     \E p \in Paths(b) :
       /\ ReadsAtEnd(t, p)
       /\ \A i \in 1 .. Len(p) - 1 : ~Writes(t, p[i])
       /\ \A i \in 2 .. Len(p) : t \notin PhiDefs(p[i])}

LiveAtExit(b) ==
  UNION {(LiveAtEntry(s) \ PhiDefs(s)) \cup PhiUses(b, s) : s \in Succs(f, b)}

(***************************************************************************)
(* Exact: when the pass is done, In and Out are the temporaries live along *)
(* some path: what insertPhis (ssa.go:108), the register allocator and DCE *)
(* take them to be.                                                        *)
(***************************************************************************)
Exact ==
  pc = "done" =>
    \A b \in Blocks(f) : in[b] = LiveAtEntry(b) /\ out[b] = LiveAtExit(b)

(***************************************************************************)
(* Some block's S2 has phis and its S1 is another block.  Their results    *)
(* are wiped from what S1 needs, and In and Out may then lack temporaries. *)
(***************************************************************************)
Wiped(g) == \E b \in Blocks(g) : /\ g.s2[b] # Nil /\ g.s1[b] # g.s2[b]
                                 /\ g.phis[g.s2[b]] # <<>>

(***************************************************************************)
(* Termination: the fixpoint iteration ends for every function, though a   *)
(* sweep starts the next one whenever it grew a set.                       *)
(***************************************************************************)
Termination == <>(pc = "done")
=============================================================================
