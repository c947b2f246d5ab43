-------------------------------- MODULE SSA --------------------------------
(***************************************************************************)
(* SSA (src/analysis/ssa.go): the passes that build SSA form, one after    *)
(* the other.  FillDom, FillFron and Liveness are the state machines of    *)
(* their own modules; their variables are part of this one's state, and    *)
(* hold their starting values until their turn.  insertPhis advances one   *)
(* turn of its worklist at a time, rename one phi or instruction at a      *)
(* time, with the recursion of walk as an explicit stack.                  *)
(***************************************************************************)
EXTENDS QbeIR, Semantics
Stack == INSTANCE SequencesExt           \* by name, for the proofs to refer to

\* Definitions marked "mutant" are slips the properties below must catch; no
\* other definition uses them.

Nowhere == <<Nil, 0>>      \* a nil *Instruction

CONSTANTS
  Functions,  \* the functions SSA is called on
  Steps       \* how many blocks of a path the semantics is compared on

(***************************************************************************)
(* The functions SSA is called on: built, and so numbered by FillRPO       *)
(* already, without phis.  The calls of FillPreds and FillRPO that SSA     *)
(* begins with change nothing then (module FillRPO, Stable).               *)
(***************************************************************************)
Fields == {"n", "ntmp", "s1", "s2", "pred", "phis", "ins", "jmp"}

ASSUME FunctionsAssumption ==
  \A g \in Functions :
    /\ IsFunction(g) /\ Fields \subseteq DOMAIN g /\ g.ntmp > 0 /\ g = FillPreds(g)
    /\ \A b \in Blocks(g) \ {0} : \E k \in DOMAIN g.pred[b] : g.pred[b][k] < b
    /\ \A b \in Blocks(g) : g.phis[b] = <<>>

VARIABLES
  f,          \* the function
  source,     \* history: the function as it was when SSA was called
  idom, dom, dlink, fron, dpos, k, acc, b1, b2, dchanged, dpc,   \* FillDom, FillFron
  in, out, lpos, lchanged, lpc,                                  \* Liveness
  defs,       \* insertPhis: the blocks that define each temporary
  temp,       \* the temporary phis are being placed for
  work, added,\* its worklist, and the blocks that have a phi for it
  stacks,     \* rename: the current names of every temporary
  newToOld,   \* the temporary a name stands for
  walks,      \* the calls of walk in progress: block, heights of the stacks
  at,         \* the block walk is about to be called on, or Nil
  next,       \* the phi, then instruction, rename is at in the innermost call; 0 outside
  entered,    \* history: the blocks walk has been called on
  temps,      \* FillUse: NDef, NUse and Def of every temporary
  pc          \* "dom", "live", "phis", "rename" or "done"

domVars    == <<idom, dom, dlink, fron, dpos, k, acc, b1, b2, dchanged, dpc>>
liveVars   == <<in, out, lpos, lchanged, lpc>>
phiVars    == <<defs, temp, work, added>>
renameVars == <<stacks, newToOld, walks, at, next, entered>>
vars == <<f, source, domVars, liveVars, phiVars, renameVars, temps, pc>>

Dominance == INSTANCE FillDom WITH pos <- dpos, changed <- dchanged, pc <- dpc
Live == INSTANCE Liveness WITH pos <- lpos, changed <- lchanged, pc <- lpc

(***************************************************************************)
(* FillUse: for every temporary how often it is defined and read, and the  *)
(* instruction that defines it, the last one if there are several.         *)
(***************************************************************************)
Sites(g)    == UNION {{b} \X DOMAIN g.ins[b] : b \in Blocks(g)}
PhiSites(g) == UNION {{b} \X DOMAIN g.phis[b] : b \in Blocks(g)}

DefIns(g, t) == {x \in Sites(g) : t \in Defs(g.ins[x[1]][x[2]])}
DefPhis(g, t) == {x \in PhiSites(g) : t \in Defs(g.phis[x[1]][x[2]])}

NDef(g, t) == Cardinality(DefIns(g, t)) + Cardinality(DefPhis(g, t))

Reading(t, refs) == {i \in DOMAIN refs : refs[i] = Tmp(t)}

NUse(g, t) ==
  LET inPhis == UNION {{x} \X Reading(t, g.phis[x[1]][x[2]].args) : x \in PhiSites(g)}
      inCode == UNION {{x} \X Reading(t, g.ins[x[1]][x[2]].arg) : x \in Sites(g)}
      inJmps == {b \in Blocks(g) : g.jmp[b].arg = Tmp(t)}
  IN  Cardinality(inPhis) + Cardinality(inCode) + Cardinality(inJmps)

DefSite(g, t) ==
  LET sites == DefIns(g, t)
  IN  IF sites = {} THEN Nowhere
      ELSE CHOOSE x \in sites : \A y \in sites : y[1] < x[1] \/ (y[1] = x[1] /\ y[2] <= x[2])

FillUse(g) ==
  [t \in Temps(g) |-> [NDef |-> NDef(g, t), NUse |-> NUse(g, t), Def |-> DefSite(g, t)]]

Init ==
  /\ f \in Functions /\ source = f
  /\ Dominance!Start /\ Live!Start
  /\ defs = [t \in Temps(f) |-> {}] /\ temp = 0 /\ work = <<>> /\ added = {}
  /\ stacks = [t \in Temps(f) |-> <<>>]
  /\ newToOld = [t \in Temps(f) |-> t]
  /\ walks = <<>> /\ at = Nil /\ next = 0 /\ entered = {}
  /\ temps = [t \in Temps(f) |-> [NDef |-> 0, NUse |-> 0, Def |-> Nowhere]]
  /\ pc = "dom"

FillDomFron ==
  /\ pc = "dom"
  /\ IF dpc = "done"
       THEN pc' = "live" /\ UNCHANGED domVars
       ELSE Dominance!Step /\ UNCHANGED pc
  /\ UNCHANGED <<f, source, liveVars, phiVars, renameVars, temps>>

\* The blocks of s that are in S, in their order.
Kept(s, S) ==
  LET upto[n \in 0 .. Len(s)] ==
        IF n = 0 THEN <<>>
        ELSE IF s[n] \in S THEN Append(upto[n - 1], s[n]) ELSE upto[n - 1]
  IN  upto[Len(s)]

InOrderOf(S) == Kept([i \in 1 .. f.n |-> i - 1], S)

\* When Liveness returns: the first FillUse, and the defs of insertPhis.
Liveness ==
  /\ pc = "live"
  /\ IF lpc = "done"
       THEN /\ pc' = "phis" /\ temps' = FillUse(f)
            /\ defs' = [t \in Temps(f) |->
                 {b \in Blocks(f) : \E i \in DOMAIN f.ins[b] : t \in Defs(f.ins[b][i])}]
            /\ work' = InOrderOf(defs'[0])
            /\ UNCHANGED <<temp, added, liveVars>>
       ELSE Live!Step /\ UNCHANGED <<phiVars, temps, pc>>
  /\ UNCHANGED <<f, source, domVars, renameVars>>

-----------------------------------------------------------------------------
(***************************************************************************)
(* insertPhis: every block of the frontier of a block that defines temp    *)
(* gets one phi of temp, if temp is live on entry to it, and becomes a     *)
(* definition in turn.  rename fills in the arguments.                     *)
(***************************************************************************)
PlainPhi(t) == [to |-> Tmp(t), args |-> <<>>, blks |-> <<>>]

NewPhis_NotLive(b) == {d \in Elems(fron[b]) : d \notin added}            \* mutant

\* the frontier blocks of b that get a phi for temp now
NewPhis(b) == {d \in Elems(fron[b]) : d \notin added /\ temp \in in[d]}

PlacePhis_Once ==                                         \* mutant
  /\ pc = "phis" /\ work # <<>>
  /\ LET new == NewPhis(Head(work))
     IN  /\ f' = [f EXCEPT !.phis = [b \in Blocks(f) |->
                    IF b \in new THEN Append(@[b], PlainPhi(temp)) ELSE @[b]]]
         /\ added' = added \cup new
         /\ work' = Tail(work)
  /\ UNCHANGED <<source, domVars, liveVars, defs, temp, renameVars, temps, pc>>

PlacePhis ==
  /\ pc = "phis" /\ work # <<>>
  /\ LET new == NewPhis(Head(work))
     IN  /\ f' = [f EXCEPT !.phis = [b \in Blocks(f) |->
                    IF b \in new THEN Append(@[b], PlainPhi(temp)) ELSE @[b]]]
         /\ added' = added \cup new
         /\ work' = Tail(work) \o Kept(fron[Head(work)], new \ defs[temp])
  /\ UNCHANGED <<source, domVars, liveVars, defs, temp, renameVars, temps, pc>>

NextTemp ==
  /\ pc = "phis" /\ work = <<>>
  /\ IF temp + 1 < f.ntmp
       THEN /\ temp' = temp + 1 /\ added' = {}
            /\ work' = InOrderOf(defs[temp'])
            /\ UNCHANGED <<at, pc>>
       ELSE pc' = "rename" /\ at' = 0 /\ UNCHANGED <<temp, added, work>>
  /\ UNCHANGED <<f, source, domVars, liveVars, defs, stacks, newToOld, walks, next, entered, temps>>

-----------------------------------------------------------------------------
(***************************************************************************)
(* rename, within one block.  The names are what walk shares between its   *)
(* calls: the stacks, the temporaries names stand for, and the number of   *)
(* the next name.  A temporary without a name keeps its old one.           *)
(***************************************************************************)
Names == [stacks |-> stacks, newToOld |-> newToOld, ntmp |-> f.ntmp]

Current(m, r) ==
  IF IsTmp(r) /\ m.stacks[m.newToOld[r.val]] # <<>>
    THEN Stack!Last(m.stacks[m.newToOld[r.val]]) ELSE r

NewName(m, r) ==                        \* a new name for what r stands for
  IF ~IsTmp(r) THEN m
  ELSE LET old == m.newToOld[r.val]
       IN  [stacks   |-> [m.stacks EXCEPT ![old] = Append(@, Tmp(m.ntmp))],
            newToOld |-> [t \in 0 .. m.ntmp |-> IF t = m.ntmp THEN old ELSE m.newToOld[t]],
            ntmp     |-> m.ntmp + 1]

NameOf(m, r) == IF IsTmp(r) THEN Tmp(m.ntmp) ELSE r

Cur == Stack!Last(walks).blk            \* the block of the innermost call of walk

Enter ==                                \* walk(at): the heights of the stacks
  /\ pc = "rename" /\ at # Nil
  /\ walks' = Append(walks, [blk |-> at, heights |-> [t \in DOMAIN stacks |-> Len(stacks[t])]])
  /\ at' = Nil /\ next' = 1 /\ entered' = entered \cup {at}
  /\ UNCHANGED <<f, source, domVars, liveVars, phiVars, stacks, newToOld, temps, pc>>

RenamePhi ==                            \* the result of a phi
  /\ pc = "rename" /\ walks # <<>> /\ next \in DOMAIN f.phis[Cur]
  /\ LET m == NewName(Names, f.phis[Cur][next].to)
     IN  /\ f' = [f EXCEPT !.ntmp = m.ntmp, !.phis[Cur][next].to = NameOf(Names, @)]
         /\ stacks' = m.stacks /\ newToOld' = m.newToOld
  /\ next' = next + 1
  /\ UNCHANGED <<source, domVars, liveVars, phiVars, walks, at, entered, temps, pc>>

NextIns == next - Len(f.phis[Cur])      \* after the phis: the instruction rename is at

RenameIns_DefFirst ==                                     \* mutant
  /\ pc = "rename" /\ walks # <<>> /\ NextIns \in DOMAIN f.ins[Cur]
  /\ LET m == NewName(Names, f.ins[Cur][NextIns].to)
     IN  /\ f' = [f EXCEPT !.ntmp = m.ntmp,
                           !.ins[Cur][NextIns].arg = [i \in DOMAIN @ |-> Current(m, @[i])],
                           !.ins[Cur][NextIns].to  = NameOf(Names, @)]
         /\ stacks' = m.stacks /\ newToOld' = m.newToOld
  /\ next' = next + 1
  /\ UNCHANGED <<source, domVars, liveVars, phiVars, walks, at, entered, temps, pc>>

RenameIns ==                            \* the arguments, and then the result
  /\ pc = "rename" /\ walks # <<>> /\ NextIns \in DOMAIN f.ins[Cur]
  /\ LET m == NewName(Names, f.ins[Cur][NextIns].to)
     IN  /\ f' = [f EXCEPT !.ntmp = m.ntmp,
                           !.ins[Cur][NextIns].arg = [i \in DOMAIN @ |-> Current(Names, @[i])],
                           !.ins[Cur][NextIns].to  = NameOf(Names, @)]
         /\ stacks' = m.stacks /\ newToOld' = m.newToOld
  /\ next' = next + 1
  /\ UNCHANGED <<source, domVars, liveVars, phiVars, walks, at, entered, temps, pc>>

FillPhi_NoBlock(m, p, b) ==                               \* mutant
  LET r == Current(m, p.to)
  IN  IF m.stacks[m.newToOld[p.to.val]] = <<>> THEN p
      ELSE [p EXCEPT !.args = Append(@, r)]

\* b's edge to a successor: the argument of every phi that has a name here.
FillPhi(m, p, b) ==
  LET r == Current(m, p.to)
  IN  IF m.stacks[m.newToOld[p.to.val]] = <<>> THEN p
      ELSE [p EXCEPT !.args = Append(@, r), !.blks = Append(@, b)]

EndBlock ==                             \* the jump, and the phis of the successors
  /\ pc = "rename" /\ next > 0 /\ NextIns > Len(f.ins[Cur])
  /\ f' = [f EXCEPT
              !.jmp[Cur].arg = Current(Names, @),
              !.phis = [b \in Blocks(f) |->
                 IF b \in Succs(f, Cur)
                   THEN [j \in DOMAIN @[b] |-> FillPhi(Names, @[b][j], Cur)]
                   ELSE @[b]]]
  /\ next' = 0 /\ at' = dom[Cur]
  /\ UNCHANGED <<source, domVars, liveVars, phiVars, stacks, newToOld, walks, entered, temps, pc>>

Return_NamesKept ==                                       \* mutant
  /\ pc = "rename" /\ at = Nil /\ next = 0 /\ walks # <<>>
  /\ at' = IF Len(walks) = 1 THEN Nil ELSE dlink[Cur]
  /\ walks' = Stack!Front(walks)
  /\ UNCHANGED <<f, source, domVars, liveVars, phiVars, newToOld, stacks, next, entered, temps, pc>>

Return ==                               \* a call of walk drops its names and returns
  /\ pc = "rename" /\ at = Nil /\ next = 0 /\ walks # <<>>
  /\ stacks' = [t \in DOMAIN stacks |-> SubSeq(stacks[t], 1, Stack!Last(walks).heights[t])]
  /\ at' = IF Len(walks) = 1 THEN Nil ELSE dlink[Cur]
  /\ walks' = Stack!Front(walks)
  /\ UNCHANGED <<f, source, domVars, liveVars, phiVars, newToOld, next, entered, temps, pc>>

Finish ==                               \* the last FillUse
  /\ pc = "rename" /\ at = Nil /\ walks = <<>>
  /\ temps' = FillUse(f) /\ pc' = "done"
  /\ UNCHANGED <<f, source, domVars, liveVars, phiVars, renameVars>>

Next == FillDomFron \/ Liveness \/ PlacePhis \/ NextTemp \/ Enter
        \/ RenamePhi \/ RenameIns \/ EndBlock \/ Return \/ Finish

Spec == Init /\ [][Next]_vars /\ WF_vars(Next)

-----------------------------------------------------------------------------
(***************************************************************************)
(* TypeOK: through all the renaming the function stays well formed (every  *)
(* phi has as many blocks as arguments, every name a number below NTmp),   *)
(* and every name stands for a temporary of the source.                    *)
(***************************************************************************)
TypeOK ==
  /\ IsFunction(f) /\ IsFunction(source)
  /\ defs \in [Temps(source) -> SUBSET Blocks(f)]
  /\ temp \in Temps(source) /\ work \in Seq(Blocks(f)) /\ added \subseteq Blocks(f)
  /\ stacks \in [Temps(source) -> Seq(Ref)]
  /\ newToOld \in [Temps(f) -> Temps(source)]
  /\ \A t \in DOMAIN temps : temps[t] \in [NDef : Nat, NUse : Nat, Def : Sites(f) \cup {Nowhere}]
  /\ \A i \in DOMAIN walks : walks[i].blk \in Blocks(f)
  /\ at \in Blocks(f) \cup {Nil} /\ next \in Nat /\ entered \subseteq Blocks(f)
  /\ pc \in {"dom", "live", "phis", "rename", "done"}

(***************************************************************************)
(* NamesOnPath: while rename runs, the calls of walk follow the dominator  *)
(* tree down from Start, and every name on a stack was given by one of     *)
(* them, the later ones on top.  A name left by a finished call would be   *)
(* found by a block that its definition does not dominate.                 *)
(***************************************************************************)
Given(b) == UNION {Defs(x) : x \in Elems(f.phis[b]) \cup Elems(f.ins[b])}

NamesOnPath ==
  /\ \A i \in DOMAIN walks :
       IF i = 1 THEN walks[i].blk = 0 ELSE idom[walks[i].blk] = walks[i - 1].blk
  /\ \A t \in DOMAIN stacks : \A i, j \in DOMAIN stacks[t] :
       i <= j =>
         \E x, y \in DOMAIN walks :
           /\ stacks[t][i].val \in Given(walks[x].blk)
           /\ stacks[t][j].val \in Given(walks[y].blk)
           /\ x <= y

(***************************************************************************)
(* NoDeadPhis: the form is pruned.  No phis are read by each other only:   *)
(* of any set of phis, an instruction, a jump or another phi reads one.    *)
(***************************************************************************)
NoDeadPhis ==
  LET phis == UNION {Elems(f.phis[b]) : b \in Blocks(f)}
      code == UNION {TmpsOf({f.jmp[b].arg}) \cup UNION {Uses(i) : i \in Elems(f.ins[b])} :
                       b \in Blocks(f)}
      read(ps) == UNION {TmpsOf(Elems(p.args)) : p \in ps}
  IN  pc = "done" =>
        \A S \in (SUBSET phis) \ {{}} :
          \E p \in S : Defs(p) \subseteq code \cup read(phis \ S)

(***************************************************************************)
(* Preserved: SSA construction does not change what the function does, on  *)
(* any path: not where a temporary is written on some paths only, nor      *)
(* where both successors of a block are the same.                          *)
(***************************************************************************)
Preserved == pc = "done" => Behaves(f, source, Steps)
=============================================================================
