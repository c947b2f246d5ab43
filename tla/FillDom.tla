------------------------------- MODULE FillDom -------------------------------
(***************************************************************************)
(* FillDom and FillFron (src/analysis/dom.go): immediate dominators by the *)
(* iteration of Cooper, Harvey and Kennedy, the dominator tree, and the    *)
(* dominance frontiers.  intersect climbs from two blocks towards Start by *)
(* following Idom, without a nil check; every step of the climb is an      *)
(* action, so that a nil dereference is a state of the model ("panic").    *)
(***************************************************************************)
EXTENDS QbeIR

\* Definitions marked "mutant" are slips the properties below must catch; no
\* other definition uses them.

CONSTANT Functions

\* FillRPO and FillPreds have run (module Cfg shows what they leave).
ASSUME FunctionsAssumption == \A g \in Functions : Prepared(g)

VARIABLES
  f,          \* the function, which the passes only read
  idom,       \* b.Idom of every block
  dom, dlink, \* the dominator tree: b.Dom, its first child, b.DLink, its next sibling
  fron,       \* b.Fron of every block
  pos,        \* the block the sweep is at
  k,          \* the next entry of its Pred, or the successor (1, 2) FillFron is at
  acc,        \* newIdom: the result of the intersections so far
  b1, b2,     \* the two ends of an intersection, or b1 the crawl of FillFron
  changed,    \* the sweep has changed some Idom
  pc

domVars == <<idom, dom, dlink, fron, pos, k, acc, b1, b2, changed, pc>>
vars == <<f, domVars>>

Start ==
  /\ idom = [b \in Blocks(f) |-> Nil]
  /\ dom = [b \in Blocks(f) |-> Nil] /\ dlink = [b \in Blocks(f) |-> Nil]
  /\ fron = [b \in Blocks(f) |-> <<>>]
  /\ pos = 1 /\ k = 1 /\ acc = Nil /\ b1 = Nil /\ b2 = Nil
  /\ changed = FALSE
  /\ pc = "preds"

Init == f \in Functions /\ Start

-----------------------------------------------------------------------------
(***************************************************************************)
(* FillDom.  A predecessor counts once it has an Idom, or if it is Start.  *)
(***************************************************************************)
Processed_Any(b) == TRUE                                  \* mutant

Processed(b) == idom[b] # Nil \/ b = 0

Pending == pos < f.n /\ k <= Len(f.pred[pos])

SkipPred ==                                   \* p.Idom == nil && p != f.Start
  /\ pc = "preds" /\ Pending
  /\ ~Processed(f.pred[pos][k])
  /\ k' = k + 1
  /\ UNCHANGED <<idom, dom, dlink, fron, pos, acc, b1, b2, changed, pc>>

Intersect ==                                  \* call intersect(newIdom, p)
  /\ pc = "preds" /\ Pending
  /\ Processed(f.pred[pos][k])
  /\ IF acc = Nil
       THEN acc' = f.pred[pos][k] /\ k' = k + 1 /\ UNCHANGED <<b1, b2, pc>>
       ELSE /\ b1' = acc /\ b2' = f.pred[pos][k] /\ pc' = "climb1"
            /\ UNCHANGED <<acc, k>>
  /\ UNCHANGED <<idom, dom, dlink, fron, pos, changed>>

Climb1 ==                                     \* for b1.Id > b2.Id { b1 = b1.Idom }
  /\ pc = "climb1"
  /\ IF b1 > b2
       THEN b1' = idom[b1] /\ pc' = IF idom[b1] = Nil THEN "panic" ELSE "climb1"
       ELSE UNCHANGED b1 /\ pc' = "climb2"
  /\ UNCHANGED <<idom, dom, dlink, fron, pos, k, acc, b2, changed>>

Climb2_PastTheMeeting ==                                  \* mutant
  /\ pc = "climb2"
  /\ IF b2 >= b1 /\ idom[b2] # Nil
       THEN b2' = idom[b2] /\ pc' = "climb2"
       ELSE UNCHANGED b2 /\ pc' = IF b1 = b2 THEN "met" ELSE "climb1"
  /\ UNCHANGED <<idom, dom, dlink, fron, pos, k, acc, b1, changed>>

Climb2 ==                                     \* for b2.Id > b1.Id { b2 = b2.Idom }
  /\ pc = "climb2"
  /\ IF b2 > b1
       THEN b2' = idom[b2] /\ pc' = IF idom[b2] = Nil THEN "panic" ELSE "climb2"
       ELSE UNCHANGED b2 /\ pc' = IF b1 = b2 THEN "met" ELSE "climb1"
  /\ UNCHANGED <<idom, dom, dlink, fron, pos, k, acc, b1, changed>>

Met ==                                        \* newIdom = b1, on to the next p
  /\ pc = "met"
  /\ acc' = b1 /\ k' = k + 1 /\ pc' = "preds"
  /\ UNCHANGED <<idom, dom, dlink, fron, pos, b1, b2, changed>>

SetIdom_FlagOverwritten ==                                \* mutant
  /\ pc = "preds" /\ pos < f.n /\ ~Pending
  /\ idom' = [idom EXCEPT ![pos] = acc]
  /\ changed' = (acc # idom[pos])
  /\ pos' = pos + 1 /\ k' = 1 /\ acc' = Nil
  /\ UNCHANGED <<dom, dlink, fron, b1, b2, pc>>

SetIdom ==                                    \* all of Pred seen: on to the next block
  /\ pc = "preds" /\ pos < f.n /\ ~Pending
  /\ idom' = [idom EXCEPT ![pos] = acc]
  /\ changed' = (changed \/ acc # idom[pos])
  /\ pos' = pos + 1 /\ k' = 1 /\ acc' = Nil
  /\ UNCHANGED <<dom, dlink, fron, b1, b2, pc>>

EndSweep_FlagKept ==                                      \* mutant
  /\ pc = "preds" /\ pos >= f.n
  /\ IF changed
       THEN pos' = 1 /\ UNCHANGED <<pc, changed>>
       ELSE pos' = 0 /\ pc' = "link" /\ UNCHANGED changed
  /\ UNCHANGED <<idom, dom, dlink, fron, k, acc, b1, b2>>

EndSweep ==
  /\ pc = "preds" /\ pos >= f.n
  /\ IF changed
       THEN pos' = 1 /\ changed' = FALSE /\ UNCHANGED pc
       ELSE pos' = 0 /\ pc' = "link" /\ UNCHANGED changed
  /\ UNCHANGED <<idom, dom, dlink, fron, k, acc, b1, b2>>

(***************************************************************************)
(* The tree: every block in order is pushed on its dominator's list, so    *)
(* the children of a block are listed last first.                          *)
(***************************************************************************)
Link_Overwrites ==                                        \* mutant
  /\ pc = "link" /\ pos < f.n
  /\ dom' = IF idom[pos] = Nil THEN dom ELSE [dom EXCEPT ![idom[pos]] = pos]
  /\ pos' = pos + 1
  /\ UNCHANGED <<idom, dlink, fron, k, acc, b1, b2, changed, pc>>

Link ==
  /\ pc = "link" /\ pos < f.n
  /\ IF idom[pos] = Nil THEN UNCHANGED <<dom, dlink>>
     ELSE /\ dlink' = [dlink EXCEPT ![pos] = dom[idom[pos]]]
          /\ dom' = [dom EXCEPT ![idom[pos]] = pos]
  /\ pos' = pos + 1
  /\ UNCHANGED <<idom, fron, k, acc, b1, b2, changed, pc>>

StartFron ==                                  \* FillDom returns; FillFron begins
  /\ pc = "link" /\ pos >= f.n
  /\ pos' = 0 /\ k' = 1 /\ b1' = 0 /\ pc' = "fron"
  /\ UNCHANGED <<idom, dom, dlink, fron, acc, b2, changed>>

-----------------------------------------------------------------------------
(***************************************************************************)
(* IsSdom(a, s): climb from s while its number is larger than a's.         *)
(***************************************************************************)
IsSdom_Reflexive(a, s) ==                                 \* mutant
  LET up[c \in Blocks(f) \cup {Nil}] == IF c = Nil \/ c <= a THEN c ELSE up[idom[c]]
  IN  up[s] = a

IsSdom(a, s) ==
  LET up[c \in Blocks(f) \cup {Nil}] == IF c = Nil \/ c <= a THEN c ELSE up[idom[c]]
  IN  a # s /\ up[s] = a

(***************************************************************************)
(* FillFron.  For the edge from pos to its successor number k, b1 crawls   *)
(* up from pos until it strictly dominates the successor.                  *)
(***************************************************************************)
Succ == IF k = 1 THEN f.s1[pos] ELSE f.s2[pos]

Crawling_NilEdge == b1 # Nil /\ ~IsSdom(b1, Succ)           \* mutant

Crawling == b1 # Nil /\ Succ # Nil /\ ~IsSdom(b1, Succ)

AddFron ==
  /\ pc = "fron" /\ pos < f.n /\ Crawling
  /\ fron' = IF Succ \in Elems(fron[b1]) THEN fron
             ELSE [fron EXCEPT ![b1] = Append(@, Succ)]
  /\ b1' = idom[b1]
  /\ UNCHANGED <<idom, dom, dlink, pos, k, acc, b2, changed, pc>>

NextEdge ==
  /\ pc = "fron" /\ pos < f.n /\ ~Crawling
  /\ IF k = 1 THEN k' = 2 /\ b1' = pos /\ UNCHANGED pos
              ELSE k' = 1 /\ b1' = pos + 1 /\ pos' = pos + 1
  /\ UNCHANGED <<idom, dom, dlink, fron, acc, b2, changed, pc>>

Finish ==
  /\ pc = "fron" /\ pos >= f.n
  /\ pc' = "done"
  /\ UNCHANGED <<idom, dom, dlink, fron, pos, k, acc, b1, b2, changed>>

Step ==
  \/ SkipPred \/ Intersect \/ Climb1 \/ Climb2 \/ Met \/ SetIdom \/ EndSweep
  \/ Link \/ StartFron \/ AddFron \/ NextEdge \/ Finish

Next == Step /\ UNCHANGED f

Spec == Init /\ [][Next]_vars /\ WF_vars(Next)

-----------------------------------------------------------------------------
(***************************************************************************)
(* TypeOK: every pointer the passes write is a block of the function or    *)
(* nil, whatever the graph.                                                *)
(***************************************************************************)
TypeOK ==
  /\ Prepared(f)
  /\ idom \in [Blocks(f) -> Blocks(f) \cup {Nil}]
  /\ dom \in [Blocks(f) -> Blocks(f) \cup {Nil}]
  /\ dlink \in [Blocks(f) -> Blocks(f) \cup {Nil}]
  /\ fron \in [Blocks(f) -> Seq(Blocks(f))]
  /\ pos \in 0 .. f.n /\ k \in Nat \ {0}
  /\ {acc, b1, b2} \subseteq -1 .. f.n
  /\ changed \in BOOLEAN
  /\ pc \in {"preds", "climb1", "climb2", "met", "link", "fron", "done", "panic"}

(***************************************************************************)
(* NoPanic: intersect, which follows Idom without looking at it, never     *)
(* reaches a block that has none (dom.go:66, dom.go:69).  It would, if a   *)
(* predecessor without an Idom were let in, or if Start got an Idom from a *)
(* loop back to it.                                                        *)
(***************************************************************************)
NoPanic == pc # "panic"

(***************************************************************************)
(* StaysInside: a region that can be entered through its head a only is a  *)
(* set of blocks that a dominates.  At every moment of the iteration the   *)
(* Idom of a block inside the region is inside it: the climb never passes  *)
(* a dominator, though it runs over Idoms that are still going to change.  *)
(***************************************************************************)
Region(a, S) ==
  /\ a \in S
  /\ \A b \in S \ {a} : b # 0 /\ \A j \in DOMAIN f.pred[b] : f.pred[b][j] \in S

StaysInside ==
  \A a \in Blocks(f) : \A S \in SUBSET Blocks(f) :
    Region(a, S) => \A b \in S \ {a} : Processed(b) => idom[b] \in S

(***************************************************************************)
(* Dominance by its definition: every path from Start to b goes through a. *)
(***************************************************************************)
Dom(a, b) == a = 0 \/ a = b \/ b \notin ReachIn(f, 0, Blocks(f) \ {a})

StrictDoms(b) == {a \in Blocks(f) \ {b} : Dom(a, b)}

(***************************************************************************)
(* IdomRight: when the iteration stops, the Idom of a block is its closest *)
(* strict dominator, loops and irreducible regions included.               *)
(***************************************************************************)
IdomRight ==
  pc = "link" =>
    /\ idom[0] = Nil
    /\ \A b \in Blocks(f) \ {0} :
         /\ idom[b] \in StrictDoms(b)
         /\ \A a \in StrictDoms(b) : Dom(a, idom[b])

(***************************************************************************)
(* TreeRight: from the Dom of a block, DLink after DLink, come exactly the *)
(* blocks it immediately dominates, each once, and then nil.  rename walks *)
(* the function by these lists (ssa.go:190): a block missing from them     *)
(* keeps its old names, one listed twice is renamed twice.                 *)
(***************************************************************************)
Listing(d) ==                           \* the first f.n + 1 stops of the walk
  LET stop[i \in 0 .. f.n] ==
        IF i = 0 THEN dom[d] ELSE IF stop[i - 1] = Nil THEN Nil ELSE dlink[stop[i - 1]]
  IN  stop

TreeRight ==
  pc = "done" =>
    \A d \in Blocks(f) :
      LET stop == Listing(d)
          named == {i \in 0 .. f.n : stop[i] # Nil}
      IN  /\ {stop[i] : i \in named} = {b \in Blocks(f) : idom[b] = d}
          /\ \A i, j \in named : stop[i] = stop[j] => i = j

(***************************************************************************)
(* FronRight: Fron is the dominance frontier by its definition, without    *)
(* duplicates: the blocks with a predecessor the block dominates, which it *)
(* does not strictly dominate itself.  insertPhis places phis by it.       *)
(***************************************************************************)
FronRight ==
  pc = "done" =>
    \A b \in Blocks(f) :
      /\ Elems(fron[b]) = {s \in Blocks(f) :
                             /\ \E p \in Blocks(f) : s \in Succs(f, p) /\ Dom(b, p)
                             /\ b \notin StrictDoms(s)}
      /\ \A i, j \in DOMAIN fron[b] : fron[b][i] = fron[b][j] => i = j

(***************************************************************************)
(* Termination: the sweeps reach a fixpoint and every climb meets.         *)
(***************************************************************************)
Termination == <>(pc = "done")
=============================================================================
