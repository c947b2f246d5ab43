-------------------------------- MODULE Cfg --------------------------------
(***************************************************************************)
(* The control-flow analyses in the order a function meets them: Build and *)
(* SSA number its blocks (FillRPO), SSA then computes dominators, the tree *)
(* and the frontiers (FillDom, FillFron); FillLoop, which nothing calls    *)
(* yet, needs the numbering too and is run last.                           *)
(*                                                                         *)
(* raw is the function while it is numbered, f the one that FillDom gets.  *)
(* What FillDom needs of its input is thereby checked of what FillRPO      *)
(* leaves, and not only assumed.                                           *)
(***************************************************************************)
EXTENDS FillDom

CONSTANTS
  Built,      \* functions as the builder leaves them, with their b.Loop
  Word        \* 2^32

VARIABLES
  raw, id, stack, x, call, rpc,                \* FillRPO
  loop, visit, todo, lpos, lk, lpc             \* FillLoop

rpoVars  == <<raw, id, stack, x, call, rpc>>
loopVars == <<loop, visit, todo, lpos, lk, lpc>>
cfgVars  == <<f, domVars, rpoVars, loopVars>>

Numbering == INSTANCE FillRPO WITH f <- raw, pc <- rpc, Functions <- Built
ASSUME BuiltAssumption == Numbering!Buildable
ASSUME WordAssumption == Word \in Nat \ {0}

Loops == INSTANCE FillLoop WITH pos <- lpos, k <- lk, pc <- lpc

\* Before it is numbered, the function FillDom knows of has Start and no more.
Empty ==
  [n |-> 1, ntmp |-> 0, s1 |-> [b \in {0} |-> Nil], s2 |-> [b \in {0} |-> Nil],
   pred |-> [b \in {0} |-> <<>>], phis |-> [b \in {0} |-> <<>>], ins |-> [b \in {0} |-> <<>>],
   jmp |-> [b \in {0} |-> [type |-> "ret", arg |-> Undef]]]

CfgInit == Numbering!Init /\ f = Empty /\ Start /\ Loops!Start

RunFillRPO == Numbering!Next /\ UNCHANGED <<f, domVars, loopVars>>

\* FillDom and FillLoop are called: their tables are sized for the numbered function.
CallFillDom ==
  /\ rpc = "done"
  /\ f' = raw /\ raw' = <<>> /\ rpc' = "passed"
  /\ idom' = [b \in Blocks(raw) |-> Nil]
  /\ dom' = [b \in Blocks(raw) |-> Nil] /\ dlink' = [b \in Blocks(raw) |-> Nil]
  /\ fron' = [b \in Blocks(raw) |-> <<>>]
  /\ loop' = [b \in Blocks(raw) |-> 1] /\ visit' = [b \in Blocks(raw) |-> Nil]
  /\ UNCHANGED <<id, stack, x, call, pos, k, acc, b1, b2, changed, pc, todo, lpos, lk, lpc>>

RunFillDom == rpc = "passed" /\ Next /\ UNCHANGED <<rpoVars, loopVars>>

RunFillLoop == pc = "done" /\ Loops!Step /\ UNCHANGED <<domVars, rpoVars>>

CfgNext == RunFillRPO \/ CallFillDom \/ RunFillDom \/ RunFillLoop

CfgSpec == CfgInit /\ [][CfgNext]_cfgVars /\ WF_cfgVars(CfgNext)

-----------------------------------------------------------------------------
(***************************************************************************)
(* Consecutive: the calls of rpoRec that have returned gave the numbers    *)
(* from nblk-1 down to x+1, each to one block, and no block is entered     *)
(* twice, though the mark of an open call is itself a number in use.       *)
(* Without it f.Blocks would have holes or lose a block (cfg.go:70).       *)
(***************************************************************************)
Consecutive == rpc = "walk" => Numbering!Consecutive

(***************************************************************************)
(* KeepsReachable: FillRPO keeps the blocks some path from Start leads to, *)
(* and only those, whatever pointers the dropped ones still hold.          *)
(***************************************************************************)
KeepsReachable ==
  [][rpc = "compact" =>
       LET reached == ReachIn(raw, 0, Blocks(raw)) IN
       /\ {b \in Blocks(raw) : id[b] # Numbering!Unset} = reached
       /\ raw'.n = Cardinality(reached)]_cfgVars

(***************************************************************************)
(* Ordered: what the other passes take from the numbering.  Start is 0 and *)
(* every other block has a predecessor with a smaller number (FillDom      *)
(* needs one processed predecessor at the first visit); an edge that does  *)
(* not go up closes a cycle of blocks numbered no lower than its target    *)
(* (FillLoop takes such an edge for a loop and walks back along it).       *)
(***************************************************************************)
Ordered == rpc \in {"preds", "done"} => Numbering!Ordered

(***************************************************************************)
(* Stable: numbering a numbered function changes nothing, so the second    *)
(* call, in SSA, cannot reorder the blocks under Pred, which SSA has       *)
(* filled by then and does not fill again.                                 *)
(***************************************************************************)
Stable == [][rpc = "compact" /\ call = 2 => raw' = raw]_cfgVars

(***************************************************************************)
(* LoopRight: the depth that FillLoop gives a block is 1 multiplied by ten *)
(* once for each loop the block is in, in 32 bits, however their edges     *)
(* back are doubled, shared by nested loops or met in the middle of one    *)
(* another's blocks.  Up to nine nested loops that is the power of ten.    *)
(***************************************************************************)
LoopRight == lpc = "done" => \A b \in Blocks(f) : loop[b] = Loops!Power(Loops!Depth(b))

(***************************************************************************)
(* Done: every analysis comes to an end, one after the other.              *)
(***************************************************************************)
Done == <>(lpc = "done")
=============================================================================
