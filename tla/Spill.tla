------------------------------- MODULE Spill -------------------------------
(***************************************************************************)
(* Spill (src/codegen/spill.go): a backward scan of every block, from the  *)
(* last block to the first, that never keeps more than K temporaries live; *)
(* the ones it drops get a stack slot.  It overwrites Out by what it kept, *)
(* and In by what its own scan finds live at the start of the block.  Then *)
(* the instructions are rewritten: spilled arguments are loaded before     *)
(* them, spilled results stored after them.                                *)
(*                                                                         *)
(* All temporaries are integers (one mask holds all, the other none).      *)
(***************************************************************************)
EXTENDS Machine
LOCAL INSTANCE SequencesExt
LOCAL INSTANCE FiniteSetsExt

\* Definitions marked "mutant" are slips the properties below must catch; no
\* other definition uses them.

CONSTANT K                       \* NGPR of the target

None == -1                       \* no slot

VARIABLES
  f,          \* the function
  in, out,    \* block -> temporaries
  slot,       \* temporary -> its slot, or None
  pos, j,     \* the block of the scan, and how many of its instructions are left
  live,       \* what is live there, as far as it is kept
  pc          \* "call", "block", "scan", "rewrite" or "done"

vars == <<f, in, out, slot, pos, j, live, pc>>

Start ==
  /\ slot = <<>> /\ pos = 0 /\ j = 0 /\ live = {}
  /\ pc = "call"

Call ==                          \* the tables are made for the function of now
  /\ pc = "call"
  /\ slot' = [t \in Temps(f) |-> None]
  /\ pos' = f.n - 1
  /\ pc' = "block"
  /\ UNCHANGED <<f, in, out, j, live>>

-----------------------------------------------------------------------------
(***************************************************************************)
(* limit: the temporaries over K, the cheapest first.  FillCost is never   *)
(* called, every Cost is 0, and the sort keeps the order of the numbers.   *)
(***************************************************************************)
Victims(l) ==
  {t \in l : Cardinality({u \in l : u < t}) + K < Cardinality(l)}

Given(s, l) == [t \in DOMAIN s |-> IF t \in Victims(l) /\ s[t] = None THEN 0 ELSE s[t]]

EnterBlock ==
  /\ pc = "block" /\ pos >= 0
  /\ live' = out[pos] \ Victims(out[pos])
  /\ slot' = Given(slot, out[pos])
  /\ out' = [out EXCEPT ![pos] = live']
  /\ j' = Len(f.ins[pos])
  /\ pc' = "scan"
  /\ UNCHANGED <<f, in, pos>>

WithAlloc(s, ins) ==             \* an alloc's result lives in slot NTmp
  IF ins.op \in Allocs /\ s[ins.to.val] = None THEN [s EXCEPT ![ins.to.val] = f.ntmp] ELSE s

Scan ==
  /\ pc = "scan" /\ j > 0
  /\ LET ins == f.ins[pos][j]
         l == (live \ Defs(ins)) \cup Uses(ins)
     IN  /\ live' = l \ Victims(l)
         /\ slot' = WithAlloc(Given(slot, l), ins)
  /\ j' = j - 1
  /\ UNCHANGED <<f, in, out, pos, pc>>

LeaveBlock ==
  /\ pc = "scan" /\ j = 0
  /\ in' = [in EXCEPT ![pos] = live]
  /\ pos' = pos - 1
  /\ pc' = "block"
  /\ UNCHANGED <<f, out, slot, j, live>>

-----------------------------------------------------------------------------
(***************************************************************************)
(* rewriteSpills, block by block.  A spilled argument is read from a       *)
(* temporary of its own, loaded before the instruction; a spilled result   *)
(* goes to one that is stored after it.  The new temporaries are numbered  *)
(* as they are met.  The argument of a jump is left as it is.              *)
(***************************************************************************)
Spilled(r) == IsTmp(r) /\ slot[r.val] # None

SpilledArgs(ins) == {k \in DOMAIN ins.arg : Spilled(ins.arg[k])}
Needed(ins)      == Cardinality(SpilledArgs(ins)) + (IF Spilled(ins.to) THEN 1 ELSE 0)

LoadSlot(t, r)  == [op |-> "load", to |-> t, arg |-> <<Slot(slot[r.val]), Undef, Undef>>]
StoreSlot(t, r) == [op |-> "storel", to |-> Undef, arg |-> <<t, Slot(slot[r.val]), Undef>>]

\* ins with its loads and its store; n is the number of the first new temporary.
Rewritten(ins, n) ==
  LET new(k) == Tmp(n + Cardinality({l \in SpilledArgs(ins) : l < k}))
      last   == Tmp(n + Cardinality(SpilledArgs(ins)))
      order  == SetToSortSeq(SpilledArgs(ins), <)
  IN  [k \in DOMAIN order |-> LoadSlot(new(order[k]), ins.arg[order[k]])]
        \o <<[ins EXCEPT !.arg = [k \in DOMAIN @ |-> IF k \in SpilledArgs(ins) THEN new(k) ELSE @[k]],
                         !.to = IF Spilled(@) THEN last ELSE @]>>
        \o (IF Spilled(ins.to) THEN <<StoreSlot(last, ins.to)>> ELSE <<>>)

TempsBefore(code, i) == MapThenSumSet(LAMBDA k : Needed(code[k]), 1 .. i - 1)

StartRewrite ==
  /\ pc = "block" /\ pos < 0
  /\ pos' = 0 /\ pc' = "rewrite"
  /\ UNCHANGED <<f, in, out, slot, j, live>>

RewriteBlock_NotCounted ==                                \* mutant
  /\ pc = "rewrite" /\ pos < f.n
  /\ LET code  == f.ins[pos]
     IN  f' = [f EXCEPT !.ins[pos] = FlattenSeq([i \in DOMAIN code |->
                          Rewritten(code[i], f.ntmp + TempsBefore(code, i))])]
  /\ pos' = pos + 1
  /\ UNCHANGED <<in, out, slot, j, live, pc>>

RewriteBlock ==
  /\ pc = "rewrite" /\ pos < f.n
  /\ LET code  == f.ins[pos]
         total == f.ntmp + TempsBefore(code, Len(code) + 1)
     IN  /\ f' = [f EXCEPT !.ntmp = total,
                           !.ins[pos] = FlattenSeq([i \in DOMAIN code |->
                              Rewritten(code[i], f.ntmp + TempsBefore(code, i))])]
         /\ slot' = [t \in 0 .. total - 1 |-> IF t \in Temps(f) THEN slot[t] ELSE None]
  /\ pos' = pos + 1
  /\ UNCHANGED <<in, out, j, live, pc>>

Finish ==
  /\ pc = "rewrite" /\ pos = f.n
  /\ pc' = "done"
  /\ UNCHANGED <<f, in, out, slot, pos, j, live>>

Step == EnterBlock \/ Scan \/ LeaveBlock \/ StartRewrite \/ RewriteBlock \/ Finish
=============================================================================
