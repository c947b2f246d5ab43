------------------------------ MODULE RegAlloc ------------------------------
(***************************************************************************)
(* RegAllocator (src/codegen/rega.go): every block is scanned backwards,   *)
(* and a temporary takes a register where the scan meets it first.  Two    *)
(* rounds only collect suggestions (tr, the code's GlobalTR: the register  *)
(* each temporary had last); the third one writes the registers into the   *)
(* code, and puts copies at the start of a block for temporaries that do   *)
(* not get the register suggested.                                         *)
(*                                                                         *)
(* RtoT is written and never read; it is left out.  The set of temporaries *)
(* live across calls that Allocate computes is handed to assign, which     *)
(* does not look at it; no step below depends on it.                       *)
(***************************************************************************)
EXTENDS Machine
LOCAL INSTANCE SequencesExt

\* Definitions marked "mutant" are slips the properties must catch; no other
\* definition uses them.

None == -1                       \* no register

VARIABLES
  f,          \* the function
  in, out,    \* block -> temporaries, as Spill left them
  st,         \* what the allocator knows, see AllocState
  pos, j,     \* the block, and how many of its instructions are left
  round,      \* 1 and 2 are dry runs, 3 is the real one
  pc          \* "block", "scan", "done" or "panic"

vars == <<f, in, out, st, pos, j, round, pc>>

(***************************************************************************)
(* t2r: temporary -> register, of this block; live: the registers taken;   *)
(* tr: temporary -> register, of all blocks; saved: F.CalleeSaved, whose   *)
(* order only the emitter cares for; fixups: pairs of registers to copy;   *)
(* ok: assign has not panicked.                                            *)
(***************************************************************************)
Fresh == [t2r |-> <<>>, live |-> {}, tr |-> <<>>, saved |-> {}, fixups |-> <<>>, ok |-> TRUE]

Start ==
  /\ st = Fresh
  /\ pos = 0 /\ j = 0 /\ round = 1
  /\ pc = "block"

Dry == round < 3

-----------------------------------------------------------------------------
\* A partial function with one more entry, or one less.
With(fun, t, r)  == (t :> r) @@ fun
Without(fun, t)  == [u \in DOMAIN fun \ {t} |-> fun[u]]
Entry(fun, t)    == IF t \in DOMAIN fun THEN fun[t] ELSE None

\* takeReg: temporary 0 also stands for no temporary at all.
TakeReg(s, t, r) ==
  [s EXCEPT !.t2r = With(@, t, r), !.live = @ \cup {r},
            !.tr = IF t = 0 THEN @ ELSE With(@, t, r),
            !.saved = IF t # 0 /\ r \in CalleeSave THEN @ \cup {r} ELSE @]

FreeReg(s, t, r) == [s EXCEPT !.t2r = Without(@, t), !.live = @ \ {r}]

(***************************************************************************)
(* assign: the favourite if it is free, else the first free register of    *)
(* the pool, and a panic if there is none.                                 *)
(***************************************************************************)
FirstFree(s, forbidden) ==
  LET free == {k \in DOMAIN Pool : Pool[k] # forbidden /\ Pool[k] \notin s.live}
  IN  IF free = {} THEN None ELSE Pool[CHOOSE k \in free : \A l \in free : k <= l]

Choice(s, fav, forbidden) ==
  IF fav # None /\ fav # forbidden /\ fav \notin s.live THEN fav ELSE FirstFree(s, forbidden)

Assign(s, t, fav, forbidden) ==
  LET r == Choice(s, fav, forbidden)
  IN  IF r = None THEN [s EXCEPT !.ok = FALSE] ELSE TakeReg(s, t, r)

-----------------------------------------------------------------------------
(***************************************************************************)
(* The start of allocBlock: the temporaries of In take registers first, in *)
(* the order of their numbers, then those of Out that this block defines   *)
(* get the suggested ones if they are free, then the branch condition.     *)
(***************************************************************************)
Numbered(ts) == SetToSortSeq(ts, <)

Seed(s, t) ==
  LET fav == Entry(s.tr, t)
      a == Assign(s, t, fav, None)
      reg == Entry(a.t2r, t)
  IN  [a EXCEPT !.fixups = IF Dry \/ fav \in {None, reg} THEN @ ELSE Append(@, <<reg, fav>>),
                !.tr = With(@, t, reg)]

Suggested_Unchecked(s, t) ==                              \* mutant
  IF t \in DOMAIN s.tr THEN TakeReg(s, t, s.tr[t]) ELSE s

Suggested(s, t) ==
  IF t \in DOMAIN s.tr /\ s.tr[t] \notin s.live THEN TakeReg(s, t, s.tr[t]) ELSE s

IfUnassigned(s, t, fav, forbidden) ==
  IF t \in DOMAIN s.t2r THEN s ELSE Assign(s, t, fav, forbidden)

Condition(s) ==
  LET jmp == f.jmp[pos]
  IN  IF jmp.type = "jnz" /\ IsTmp(jmp.arg) THEN IfUnassigned(s, jmp.arg.val, None, None) ELSE s

Seeded ==
  LET new == [st EXCEPT !.t2r = <<>>, !.live = {}, !.fixups = <<>>]
      seeded == FoldLeft(Seed, new, Numbered(in[pos]))
  IN  Condition(FoldLeft(Suggested, seeded, Numbered(out[pos] \ in[pos])))

Placed(s, r) == IF IsTmp(r) THEN Reg(Entry(s.t2r, r.val)) ELSE r

EnterBlock_JumpKept ==                                    \* mutant
  /\ pc = "block" /\ pos < f.n
  /\ st' = Seeded
  /\ j' = Len(f.ins[pos])
  /\ pc' = IF st'.ok THEN "scan" ELSE "panic"
  /\ UNCHANGED <<f, in, out, pos, round>>

EnterBlock ==
  /\ pc = "block" /\ pos < f.n
  /\ st' = Seeded
  /\ f' = IF Dry \/ f.jmp[pos].type # "jnz" \/ ~st'.ok THEN f
          ELSE [f EXCEPT !.jmp[pos].arg = Placed(st', @)]
  /\ j' = Len(f.ins[pos])
  /\ pc' = IF st'.ok THEN "scan" ELSE "panic"
  /\ UNCHANGED <<in, out, pos, round>>

-----------------------------------------------------------------------------
(***************************************************************************)
(* One instruction.  First its result: the register of the temporary is    *)
(* free above it.  A result nothing reads takes a register of its own,     *)
(* not that of the first argument that has one.                            *)
(***************************************************************************)
Forbidden(s, ins) ==
  LET held == [k \in DOMAIN ins.arg |->
                 IF IsTmp(ins.arg[k]) THEN Entry(s.t2r, ins.arg[k].val)
                 ELSE IF IsReg(ins.arg[k]) THEN ins.arg[k].val ELSE None]
      some == {k \in DOMAIN held : held[k] # None}
  IN  IF some = {} THEN None ELSE held[CHOOSE k \in some : \A l \in some : k <= l]

CopyFrom(ins) == IF ins.op = "copy" /\ IsReg(ins.arg[1]) THEN ins.arg[1].val ELSE None
CopyTo(ins)   == IF ins.op = "copy" /\ IsReg(ins.to) THEN ins.to.val ELSE None

\* <<the state, the instruction>> after its result has been dealt with.
Defined(s, ins) ==
  CASE IsTmp(ins.to) ->
         LET t == ins.to.val
             a == IfUnassigned(s, t, CopyFrom(ins), Forbidden(s, ins))
         IN  <<FreeReg(a, t, Entry(a.t2r, t)),
               IF Dry THEN ins ELSE [ins EXCEPT !.to = Placed(a, @)]>>
    [] IsReg(ins.to) -> <<FreeReg(s, 0, ins.to.val), ins>>
    [] OTHER -> <<s, ins>>

(***************************************************************************)
(* Then its arguments, in order: a temporary that has no register yet is   *)
(* favoured with the one it is copied to, which in the last round may be   *)
(* the one just written into the instruction.                              *)
(***************************************************************************)
ReadArg(p, k) ==
  LET s == p[1]
      ins == p[2]
      r == ins.arg[k]
  IN  CASE IsTmp(r) ->
             LET a == IfUnassigned(s, r.val, CopyTo(ins), None)
             IN  <<a, IF Dry THEN ins ELSE [ins EXCEPT !.arg[k] = Placed(a, @)]>>
        [] IsReg(r) -> <<TakeReg(s, 0, r.val), ins>>
        [] OTHER -> p

Scan ==
  /\ pc = "scan" /\ j > 0
  /\ LET ins == f.ins[pos][j]
         p == FoldLeft(ReadArg, Defined(st, ins), [k \in DOMAIN ins.arg |-> k])
     IN  /\ st' = p[1]
         /\ f' = IF p[1].ok THEN [f EXCEPT !.ins[pos][j] = p[2]] ELSE f
         /\ pc' = IF p[1].ok THEN "scan" ELSE "panic"
  /\ j' = j - 1
  /\ UNCHANGED <<in, out, pos, round>>

-----------------------------------------------------------------------------
Fixups ==
  [k \in DOMAIN st.fixups |->
     [op |-> "copy", to |-> Reg(st.fixups[k][1]),
      arg |-> <<Reg(st.fixups[k][2]), Undef, Undef>>]]

\* The registers of Out, as far as they are still held, become suggestions.
Remembered ==
  [t \in DOMAIN st.tr \cup (out[pos] \cap DOMAIN st.t2r) |->
     IF t \in out[pos] \cap DOMAIN st.t2r THEN st.t2r[t] ELSE st.tr[t]]

LeaveBlock_SavedReset ==                                  \* mutant
  /\ pc = "scan" /\ j = 0
  /\ f' = IF Dry THEN f ELSE [f EXCEPT !.ins[pos] = Fixups \o @]
  /\ st' = [st EXCEPT !.tr = Remembered, !.saved = {}]
  /\ pos' = pos + 1
  /\ pc' = "block"
  /\ UNCHANGED <<in, out, j, round>>

LeaveBlock ==
  /\ pc = "scan" /\ j = 0
  /\ f' = IF Dry THEN f ELSE [f EXCEPT !.ins[pos] = Fixups \o @]
  /\ st' = [st EXCEPT !.tr = Remembered]
  /\ pos' = pos + 1
  /\ pc' = "block"
  /\ UNCHANGED <<in, out, j, round>>

EndRound ==
  /\ pc = "block" /\ pos = f.n
  /\ IF round < 3
       THEN /\ round' = round + 1 /\ pos' = 0 /\ pc' = "block"
            /\ st' = [st EXCEPT !.saved = IF round = 2 THEN {} ELSE @]
       ELSE pc' = "done" /\ UNCHANGED <<round, pos, st>>
  /\ UNCHANGED <<f, in, out, j>>

Step == EnterBlock \/ Scan \/ LeaveBlock \/ EndRound
=============================================================================
