------------------------------ MODULE Builder ------------------------------
(***************************************************************************)
(* The fluent API that makes functions (src/builder).  A builder is a      *)
(* value here: the function under construction and, in cur, the block that *)
(* the next instruction goes to.  Blocks are numbered as they are made.    *)
(*                                                                         *)
(* The classes of temporaries and all names, which only the printed text   *)
(* shows, are left out.  Build runs FillRPO and FillPreds: see FillRPO.    *)
(***************************************************************************)
EXTENDS QbeIR
LOCAL INSTANCE TLC
LOCAL INSTANCE SequencesExt

Fixed == 64                         \* the temporaries that stand for registers

NewBuilder ==
  [n |-> 0, ntmp |-> Fixed, con |-> <<>>, exported |-> FALSE,
   s1 |-> <<>>, s2 |-> <<>>, pred |-> <<>>, phis |-> <<>>, ins |-> <<>>, jmp |-> <<>>,
   loop |-> <<>>, cur |-> Nil]

SetBlock(b, blk) == [b EXCEPT !.cur = blk]

Jxxx == [type |-> "none", arg |-> Tmp(0)]       \* the zero Jump of a new block

\* Making a block also makes it the one that is written to.
Block(b) ==
  [b EXCEPT !.n = @ + 1, !.cur = b.n, !.loop = @ @@ (b.n :> 0),
            !.s1 = @ @@ (b.n :> Nil), !.s2 = @ @@ (b.n :> Nil),
            !.pred = @ @@ (b.n :> <<>>), !.phis = @ @@ (b.n :> <<>>),
            !.ins = @ @@ (b.n :> <<>>), !.jmp = @ @@ (b.n :> Jxxx)]

NewTmp(b) == [b EXCEPT !.ntmp = @ + 1]

\* GetCon gives equal values one number, the first constant number 0.
GetCon(b, val) == IF val \in Elems(b.con) THEN b ELSE [b EXCEPT !.con = Append(@, val)]
ConOf(b, val)  == Con(CHOOSE k \in 0 .. Len(b.con) - 1 : b.con[k + 1] = val)

Ins(b, op, to, args) ==
  [b EXCEPT !.ins[b.cur] =
     Append(@, [op |-> op, to |-> to, arg |-> SubSeq(args \o <<Undef, Undef, Undef>>, 1, 3)])]

\* Add, Sub, ..., Copy and Compare: an instruction that writes a new temporary.
Fresh(b) == Tmp(b.ntmp)
Result(b, op, args) == Ins(NewTmp(b), op, Fresh(b), args)

Param(b) == Result(b, "par", <<>>)

\* An argument is handed over in To of an instruction of its own.
Call(b, addr, args) ==
  Result(FoldLeft(LAMBDA c, arg : Ins(c, "arg", arg, <<>>), b, args), "call", <<addr>>)

\* The jump of the current block; a pointer that the jump does not need stays.
Jmp(b, target)   == [b EXCEPT !.jmp[b.cur] = [type |-> "jmp", arg |-> Undef], !.s1[b.cur] = target]
Jnz(b, arg, t, e) ==
  [b EXCEPT !.jmp[b.cur] = [type |-> "jnz", arg |-> arg], !.s1[b.cur] = t, !.s2[b.cur] = e]
Ret(b, arg)      == [b EXCEPT !.jmp[b.cur] = [type |-> "ret", arg |-> arg]]
=============================================================================
