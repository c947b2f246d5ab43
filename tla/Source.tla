------------------------------- MODULE Source -------------------------------
(***************************************************************************)
(* What a text means, to compare with what the parser builds of it.        *)
(*                                                                         *)
(* A declaration is data or a function, with its parameters and the        *)
(* statements of its body; a statement is                                  *)
(*   label (name)            let (name, cls, op, args)   ret (args: 0 or 1) *)
(*   call (args, the first one called; of names: the result, or none)      *)
(*   jmp (to: one label)     jnz (args, to: two labels)  do (op, args)     *)
(* "do" is an operation without a result, which the parser does not know.  *)
(* An argument is a token: of a local, a global or a number.               *)
(***************************************************************************)
EXTENDS Parser
LOCAL INSTANCE SequencesExt
LOCAL INSTANCE FiniteSetsExt

FunctionsOf(ds) == SelectSeq(ds, LAMBDA d : d.kind = "function")

(***************************************************************************)
(* Statements of body s, by index.  A label holds those below it.          *)
(***************************************************************************)
LabelsUpTo(s, j) == {i \in 1 .. j : s[i].kind = "label"}
LabelOf(s, j)    == s[Max(LabelsUpTo(s, j))].name
FirstLabel(s)    == s[Min(LabelsUpTo(s, Len(s)))].name
Under(s, l) ==
  SetToSortSeq({j \in DOMAIN s : s[j].kind # "label" /\ LabelsUpTo(s, j) # {} /\ LabelOf(s, j) = l},
               <)

(***************************************************************************)
(* Temporaries are numbered in the order of their definitions; a name      *)
(* stands for the last one above it.                                       *)
(***************************************************************************)
Defining(s) == {j \in DOMAIN s : s[j].kind \in {"let", "call"}}
TempAt(d, j) == Fixed + Len(d.params) + Cardinality({i \in Defining(d.body) : i < j})

Definitions(d, name, j) ==          \* the temporaries of name, as defined above statement j
  {Fixed + k - 1 : k \in {k \in DOMAIN d.params : d.params[k] = name}}
    \cup {TempAt(d, i) : i \in {i \in Defining(d.body) : i < j /\ name \in d.body[i].names}}

Int64(v) == 2 * v \in -Full .. Full - 2

Means(d, g, j, tok, r) ==           \* r is what tok says in statement j
  CASE tok.kind = "local"  -> Definitions(d, tok.val, j) # {}
                                => r = Tmp(Max(Definitions(d, tok.val, j)))
    [] tok.kind = "global" -> r.kind = "RSym" /\ r.val < Len(globals) /\ globals[r.val + 1] = tok.val
    [] tok.kind = "number" ->
         r.kind = "RCon" /\ (Int64(tok.val) => g.con[r.val + 1] = tok.val % Full)
    [] tok.kind = "temp"   -> r = Tmp(tok.val)
    [] tok.kind = "none"   -> r = Undef

Nothing == [kind |-> "none", val |-> ""]
The(v)  == [kind |-> "temp", val |-> v]

(***************************************************************************)
(* The opcode of a mnemonic, by how the opcodes are named: a class w makes *)
(* the narrow one of an arithmetic operation, a comparison says its width  *)
(* itself, and the rest are called what they are written.  "store" is that *)
(* of class l.  Any other word is no operation.                            *)
(***************************************************************************)
Arithmetics == {"add", "sub", "mul", "div", "udiv", "rem", "urem",
                "and", "or", "xor", "shl", "shr", "sar"}

Compares == {"ceq", "cne", "cslt", "csle", "csgt", "csge"}

AsNamed == {"load", "loadub", "loadsb", "storeb", "copy", "extub", "extsb", "extuw", "extsw"}

OpcodeFor(op, cls) ==
  CASE op \in Arithmetics -> IF cls = "w" THEN op \o "w" ELSE op
    [] op \in {c \o "w" : c \in Compares} \cup AsNamed -> op
    [] op \in {c \o "l" : c \in Compares} -> CHOOSE c \in Compares : c \o "l" = op
    [] op = "store" -> "storel"
    [] OTHER -> "nop"

\* The instructions that statement j asks for.
Asked(d, j) ==
  LET s == d.body[j]
      it(op, to, as) == [at |-> j, op |-> op, to |-> to,
                         args |-> SubSeq(as \o <<Nothing, Nothing, Nothing>>, 1, 3)]
  IN  CASE s.kind = "let"  -> <<it(OpcodeFor(s.op, s.cls), The(TempAt(d, j)), s.args)>>
        [] s.kind = "call" -> [k \in DOMAIN Tail(s.args) |-> it("arg", Nothing, <<s.args[k + 1]>>)]
                                \o <<it("call", The(TempAt(d, j)), <<s.args[1]>>)>>
        [] OTHER -> <<>>

AskedPars(d) ==
  [k \in DOMAIN d.params |->
     [at |-> 0, op |-> "par", to |-> The(Fixed + k - 1), args |-> <<Nothing, Nothing, Nothing>>]]

AskedUnder(d, l) ==
  (IF l = FirstLabel(d.body) THEN AskedPars(d) ELSE <<>>)
    \o FoldLeft(LAMBDA all, j : all \o Asked(d, j), <<>>, Under(d.body, l))

\* An argument of a call may stand in either place: which of them the back end
\* reads is a matter between the builder and ABI0 (Lower).
Passes(d, g, ins, it) ==
  LET refs == <<ins.to>> \o ins.arg IN
  \E k \in {1, 2} : /\ Means(d, g, it.at, it.args[1], refs[k])
                    /\ \A l \in DOMAIN refs \ {k} : IsUndef(refs[l])

Written(d, g, ins, it) ==
  /\ ins.op = it.op
  /\ IF it.op = "arg" THEN Passes(d, g, ins, it)
     ELSE /\ Means(d, g, it.at, it.to, ins.to)
          /\ \A k \in 1 .. 3 : Means(d, g, it.at, it.args[k], ins.arg[k])

-----------------------------------------------------------------------------
Labels(d)  == {d.body[j].name : j \in LabelsUpTo(d.body, Len(d.body))}
Targets(s) == IF s.kind \in {"jmp", "jnz"} THEN Elems(s.to) ELSE {}

Kept(g)   == {l \in DOMAIN g.label : g.label[l] \in Blocks(g)}   \* the blocks Build kept

Backward(d) ==                      \* jumps lead only to labels above them
  \A j \in DOMAIN d.body :
    Targets(d.body[j]) \subseteq {d.body[i].name : i \in LabelsUpTo(d.body, j)}

\* Statements the parser stops at: what it would take for a definition, or no block.
Refused(d) ==
  IF d.kind = "data" THEN d.exported
  ELSE \/ d.void
       \/ \E j \in DOMAIN d.body :
            \/ d.body[j].kind = "do" /\ \E a \in Elems(d.body[j].args) : a.kind = "local"
            \/ d.body[j].kind \in {"let", "call", "ret"} /\ LabelsUpTo(d.body, j) = {}

(***************************************************************************)
(* AsWritten: a function is exported as the text says, and every           *)
(* instruction of a block that Start leads to is in the block of its label,*)
(* in order, and its operands are what the text names at that place: the   *)
(* last definition above, whatever block it is in, the symbol under the    *)
(* numbering that the whole file shares in the end, the number.  A call    *)
(* has one arg for each of its arguments, in order.  (A jump before the    *)
(* first label leaves the parameters out.)                                 *)
(***************************************************************************)
AsWritten ==
  pc = "done" =>
    LET fs == FunctionsOf(decls) IN
    /\ Len(funcs) = Len(fs)
    /\ \A k \in DOMAIN fs : funcs[k].exported = fs[k].exported
    /\ \A k \in DOMAIN fs : LabelsUpTo(fs[k].body, 1) # {} => \A l \in Kept(funcs[k]) :
         LET asked == AskedUnder(fs[k], l)
             got   == funcs[k].ins[funcs[k].label[l]]
         IN  Len(got) = Len(asked)
             /\ \A i \in DOMAIN asked : Written(fs[k], funcs[k], got[i], asked[i])

(***************************************************************************)
(* JumpsRight: a label is one block, however often and from wherever it is *)
(* named, and where jumps lead only to labels above them each block ends   *)
(* as its last jump says.  (A jump to a label below is written into the    *)
(* block it leads to: parse.go:203-215, :247.)                             *)
(***************************************************************************)
EndsAs(d, g, b, j) ==
  LET s == d.body[j]
      to(k) == g.label[s.to[k]]
      arg   == IF s.args = <<>> THEN Nothing ELSE s.args[1]
  IN  /\ g.jmp[b].type = s.kind
      /\ Means(d, g, j, arg, g.jmp[b].arg)
      /\ s.kind # "ret" => g.s1[b] = to(1)
      /\ s.kind = "jnz" => g.s2[b] = to(2)

JumpsRight ==
  \A k \in DOMAIN funcs :
    LET d == FunctionsOf(decls)[k]
        g == funcs[k]
        Jumps(l) == {j \in Elems(Under(d.body, l)) : d.body[j].kind \in {"ret", "jmp", "jnz"}}
    IN  /\ g.n > 0 => IsFunction(g)
        /\ DOMAIN g.label = Labels(d)
        /\ \A b \in Blocks(g) : Cardinality({l \in Labels(d) : g.label[l] = b}) = 1
        /\ Backward(d) => \A l \in Kept(g) :
             Jumps(l) # {} => EndsAs(d, g, g.label[l], Max(Jumps(l)))

(***************************************************************************)
(* Ends: a file is read to its end, over what the parser does not know,    *)
(* unless something in it is refused: operations without a result that     *)
(* name a local, exported data, functions without a class, and code before *)
(* the first label are.                                                    *)
(***************************************************************************)
Ends == <>(pc = IF \E k \in DOMAIN decls : Refused(decls[k]) THEN "panic" ELSE "done")
=============================================================================
