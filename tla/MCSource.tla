------------------------------ MODULE MCSource ------------------------------
(***************************************************************************)
(* Texts for the parser: functions of one block with every operation and   *)
(* with every pair of statements, files of two declarations, and functions *)
(* of three blocks that end in every combination of jumps.                 *)
(***************************************************************************)
EXTENDS Source
LOCAL INSTANCE SequencesExt

T(kind, val) == [kind |-> kind, val |-> val]
P(kind)      == T(kind, "")
Ident(w)     == T("ident", w)
Local(x)     == T("local", x)
Global(x)    == T("global", x)
Number(v)    == T("number", v)
At(l)        == T("label", l)

-----------------------------------------------------------------------------
Label1(l)              == [kind |-> "label", name |-> l]
LetIt(x, cls, op, as)  == [kind |-> "let", names |-> {x}, cls |-> cls, op |-> op, args |-> as]
CallIt(names, as)      == [kind |-> "call", names |-> names, args |-> as]
RetIt(as)              == [kind |-> "ret", args |-> as]
JmpTo(l)               == [kind |-> "jmp", args |-> <<>>, to |-> <<l>>]
JnzTo(a, l, m)         == [kind |-> "jnz", args |-> <<a>>, to |-> <<l, m>>]
DoIt(op, as)           == [kind |-> "do", op |-> op, args |-> as]

Data(exported) == [kind |-> "data", exported |-> exported]
Fn(exported, void, ps, body) ==
  [kind |-> "function", exported |-> exported, void |-> void, params |-> ps, body |-> body]

-----------------------------------------------------------------------------
Listing(toks) ==
  FoldLeft(LAMBDA all, t : IF all = <<>> THEN <<t>> ELSE all \o <<P(","), t>>, <<>>, toks)

Result1(names, cls) ==
  IF names = {} THEN <<>> ELSE <<Local(CHOOSE x \in names : TRUE), P("="), Ident(cls)>>

SpellStatement(s) ==
  CASE s.kind = "label" -> <<At(s.name)>>
    [] s.kind = "let"   -> Result1(s.names, s.cls) \o <<Ident(s.op)>> \o Listing(s.args)
    [] s.kind = "call"  -> Result1(s.names, "w") \o <<Ident("call"), s.args[1], P("(")>>
                             \o Listing(Tail(s.args)) \o <<P(")")>>
    [] s.kind = "ret"   -> <<P("ret")>> \o s.args
    [] s.kind = "jmp"   -> <<Ident("jmp"), At(s.to[1])>>
    [] s.kind = "jnz"   -> <<Ident("jnz")>> \o Listing(<<s.args[1], At(s.to[1]), At(s.to[2])>>)
    [] s.kind = "do"    -> <<Ident(s.op)>> \o Listing(s.args)

SpellParams(ps) ==
  FoldLeft(LAMBDA all, x : (IF all = <<>> THEN all ELSE Append(all, P(",")))
                             \o <<Ident("w"), Local(x)>>, <<>>, ps)

Spell(d) ==
  (IF d.exported THEN <<P("export")>> ELSE <<>>) \o
  IF d.kind = "data" THEN <<P("data"), Global("g"), P("="), P("{"), Ident("w"), Number(1), P("}")>>
  ELSE <<P("function")>> \o (IF d.void THEN <<>> ELSE <<Ident("w")>>)
         \o <<Global("f"), P("(")>> \o SpellParams(d.params) \o <<P(")"), P("{")>>
         \o FoldLeft(LAMBDA all, s : all \o SpellStatement(s), <<>>, d.body) \o <<P("}")>>

Spelt(decls_) ==
  [decls |-> decls_, text |-> FoldLeft(LAMBDA all, d : all \o Spell(d), <<>>, decls_)]

-----------------------------------------------------------------------------
(***************************************************************************)
(* One block: a is a parameter, x is defined perhaps twice.                *)
(***************************************************************************)
Statements ==
  {LetIt("x", "w", "add", <<Local("a"), Number(1)>>), LetIt("x", "l", "sub", <<Local("x"), Local("a")>>),
   LetIt("a", "l", "copy", <<Number(-1)>>), LetIt("y", "l", "copy", <<Global("g")>>),
   LetIt("y", "w", "madd", <<Local("x"), Number(1), Number(0), Number(2)>>),
   LetIt("y", "w", "ceqw", <<Number(6), Local("x")>>),
   CallIt({"x"}, <<Global("h"), Local("a"), Number(1), Local("x")>>),
   CallIt({}, <<Local("x")>>), CallIt({}, <<Global("g"), Global("h")>>),
   LetIt("m", "l", "store", <<Local("a"), Local("x")>>),
   DoIt("storel", <<Local("a"), Number(1)>>), DoIt("storel", <<Global("h"), Number(1)>>),
   DoIt("storew", <<Number(2), Local("x")>>)}

OneBlock(ps, s1, s2) ==
  Fn(TRUE, FALSE, ps, <<Label1("s"), s1, s2, RetIt(<<Local("x")>>)>>)

Straight ==
  {Spelt(<<OneBlock(<<"b", "a">>, s1, s2)>>) : s1 \in Statements, s2 \in Statements}

(***************************************************************************)
(* Two declarations, some of which the parser refuses.                     *)
(***************************************************************************)
Short(s) == Fn(FALSE, FALSE, <<"a">>, <<Label1("s"), s, RetIt(<<>>)>>)

Odd ==
  {Data(FALSE), Data(TRUE), Fn(FALSE, TRUE, <<>>, <<Label1("s"), RetIt(<<Global("g")>>)>>),
   Fn(FALSE, FALSE, <<"a", "a">>, <<Label1("s"), RetIt(<<Local("a")>>)>>),
   Fn(FALSE, FALSE, <<"a">>, <<RetIt(<<>>)>>),
   Fn(FALSE, FALSE, <<"a">>, <<CallIt({}, <<Global("g")>>), Label1("s")>>),
   Fn(FALSE, FALSE, <<"a">>, <<LetIt("x", "w", "copy", <<Local("a")>>), Label1("s")>>),
   Fn(FALSE, FALSE, <<"a">>, <<JmpTo("s"), Label1("s"), RetIt(<<Number(1)>>)>>)}

Pairs ==
  LET some == Odd \cup {Short(s) : s \in Statements}
  IN  {Spelt(<<d, e>>) : d \in some, e \in some}

(***************************************************************************)
(* Three blocks.  A second definition of x stands in every block.  A text  *)
(* may name all its labels first: then no jump leads to a label below.     *)
(***************************************************************************)
Names == {"s", "t", "u"}

Jumps3 ==
  {RetIt(<<Local("x")>>)} \cup {JmpTo(l) : l \in Names}
    \cup {JnzTo(Local("x"), l, m) : l \in Names, m \in Names}
    \cup {JnzTo(Number(2), l, "s") : l \in Names}

More == LetIt("x", "w", "add", <<Local("x"), Local("a")>>)

ThreeBlocks ==
  {Spelt(<<Fn(FALSE, FALSE, <<"a">>,
              listed \o <<Label1("s"), LetIt("x", "w", "copy", <<Local("a")>>), j1,
                          Label1("t"), More, j2, Label1("u"), More, j3>>)>>) :
     j1 \in Jumps3, j2 \in Jumps3, j3 \in Jumps3,
     listed \in {<<>>, <<Label1("s"), Label1("t"), Label1("u")>>}}

(***************************************************************************)
(* Every mnemonic that the parser knows, and some that it does not, in     *)
(* both classes.                                                           *)
(***************************************************************************)
Mnemonics ==
  {"add", "sub", "mul", "div", "udiv", "rem", "urem", "and", "or", "xor", "sar", "shr", "shl",
   "load", "loadub", "loadsb", "store", "storeb", "copy", "extub", "extsb", "extuw", "extsw",
   "ceqw", "cnew", "csltw", "cslew", "csgtw", "csgew", "ceql", "cnel", "csltl", "cslel", "csgtl",
   "csgel", "neg", "madd", "storew", "cultw", "phi"}

EachOperation ==
  {Spelt(<<Short(LetIt("x", cls, op, <<Local("a"), Number(1)>>))>>) :
     op \in Mnemonics, cls \in {"w", "l"}}

AllFiles == EachOperation \cup Straight \cup Pairs \cup ThreeBlocks
=============================================================================
