------------------------------- MODULE Parser -------------------------------
(***************************************************************************)
(* The reader of .ssa text (src/parser): one token of look-ahead, calls of *)
(* the builder as the statements go by, no second look at what was read.   *)
(* The lexer is left out: a text is a sequence of tokens.                  *)
(*                                                                         *)
(* Each action reads the tokens up to the next branch of the code; the     *)
(* functions of the parser that call one another are states of pc.  A file *)
(* as its author means it is kept in decls, to compare with what is built. *)
(***************************************************************************)
EXTENDS Builder
LOCAL INSTANCE TLC
LOCAL INSTANCE SequencesExt

CONSTANTS
  Files,        \* [decls, text]: declarations and the tokens that spell them
  Full,         \* 2^64: a number is kept as a uint64
  Word          \* 2^32: a block number is kept as a uint32

ASSUME FullAssumption == Full \in Nat /\ Full > 2

VARIABLES
  decls, text,      \* the file
  at,               \* index of the token of look-ahead
  globals,          \* the names of symbols, in the order of their numbers
  builder,          \* the function under construction
  locals,           \* name -> reference of the last definition read
  blocks,           \* name -> block
  params,           \* names of the parameters, until the first label
  stmt,             \* [op, to, addr] of the statement whose arguments are read
  args,             \* the arguments read so far
  funcs,            \* the functions read; label has the names of their blocks
  id, stack, nextId, call, rpc,     \* FillRPO, in Build
  pc

rpoVars == <<id, stack, nextId, call, rpc>>
vars == <<decls, text, at, globals, builder, locals, blocks, params, stmt, args, funcs,
          rpoVars, pc>>

Order == INSTANCE FillRPO WITH f <- builder, x <- nextId, pc <- rpc, Functions <- {}

-----------------------------------------------------------------------------
TokenAt(i) == IF i <= Len(text) THEN text[i] ELSE [kind |-> "EOF", val |-> ""]
Tok == TokenAt(at)
Is(kind)       == Tok.kind = kind
IsWord(word)   == Is("ident") /\ Tok.val = word
Past(i)        == IF i <= Len(text) THEN i + 1 ELSE i       \* next() stays at EOF
PastComma(i)   == IF TokenAt(i).kind = "," THEN i + 1 ELSE i

(***************************************************************************)
(* parseRef: a name of this function, a symbol, a number, or nothing.  A   *)
(* local name without a definition above is the zero Ref; a number that an *)
(* int64 cannot hold is cut to the nearest one that it can.                *)
(***************************************************************************)
Clamped(v) == LET h == Full \div 2 IN IF v >= h THEN h - 1 ELSE IF v < -h THEN -h ELSE v
Uint64(v)  == Clamped(v) % Full

EatenAt(i) == IF TokenAt(i).kind \in {"local", "global", "number"} THEN i + 1 ELSE i

GlobalsWith(tok) ==
  IF tok.kind = "global" /\ tok.val \notin Elems(globals) THEN Append(globals, tok.val)
  ELSE globals

BuilderWith(tok) == IF tok.kind = "number" THEN GetCon(builder, Uint64(tok.val)) ELSE builder

RefOf(tok) ==
  CASE tok.kind = "local"  -> IF tok.val \in DOMAIN locals THEN locals[tok.val] ELSE Tmp(0)
    [] tok.kind = "global" ->
         Sym(CHOOSE k \in 0 .. Len(globals) : GlobalsWith(tok)[k + 1] = tok.val)
    [] tok.kind = "number" -> ConOf(BuilderWith(tok), Uint64(tok.val))
    [] OTHER -> Undef

(***************************************************************************)
(* lookupOp.  An integer operation takes its width from the class; what    *)
(* the table does not know, phi among them, becomes nop.                   *)
(***************************************************************************)
Arith == {"add", "sub", "mul", "div", "udiv", "rem", "urem", "and", "or", "xor", "sar", "shr", "shl"}

Renamed == [store |-> "storel", ceql |-> "ceq", cnel |-> "cne", csltl |-> "cslt",
            cslel |-> "csle", csgtl |-> "csgt", csgel |-> "csge"]

Same == Loads \cup {"storeb", "ceqw", "cnew", "csltw", "cslew", "csgtw", "csgew", "copy"}
          \cup Extensions

LookupOp(op, cls) ==
  CASE op \in Arith -> IF cls = "l" THEN op ELSE CHOOSE w \in DOMAIN Narrow : Narrow[w] = op
    [] op \in DOMAIN Renamed -> Renamed[op]
    [] op \in Same -> op
    [] OTHER -> "nop"

(***************************************************************************)
(* What the parser calls expect for from here on, and what it takes the    *)
(* current block for granted for; it panics if it is not so.               *)
(***************************************************************************)
Expected ==
  CASE pc = "function" -> <<"function", "ident", "global", "(">>
    [] pc = "params"   -> IF Is(")") THEN <<")", "{">> ELSE <<"ident", "local">>
    [] pc = "body" /\ Is("local")   -> <<"local", "=", "ident", "ident">>
    [] pc = "body" /\ IsWord("jmp") -> <<"ident", "label">>
    [] pc = "body" /\ IsWord("jnz") ->
         <<"ident">> \o SubSeq(<<TokenAt(at + 1).kind>>, 1, EatenAt(at + 1) - at - 1)
           \o <<",", "label", ",", "label">>
    [] pc = "callee" -> SubSeq(<<Tok.kind>>, 1, EatenAt(at) - at) \o <<"(">>
    [] OTHER -> <<>>

NeedsBlock == pc = "ins" \/ (pc = "callargs" /\ Is(")")) \/ (pc = "body" /\ Is("ret"))

Readable ==
  /\ \A k \in DOMAIN Expected : TokenAt(at + k - 1).kind = Expected[k]
  /\ NeedsBlock => builder.cur # Nil

Panic ==
  /\ pc \notin {"done", "panic"} /\ ~Readable
  /\ pc' = "panic"
  /\ UNCHANGED <<decls, text, rpoVars, at, globals, builder, locals, blocks, params, stmt, args, funcs>>

-----------------------------------------------------------------------------
Init ==
  /\ \E file \in Files : decls = file.decls /\ text = file.text
  /\ at = 1 /\ globals = <<>> /\ builder = NewBuilder
  /\ locals = <<>> /\ blocks = <<>> /\ params = <<>>
  /\ stmt = <<>> /\ args = <<>> /\ funcs = <<>> /\ pc = "top"
  /\ id = <<>> /\ stack = <<>> /\ nextId = 0 /\ call = 1 /\ rpc = "RPO"

(***************************************************************************)
(* Parse: everything outside functions is passed over.                     *)
(***************************************************************************)
EndOfFile ==
  /\ pc = "top" /\ Is("EOF")
  /\ pc' = "done"
  /\ UNCHANGED <<decls, text, rpoVars, at, globals, builder, locals, blocks, params, stmt, args, funcs>>

SkipTop ==
  /\ pc = "top" /\ ~Is("EOF") /\ ~Is("export") /\ ~Is("function")
  /\ at' = Past(at)
  /\ UNCHANGED <<decls, text, rpoVars, globals, builder, locals, blocks, params, stmt, args, funcs, pc>>

Declare ==                     \* export or not, parseFunction is called
  /\ pc = "top" /\ (Is("export") \/ Is("function"))
  /\ at' = IF Is("export") THEN at + 1 ELSE at
  /\ builder' = [builder EXCEPT !.exported = Is("export")]
  /\ pc' = "function"
  /\ UNCHANGED <<decls, text, rpoVars, globals, locals, blocks, params, stmt, args, funcs>>

OpenFunction_GlobalsReset ==                               \* mutant
  /\ pc = "function" /\ Readable
  /\ builder' = [NewBuilder EXCEPT !.exported = builder.exported]
  /\ locals' = <<>> /\ blocks' = <<>> /\ params' = <<>> /\ globals' = <<>>
  /\ at' = at + 4 /\ pc' = "params"
  /\ UNCHANGED <<decls, text, rpoVars, stmt, args, funcs>>

OpenFunction ==
  /\ pc = "function" /\ Readable
  /\ builder' = [NewBuilder EXCEPT !.exported = builder.exported]
  /\ locals' = <<>> /\ blocks' = <<>> /\ params' = <<>>
  /\ at' = at + 4 /\ pc' = "params"
  /\ UNCHANGED <<decls, text, rpoVars, globals, stmt, args, funcs>>

Parameter ==
  /\ pc = "params" /\ ~Is(")") /\ Readable
  /\ params' = Append(params, TokenAt(at + 1).val)
  /\ at' = PastComma(at + 2)
  /\ UNCHANGED <<decls, text, rpoVars, globals, builder, locals, blocks, stmt, args, funcs, pc>>

OpenBody ==
  /\ pc = "params" /\ Is(")") /\ Readable
  /\ at' = at + 2 /\ pc' = "body"
  /\ UNCHANGED <<decls, text, rpoVars, globals, builder, locals, blocks, params, stmt, args, funcs>>

(***************************************************************************)
(* The end of a function: Build numbers its blocks and fills Pred, step by *)
(* step as module FillRPO has it; what it leaves unreachable is dropped.   *)
(* A function without a block is left as it is.                            *)
(***************************************************************************)
CloseFunction ==
  /\ pc = "body" /\ Is("}")
  /\ id' = [b \in Blocks(builder) |-> b]
  /\ stack' = <<>> /\ nextId' = 0 /\ call' = 1 /\ rpc' = "RPO"
  /\ at' = at + 1 /\ pc' = "build"
  /\ UNCHANGED <<decls, text, globals, builder, locals, blocks, params, stmt, args, funcs>>

Build ==
  /\ pc = "build" /\ builder.n > 0 /\ call = 1
  /\ Order!Next
  /\ blocks' = IF rpc = "compact" THEN [l \in DOMAIN blocks |-> Order!Number[blocks[l]]]
                                  ELSE blocks
  /\ UNCHANGED <<decls, text, at, globals, locals, params, stmt, args, funcs, pc>>

Built ==
  /\ pc = "build" /\ (builder.n = 0 \/ call = 2)
  /\ funcs' = Append(funcs, builder @@ [label |-> blocks])
  /\ pc' = "top"
  /\ UNCHANGED <<decls, text, rpoVars, at, globals, builder, locals, blocks, params, stmt, args>>

(***************************************************************************)
(* getOrCreateBlock.  A block that is created is also the one written to   *)
(* from then on, which is what a label is for; but Go evaluates the        *)
(* arguments of Jmp and Jnz before the call, so a jump to a label below is *)
(* written into the block it leads to.                                     *)
(***************************************************************************)
GetOrCreate_AlwaysNew(tables, name) ==                     \* mutant
  [of |-> Block(tables.of), blocks |-> (name :> tables.of.n) @@ tables.blocks]

GetOrCreate(tables, name) ==
  IF name \in DOMAIN tables.blocks THEN tables
  ELSE [of |-> Block(tables.of), blocks |-> tables.blocks @@ (name :> tables.of.n)]

Label ==
  /\ pc = "body" /\ Is("label")
  /\ LET got == GetOrCreate([of |-> builder, blocks |-> blocks], Tok.val)
         here == SetBlock(got.of, got.blocks[Tok.val])
         first == blocks = <<>>             \* the parameters go into the first block
     IN  /\ blocks' = got.blocks
         /\ builder' = IF first THEN FoldLeft(LAMBDA b, p : Param(b), here, params) ELSE here
         /\ locals' = IF first
                        THEN FoldLeft(LAMBDA l, k : (params[k] :> Tmp(here.ntmp + k - 1)) @@ l,
                                      locals, [k \in DOMAIN params |-> k])
                        ELSE locals
  /\ at' = at + 1
  /\ UNCHANGED <<decls, text, rpoVars, globals, params, stmt, args, funcs, pc>>

Jump1 ==                       \* jmp
  /\ pc = "body" /\ IsWord("jmp") /\ Readable
  /\ LET target == TokenAt(at + 1).val
         got == GetOrCreate([of |-> builder, blocks |-> blocks], target)
     IN  /\ blocks' = got.blocks
         /\ builder' = Jmp(got.of, got.blocks[target])
  /\ at' = at + 2
  /\ UNCHANGED <<decls, text, rpoVars, globals, locals, params, stmt, args, funcs, pc>>

Jump2 ==                       \* jnz
  /\ pc = "body" /\ IsWord("jnz") /\ Readable
  /\ LET tok == TokenAt(at + 1)
         p   == EatenAt(at + 1)
         one == TokenAt(p + 1).val
         two == TokenAt(p + 3).val
         got == GetOrCreate(GetOrCreate([of |-> BuilderWith(tok), blocks |-> blocks], one), two)
     IN  /\ blocks' = got.blocks
         /\ builder' = Jnz(got.of, RefOf(tok), got.blocks[one], got.blocks[two])
         /\ globals' = GlobalsWith(tok)
         /\ at' = p + 4
  /\ UNCHANGED <<decls, text, rpoVars, locals, params, stmt, args, funcs, pc>>

Return ==                      \* ret, with or without a value
  /\ pc = "body" /\ Is("ret") /\ Readable
  /\ LET tok == TokenAt(at + 1) IN
     /\ builder' = Ret(BuilderWith(tok), RefOf(tok))
     /\ globals' = GlobalsWith(tok)
  /\ at' = EatenAt(at + 1)
  /\ UNCHANGED <<decls, text, rpoVars, locals, blocks, params, stmt, args, funcs, pc>>

(***************************************************************************)
(* %to =cls op args: parseArgs reads at least one argument, so an operand  *)
(* that is missing is Undef.                                               *)
(***************************************************************************)
Let ==
  /\ pc = "body" /\ Is("local") /\ Readable
  /\ LET op == TokenAt(at + 3).val IN
     /\ stmt' = [op |-> LookupOp(op, TokenAt(at + 2).val), to |-> {Tok.val}, addr |-> Undef]
     /\ pc' = IF op = "call" THEN "callee" ELSE "args"
  /\ args' = <<>> /\ at' = at + 4
  /\ UNCHANGED <<decls, text, rpoVars, globals, builder, locals, blocks, params, funcs>>

Argument ==
  /\ pc = "args"
  /\ args' = Append(args, RefOf(Tok))
  /\ builder' = BuilderWith(Tok) /\ globals' = GlobalsWith(Tok)
  /\ at' = PastComma(EatenAt(at))
  /\ pc' = IF TokenAt(EatenAt(at)).kind = "," THEN "args" ELSE "ins"
  /\ UNCHANGED <<decls, text, rpoVars, locals, blocks, params, stmt, funcs>>

\* The names of a statement's result, none or one, now stand for the new temporary.
Named == [name \in stmt.to |-> Fresh(builder)] @@ locals

Instr ==
  /\ pc = "ins" /\ Readable
  /\ builder' = Result(builder, stmt.op, args)
  /\ locals' = Named
  /\ pc' = "body"
  /\ UNCHANGED <<decls, text, rpoVars, at, globals, blocks, params, stmt, args, funcs>>

(***************************************************************************)
(* call addr(args), with a result or without.                              *)
(***************************************************************************)
CallStatement ==
  /\ pc = "body" /\ IsWord("call")
  /\ stmt' = [op |-> "call", to |-> {}, addr |-> Undef]
  /\ args' = <<>> /\ at' = at + 1 /\ pc' = "callee"
  /\ UNCHANGED <<decls, text, rpoVars, globals, builder, locals, blocks, params, funcs>>

Callee ==
  /\ pc = "callee" /\ Readable
  /\ stmt' = [stmt EXCEPT !.addr = RefOf(Tok)]
  /\ builder' = BuilderWith(Tok) /\ globals' = GlobalsWith(Tok)
  /\ at' = EatenAt(at) + 1 /\ pc' = "callargs"
  /\ UNCHANGED <<decls, text, rpoVars, locals, blocks, params, args, funcs>>

CallArgument ==                \* what is no reference is an Undef, and stays there
  /\ pc = "callargs" /\ ~Is(")")
  /\ args' = Append(args, RefOf(Tok))
  /\ builder' = BuilderWith(Tok) /\ globals' = GlobalsWith(Tok)
  /\ at' = PastComma(EatenAt(at))
  /\ UNCHANGED <<decls, text, rpoVars, locals, blocks, params, stmt, funcs, pc>>

CloseCall ==
  /\ pc = "callargs" /\ Is(")") /\ Readable
  /\ builder' = Call(builder, stmt.addr, args)
  /\ locals' = Named
  /\ at' = at + 1 /\ pc' = "body"
  /\ UNCHANGED <<decls, text, rpoVars, globals, blocks, params, stmt, args, funcs>>

(***************************************************************************)
(* Any other token in a body is passed over, one at a time.                *)
(***************************************************************************)
Skip_TokenKept ==                                          \* mutant
  /\ pc = "body" /\ Tok.kind \notin {"}", "label", "local", "ret"}
  /\ ~IsWord("call") /\ ~IsWord("jmp") /\ ~IsWord("jnz")
  /\ UNCHANGED vars

Skip ==
  /\ pc = "body" /\ Tok.kind \notin {"}", "label", "local", "ret"}
  /\ ~IsWord("call") /\ ~IsWord("jmp") /\ ~IsWord("jnz")
  /\ at' = Past(at)
  /\ UNCHANGED <<decls, text, rpoVars, globals, builder, locals, blocks, params, stmt, args, funcs, pc>>

Next ==
  \/ Panic \/ EndOfFile \/ SkipTop \/ Declare \/ OpenFunction \/ Parameter \/ OpenBody
  \/ CloseFunction \/ Build \/ Built \/ Label \/ Jump1 \/ Jump2 \/ Return \/ Let \/ Argument \/ Instr
  \/ CallStatement \/ Callee \/ CallArgument \/ CloseCall \/ Skip

Spec == Init /\ [][Next]_vars /\ WF_vars(Next)
=============================================================================
