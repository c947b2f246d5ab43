# A verification development for qbe-go

qbe-go is a compiler back end in Go: it reads functions in an intermediate
language, brings them into SSA form, optimises them, takes them out of SSA form,
allocates registers and prints ARM64 assembly.  Each pass is a sequential algorithm
that rewrites one function and the tables kept with it.  What makes it hard is not
concurrency: it is that every pass iterates in place over data it is changing, and
trusts tables an earlier pass left behind.

This directory models that compiler in TLA+, from the tokens of a text to the text
that is printed: parsing and building, the control-flow analyses, liveness, SSA
construction, the optimisation passes, SSA destruction, spilling, the calling
convention, register allocation, and the order of what is emitted.  TLC checks the
models on all small functions of some shape; TLAPS proves the central facts about
liveness and dominance for every function.

Contents: [inventory](#inventory), [modules](#modules),
[runs](#what-the-runs-check), [inputs left out](#inputs-left-out),
[findings](#what-the-code-does-that-its-comments-do-not-say),
[fairness](#fairness), [proofs](#proofs), [plan](#plan), [not modelled](#not-modelled).

## Inventory

`main.go:65-76` runs, for each function the parser returns:

    SSA -> Simplify -> DCE -> PhiElim -> Spill -> ABI0 -> Allocate -> Emit

on one `ir.Function`, which is all the state the passes share.  There is one
goroutine and nothing is persisted: the hazards are order, staleness, fixpoints,
boundaries, and the iteration order of Go maps.

| Component (source) | State it keeps | Operations | What makes it correct |
|---|---|---|---|
| IR (`ir/`) | blocks, `S1`/`S2`, phis, instructions, temporaries, constants | `NewTmp`, `GetCon`, `HasSideEffects` | references stay inside their tables; operations with an effect, or whose place matters, are known as such |
| Parser (`parser/`) | token at hand; names of locals, blocks and globals | `Parse`, `parseFunction`, `parseBlock`, `parseInstruction`, ... | what is built is what the text says; it ends |
| Builder (`builder/`) | function, current block | `Block`, `NewTmp`, `Ret`, `Jmp`, `Jnz`, `Call`, ..., `Build` | code lands in the block it was written in |
| Control-flow graph (`analysis/cfg.go`) | `Pred`, `Id`, `Loop`, `Visit`, order of `f.Blocks` | `FillPreds`, `FillRPO` (recursive), `FillLoop` (recursive) | reachable blocks only, numbered without holes in reverse post-order; a second call changes nothing; loop depths are those of the graph |
| Dominance (`analysis/dom.go`) | `Idom`, tree links `Dom`/`DLink`, `Fron` | `FillDom` (fixpoint, `intersect`), `FillFron`, `IsSdom` | Idom is the closest strict dominator; the list under a block is its children; Fron is the frontier; no nil dereference |
| Liveness (`analysis/live.go`) | `In`, `Out`, `Gen`, `Kill` | `Liveness` (backward sweeps to a fixpoint), `liveOn` | exactly what is live along some path |
| SSA (`analysis/ssa.go`) | all of the above, `NDef`/`NUse`/`Def`/`Uses`, name stacks | `FillUse`, `insertPhis` (worklist), `rename` (recursive) | one definition per temporary that dominates its uses; same behaviour |
| `analysis/verify.go`, `cost.go` | - | `VerifySSA`, `FillCost` (never called) | the verifier accepts what SSA leaves |
| Peephole (`arch/arm64/peep.go`) | reads `NUse`, `Def`; rewrites instructions | `Simplify` | same behaviour though tables are not refreshed |
| DCE (`opt/dce.go`) | reads `Out`; removes instructions, phis | `DCE` (sweeps to a fixpoint) | same behaviour; nothing removable left |
| SCCP, Fold (`opt/sccp.go`, `fold.go`) | lattice, a queue of blocks, a Go map of temporaries | `SCCP`, `Fold` (not in the pipeline) | the constants are constants, in any map order; folding is what the machine would compute |
| CopyProp (`opt/copy.go`) | `cpy`, temporary to reference | `CopyProp`, `findRoot` (not in the pipeline) | same behaviour; no copy left |
| GVN (`opt/gvn.go`) | table of expressions, scoped by the dominator tree | `GVN` (recursive, not in the pipeline) | same behaviour; nothing computed twice under one dominator |
| PhiElim (`opt/phi_elim.go`) | edge map, split blocks | `PhiElim`, then `FillPreds`, `FillRPO`, `Liveness` | copies do what the phis did, in any map order; analyses right again |
| Spill (`codegen/spill.go`) | `Slot`, `In`/`Out` | `Spill`, `limit`, `rewriteSpills` | pressure fits the allocator; slots are distinct |
| ABI (`arch/arm64/abi.go`) | argument classes, registers left | `ABI0`, `selpar`, `selcall`, `selret` | caller and callee agree on places |
| Register allocation (`codegen/rega.go`) | `GlobalTR` across blocks, per-block maps | two dry runs, one real run | no register holds two live values; edges agree |
| Emission (`arch/arm64/emit.go`, `isel.go`) | `PendingCmp`, frame layout | `Emit` | a comparison is written before it is read; slots and allocs lie in the frame |
| AMD64 (`arch/amd64`) | - | stub | - |
| Bit sets (`util/bitset.go`) | words | `Set`, `Union`, `Copy`, ... | set algebra below `Size` |

They interact by call (the parser calls the builder token by token, the builder calls
`FillRPO` and `FillPreds`, SSA the four analyses, PhiElim three of them) and by shared
tables: Simplify reads what `FillUse` left, DCE what `Liveness` left, `rename` what
`FillDom` and `insertPhis` left, Allocate the `In` and `Out` that Spill rewrote before
ABI0 added code, Emit the code and the list of saved registers Allocate left.
`PROJECT.json` lists, under `hazards`, each place where that can go wrong, with the
property that would notice or the reason why none does.

## Modules

A function is a record: `n` blocks `0 .. n-1`, `s1`/`s2` (`Nil` is the nil
pointer), `pred`, `phis`, `ins`, `jmp`, and `ntmp` temporaries.  A block is named by
its number because `FillRPO` keeps `f.Blocks[b.Id] == b`; before it has run, by its
place in `f.Blocks`, which is where the builder put it.  Names are dropped.  An
integer class is part of the operation (`add` is class l, `addw` class w).  In the
passes the 64 temporaries reserved for registers are left out, since they never occur
in instructions; the parser keeps them (`Fixed`), for an undefined local is temporary 0.

| Module | Models | State and actions |
|---|---|---|
| `QbeIR` | `ir/`, `FillPreds` | no state: references, instructions, side effects, the well-formedness `IsFunction` |
| `Arithmetic` | integers of two widths (`fold.go`, `emit.go`) | no state: wrapping, signs, binary digits; `Bits` is 4 for 64 and 2 for 32 |
| `Semantics` | the meaning of operations | no state: symbolic execution along a path; `Behaves(g, h, k)` compares the traces of two functions on all paths of k blocks |
| `Machine` | registers, slots, flags and the AAPCS64 call (`emit.go`) | no state: `Implements(g, h, k)` compares lowered code with the code it came from on all paths of k blocks |
| `Builder` | `builder.go`, all methods | no state of its own: each method is a function from builder to builder |
| `Parser` | `parse.go` on a sequence of tokens | `at` is the token at hand, `locals`, `blocks`, `globals` the name tables, `builder`, `funcs`; one action per parse function, `Build` by instance of `FillRPO`; a panic is a state |
| `Source` | what a text says | the reference the parser is compared with, with its own table of mnemonics; it leaves open in which place an `arg` has its operand |
| `FillRPO` | `FillRPO`, `FillPreds`, in the order Build and SSA call them | the recursion is an explicit `stack`; `StartWalk`, `Descend`, `Skip`, `Leave`, `Compact`, `Preds` |
| `FillDom` | `FillDom`, `intersect`, `FillFron` | `idom`, `dom`, `dlink`, `fron`, the loop cursors; each step up a chain of Idoms is an action (`Climb1`, `Climb2`), a nil dereference is the state `panic` |
| `FillLoop` | `FillLoop`, `loopMark` | `loop` (a uint32), `visit`, and `todo`, the calls of `loopMark` that are still to be made |
| `Cfg` | the analyses one after another | composes `FillRPO`, `FillDom` and `FillLoop` on one function |
| `Liveness` | `Liveness`, `liveOn` | `in`, `out`, `changed`; `Visit` is one turn of the inner loop, `EndSweep` the end of the outer one's |
| `SSA` | `SSA`, `FillUse`, `insertPhis`, `rename` | composes `FillDom` and `Liveness` by INSTANCE; `PlacePhis`, `NextTemp`, `Enter`, `RenamePhi`, `RenameIns`, `EndBlock`, `Return`; `walks` are the open calls of `walk`, `entered` (history) the blocks it has been called on |
| `Verify` | `VerifySSA` | no state: predicates on a function and its Idoms |
| `Simplify` | `arm64.Simplify` | one action per instruction; checked inside `Compile` |
| `DCE` | `DCE` | `EnterBlock`, `Scan`, `LeaveBlock`, `EndSweep` |
| `Compile` | `main.go:66-68` | composes `SSA`, `Simplify` and `DCE` over the same tables |
| `Fold`, `SCCP` | `Fold`; `SCCP` | `lat`, the queue `flowWL`, the map `ssaWL`; `VisitBlock`, `VisitUses(t)` for any t the map may give next, `Visit` for one phi or instruction, `TransformBlock` |
| `CopyProp` | `CopyProp`, `findRoot` | `cpy`; `SweepBlock`, `EndSweep`, `ReplaceBlock` |
| `GVN` | `GVN` | `valueTable`, `replacements`, `scopes` (the open calls); `Walk`, `Leave`, `Update` |
| `Optimize` | `opt/` | runs one of the four passes per behaviour, under one set of properties |
| `PhiElim` | `PhiElim` | composes `FillRPO` and `Liveness`; `PlaceEdge(e)` for any edge the two nested maps may give next |
| `Spill` | `Spill`, `limit`, `rewriteSpills` | `live`, the backward scan (`EnterBlock`, `Scan`, `LeaveBlock`), then `RewriteBlock`; `slot` is `Temps[t].Slot` |
| `ABI0` | `ABI0`, `selret`, `selcall`, `selpar` | `LowerBlock` for each block, then `LowerParams` |
| `RegAlloc` | `RegAllocator` | `st` is what the allocator knows: `t2r` (TtoR), `live`, `tr` (GlobalTR), `saved` (CalleeSaved), `fixups`; `EnterBlock` seeds, `Scan` is one instruction, `LeaveBlock`; `round` 3 is the real one; a panic is a state |
| `Emit` | the order of emission and fusion (`emit.go`) | `asm` is the text so far, `pending` is `PendingCmp`; `EnterBlock`, `EmitIns`, `EmitJump` |
| `Lower` | `main.go:69-76` | composes `PhiElim`, `Spill`, `ABI0`, `RegAlloc` and `Emit` over the same function, `In` and `Out` |
| `MCGraphs`, `MC*` | - | the inputs of the runs |
| `LivenessProofs`, `FillRPOProofs`, `FillDomProofs`, `CfgProofs`, `SSAProofs`, `OptimizeProofs`, `LowerProofs` | - | the theorems |
| `GraphProofs` | - | lemmas the theorems share: paths and reachability, recursive functions, least numbers, Pred lists, dominance and its frontiers, what liveness says of definitions |

A pass is one action per turn of its innermost interesting loop.  Early returns
and branches of the code are guards; a pass that is over stops (hence
`CHECK_DEADLOCK FALSE` in every configuration).  What a pass is called on is a
named assumption of its module (`FunctionsAssumption`), as the previous pass leaves
it.  Where two passes are composed the assumption is checked of what the first one
leaves: what `FillDom` assumes (`Prepared`) is part of `TypeOK` in `Cfg`, and proved
there (`Prepares`); and `Cfg` checks that the second numbering,
at the start of SSA, changes nothing (`Stable`, proved in `CfgProofs`), which is why `SSA`
does not repeat it.

`RtoT` of the allocator is never read and the set of temporaries live across calls is
handed to `assign`, which ignores it; both are left out.  `Undef` and the constant
number 0 are the same reference, as in `ir/ref.go:27`, so both have one value in
`Semantics`.

The definitions marked *mutant* beside a definition are slips (a dropped guard, a
forgotten reset) used to test the properties: putting one in place of its
neighbour must make the property fail.  Nothing else refers to them.

## What the runs check

| Run | Inputs | Properties |
|---|---|---|
| `source` | texts of one block with every mnemonic `lookupOp` knows, and some it does not, in both classes; with every pair of thirteen statements; every pair of declarations, odd ones among them; three blocks with every combination of jumps, labels named first or as they come | `AsWritten`, `JumpsRight`, `Ends` |
| `cfg` | every graph of 3 blocks, unreachable blocks, self-loops and doubled edges included, with two assignments of old loop depths; 4-block graphs round a two-block region with any edges; a 5-block family whose Idoms take up to four sweeps to settle | `TypeOK`, `Consecutive`, `KeepsReachable`, `Ordered`, `Stable`, `NoPanic`, `StaysInside`, `IdomRight`, `TreeRight`, `FronRight`, `LoopRight`, `Done` |
| `liveness` | every graph of 3 blocks without doubled edges, each block ignoring, reading, writing, or reading and writing the temporary; the same graphs with a phi on a block with several predecessors, except where a block's S2 has phis and its S1 is another block | `TypeOK`; `Least`, `Solved`: always inside every solution of the equations, at the end a solution; `Exact`: what is live along some path; `Termination` |
| `liveness_wiped` | one do-while loop | `Exact` is **violated** |
| `compile` | SSA, then Simplify: 3-block graphs with three kinds of code over two temporaries; 4-block graphs with loops inside; 3-block graphs that multiply in one block and add or subtract in another | `TypeOK`, `NamesOnPath`, `SSAForm`, `NoDeadPhis`, `Preserved` (by SSA, and after every step of Simplify), `SimplifyPreserved` |
| `compile_dce` | two blocks, a value computed in one and returned by the other | `DCEPreserved` is **violated** |
| `optimize` | for each pass: a diamond and a loop with copies, sums in both orders, constants, phis of them; for Fold every integer operation on boundary operands; for DCE 3-block graphs with chains of dead code, calls, stores, phis | `TypeOK`, `Preserved`, `Settled`, `Confluent`, `ConstantsHold`, `Descends`, `Termination` |
| `dce_param` | `f(a, b) { ret b }` | `Preserved` is **violated** |
| `lower` | for PhiElim: 3-block graphs with one or two phis that do not read each other; for the rest as well: every 3-block graph without edges to Start, structured graphs with a phi per counting block, a branch in a loop; parameters, two calls whose operands stand in `Arg[0]`, an alloc, comparisons | `TypeOK`, `PhisGone`, `Ready`, `Apart`, `AllRegisters`, `SavesAll`, `Preserved` |
| `phi_elim_swap` | a loop that swaps two values | `PhisGone` is **violated** |
| `backend_early` | a parameter that one branch returns and the other goes on to use | `Preserved` is **violated** |
| `lower_call` | a call as `Builder.Call` writes it | `Preserved` is **violated** |

### Bounds and why they are enough

* Three blocks give every pattern the algorithms distinguish pairwise: a loop, a nest,
  a loop with two entries, a join, a loop through the start block.  Four add an
  irreducible region behind a branch (where an Idom changes more than once) and a
  join inside a loop.  `cfg` adds five blocks whose start enters a chain at both
  ends, with arbitrary edges from the last two: there an Idom may take four sweeps to
  settle, so that ending the iteration early would show.  `lower` has one graph of seven
  blocks, a branch in a loop with a phi where it joins.
* One or two temporaries are enough for liveness, whose equations do not mix
  temporaries except through phis; three for fusion (two factors and a sum).
* `Steps` is how many blocks of a path the semantics is compared on.  In `compile` and
  `optimize` it is 6: back to the head of any loop of the graphs of up to four blocks and
  on into it.  In `lower` it is 9, since PhiElim makes loops longer by the blocks it
  splits edges with: enough to come twice round the loop whose back edge is split, and, in
  the graph of seven blocks, through the branch to its join, back to the head and through the
  branch to the join again.
* `Word` stands for the 2^32 of the block numbers and the loop depths, which wrap: 16 in
  `cfg`, with at most five blocks, and 64 in `lower`, with seven blocks and twice as many
  edges that may be split.  No number meets a wrapped one that would not meet it in 32 bits.
  Depths wrap at 16 from two nested loops on, where those of 32 bits wrap from ten on.
* `Bits` is 4 for class l and 2 for class w: the operands of `Folding` are both ends of
  both widths, so that wrap-around, the least negative number, and shifts by more than a
  width occur.  Operations are uniform in the width.
* `Full = 8` is the 2^64 of the parser's numbers: -1, the largest number and one too
  large for 63 bits occur.  `Fixed` is the 64 of the code.
* The back end runs with the 26 registers of the pool, the 8 argument registers and
  the limit of 31 (`NGPR`) of the code, so that the order of the pool, which decides
  what survives a call, is the real one.  No function has 26 live temporaries, so
  nothing is spilled but the alloc.
* `ToText` names the functions followed past PhiElim; the others are there for
  the orders of its maps only.

What `FillDom` and `Liveness` do on larger graphs is the subject of the proofs.

### What the properties are after, beyond the obvious

* `Preserved`, `SimplifyPreserved` and `PhisGone` are refinement of the source by the
  output: whatever the source shows along a path (effects, branch conditions, the
  result), the output shows, in the same order, as equal symbolic terms.
* `Preserved` in `Lower` is the same refinement from temporaries to registers, slots and
  flags: calls must find their arguments in x0, x1, ..., lose every register that is not
  callee-saved, and leave the result in x0; each read of a temporary must find, wherever
  it was put, the term it was given last; a branch that tests the flags must find there
  the comparison whose result the source tests.
* `Exact` compares with paths, not with equations, so a wrong equation would be
  noticed (and is, in `liveness_wiped`).
* `StaysInside` holds of the provisional Idoms during the iteration, not only of
  the result: it is what keeps `intersect` from panicking or losing a dominator.
* `LoopRight` compares `b.Loop`, after marks that later heads overwrite, with the heads
  from whose loops the block is in: 1 multiplied by ten, in uint32, once for each.
* `Confluent` is what makes SCCP deterministic although it takes temporaries from a Go
  map: in every order the result is the solution that evaluating the reachable
  code in rounds arrives at.
  `ConstantsHold` says that this solution is true of every path, folding included.
* `Ready` is what PhiElim must hand to Spill and Allocate: no phis, predecessors
  and numbering of the graph *with* the split blocks, liveness of the code *with*
  the copies.
* `AsWritten` compares with the whole text at once: which definition a name refers
  to, which block an instruction belongs to, which number a symbol has after a later
  function has added symbols of its own.  The opcode is that of a table in `Source`
  made from how the opcodes are named, not of `lookupOp`.  The operand of an `arg` may
  stand in `To` or in the first place: the text does not say, and what becomes of it is
  the business of `lower_call`.

## Inputs left out

Where a pass is known not to do what one would like on some input, the inputs of the runs
avoid the case.  Those that contradict a comment or a test in so many words have a run
of their own, in the next section; for the others only general claims of the repository
(that code is generated, that the ABI is complied with) could be quoted.  These are the
cases.

* **Parser.**  A jump to a label not named yet creates the block while the arguments of
  `Jmp` or `Jnz` are evaluated, and the jump is then written into it (`parse.go:203-215`,
  `builder.Block` sets the current block): `JumpsRight` claims the ends of blocks only
  where jumps lead to labels above.  A name that is redefined gets a new temporary, so
  after a join it means the textually last definition, which `AsWritten` states
  as it is.  A call with typed arguments (`call $f(w %a)`) and a file that ends inside a
  body never end (`parse.go:216`, `:221`); statements without a result that name a local, exported
  data, and functions without a class are refused by a panic (`Ends` says so).  There
  are no phis in a text.  Literals from 2^63 are clamped by `ParseInt`, and what
  `AsWritten` says of numbers is limited to the others.
* **SSA** takes functions without phis: neither parser nor builder makes any, and the one
  client that appends phis by hand (`test/brainfuck`) does not call it.  **Simplify**
  takes integers of a single class.
* **SCCP** does not look at `edgeExec`, does not replace arguments of phis and jumps
  although it turns the instructions that define them into nops (`Preserved` is claimed
  only where that does not happen, `Replaceable`), does not fold copies, indexes the
  constants by number 0 for `Undef` (so a function without constants panics), and takes
  constant 0 for `Undef` as a second operand.  **Fold** does not cut the operands of class w:
  `Fits` names the ones for which it is right.
* **CopyProp**: phis whose arguments are all one constant (`findRoot` follows the number
  of a reference whatever its kind).
* **GVN**: functions with two `par`s or two loads of one address across a store (neither
  is excluded from the table); a commutative operation on a temporary and a
  constant that have one number is not found again in the other order.
* **PhiElim**: blocks whose two successors are one block with phis (`phi_elim.go:82`:
  only S1 is redirected); phis that read one another (`phi_elim_swap`).
* **Spill**: more than 26 live temporaries; two temporaries spilled for pressure,
  which share slot 0, or two allocs, which share a slot (`spill.go:78`, `:200`).
* **Calls as `Builder.Call` writes them**, that is all calls of a text: the operand of
  an `arg` stands in `To` (`builder.go:214`), `selcall` takes it from `Arg[0]`
  (`abi.go:342`, `:350`).  `lower_call` shows what comes of it; in `lower` the operands are
  in `Arg[0]`, where `test/main.go` puts some of its own.  Before that, a temporary
  in `To` counts as a definition, so SSA and the allocator would rename or free it.
* **ABI0**: more than eight parameters (a panic), two parameters passed on in each
  other's place (`abi.go:329`).
* **Allocate**: a value that lives across one call and is passed to the next (it is
  favoured with x0, `rega.go:135`); two loop variables written in one block, or one
  written in two blocks, and many phis behind split edges: the register suggested to one
  block is not the one another block has chosen (`rega.go:31`).
* **Emit**: a comparison fused with its jump whose result a phi's copy or another block
  reads too (`emit.go:76`: it is never written); an instruction that writes an operand of
  a comparison while that is held back, after which the comparison, when it is written
  at last, compares the wrong value (only a read of its result, another comparison, a
  call or the jump flushes it, `emit.go:133-142`); operations `emitInsDirect` has no case
  for (`and`, `or`, `xor`, shifts, remainders, extensions, `loadsb`), for which it writes a
  comment.  Unsigned comparisons have no case either; no text can name them.

## What the code does that its comments do not say

1. `liveness_wiped`: `liveOn` is called for S1 and then for S2 on the same set and
   clears the phi results of S2 from all of it (`live.go:67-71`).  For
   `@loop: x = phi ...; jnz c, @end, @loop` with `x` read in `@end`, `x` is not in
   `Out` of `@loop`.
2. `compile_dce`: `rename` gives every definition a new number, `Out` keeps the old
   ones, and `DCE` trusts `Out` (`dce.go:19`): a value used only in another block is
   removed.  `optimize` shows that the algorithm is right when `Out` is; `test/main.go`
   leaves DCE out of its pipeline.
3. `dce_param`: `par` has no side effect by `HasSideEffects`; removing one shifts the
   registers of the parameters after it (`abi.go:243-277`).
4. `phi_elim_swap`: the copies for one edge are `t1 = a1; x1 = t1; t2 = a2; x2 = t2`
   (`phi_elim.go:47-63`), not all reads before all writes, so phis that read each
   other's results get the wrong values.
5. `backend_early`: `Spill` scans the instructions of a block but not its jump, and
   overwrites `In` with the result (`spill.go:84`).  A temporary that only a block's
   `ret` or `jnz` reads is then not live-in for `Allocate` (`rega.go:76`), which gives
   it a register of its own in that block: `ret %a` returns what nothing has put
   there.  In `lower` every block computes what its jump reads.
6. `lower_call`: for `add(10, 20)`, of which `test/main.go:180` says `→ 30`, `Call` leaves
   the operands in `To` and `Undef` in `Arg[0]`, and `selcall` copies `Arg[0]` to x0 and x1.
   `Undef` is constant number 0 (`ref.go:27`), so the callee finds the function's first
   constant in both.

## Fairness

Every specification a liveness property is checked of is
`Init /\ [][Next]_vars /\ WF_vars(Next)`: one goroutine runs the pass, nothing blocks it,
and it stops only by returning or panicking.  No fairness is assumed of the choices
inside `Next`: the order in which a Go map yields its keys is adversarial.
`Done` (`cfg`), `Termination` (`liveness`, `optimize`) and `Ends` (`source`) are the liveness
properties.

## Proofs

Seven proof modules state for every value of the constants what the runs check on small
ones; an eighth, `GraphProofs`, holds the lemmas they share.  Induction over the naturals is done by taking a least counterexample
(`LeastNat`), which needs no schema; from it come that a recursive function over a
finite range exists and is unique (`Recursion`), that `ReachIn` is the least set closed
under successors (`ReachLeast`, `ReachClosed`), and what `FillPreds` lists
(`PredsMean`).

*Liveness.*  The operators `NewOut` and `NewIn` are monotone and stay inside
`Temps(f)` (lemmas).  The inductive invariant has three parts: the type
invariant; the sets are inside every solution of the equations; and, while no
change has been recorded in this sweep, every block already visited satisfies its
equations as they now stand.  The last part is what `changed` means; it is needed
because `Solved` says nothing until the pass stops.  From it follow `TypeCorrect`
(`TypeOK`), `Fixpoint` (`Solved`) and `LeastSolution` (`Least`): the result is the
least solution.  `NothingDead` and `Exactness` (`Exact`) tie that to paths.  The sets
of what some path reads are a solution, so the least one is inside them: this half
holds always, in every function.  The other half takes a shortest path to a read and
goes back along it; it needs that no block's S2 has phis while its S1 is another block
(`~Wiped`), because there the code throws away what it took from S1
(`liveness_wiped`).  Its callers satisfy that: SSA calls it before it places any phi
(`ssa.go:14`), PhiElim after it has removed them all (`phi_elim.go:100`).  The
assumption is otherwise that the inputs are functions (`IsFunction`).

*Numbering.*  `FillRPO` has no holes because the number that is next counts the blocks
whose calls have returned: the cardinality of that set is `nblk - 1 - x`, Start is on the
stack until the end, so as long as a call is open there is a number left and the uint32
has not wrapped (`LeaveStep`, the only step that gives a number).  The rest of the
invariant describes the stack: a chain of edges from Start over distinct blocks that
carry the mark, which is not the mark of a block that has not been seen; a closed block
leads only to seen blocks; and it was entered from one that is open or has a smaller
number.  From it follow `NoHoles` (`Consecutive`) and `Entry` (`EnteredFromBelow`, the
first half of `Ordered`), also across `Compact`, which renames every pointer.  The
assumption is `Buildable`: pointers lead to blocks, and there are fewer than 2^32 - 1 of
them.

The second half of `FillRPOProofs` is what the passes after the numbering take from it.
`Prepares`: the function it leaves is `Prepared`, that is a function, in order, with Pred lists that name
exactly the sources of the edges.  FillPreds runs before the second FillRPO, so the
lists are renumbered; the invariant (`PInv`) keeps them right because that call finds
every block reachable and drops none.  `InOrderAndCycles`: an edge that does not go up
closes a cycle (all of `Ordered`).  Its invariant (`BInv`) follows a returned call: what
was seen since a block was entered and is still above it in the numbering leads back to
it, which at the moment a block is found open is the cycle, and keeps being one when the
call returns (`LeaveBack`) and when the blocks are renamed (`CompactBack`).
`SeenReached` and `KeptCount` give that the marked blocks are the reachable ones and how
many there are.

The last part of `FillRPOProofs` compares the two walks.  The first leaves a tree: each block with the block
it was entered from.  The tree is described without recursion, by the order in which
calls return, which is what the numbers tell: b is inside a when every block ranked above
a, up to b, was entered from one ranked no lower than a (`Inside`).  During the first walk
the blocks seen so far are ranked by number, the open ones below them in stack order
(`Rank`); entering a block puts it between the two kinds (`Grows`), leaving one keeps the
order.  What is kept of each edge taken is what was found at its end (`Settled`): an
enclosing open block, a block that had returned before, or one reached through the
successor taken first.  `CompactTree` carries the tree over to the new numbers, where the
order of the successors, a matter of loop depths, is the same.  The invariant of the
second walk (`Along`) says that the calls in progress are a path of the tree with rising
numbers, that a block which has returned has the number it had, and that a block whose
tree edge starts at a seen block is still to be visited by that call.  Then a block found
new is entered along its tree edge (`SameEdge`: any other edge would have found it open,
returned, or behind the other successor), and a call returns when all higher numbers
have been given (`LeftSame`: otherwise something of the tree would be left to visit).  So
every block gets its own number, and sorting by it gives back the same function
(`CompactSame`): `NumberedOnce`.

*Dominance.*  The invariant says that an Idom that is set is smaller than its block
and itself processed, that all blocks below the cursor are processed once a sweep
has begun on them, that an end of a climb is a processed block, and what the
climbs leave unchanged.  For functions that are `Prepared` this gives `TypeCorrect` and
`NeverPanics` (`NoPanic`): `intersect` never meets nil.  `NeverLeaves` (`StaysInside`)
adds that the ends of a climb started inside a single-entry region stay in it; its
lemma is that the head of a region has the least number in it, by minimality over the
well-founded order of the numbers, since a smallest block other than the head
would have a smaller predecessor inside.

Its second half turns that into what the pass computes.  `Above(a, b)`, Idoms lead from b
to a, is defined without recursion, as membership in every set closed under Idom.  The
invariant (`DInv`) says that in a sweep without a change so far the Idom of every block
visited is above all its processed predecessors, and what a climb in progress still
owes to that.  When a sweep ends unchanged it holds of all blocks: then nothing above a
block can be gone round (`AboveIsDom`), and by `NeverLeaves` every dominator is above
(`DomIsAbove`), so `Above` is dominance and `ImmediateDominators` (`IdomRight`)
follows.  `ChildrenListed` (`TreeRight`) says that the blocks are linked in order, so a
list meets each child once, last first; `Frontiers` (`FronRight`) that `IsSdom` decides
`Above`, and each edge has been climbed from its source as far as the target's strict
dominators.

*The composition.*  `CfgProofs` shows that in `Cfg` the numbering hands over what
dominance needs, and that neither disturbs the other: `NoHoles`, `OrderRight`
(`Ordered`), `ReachedKept` (`KeepsReachable`: both calls keep exactly the blocks paths
from Start lead to), `NumberedOnce` (`Stable`), `ClimbsSafe` (`TypeOK`, `NoPanic`,
`StaysInside`), `DominanceRight` (`IdomRight`, `TreeRight`, `FronRight`) and `LoopsCounted`
(`LoopRight`).  All seven follow from `CfgSpec` with two assumptions, on the builder's
functions (`BuiltAssumption`) and that `Word` is a positive number (`WordAssumption`): nothing
is assumed of what one analysis gives the next.

*Loop depths.*  `LoopsCounted` is about FillLoop, which keeps one mark per block for all
heads.  The invariant (`LInv`) says that a block with the mark of the head at hand is in
its loop (`LoopSound`); that every predecessor of such a block that is not numbered
lower has the mark or is among the calls still to be made (`LoopClosed`); and that
`b.Loop` is, modulo `Word`, the power of ten of the number of loops of earlier heads b is
in, one more if it has the mark (`LoopCount`).  With the 2^32 of the code that is the power
itself up to nine loops, and what the uint32 wraps to from ten on.  When no call is left the marks are closed under
predecessors, so a path from a block without the mark never comes to one with it, and
the marks are the loop (`LoopMarked`).  Marks of earlier heads, overwritten or not, play
no part: what they counted is in `b.Loop`.

*SSA construction.*  `SSAProofs` is first about what insertPhis and rename do with the
tree, the frontiers and the live sets they are given (`Analysed`); then it carries what is
proved of FillDom, FillFron and Liveness over to the steps SSA takes of them (`AInv`).
insertPhis (`PInv`): a block that defines the temporary at hand, or has a phi of it, is
still in the worklist, or has its frontier served; so at the end the phis of every
temporary are closed under frontiers where it is live (`PhisPlaced`).  rename (`RInv`)
has these parts.

* `WInv`: the open calls of `walk` are a path of the dominator tree from Start, so their
  blocks are the dominators of the last; of the children of a block on it, those with
  greater numbers have been walked.  So `walk` enters every block, once (`AtDone`).
* `Named`: an item, phi or instruction, has a new name if and only if it has been passed,
  and no two have the same; `Erased`: `newToOld` leads from the result back to what the
  source wrote there, and the phis stay closed; `Unread`: operands not come to yet are
  the source's.  Single definitions follow (`OneDef`).
* `Stacked`: cut each stack at the heights the open calls have noted.  The part of a call
  holds results of its block only, and is not empty if the block has passed a result
  for the temporary.  `Return` takes off the part of the last call.
  `TypesThroughRenaming` (`TypeOK`) and `NamesAlongPath` (`NamesOnPath`) follow.
* `Used`: an operand that has been passed is a name given earlier in its block or in a
  strict dominator of it, or it has kept its temporary, which happens only if something is
  live on entry to Start (`UseOK`); a phi has at most one argument for an edge, the end of
  whose source it stands at, and all of them if nothing is live there (`PhiOK`).

The step that needs both analyses is that a read finds a name if nothing is live on
entry to Start (`StackFull`).  Let t be live on entry to b, which has no phi of t.  Then t is
live on entry to the Idom of b, or written in it (`LiveFromAbove`): take the blocks strictly
below the Idom where t is live without a phi, and of those that lead to b among
themselves the least, m.  m has a predecessor p below it in number, where t is live or
written.  If p is not the Idom and neither writes t nor has a phi of it, it is one of those
blocks, and m was not the least; if it writes t or has a phi of it, then no block on the
way from m to b is in its frontier, or it would have a phi, so p strictly dominates b,
which the Idom's being the closest one refutes.  Going up the tree, some strict dominator
has a phi of t or writes it (`LiveDefined`), and its name is on the stack.  With `Used` at
the end, `FormReached` (`SSAForm`) follows: definitions dominate uses, edges have their
arguments, and `VerifySSA`, which looks for the first block that writes, accepts.  What
`FillUse` counts is the cardinality of a set of at most one site (`CountSmall`).

No phi is dead (`Pruned`, `NoDeadPhis`).  A phi of t in block d `Reigns` in the blocks d
dominates, down to where other code or another phi of t takes over.  rename gives its
name to every read of t where it reigns, edges included, because that name is what is on
top of t's stack (`TopReigns`, `Read`).  Suppose now that only phis of a set S read what
S defines, and take the temporaries of S out of the live sets of the blocks where phis
of S reign.  These sets still satisfy the equations of Liveness (`NoneDead`): a read of t,
in the code or by a phi outside S, would be of a name from S, and where the reign of
a phi ends without t being written, there is another phi.  So they contain the
least ones (`LeastSolution`, from `Least`), and S has phis only where insertPhis found
their temporary live: there is none.  Assumed of all this
is `FunctionsAssumption`: built functions without phis, which `Prepares` and `NumberedOnce`
show the numbering leaves.

*Constant propagation.*  `OptimizeProofs` is about SCCP on any function in SSA form.  The
lattice is ordered by `Below`; the value of a phi or an instruction depends on the
temporaries it reads only (`ValueKept`), and falls when their values fall
(`ValueFalls`).  The invariant (`SInv`) has four parts beside the types: no visit can
raise a value (`Falling`), for which each temporary needs one definition; what does not
have the value of its operands yet is still to be visited, or reads a temporary that
waits (`Waiting`); every solution of the equations is below the values (`Greatest`);
and the blocks visited or waiting are reachable and hold the successors of those visited
(`Explored`).  From it follow `NeverRises` (`Descends`), `VisitsRight`, that `transform`
empties exactly the blocks no path leads to, `OrderFree`, that the values at the end are
the greatest solution, and `SameValues` (`Confluent`): they are what rounds over the code
compute, whatever key Go takes from the map each time.  For the last one the reference
itself has to be shown to solve the equations: a round that changes something lowers a
temporary, and a temporary can be lowered twice (`DepthGrows`, `DepthBounded`).  Assumed
of the functions are `IsFunction`, three operands per instruction and single definitions
(`InputsAssumption`); nothing is assumed of the arithmetic of `Fold`, only that it is a
function of its operands.

*Dead code elimination.*  The same module has `DCE`, on any function, in SSA form or not,
and with any `Out` sets.  `EffectsKept`: after every block of every sweep the function is
one, with the blocks, edges and jumps it had, and what is left of a block is a
subsequence of its instructions that has each one `HasSideEffects` names (`Thinned`).
`DeadGone`, the case of DCE in `Settled`: at the end nothing is left that a sweep would
remove.  `ScanInBlock`: the scan leaves no block.  The invariant (`DInv`) ties the live set
of the scan to `LiveAfter`, the reference, as long as the block has lost nothing
(`Scanning`), and says that while the flag of the sweep is down, the blocks behind it had
nothing to lose (`Clean`); the first loss raises the flag, and a sweep follows.  What
`Without` keeps of a list is shown by counting (`WithoutPicks`), and `LiveAfter`, a recursive
function, is unfolded with `Recursion`.  Whether the `Out` sets are the right ones is
another question: `compile_dce` answers it for `main.go`.

*SSA destruction.*  `LowerProofs` has `ReadyForSpill` (`Ready`): what PhiElim hands over,
whatever the order in which its maps give the edges.  The invariant goes phase by phase
(`LInv`).  While copies are placed (`EdgesInv`) each list of copies waits for an edge that
is still there: the inner loop takes an edge out of its map and splits at most that
edge, and the other pointer of the block is untouched (`SplitEdges`).  Everything is still
reached from Start, a split target through its new block (`SplitReached`), and the blocks
and the edges that wait, counted together, stay below 2^32 (`Waiting`; `EdgesCount`: at most
two edges per block).  While the blocks are numbered (`NumberInv`) what `FillRPOProofs`
shows of the second walk is carried over to the steps PhiElim takes of it; since all is
reached no block is dropped, so the Pred lists FillPreds made before the numbering are
right after it.  Then liveness starts from empty sets, not from those SSA or an earlier
call has left, and its invariant (`LiveInv`) is the one of `LivenessProofs` without the types:
they would need that copies name temporaries of the function, which `Ready` does not
say.  Assumed of the functions is `FunctionsAssumption`: prepared (as `Prepares` shows), phis
that name predecessors (part of `SSAForm`), and 3 n + 1 < 2^32.

The proofs corrected the model three times: in `Compact` a phi's pointer to a block that the
first call dropped must stay Unset in the second, where the numbers are no longer
defined for it; `Prepared` had to say that Pred lists name the edges' sources, where
only the order of the blocks was assumed; and the functions `Lower` takes had to be
prepared, where only their Pred lists were.

Only model-checked: that passes keep what a function does
(`Preserved`, `SimplifyPreserved`, `ConstantsHold`); `Settled` of CopyProp and GVN, and the
types of the optimisation passes; of `Lower`, all but `Ready`; the parser; and every liveness property
(liveness under fairness, and ENABLED, are outside the prover's reach).  The semantics
uses folds and recursive operators whose values for all inputs need induction over
data, which the prover cannot do; the runs check the passes against it instead.
`SSAForm` is proved of what SSA leaves, and model-checked of every step
of Simplify after it.

## Plan

Done: the front end on tokens, the analyses, SSA construction and destruction, all of
`opt/`, the back end down to the order of the text for integer code, the proofs above.
What is left, in this order:

1. Proofs: that the constants SCCP finds hold on every path (`ConstantsHold`), from
   `OrderFree`; `SSAForm` through `Simplify`, the types of `Optimize` and `Lower`.
2. An abstract specification for `RegAlloc` (an assignment of registers to live
   ranges) that it implements where `Preserved` holds.
3. `ABI0` and `Emit` with stack arguments, floats and aggregates; immediates (`isel.go`);
   folding of floating-point constants.
4. The pressure limit: functions of 27 to 31 live temporaries with a scaled-down pool.
5. One pipeline from the parser to the text.

## Not modelled

* Text: characters to tokens, printing, assembly syntax, command line, files (pure I/O).
* `FillCost`: sums nothing reads.
* The AMD64 target, a stub that nothing selects.
* Bit sets: modelled as sets; their users stay below `Size`.
* Floats, aggregates and stack arguments in Spill, ABI0, Allocate and Emit: in the plan.
* Where slots lie in memory.  The prologue makes room below x29 and slots are addressed
  above it (`emit.go:27-30`, `:254`), and an alloc's address is made from the number of its
  register (`emit.go:205`); in `Machine` a slot is a cell of its own, so no property speaks of this.
