# Patchouly in TLA+

Patchouly is a copy-and-patch JIT library: machine-code *stencils* are written in
Rust, compiled ahead of time in every variant a register allocation can call for,
extracted from the object files into a table, and at run time copied one behind the
other and patched with operands. This directory models the parts of it that have
state or an algorithm worth getting right, checks them with TLC on small instances,
and proves the most important promises with TLAPS for every size.

Paths below are relative to the repository's root; `managed.rs:77` is line 77 of the
file of that name there.

## 1. Inventory

The library is single-threaded: no locks, no tasks, no messages, nothing persisted.
What is hard is of three other kinds. *Sequences of calls*: a client drives stateful
builders in any order, opens and re-opens blocks, and goes on after an error. *State
that several places must agree on*: three slabs, a length computed in one function and
filled in by another, a numbering chosen at compile time and used at run time. *Late
patching*: places of the code whose value is only known later, while the code before
them can still shrink.

| component | code | state | operations | correct when |
|---|---|---|---|---|
| Slot allocator | `src/regs.rs` | slabs `slots`, `registers`, `stack_slots`; `stack_size` | `new`, `allocate`, `location`, `drop`, `stack_size` | live variables have locations of their own; the frame is large enough; no vacant key is removed |
| Managed builder | `src/managed.rs` | blocks with parent and variables; `current_scopes` | `create_block`, `switch_to_block`, `new_variable`, `new_param`, `emit`, `branch`, `end_branch`, `ret`, `finalize` | variables are dropped exactly once, accepted handles are live, scopes are entered only through the code that made them, programs do not run off a block's end |
| Patch block | `src/patch.rs`, `relocation.rs` | `code`, `relocations`, `constants`, `next_relocations`, `ended` | `emit`, `branch`, `end_branch`, `ret`, `measure`, `finalize_into` | the finished code does what each stencil was emitted for |
| Program layout | `patch.rs:13-37`, `managed.rs:94-139` | offsets, the map | `from_lens`, `finalize_into` | blocks do not overlap, jumps lead to blocks |
| Selection, relocation values | `patchouly-core` | none | `select`, `io_to_index`, `supports_value`, `apply_raw`, `try_apply`, `apply` | the stencil found computes what the emission is for, with these operands and hole values |
| Stencil macro | `patchouly-macros` | `RegPermutation` | `expand`, `generate_meta`, `generate_stencil`, `StencilSignature::new` | every placement once, no two outputs in one register; metadata and functions agree; operands are loaded and stored where the placement says |
| Stencil extraction | `patchouly-build` | a table per family, the relocation pool, numbers of runtime symbols | `extract`, `add_stencil`, `generate` | each stencil has its code and its relocations, each call its function; a library is refused only for what it lacks |
| Executable programs | `src/lib.rs` | a finished mapping | accessors | not modelled: no state changes; runs of programs are in `ManagedProgram` |
| Brainfuck example | `examples/bf`, `examples/bf-stencils` | parse tree, open loops, tape, input and output | parse, compile, run | compiled programs do what an interpreter does and end when it does, inside the padded tape |
| Calculator example | `examples/calc` and stencils | a random expression | emit, run | not modelled: tests only, whose calls the block model already allows |

How they interact: the macro's symbols are read by extraction, whose table is what
selection looks up; the managed builder owns one allocator and one patch block per
block and passes locations from the first to the second; a patch block copies what
selection returned and patches what it can; `finalize_into` measures all blocks, lays
them out and lets each fill its region of one map.

## 2. Modules

    AllocatorSpec      the allocator's contract
      ^ implements        ^ extends
    Allocator (Slab)   FunctionBuilder   <----  FunctionBuilderProofs
      MCAllocator         ^                            ^
      AllocatorProofs     | extends                    |
                       ManagedProgram    <----  ManagedProofs
    PatchBlock  <---  Program  <---  MCProgram
                         ^-----  ProgramProofs  <---  ImageProofs
    Relocation  <---  StencilMacro  <---  StencilLibrary  <---  MCLibrary
                                               ^-----  LibraryProofs
    BfCode  <---  Bf
      ^-----  BfProofs

`ProgramProofs`, `ImageProofs`, `LibraryProofs` and `BfProofs` reason about folds with
instances of **FoldTheorems** (section 4).

**AllocatorSpec** is what the allocator promises: `loc` maps live slots to locations;
registers go first, then holes of the frame, then the frame grows. *Which* vacant one
is taken is open (the theorems about it are in `FunctionBuilderProofs`). **Allocator** is `regs.rs` on the slabs of module **Slab** (the
external crate, as a vector with a LIFO free list). `RegisterPool` is the state `new`
leaves; `AllocateRegister` and `AllocateStack` are the two branches of `allocate`
(`None` on a full slab changes nothing; `None` because a stack number does not fit is
an outcome of `AllocateStack`, with the slab already changed); `Drop(v)` is `drop`.

**FunctionBuilder** extends the contract with `managed.rs`. `scopes` is
`current_scopes`; `cursor` are the `PatchBlockBuilder`s alive, nested when one was
opened through `builder()`; `parent`, `variables`, `ended` are fields of the blocks.
Of a block's code only `tail` is kept: whether its last stencil falls through. One
action per call: `CreateBlock`, `OpenBlock` (`switch_to_block`, `switch_to_entry`),
`CloseBlock`, `NewVariable`, `NewParam`, `Emit`, `Branch`, `EndBranch` (emission, end
and switch in one step, as in the code), `Ret`, `Finalize`, and for calls that fail
after they have changed something `FailBranch`, `EndBranchNoNext`, `FailEndBranch`,
`FailRet`, `PanicOnHandle`. A call that fails and changes nothing stutters. Three
constants say how disciplined the client is: `SwitchOnce`, `OneParent`,
`ContinueAfterError`. They restrict inputs, never the code.

**ManagedProgram** extends the builder with the code of its blocks and with a run of
what it finishes. A stencil is what it writes, a variable at the location `locations`
(`managed.rs:294`) found for it, and its jumps. `EmitWrite`, `BranchTo`, `RetOut` and
`NoCode` are the builder's actions with that; `FinalizeAndCall` finalizes and calls the
program, `Execute` runs one stencil and takes one of its jumps. `memory` says which
variable was written last to each location, `written` which variables in the run's
scope have a value and where. The allocator reuses locations in the order in which the
*builder* enters and leaves scopes, the program enters blocks in the order of its
jumps; that the two agree is `VariablesKeepValues`, the promise the client sees.

**PatchBlock** has the operations on a patch block as operators on a record. Code is a
sequence of *cells*: an opcode, or a relocated place with the displacement it holds.
`Settle` is what `emit_one` first does to the stencil before (prune its last jump if
that only leads on, resolve its other jumps to the end that leaves), `AddPlace` one
relocation of `copy_and_patch`, `FinalizeInto` writes code, trampolines and aligned
constants into the map (`WriteAll`) and patches the late relocations (`PatchAll`). Whether the library has a stencil for trampolines is
`long_jump`: without one `final_len` counts them as empty (`LongJumpLen`), and
`finalize_into` refuses a block that needs one (`HasLongJump`). **Program** has the calls
as actions, over one or several blocks (as `client` says) filled in any interleaving, then `Measure`, `FinalizeBlock` (one per block) and `HandOut`.
`trace` remembers what was emitted. **MCProgram** gives it a library of ten shapes of
stencil: with and without a last jump, immediates in both widths or one, a delayed
place before or behind the jump, two jumps in either layout, a return; one client's
library has no long jump.

**Relocation** is the arithmetic of relocated places: which values a place can hold,
which bits `apply_raw` stores, what the instruction widens them to. **StencilMacro** is
what the macro makes of a family: metadata, placements in the order of
`RegPermutation::next`, and for each the function generated, as the uses a compiler will
leave a place for, and what the function computes. The metadata (`Metadata`, from
`generate_meta`) and what a function goes on to (`NextUses`, from `generate_next`) have
the code's cases each, and share only the names of holes and targets that the signature
has. **StencilLibrary** follows a library
from there to use: `Expand` writes symbols; `ReadSymbol` is one turn of the loop of
`extract`, which is `Extract` (`add_stencil`), `Skip`, `Fail` or `Refuse`; `Generate`
writes the tables; `Select`, `StackVars` and `Finds` are what an emission then finds.
**MCLibrary** has seventeen libraries of one or several families, three of them with a hole
whose place is encoded in one function otherwise than in the next.

**BfCode** is the compiler of the brainfuck example and a run of what it makes, in both
modes: `CreateBlocks` (the first visit, which counts loops), `Compile` (the second: a
leaf, into a loop, out of it), `Finish`, and `Run` (one action per stencil, with input and
output). It takes any visits the parser can have made: `Shaped` says what those are.
**Bf** adds the parser, as recursive operators under the source's names (`Parse` is
`CreateBlocks` of what they return), and an interpreter to compare runs with.

`map` in `PROJECT.json` ties every definition to its lines. Operators named `Faulty...`
are wrong versions of the definition after them; the properties are run against them to
see that each can fail.

### Abstractions

- Cells, not bytes, in `PatchBlock`: a place of four or eight bytes is one cell with
  addend -1, and hole values are small or not. Widths, signs and addends of places are
  in `Relocation` and `StencilLibrary`, with words of three bits.
- A runtime symbol is out of reach of a direct place, so that it takes a trampoline;
  `Runtime` places are always delayed. `AddPlace` so leaves out two branches of
  `try_apply`: a `Runtime` place that can hold its address is filled at once
  (relocation.rs:203-213), and a relative `Hole` or `Stack` place is an error (216-218).
- In `FunctionBuilder` any emission may find its stencil or not.
- The slab crate's `capacity()` is exactly the capacity asked for.
- A map dropped because `finalize_into` failed half-way has no further state.
- What place the compiler leaves for a hole in a narrow function is given for each
  function (`lib.narrow`): encoding, width and addend may differ between the placements
  of a family.
- In `StencilLibrary` a compiler keeps the order of uses the macro wrote, and an object
  file lists a symbol's relocations forwards or backwards. What the user's function
  computes is uninterpreted: it is the function of its arguments and holes.
- In `ManagedProgram` a stencil writes at most one variable; reads are left out, since
  any variable in scope may be read anywhere, and the property is about all of these.
  The client creates its blocks first, writes each variable it declares once before it
  goes on, keeps room to end every block, names its two jumps in one order, and does not
  jump to the entry (which `branch` allows, and which restarts the program with
  whatever the argument registers hold). Free slots are alike, the least is taken.

## 3. What is checked

Only `Bf` states fairness, `WF_vars(CompileAll \/ RunAll)`: one thread compiles and runs
the code, with nothing to wait for (input returns at once, `main.rs:271`), so while it
can go on it does. `Parse` is not included, nobody has to start it. `Terminates` then
says that a parsed program is compiled and its code returns or panics, unless the
interpreter runs for ever as well. Nothing in the library itself runs without a client,
who may stop at any time, so that no other liveness is justified. For the same reason
runs say `CHECK_DEADLOCK FALSE`: a finished or refused program, an extracted library or
a returned run has no next step. The allocator's run does check deadlock.

| run | instance | shows |
|---|---|---|
| `allocator` | 2 registers, 4 slots | `SlabsMirror`: slabs agree, no `drop` or `location` can panic on a live value. `InOrderUntilDrop`: parameters get argument registers. `ImplementsSpec`: the slabs refine the contract, up to exhaustion |
| `lifetimes` | 3 blocks, 3 variables, disciplined client | variables: `AcceptedHandlesLive`, `LeftScopesEmpty`, and the frame (`StackInFrame`, `FrameIsPeak`); control: `CodeIsTargeted`, `NoRunOff`, `AcceptedEncloses`, `ScopesDominate` |
| `any_client` | 2 blocks, 2 variables, no discipline | `OwnedExactlyOnce`, `ParamsInEntry` |
| `managed` | 3 blocks, 2 variables, 1 register, 5 stencils | `VariablesKeepValues`: on every path a value stays where it was put while it is in scope. `LocationsStay`: all code finds a variable at one location. `FrameHoldsCode`, `RunStaysInCode` |
| `blocks` | 3 stencils of ten shapes in one block, or in two, or without a long jump | `ImageRuns`: each stencil is in the image with its operands and goes on where its jumps say, across blocks too. `DelayedInCode`: pruning cuts no pending place. `RefusedForCause`: `InvalidEnd`, `StencilNotFound` and `UnresolvedBlockTarget` exactly when deserved. `OwnRegionOnly`: `final_len` and `finalize_into` agree |
| `library` | 17 libraries, words of 3 bits | `ExpandsEachOnce`, `MetadataAgrees`, `ListsIntact`, `CallsArrive`, `SelectFinds`, `EmptyForRepeats`, `LongJumpIsWide`; `StencilComputes`: for all operands and hole values, what is selected and patched has the results the emission is for, where it wants them, and changes nothing else |
| `bf` | programs of up to 5 characters, 6 from a loop on, 3 with I/O | `SameOutcome`, in the default mode, against a character-by-character interpreter, `Terminates`, `InPaddedTape`, `BlocksUsedUp`; `ParserPromises`: what the parser makes is `Shaped`, which is all that the compiler relies on |
| `reswitch`, `nested`, `failed_ret`, `many_constants`, `add_to` | small | findings, section 5 |

Why these bounds are enough to be interesting:

- *Allocator*: two registers and four slots spill two values and leave holes in both
  pools; every order of drops is covered until slots run out.
- *Builder*: three blocks give a child, a sibling and a grandchild of the entry, so that
  one switch leaves zero, one or two scopes. `any_client` gives up a block for the
  freedom to re-enter blocks, which makes `current_scopes` longer than there are blocks
  (`MaxScopes`). In `lifetimes` stencils have one jump: a block may emit any number of
  them, each adds its target to what the block leads to, and with two jumps the run
  reaches the same states. Its slots run out (`U16Max = 2`, three variables).
- *Managed program*: three blocks are enough for a branch with two children, a loop (a
  child that jumps to itself or to its sibling) and a chain; five stencils are a write
  and an end in two of the blocks and an end in the third. With one register the second
  variable is in the frame, and both locations are reused as soon as two scopes do not
  enclose each other.
- *Patch block*: three stencils are the one being settled, the one before it (whose
  delayed places pruning must respect) and the one after. A word is two cells, so that
  alignment leaves a gap. Two hole values choose between widths; two blocks, from fewer
  shapes, jump to each other.
- *Library*: the libraries have each number of inputs, outputs, holes and targets the
  macro tells apart, and all four kinds of family; places are unsigned, sign-extended,
  with a folded addend, or relative, in three libraries other in one placement than in
  the other. One register besides the stack suffices for outputs
  to collide, two for inputs to be told apart. A window of three reorders symbols within
  and across families; two symbols may be odd (read early, refused, or with calls). In
  words of three bits and places of two, each value is small, negative, or neither.
- *Bf*: six characters are `[->+<]`, three nested loops, a walk past check limit and
  padding. Constants are scaled: check after 2 (1024), padding 3 (4096; `BfAssumption`
  asks for what makes this safe, that the padding is at least twice the check distance
  less one), cells modulo 3 (256), a tape of two cells (the assumption asks for one;
  `--tape 0` is not modelled). The interpreter gets 30 steps, which is enough for every
  run that returns: `SameOutcome` would fail for one it cannot follow to its end.

## 4. What is proved

Each theorem holds for every value of the constants, under the assumptions of the
modules and the hypotheses it states. The invariants named are inductive; what they add
to the property is why the property holds.

Two hypotheses recur. `MaxNest <= 1`: one `PatchBlockBuilder` is alive at a time. The
code lets a client open a second one through `builder()`, and then scopes do go wrong
(see `nested`). `SwitchOnce`: the client switches to a block at most once. Without it
handles outlive their variables (see `reswitch`).

`AllocatorProofs`, for every number of registers and slots (both are naturals, at least
one slot) and, as a hypothesis of each theorem, for registers that fit the `u16`
that numbers them (`Regs <= U16Max + 1`):

- **SlabsSafe**: types and `SlabsMirror`, so that neither `drop` nor `location` can panic
  on a live value.
- **SlabsImplement**: `ImplementsSpec`, the three slabs refine the contract that the
  builder's proofs rest on. `SlabInv` adds that each slab's free list holds exactly its
  vacant keys, once each (`SlabNext`, `SlabInsert` and `SlabRemove` say what the slab
  operations do to that), that the register slab keeps its size and that the stack slab
  is as large as the frame. That no more stack slots are occupied than slots
  (`StackFewer`) is why a stack number never overflows.
- **InOrder**: `InOrderUntilDrop`. `OrderInv` adds that up to the first drop no slab but
  the registers' has a vacant key, and that the register slab's free list is what is
  left of the one `new` made, in its order.

`FunctionBuilderProofs`, for any number of blocks, scopes, nested builders, variables,
for up to two jumps (`BoundsAssumption`), and any allocator that keeps the contract:

- **AllocatorSafe**: live variables have locations of their own (`DistinctLocations`, part
  of the contract, which `SlabsImplement` shows the code to keep), inside a frame that is exactly the peak of live
  variables beyond the registers. `AllocatorInv` adds that no more are live than ever
  were; the step that grows the frame is taken only when the frame is full, so a
  bijection from the frame to 0..n-1 (`FrameCardinality`) counts the live slots
  (`LiveFitsFrame`). The frame's type needs that equation too.
- **FunctionBuilderSafe**: types, `OwnedExactlyOnce` and the allocator's promises, for
  every client. `OwnershipInv` adds that owned handles were handed out and have serial
  numbers below the next one, so that a new handle is no old one.
- **HandlesSafe**: `AcceptedHandlesLive` under `SwitchOnce`. `LifetimeInv` adds that
  scopes and cursors hold visited blocks, and that no block is twice in `scopes`: a
  scope that is accepted has never been left.
- **ParamsSafe**: `ParamsInEntry` for every client. A block other than the entry is
  only switched to once it has a parent, and no branch takes a parent away.
- **ProgramsEnd**: `NoRunOff` when the client stops at the first error: then a block
  that is ended has a last stencil. Otherwise it is false, see `failed_ret`.
- **CodeReached**: `CodeIsTargeted` when the client stops at the first error. A block has
  a parent only if a jump to it was emitted (`CodeInv`), so that the test for a parent,
  all that `switch_to_block` makes, is a test for reachability.
- **ScopesNest**: `AcceptedEncloses` and `LeftScopesEmpty` under `MaxNest <= 1`. `NestInv`
  adds that the blocks in scope are exactly the block being built and those that enclosed
  it when it was entered.
- **ScopesSafe**: `ScopesDominate` under `MaxNest <= 1`, `SwitchOnce`, `OneParent`, and for
  a client that stops at errors. `RootInv` says that the entry is the outermost scope and
  that a block encloses others only after it was switched to; `ScopeInv` that each open
  scope is the parent of the next, and that every jump to a block is from inside its
  parent, so that the paths to it share the parent's dominators.

`ManagedProofs`, for any number of blocks, variables and stencils:

- **ManagedImplements**: a behaviour of `ManagedProgram` is one of `FunctionBuilder`, so
  that all the theorems above hold of it.
- **FramesSuffice**: `FrameHoldsCode` for every client. `FrameInv` says it of the code
  emitted so far and the frame so far, which only grows; that a location in use lies in
  it is the allocator's `StackInFrame`.
- **RunsSafe**: `RunStaysInCode` when the client stops at the first error. `JumpsInv`
  ties code to what the builder keeps of it: only the last stencil of a block can leave
  it unconditionally, `tail` says whether it does, every jump leads to a created block.
  `EndInv`, the invariant of `ProgramsEnd`, then says that in a finished program every
  block has such an end (`ProgramHasCode`), and `RunInv` that the run is within one.
- **LocationsSafe**: `LocationsStay` under `SwitchOnce`. `WritesInv` says that code writes
  a variable in scope where it is live, which it is, once, by `LifetimeInv`.
- **ValuesSafe**: `VariablesKeepValues` under `MaxNest <= 1` and `SwitchOnce`. This is the
  promise of the whole builder: registers and stack slots pass from variable to variable
  in the order in which the *builder* opens and leaves scopes, and on no path that the
  *program* takes is a value lost. `PlacesInv` says that no location is two variables' of
  the blocks that enclose one block; it speaks of all code emitted, since variables that
  were never live together may meet in a run. `ValuesInv` says that the run's memory
  holds, at the location of each variable in the run's scope that was written, that
  variable. One parent per block is not needed.

`ProgramProofs`, for every library, every number of blocks and stencils, every hole value
and every `ConstMod` (`ProgramAssumption`, of which the part about stencils is `StencilOK`:
places are cells of the stencil's code, in the order of their offsets, which
`add_stencil` of `extract.rs` sorts by; none is at the very start, where an instruction
has its opcode; an unconditional jump out of the code has its place; jumps are those of
the family and runtime symbols are in the table, both numbered by extraction; library and
pool are otherwise arbitrary):

- **ProgramTypes**, **DelayedStay**, **RefusedRightly**: `ProgramTypeOK`, `DelayedInCode`
  and `RefusedForCause`: a program is refused for a block whose last stencil goes on, for
  calls out of reach without a long jump, or for a jump to no block, and else never.
- **OwnRegion**: `OwnRegionOnly`: what `final_len` announces and what `finalize_into` writes
  agree for every block.

All four rest on `ProgramInv`. Of a block under construction (`BlockInv`) it says that the
delayed relocations and the jumps to the next stencil are places of the code, each list in
order, with targets of the kinds that can be resolved. `JumpsKept` ties the relocations to
the history: a jump to a block is pending exactly if some stencil emitted wants it, and
jumps to the next stencil exactly if the last one does. Of finalizing (`PhaseInv`) it says
that every block has ended before there is a map and that what is in the map was fit for
it. That pruning keeps all of this (`PrunedKeeps`) is why the code asks for
`last.location() > relocations.last()`: then what is cut off holds no place but the one
being resolved. `FinalLenIs` and `FinalizeKeeps` compare `final_len` with where the pieces
of `finalize_into` are written.

`ImageProofs`, from the same assumptions:

- **ImagesRun**: `ImageRuns`, the promise of the whole back end: in the image that is
  handed out every stencil has its own code and its operands, calls its runtime functions
  and goes on where its jumps say. The theorem is about functions in which no block has
  more than `ConstMod` constants, its trampolines' included (`FewConstants`): beyond that
  indices repeat and `ImageRuns` is false, as `many_constants` shows.
- **RegionsDisjoint**: the regions `from_lens` makes of any lengths lie in the map and do
  not overlap.

Both rest on `ImageInv`, which adds to `ProgramInv` three things. `CodeInv`: a block's
code is its stencils, one behind the other and each complete but for a jump that was
pruned, and each place of theirs either holds its operand for good or waits for a
relocation to the right target (`PlaceKept`). Three lemmas carry it through an emission:
`SettleExact` (the jumps to the next stencil are resolved to the end that pruning leaves,
and nothing before them moves), `CopiesKeep` (the places of the new stencil, one by one)
and `StencilStays` (what is added later leaves earlier stencils alone: places never share
a cell, since each list is in order and what is settled is behind every relocation).
`LayoutInv`: the offsets are the sums of the lengths, and the map is as long as all of
them. `PlacedInv`: a block that was finalized is in the map exactly (`FinalizeExact`): code,
trampolines, constants and, at each place, the way to its target; finalizing another block
writes another region. When all blocks are placed, `StencilInImage` reads `ImageRuns` off
these three.

The code of a block is made by folds over relocations and over pieces of the map.
`FoldTheorems` proves induction along `FoldLeft` once: the operator and the invariant are
*constants* of that module, and each fold of `PatchBlock` and `Program` gets its own
instance (`Patching`, `Writing`, `Symbols`...). An instance of a module with operator
constants is what takes the place of a theorem with an operator as parameter.

`LibraryProofs`, for every set of libraries (`LibraryAssumption`: families of any number
of inputs, outputs, holes, targets and registers, narrow places of any kind, width and
addend, which may differ from function to function, words of any width, what compiled functions call is a list of names; what
`setup_stencils!` writes is in every library as it writes it), any window in which
symbols are read out of order, and any number of odd symbols:

- **YieldsEachOnce**: `ExpandsEachOnce`. `YieldedInv` says that the placements yielded are
  those before the next one, in the order in which the last value counts fastest, and
  each once; `RaisedIsNext` and `NoRaiseIsLast`, that `RegPermutation::next` goes to the
  next placement of that order and stops at the last, though it skips tuples that repeat
  an output's register.
- **TypeCorrect**: `LibraryTypeOK`, with the length of each table.
- **MetadataFits**: `MetadataAgrees`: whatever calls the compiler left in them, functions
  never contradict the metadata that the macro computed without looking at them, for all
  four kinds of family.
- **OwnLists**: `ListsIntact`. Stencils share lists in one pool. `PoolOK` says that each
  list known is in it with its terminator, which no later list disturbs (`PooledGrows`),
  so that reading from its start returns it (`StoredIsRead`).
- **CallsReach**: `CallsArrive`; numbers of runtime symbols are only added.
- **FindsExtracted**: `SelectFinds`. `SameIndex`: `io_to_index` is injective on
  placements, so that no stencil takes the entry of another (`SymbolOfEntry`). Where the
  narrow stencil was left out, its entry starts at the pool's first list, which belongs to
  some function of the family that was extracted; the exception that the property makes
  (`Hidden`) is exactly that such a list is of a narrow stencil that takes the values.
- **LongJumpsFar**: `LongJumpIsWide`.
- **EmptyWhereRepeated**: `EmptyForRepeats`, which is about outputs that repeat a register;
  inputs may. `IoIs`: the loop of `index_to_io_lossy`
  undoes that of `io_to_index`; then, in a family extracted whole, the entries taken are
  as many as there are placements, and the others are those that repeat an output.
- **Computes**: `StencilComputes`, the promise of the front end: for all operands and hole
  values, what is selected and patched leaves the results where the emission wants them
  and everything else alone. `FindsAre` says that each use in the stencil's code
  finds its own hole value, slot or target; `WidenedIs` and `PlaceHolds`, by arithmetic of
  words, that a place for which `supports_value` holds is read as the value stored;
  `BodyMeans`, that the function the macro generates for a placement loads its
  arguments, computes and stores its results as the placement says, even if registers are
  inputs and outputs at once.

All rest on `Inv` (**Invariance**): `TableInv` of each family's table, `StencilInv` of each
stencil compiled (its code and list are where its entry says), `TablesInv` of what is
written out. Extraction reads a stencil's relocations in a loop, in either order; `ReadIs`
says what it has made of them, and `SortedIs` that sorting undoes the order.

`BfProofs`, for programs of any length and nesting, any tape of at least a byte, any
distance of checks and padding with `BfAssumption`, in both modes. It is about `CodeSpec`,
in which visits are any that are `Shaped`; that the parser's are, `ParserPromises`, is
checked by run `bf`.

- **BfTypeCorrect**, **UsesUpBlocks**: `BfTypeOK` and `BlocksUsedUp`. Blocks are counted in
  the first visit and taken, from both ends of a slice, in the second. `Layout` says that
  those still free are an interval, that open loops own one block above it each, and that
  the rest but the current one has ended; `Nests` and `Needs`, that the visits to come
  close exactly the open loops and need exactly the free blocks.
- **StaysInPaddedTape**: `InPaddedTape`. `Drift` is how far the stencils of a block have moved
  since the last check; where one uses a byte it is at most `CheckAfter`, because
  `EmitOp` counts it for each leaf from 0 (`EmitStep`) and no leaf follows a leaf.
  `Located` says that the position less the drift is on the tape, unless it is about to be
  checked. An `AddTo` reaches less than `CheckAfter` further, and twice `CheckAfter`
  less one is what the padding holds. An `AddTo` also counts as movement that does not
  happen; since nothing but the ends of loops comes after one (`Shaped`), no drift is
  hidden by that.

Each of these properties is also in a passing run, which finds it violated by a wrong
version of the code. Only model-checked: `SameOutcome` and `ParserPromises`, since no
backend handles the RECURSIVE operators of parser and interpreter, and induction over a
program is out of the prover's reach; and `Terminates`, since liveness under fairness is.

## 5. Findings

Violations that runs exhibit:

- `reswitch` (`managed.rs:299`): after a block is switched to again, its old handles are
  accepted although their slots were dropped. The outcome is a panic of the slab, or
  the location of another variable.
- `nested` (`managed.rs:151`): a second builder opened through
  `PatchBlockBuilder::builder` leaves its scope in `current_scopes`; the first then
  accepts variables of a block that does not enclose it.
- `failed_ret` (`patch.rs:122`): `ret` and `end_branch` set `ended` before a stencil is
  found; if none is, `finalize` accepts a block that runs off its end.
- `many_constants` (`patch.rs:262`): the index of a constant wraps at 65536.
- `add_to` (main.rs:302): `is_add_to` asks for a loop whose body is a leaf, but
  `parse_inner` makes a node of every body that a bracket closes. The special case that
  main.rs:287 and `bf-stencils/src/lib.rs:130` describe as "`[->>>+<<<]`" so never applies
  to a closed loop, only to one left open at the end of the input. Such loops still run
  as loops, so that programs keep their meaning. An `AddTo` is counted as movement that
  does not happen, and many of them could hide a drift from the checks: `Shaped`, which
  `compile` relies on, says that none is followed by another leaf, and a parser that is
  mended has to see to that.

Observed while modelling, with no run of their own:

- A branch that fails keeps the parents it declared (`FailBranch`), so that blocks
  nothing jumps to may be switched to; hence `CodeIsTargeted` is checked for a client
  that stops at an error, and no run has the case.
- When branches to a block disagree about its parent, the last one decides, and a path
  through another may enter the block without having created every variable in scope
  there. `ScopesDominate` is checked, and proved, for clients that give a block one
  parent; `ValuesSafe` is proved without that, and says that what a path has written is
  still there.
- `branch` and `ret` do not ask whether a block has ended: code may follow its end.
- A place may have an addend folded into it by the compiler, which `supports_value`
  (`relocation.rs:109`) does not consider: a narrow hole whose value is accepted can be
  carried over the end of its place by `apply_raw`. `StencilComputes` leaves exactly these
  values aside.
- The long jump is selected with the hole `usize::MAX` (`patch.rs:433`) to get the wide
  stencil; a sign-extended place can hold that value, as can one as wide as the word, and then
  the narrow one is selected. `LongJumpIsWide` excepts these.
- `select` does not try the wide stencil when the narrow one is missing, although it would
  serve; `SelectFinds` therefore asks for the stencil of the width needed. And when the
  narrow one is missing, `select` decides by the places of another placement
  (stencils.rs:105-116): where that one's place is sign-extended and the missing one's
  would not be, the value -1 picks the missing narrow entry, and the wide stencil that was
  extracted is hidden. `SelectFinds` excepts exactly this; the emission is refused with
  `StencilNotFound`.
- `bf`, saturating: README.md:168 describes patchouly-sat as "switched to out-of-bound
  wrapping", but the stencils of that mode clamp: `<+` increments the first cell, where
  wrapping would the last. `SameOutcome` is therefore about the default mode only; what
  the runs of the saturating mode are checked for is `Terminates`, `InPaddedTape` and
  `BlocksUsedUp`.
- `bf`, saturating: `try_merge` adds moves up before they saturate, so that `<>` at the
  start of the tape stays put, while the two moves would end one to the right; and
  `AddTo` is neither clamped nor checked. `Terminates` and `InPaddedTape` except these.
- Constants are aligned within a block, but blocks are not: those of a later block may
  be unaligned in the map.

## 6. Not modelled

- `src/lib.rs` wraps a finished mapping: accessors, a transmute to the signature the
  client claims, a `Debug` implementation. `examples/calc/src/main.rs` holds only tests,
  which make no call that `Program` does not allow; what its `test_has_code` expects of a
  library is `EmptyForRepeats`.
- I/O and text: mmap, archives and object files (`get_patch_type`, endianness, the
  assertion on the library's name), parsing of symbol names (`parse_name`) and of Rust,
  printing of the generated source, command lines.
- 65536 blocks in a function, where block ids repeat.
- Machine code: that a compiler leaves in a function what the macro wrote is taken as
  given, with the freedom listed under Abstractions.

## 7. Plan

Done: every component of section 1 that is not listed in section 6, with proofs of every
invariant the passing runs check but two, `SameOutcome` and `ParserPromises`. Left, in this order:

1. `SameOutcome`, leaf by leaf: that what one stencil does is what the interpreter does with
   its characters can be proved without recursion, as an implementation of an abstract
   machine that steps through visits.
2. `BfCode` as a client of `ManagedProgram`, so that its blocks are those of the builder.
