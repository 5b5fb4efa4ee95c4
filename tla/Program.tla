------------------------------- MODULE Program -------------------------------
(***************************************************************************)
(* From stencils to an executable image: the PatchBlocks of a function     *)
(* (src/patch.rs) filled in any order and any nesting, then measured, laid *)
(* out one behind the other by ProgramBlocks::from_lens, and finalized     *)
(* into one map, block by block (finalize_into of src/managed.rs; with one *)
(* block, PatchBlock::finalize).  What a call does to a block is module    *)
(* PatchBlock's; here are the calls, their guards and their errors, and    *)
(* what the image must do when it runs.                                    *)
(*                                                                         *)
(* A call that returns an error and changes nothing is a stuttering step   *)
(* and has no action.                                                      *)
(***************************************************************************)
EXTENDS PatchBlock

CONSTANTS
    Clients,     \* what a client may set out to build, records of
                 \*   blocks    how many blocks the function has
                 \*   families  stencil families it uses, records of narrow,
                 \*             wide, and HOLES and JUMPS, how many their
                 \*             stencils take
                 \*   holes     hole values it uses
                 \*   long_jump whether its library has a stencil for
                 \*             trampolines
    StackSlots,  \* stack offsets a client uses
    Targets,     \* jumps it uses: on to the next stencil, to a block, to one
                 \* that does not exist
    MaxStencils  \* bound: stencils of the function

Cell == {"op", "opref", "jmp", "jcc", "ret", "jmpind", "place", "word", "pad"}

CodeCell == (Cell \ {"word", "pad"}) \X Int

(* A stencil as extraction leaves it: its places are operands in its code, *)
(* in the order of their offsets, and ask for no more jumps than its       *)
(* family takes and for no runtime function that is not in the table; a    *)
(* jump out of the code has its place.                                     *)
StencilOK(stencil, jumps) ==
    stencil.code # <<>> =>
        /\ stencil.code \in Seq(CodeCell)
        /\ stencil.places \in Seq([at : Nat, kind : {"Hole", "Stack", "Runtime", "Target"},
                                  id : Nat])
        /\ \A i, j \in DOMAIN stencil.places :
              i < j => stencil.places[i].at < stencil.places[j].at
        /\ \A i \in DOMAIN stencil.places :
              LET p == stencil.places[i]
              IN  /\ p.at > 0
                  /\ p.at < Len(stencil.code) /\ stencil.code[p.at + 1][1] = "place"
                  /\ p.kind = "Target" => p.id \in 1..jumps
                  /\ p.kind = "Runtime" => p.id \in DOMAIN SymbolAddr
        /\ \A i \in DOMAIN stencil.code :
              stencil.code[i] = Jmp =>
                \E p \in Range(stencil.places) :
                    p.at = i /\ p.kind \in {"Target", "Runtime"}

ASSUME ProgramAssumption ==
    /\ \A c \in Clients :
          /\ c.blocks \in Nat \ {0} /\ c.holes \subseteq Nat /\ c.long_jump \in BOOLEAN
          /\ \A f \in c.families :
                /\ f.JUMPS \in Nat
                /\ StencilOK(f.narrow, f.JUMPS) /\ StencilOK(f.wide, f.JUMPS)
    /\ \A j \in Targets : j = Next \/ (j[2] \in Nat /\ j = Block(j[2]))
    /\ StackSlots \subseteq Nat /\ SymbolAddr \in Seq(Nat)
    /\ MaxStencils \in Nat

VARIABLES
    client,     \* the client and its library
    blocks,     \* the PatchBlock of every block
    phase,      \* "building", "placing" while blocks are finalized into the
                \* map, "done", or the error finalize_into returned
    offsets,    \* ProgramBlocks.offsets
    map,        \* the cells of the map
    placed,     \* how many blocks are in the map
    trace       \* history: the stencils of every block, where they start,
                \* what they are and with which operands

vars == <<client, blocks, phase, offsets, map, placed, trace>>

NBlocks  == client.blocks
Families == client.families
Holes    == client.holes

BlockIds == 1..NBlocks

Args(family) ==
    [hole  : IF family.HOLES = 0 THEN {0} ELSE Holes,
     stack : StackSlots,
     jumps : [1..family.JUMPS -> Targets]]

OnlyNext(args) == \A j \in Range(args.jumps) : j = Next

-----------------------------------------------------------------------------

ProgramInit ==
    /\ client \in Clients
    /\ blocks = [b \in BlockIds |-> NewBlock(client.long_jump)]
    /\ phase = "building"
    /\ offsets = <<>>
    /\ map = <<>>
    /\ placed = 0
    /\ trace = [b \in BlockIds |-> <<>>]

Stencils == FoldLeft(LAMBDA n, t : n + Len(t), 0, trace)

(* emit_one with a stencil of the family, in a block that is ended or not  *)
(* afterwards; it returns StencilNotFound without one.                     *)
Add(b, family, args, ended) ==
    /\ Stencils < MaxStencils
    /\ Found(family, args.hole)
    /\ blocks' = [blocks EXCEPT
                    ![b] = [EmitOne(@, family, args) EXCEPT !.ended = ended]]
    /\ trace' = [trace EXCEPT
                   ![b] = Append(@, [start   |-> Len(Settle(blocks[b]).code),
                                     stencil |-> Select(family, args.hole),
                                     wide    |-> Wide(family, args.hole),
                                     args    |-> args])]
    /\ UNCHANGED <<client, phase, offsets, map, placed>>

(* PatchBlock::emit, and emit_vv, emit_v and emit_vi through it.           *)
Emit(b) ==
    /\ phase = "building"
    /\ ~ blocks[b].ended
    /\ \E family \in Families : \E args \in Args(family) :
          /\ family.JUMPS = 1
          /\ OnlyNext(args)
          /\ Add(b, family, args, FALSE)

(* PatchBlock::branch: whether the block has ended is not asked.           *)
Branch(b) ==
    /\ phase = "building"
    /\ \E family \in Families : \E args \in Args(family) :
          Add(b, family, args, blocks[b].ended)

(* PatchBlock::end_branch *)
EndBranch(b) ==
    /\ phase = "building"
    /\ \E family \in Families : \E args \in Args(family) :
          Add(b, family, args, TRUE)

(* PatchBlock::ret, and ret_v through it.                                  *)
Ret(b) ==
    /\ phase = "building"
    /\ \E family \in Families : \E args \in Args(family) :
          /\ family.JUMPS = 0
          /\ Add(b, family, args, TRUE)

(* ret and end_branch without a stencil: the block ends all the same.      *)
FailEnd(b) ==
    /\ phase = "building"
    /\ \E family \in Families : \E hole \in Holes : ~ Found(family, hole)
    /\ blocks' = [blocks EXCEPT ![b].ended = TRUE]
    /\ UNCHANGED <<client, phase, offsets, map, placed, trace>>

-----------------------------------------------------------------------------

Lens == [b \in BlockIds |-> FinalLen(blocks[b])]

Total(lens) == FoldLeft(LAMBDA n, l : n + l, 0, lens)

(* Operators named Faulty... are what a bug would make of the definition   *)
(* that follows them; the properties are run against them, to see that     *)
(* they notice.                                                            *)
FaultyOffsetsShifted(lens) == [b \in BlockIds |-> Total(SubSeq(lens, 2, b - 1))]

(* ProgramBlocks::from_lens: the offset of a block is the sum of the       *)
(* lengths before it.                                                      *)
OffsetsOf(lens) == [b \in BlockIds |-> Total(SubSeq(lens, 1, b - 1))]

FaultyMeasureOpen ==
    /\ phase = "building"
    /\ phase' = "placing"
    /\ offsets' = OffsetsOf(Lens)
    /\ map' = [i \in 1..Total(Lens) |-> Pad]
    /\ UNCHANGED <<client, blocks, placed, trace>>

(* The head of PatchFunctionBuilder::finalize_into: PatchBlock::measure of *)
(* every block, and a map of the total length.                             *)
Measure ==
    /\ phase = "building"
    /\ IF \A b \in BlockIds : blocks[b].ended
       THEN /\ phase' = "placing"
            /\ offsets' = OffsetsOf(Lens)
            /\ map' = [i \in 1..Total(Lens) |-> Pad]
       ELSE /\ phase' = "NotEnded"
            /\ UNCHANGED <<offsets, map>>
    /\ UNCHANGED <<client, blocks, placed, trace>>

Resolved(blk) ==
    \A r \in Range(blk.relocs) : r.target[1] = "Block" => r.target[2] \in BlockIds

(* PatchBlock::finalize_into of the next block.  Where it fails it may have*)
(* written to the map, which its caller drops.                             *)
FinalizeBlock ==
    /\ phase = "placing"
    /\ placed < NBlocks
    /\ LET blk == blocks[placed + 1]
       IN  CASE blk.nexts # <<>> ->
                  phase' = "InvalidEnd" /\ UNCHANGED <<map, placed>>
             [] blk.nexts = <<>> /\ ~ HasLongJump(blk) ->
                  phase' = "StencilNotFound" /\ UNCHANGED <<map, placed>>
             [] blk.nexts = <<>> /\ HasLongJump(blk) /\ ~ Resolved(blk) ->
                  phase' = "UnresolvedBlockTarget" /\ UNCHANGED <<map, placed>>
             [] blk.nexts = <<>> /\ HasLongJump(blk) /\ Resolved(blk) ->
                  /\ map' = FinalizeInto(blk, map, offsets[placed + 1], offsets)
                  /\ placed' = placed + 1
                  /\ UNCHANGED phase
    /\ UNCHANGED <<client, blocks, offsets, trace>>

(* The tail of finalize_into: the map is handed out.                       *)
HandOut ==
    /\ phase = "placing"
    /\ placed = NBlocks
    /\ phase' = "done"
    /\ UNCHANGED <<client, blocks, offsets, map, placed, trace>>

ProgramNext ==
    \/ \E b \in BlockIds : Emit(b)
    \/ \E b \in BlockIds : Branch(b)
    \/ \E b \in BlockIds : EndBranch(b)
    \/ \E b \in BlockIds : Ret(b)
    \/ \E b \in BlockIds : FailEnd(b)
    \/ Measure
    \/ FinalizeBlock
    \/ HandOut

ProgramSpec == ProgramInit /\ [][ProgramNext]_vars

-----------------------------------------------------------------------------

(* The type of the state; a map is only made, and filled, when every block *)
(* has ended (PatchError::NotEnded).                                       *)
ProgramTypeOK ==
    /\ \A b \in BlockIds :
          /\ \A c \in Range(blocks[b].code) : c[1] \in Cell \ {"word", "pad"}
          /\ \A r \in Range(blocks[b].relocs \o blocks[b].nexts) : r.at \in Nat
          /\ blocks[b].ended \in BOOLEAN
    /\ phase \in {"building", "placing", "done", "NotEnded", "InvalidEnd",
                  "StencilNotFound", "UnresolvedBlockTarget"}
    /\ placed \in 0..NBlocks
    /\ map # <<>> => \A b \in BlockIds : blocks[b].ended
    /\ \A c \in Range(map) : c[1] \in Cell

(* Where the place at offset `at` of the image leads to.                   *)
LeadsTo(at) == at + 1 + map[at + 1][2]

CellAt(at) == map[at + 1]

Inside(at) == at \in 0..(Len(map) - 1)

Holds(at, cell) == Inside(at) /\ CellAt(at) = cell

(* The constant the place at offset `at` refers to is the value given.     *)
RefersTo(at, value) == Holds(LeadsTo(at), Word(value))

(* A runtime function is reached through a jump to its address.            *)
Reaches(at, symbol) ==
    /\ Holds(LeadsTo(at), JmpInd)
    /\ Inside(LeadsTo(at) + 1) /\ CellAt(LeadsTo(at) + 1)[1] = "place"
    /\ RefersTo(LeadsTo(at) + 1, SymbolAddr[symbol])

(* What a place p of the stencil t at offset `at` must be in the image; on *)
(* is the offset of the stencil after t.                                   *)
PlaceRuns(t, p, at, on) ==
    CASE p.kind = "Hole" /\ ~ t.wide -> CellAt(at) = Place(t.args.hole)
      [] p.kind = "Hole" /\ t.wide   -> RefersTo(at, t.args.hole)
      [] p.kind = "Stack"            -> CellAt(at) = Place(t.args.stack)
      [] p.kind = "Runtime"          -> Reaches(at, p.id)
      [] p.kind = "Target" ->
           LeadsTo(at) = IF t.args.jumps[p.id] = Next
                         THEN on
                         ELSE offsets[t.args.jumps[p.id][2]]

(* A stencil may lose its last jump when that leads to what follows it.    *)
GoesOn(t) ==
    \E p \in Range(t.stencil.places) :
        /\ p.kind = "Target" /\ t.args.jumps[p.id] = Next
        /\ p.at = Len(t.stencil.code) - 1
        /\ t.stencil.code[p.at] = Jmp

(* The k-th stencil of block b, with the next one at on, does in the image *)
(* what it was emitted for; the first is where the block is jumped to.     *)
StencilRuns(b, k, on) ==
    LET t == trace[b][k]
        from == offsets[b] + t.start
        kept == IF on = from + Len(t.stencil.code) - Len(Empty) /\ GoesOn(t)
                THEN Len(t.stencil.code) - Len(Empty)
                ELSE Len(t.stencil.code)
    IN  /\ on = from + kept
        /\ k = 1 => from = offsets[b]
        /\ \A i \in 1..kept :
              t.stencil.code[i][1] # "place" => Holds(from + i - 1, t.stencil.code[i])
        /\ \A p \in Range(t.stencil.places) :
              p.at < kept => PlaceRuns(t, p, from + p.at, on)

(* The image does what was asked for: every stencil of every block is in   *)
(* it with its operands, calls its runtime functions and continues where   *)
(* its jumps say, whatever jumps were pruned, moved or delayed.            *)
ImageRuns ==
    phase = "done" =>
        \A b \in BlockIds : \A k \in DOMAIN trace[b] :
            StencilRuns(b, k, offsets[b] +
                              (IF k < Len(trace[b]) THEN trace[b][k + 1].start
                                                    ELSE Len(blocks[b].code)))

(* Pruning never cuts off or moves a place that waits for its relocation:  *)
(* the delayed relocations of a block are places of its code, in the order *)
(* of their offsets, those of the last stencil to its next one included.   *)
DelayedInCode ==
    \A b \in BlockIds :
        LET blk == blocks[b]
            isPlaceOf(r) == r.at < Len(blk.code) /\ blk.code[r.at + 1][1] = "place"
            increasing(rs) == \A i, j \in DOMAIN rs : i < j => rs[i].at < rs[j].at
        IN  /\ \A r \in Range(blk.relocs \o blk.nexts) : isPlaceOf(r)
            /\ increasing(blk.relocs) /\ increasing(blk.nexts)

(* finalize_into refuses exactly the functions that would run off the end  *)
(* of a block with code (PatchError::InvalidEnd), jump to no block         *)
(* (UnresolvedBlockTarget), or call what they cannot reach                 *)
(* (StencilNotFound): jumps that were settled do not count.                *)
RunsOff(b) ==
    /\ trace[b] # <<>>
    /\ \E p \in Range(Last(trace[b]).stencil.places) :
          p.kind = "Target" /\ Last(trace[b]).args.jumps[p.id] = Next

JumpsNowhere(b) ==
    \E t \in Range(trace[b]) : \E p \in Range(t.stencil.places) :
        /\ p.kind = "Target"
        /\ t.args.jumps[p.id] # Next
        /\ t.args.jumps[p.id][2] \notin BlockIds

CallsTooFar(b) ==
    /\ ~ client.long_jump
    /\ \E t \in Range(trace[b]) : \E p \in Range(t.stencil.places) : p.kind = "Runtime"

RefusedForCause ==
    /\ phase = "InvalidEnd" => \E b \in BlockIds : RunsOff(b)
    /\ phase = "UnresolvedBlockTarget" => \E b \in BlockIds : JumpsNowhere(b)
    /\ phase = "StencilNotFound" => \E b \in BlockIds : CallsTooFar(b)
    /\ phase = "done" =>
          \A b \in BlockIds : ~ RunsOff(b) /\ ~ JumpsNowhere(b) /\ ~ CallsTooFar(b)

(* Finalizing a block writes the region of the map that measure gave it,   *)
(* and nothing of another block's.                                         *)
RegionOf(b) == (offsets[b] + 1)..(offsets[b] + FinalLen(blocks[b]))

OwnRegionOnly ==
    [][placed' = placed + 1 =>
         \A i \in DOMAIN map : map'[i] # map[i] => i \in RegionOf(placed + 1)]_vars

=============================================================================
