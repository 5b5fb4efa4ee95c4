----------------------------- MODULE PatchBlock -----------------------------
(***************************************************************************)
(* One block of code under construction (struct PatchBlock of              *)
(* src/patch.rs) and what every operation makes of it, as operators on a   *)
(* record                                                                  *)
(*   code    the cells emitted so far                                      *)
(*   relocs  relocations: those only finalize can resolve                  *)
(*   consts  constants: the wide hole values                               *)
(*   nexts   next_relocations: the jumps of the last stencil to the one    *)
(*           after it                                                      *)
(*   ended   the flag of the same name                                     *)
(*   long_jump  whether its library has a stencil for trampolines          *)
(*                                                                         *)
(* Code is a sequence of cells where the program has bytes.  A relocated   *)
(* place, four or eight bytes of the program, is one cell; an opcode is    *)
(* another.  Places are program-counter relative with the addend -1, as    *)
(* x86-64 code has them with -4: a displacement of 0 leads to the cell     *)
(* after the place.  Offsets count from 0.                                 *)
(***************************************************************************)
EXTENDS Integers, SequencesExt

CONSTANTS
    WordCells,   \* cells a usize takes, and the alignment of constants
    MaxNarrow,   \* greatest hole value a narrow stencil can hold
    ConstMod,    \* 2^16: how many constant indices there are
    SymbolAddr   \* runtime symbol -> its address

ASSUME CellAssumption == WordCells \in Nat \ {0} /\ ConstMod \in Nat \ {0}

Op       == <<"op", 0>>     \* an instruction without a place
OpRef    == <<"opref", 0>>  \* an instruction that reads the place after it
Jmp      == <<"jmp", 0>>
Jcc      == <<"jcc", 0>>
RetOp    == <<"ret", 0>>
JmpInd   == <<"jmpind", 0>> \* jumps to the address stored where its place leads
Place(n) == <<"place", n>>
Word(v)  == <<"word", v>>   \* a usize stored in the image, its first cell
Pad      == <<"pad", 0>>    \* a cell of the map nobody wrote, or the rest of a word

(* library.empty: the code of a stencil that only goes on to the next one. *)
Empty == <<Jmp, Place(0)>>

NewBlock(long_jump) ==
    [code |-> <<>>, relocs |-> <<>>, consts |-> <<>>, nexts |-> <<>>, ended |-> FALSE,
     long_jump |-> long_jump]

-----------------------------------------------------------------------------

(* Jump targets and the targets of delayed relocations.                    *)
Next          == <<"Next", 0>>
Block(b)      == <<"Block", b>>
Constant(i)   == <<"Constant", i>>
Runtime(s)    == <<"Runtime", s>>
Delayed(at, target) == [at |-> at, target |-> target]

(* DelayedRelocation::resolve and apply: the place at offset r.at leads to *)
(* the offset given.                                                       *)
Patch(code, r, offset) == [code EXCEPT ![r.at + 1] = Place(offset - r.at - 1)]

(* One after another; each place leads to its own offset.                  *)
PatchAll(code, patches) == FoldLeft(LAMBDA c, r : Patch(c, r, r.to), code, patches)

(* A stencil: its code and its places in the order of their offsets.  A    *)
(* family offers a narrow stencil, whose holes take a small value, and a   *)
(* wide one, which reads its hole values from memory; either may be        *)
(* missing, which is to have no code.  StencilFamily::select.              *)
Missing == [code |-> <<>>, places |-> <<>>]

Fits(stencil, hole) ==
    \A p \in Range(stencil.places) : p.kind = "Hole" => hole <= MaxNarrow

Wide(family, hole) == ~ Fits(family.narrow, hole)

Select(family, hole) ==
    IF Wide(family, hole) THEN family.wide ELSE family.narrow

Found(family, hole) == Select(family, hole).code # <<>>

-----------------------------------------------------------------------------

EndsWith(code, suffix) == IsSuffix(suffix, code)

LastRelocAt(blk) == IF blk.relocs = <<>> THEN 0 ELSE Last(blk.relocs).at

(* Operators named Faulty... are what a bug would make of the definition   *)
(* that follows them; the properties are run against them, to see that     *)
(* they notice.                                                            *)
FaultyPruneAlways(blk) ==
    EndsWith(Patch(blk.code, Last(blk.nexts), Len(blk.code)), Empty)

(* The previous stencil is settled first: its last jump to the next one is *)
(* dropped when it is the end of the code and nothing behind it waits for  *)
(* a relocation, and the others are patched to the end that leaves.        *)
Prunable(blk) ==
    /\ EndsWith(Patch(blk.code, Last(blk.nexts), Len(blk.code)), Empty)
    /\ Last(blk.nexts).at > LastRelocAt(blk)

Pruned(blk) ==
    LET patched == Patch(blk.code, Last(blk.nexts), Len(blk.code))
    IN  IF Prunable(blk)
        THEN SubSeq(patched, 1, Len(patched) - Len(Empty))
        ELSE patched

LeadingTo(rs, offset) == [k \in DOMAIN rs |-> [at |-> rs[k].at, to |-> offset]]

FaultySettleEarly(blk) ==
    IF blk.nexts = <<>>
    THEN blk
    ELSE [blk EXCEPT !.code = PatchAll(Pruned(blk),
                                       LeadingTo(Front(blk.nexts), Len(blk.code))),
                     !.nexts = <<>>]

FaultySettleLast(blk) ==
    IF blk.nexts = <<>>
    THEN blk
    ELSE [blk EXCEPT !.code = Pruned(blk), !.nexts = Front(@)]

Settle(blk) ==
    IF blk.nexts = <<>>
    THEN blk
    ELSE LET kept == Pruned(blk)
         IN  [blk EXCEPT !.code = PatchAll(kept, LeadingTo(Front(blk.nexts), Len(kept))),
                         !.nexts = <<>>]

(* One relocation of an emission e: a place of copy_and_patch and          *)
(* DelayedRelocation::try_apply.  The stencil starts at e.from, it is      *)
(* e.wide or not, and e.args are the operands: the hole value, the stack   *)
(* offset and the jumps.                                                   *)
AddPlace(blk, p, e) ==
    LET at == e.from + p.at
        jump == e.args.jumps[p.id]
        delay(target) == [blk EXCEPT !.relocs = Append(@, Delayed(at, target))]
    IN  CASE p.kind = "Hole" /\ e.wide ->
               [delay(Constant(Len(blk.consts) % ConstMod))
                  EXCEPT !.consts = Append(@, e.args.hole)]
          [] p.kind = "Hole" /\ ~ e.wide ->
               [blk EXCEPT !.code[at + 1] = Place(e.args.hole)]
          [] p.kind = "Stack" ->
               [blk EXCEPT !.code[at + 1] = Place(e.args.stack)]
          [] p.kind = "Runtime" -> delay(Runtime(p.id))
          [] p.kind = "Target" /\ jump = Next ->
               [blk EXCEPT !.nexts = Append(@, Delayed(at, Next))]
          [] p.kind = "Target" /\ jump # Next -> delay(jump)

AddPlaces(blk, places, e) == FoldLeft(LAMBDA b, p : AddPlace(b, p, e), blk, places)

CopyAndPatch(blk, stencil, wide, args) ==
    AddPlaces([blk EXCEPT !.code = @ \o stencil.code], stencil.places,
              [from |-> Len(blk.code), wide |-> wide, args |-> args])

(* PatchBlock::emit_one once a stencil is found.                           *)
EmitOne(blk, family, args) ==
    CopyAndPatch(Settle(blk), Select(family, args.hole), Wide(family, args.hole), args)

-----------------------------------------------------------------------------

(* Runtime symbols out of the range of a place are reached through a       *)
(* trampoline each, in the order of their first use.                       *)
AddSymbol(syms, r) ==
    IF r.target[1] = "Runtime" /\ r.target[2] \notin Range(syms)
    THEN Append(syms, r.target[2])
    ELSE syms

RuntimeTrampolineSymbols(blk) == FoldLeft(AddSymbol, <<>>, blk.relocs)

(* library.long_jump, wide: a jump through the constant its place leads to.*)
LongJump == [code |-> <<JmpInd, Place(0)>>, places |-> <<[at |-> 1, kind |-> "Hole", id |-> 1]>>]

(* long_jump_stencil().map_or(0, ..)                                       *)
LongJumpLen(blk) == IF blk.long_jump THEN Len(LongJump.code) ELSE 0

(* finalize_into can do without the stencil if nothing is out of reach.    *)
HasLongJump(blk) == blk.long_jump \/ RuntimeTrampolineSymbols(blk) = <<>>

AlignUp(n) == ((n + WordCells - 1) \div WordCells) * WordCells

FaultyNoTrampolineWords(blk) ==
    LET codeLen == Len(blk.code) + Len(RuntimeTrampolineSymbols(blk)) * LongJumpLen(blk)
    IN  IF blk.consts = <<>> THEN codeLen
        ELSE AlignUp(codeLen) + Len(blk.consts) * WordCells

FinalLen(blk) ==
    LET trampolines == Len(RuntimeTrampolineSymbols(blk))
        codeLen == Len(blk.code) + trampolines * LongJumpLen(blk)
        count == Len(blk.consts) + trampolines
    IN  IF count = 0 THEN codeLen ELSE AlignUp(codeLen) + count * WordCells

(* The cells of a map from offset `start` on, overwritten.                 *)
Write(map, start, cells) ==
    [i \in DOMAIN map |-> IF i \in (start + 1)..(start + Len(cells))
                          THEN cells[i - start] ELSE map[i]]

WriteAll(map, pieces) == FoldLeft(LAMBDA m, w : Write(m, w.start, w.cells), map, pieces)

WordAt(v) == <<Word(v)>> \o [i \in 1..(WordCells - 1) |-> Pad]

(* PatchBlock::finalize_into for a block that may be finalized: offset is  *)
(* where the block starts in the map, offsets where every block does.      *)
FinalizeInto(blk, map, offset, offsets) ==
    LET syms == RuntimeTrampolineSymbols(blk)
        trampolineAt(i) == Len(blk.code) + (i - 1) * Len(LongJump.code)
        codeEnd == trampolineAt(Len(syms) + 1)
        words == blk.consts \o [i \in 1..Len(syms) |-> SymbolAddr[syms[i]]]
        constantBase == IF words = <<>> THEN codeEnd ELSE AlignUp(codeEnd)
        constantAt(i) == offset + constantBase + i * WordCells
        trampolineRelocs ==
            [i \in 1..Len(syms) |->
                Delayed(trampolineAt(i) + LongJump.places[1].at,
                        Constant((Len(blk.consts) + i - 1) % ConstMod))]
        targetOf(r) ==
            CASE r.target[1] = "Block"    -> offsets[r.target[2]]
              [] r.target[1] = "Constant" -> constantAt(r.target[2])
              [] r.target[1] = "Runtime"  ->
                   offset + trampolineAt(CHOOSE i \in DOMAIN syms : syms[i] = r.target[2])
        pieces == <<[start |-> offset, cells |-> blk.code]>>
                  \o [i \in 1..Len(syms) |->
                        [start |-> offset + trampolineAt(i), cells |-> LongJump.code]]
                  \o [i \in 1..Len(words) |->
                        [start |-> constantAt(i - 1), cells |-> WordAt(words[i])]]
        relocs == blk.relocs \o trampolineRelocs
        patches == [k \in 1..Len(relocs) |->
                      [at |-> offset + relocs[k].at, to |-> targetOf(relocs[k])]]
    IN  PatchAll(WriteAll(map, pieces), patches)

=============================================================================
