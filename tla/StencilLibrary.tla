--------------------------- MODULE StencilLibrary ---------------------------
(***************************************************************************)
(* A stencil library from the macro to its use.  The macro writes a        *)
(* function for every placement of a family (module StencilMacro); the     *)
(* compiler turns these into symbols of object files; extraction           *)
(* (crates/patchouly-build/extract.rs) reads the symbols in the order it   *)
(* meets them into a table for each family, sharing equal lists of         *)
(* relocations, numbers the runtime functions they call, and leaves out    *)
(* or refuses what it cannot use; generate.rs writes the tables down; and  *)
(* at run time a stencil is selected by the locations and hole values of   *)
(* an emission (crates/patchouly-core/stencils.rs) and patched             *)
(* (src/patch.rs).                                                         *)
(***************************************************************************)
EXTENDS StencilMacro

CONSTANTS
    Libraries,    \* libraries to build: records of
                  \*   families  names -> families
                  \*   narrow    the shape of the narrow place of each hole
                  \*             of each placement of each family
                  \*   calls     what the compiler may leave in a function
    Allowed,      \* the runtime functions extraction lets through
    NarrowBits,   \* the width of every place but those
    MaxIndex,     \* 2^16 - 1: the greatest relocation index of an entry
    MaxSymbols,   \* 2^16: how many runtime functions get a number
    StackSlots,   \* bound: stack slots of the function that selects
    Window,       \* bound: how far the object files reorder symbols
    MaxOdd        \* bound: symbols read before their turn, and functions that
                  \* call others or are refused

ASSUME LibraryAssumption ==
    /\ \A l \in Libraries :
          /\ DOMAIN l.families # {}
          /\ \A n \in DOMAIN l.families :
                /\ FamilyOK(l.families[n])
                /\ \A c \in Placements(l.families[n]), h \in 1..l.families[n].holes :
                      l.narrow[n][c][h] \in PlaceShape
          (* what setup_stencils! writes in every library                  *)
          /\ "__long_jump" \in DOMAIN l.families =>
                Values(l.families["__long_jump"]) = 0 /\ l.families["__long_jump"].holes = 1
          /\ l.calls \subseteq Seq(STRING)
    /\ Allowed \subseteq STRING
    /\ MaxIndex \in Nat /\ MaxSymbols \in Nat /\ NarrowBits \in 1..WordBits
    /\ StackSlots \in Nat /\ Window \in Nat /\ MaxOdd \in Nat

VARIABLES
    phase,      \* "expand", "extract", "library" or "failed"
    lib,        \* the library to build
    current,    \* RegPermutation, for each family: the placement to yield next
    running,    \* the families whose RegPermutation has one
    expanded,   \* history: the placements yielded for each family, in order
    pending,    \* the symbols of the object files not read yet
    builders,   \* stencils: the StencilFamilyBuilder of each family met
    all_code,   \* the code of all stencils, in cells
    rt_symbols, \* RuntimeSymbols: the names, by number
    max_regs,   \* the max_regs of the families met, 0 before the first
    compiled,   \* history: the symbols in a table -> the uses of their places
    odd,        \* how often a symbol was odd in one of the ways MaxOdd bounds
    error,      \* why extraction failed
    tables      \* what generate writes down

vars == <<phase, lib, current, running, expanded, pending, builders, all_code,
          rt_symbols, max_regs, compiled, odd, error, tables>>

Family(name) == lib.families[name]

Init ==
    /\ phase = "expand"
    /\ lib \in Libraries
    /\ current = [n \in DOMAIN lib.families |->
                    [i \in 1..Values(lib.families[n]) |-> 0]]
    /\ running = DOMAIN lib.families
    /\ expanded = [n \in DOMAIN lib.families |-> <<>>]
    /\ pending = <<>>
    /\ builders = <<>>
    /\ all_code = <<>>
    /\ rt_symbols = <<>>
    /\ max_regs = 0
    /\ compiled = <<>>
    /\ odd = 0
    /\ error = "none"
    /\ tables = <<>>

-----------------------------------------------------------------------------

(* StencilFamily::expand: one more placement, and its symbols.  The        *)
(* families are independent, so any one goes first.                        *)
Expand ==
    /\ phase = "expand"
    /\ LET n == CHOOSE f \in running : TRUE
           c == current[n]
           fam == Family(n)
       IN  /\ expanded' = [expanded EXCEPT ![n] = Append(@, c)]
           /\ pending' = pending \o SymbolsOf(n, fam, c)
           /\ \/ \E i \in DOMAIN c :
                    /\ LastRaise(fam, c, i)
                    /\ current' = [current EXCEPT ![n] = Raised(fam, c, i)]
                    /\ UNCHANGED <<running, phase>>
              \/ /\ \A i \in DOMAIN c : Steps(fam, c, i) = {}
                 /\ running' = running \ {n}
                 /\ phase' = IF running' = {} THEN "extract" ELSE "expand"
                 /\ UNCHANGED current
    /\ UNCHANGED <<lib, builders, all_code, rt_symbols, max_regs, compiled, odd,
                   error, tables>>

-----------------------------------------------------------------------------

(* stencils_len: max_regs to the power of the number of values.            *)
stencils_len(fam) == FoldLeft(LAMBDA n, r : n * r, 1, [i \in 1..Values(fam) |-> fam.regs])

io_to_index(fam, placement, wide) ==
    FoldLeft(LAMBDA n, bits : fam.regs * n + bits, 0, placement)
      + (IF wide THEN stencils_len(fam) ELSE 0)

FaultyIndexToIo(fam, index) ==
    FoldLeft(LAMBDA got, v : [index |-> got.index \div fam.regs,
                              io    |-> Append(got.io, got.index % fam.regs)],
             [index |-> index, io |-> <<>>], [v \in 1..Values(fam) |-> v]).io

(* index_to_io_lossy, from the last output back to the first input.        *)
index_to_io_lossy(fam, index) ==
    FoldLeft(LAMBDA got, v : [index |-> got.index \div fam.regs,
                              io    |-> <<got.index % fam.regs>> \o got.io],
             [index |-> index, io |-> <<>>], [v \in 1..Values(fam) |-> v]).io

(* An entry of the table nobody wrote.                                     *)
Default == [code_index |-> 0, code_len |-> 0, relocation_index |-> 0]

(* StencilFamilyBuilder::new *)
NewBuilder(meta, fam) ==
    [meta     |-> meta,
     stencils |-> [i \in 0..((IF meta.holes > 0 THEN 2 ELSE 1) * stencils_len(fam) - 1)
                     |-> Default],
     relocation_data |-> <<>>,
     existing |-> <<>>]      \* existing_relocations: list -> where it starts

Builder(name) ==
    IF name \in DOMAIN builders THEN builders[name]
    ELSE NewBuilder(Metadata(Family(name)), Family(name))

Invalid == [kind |-> "Invalid"]

FaultyPooled(b, list) ==
    IF list \in DOMAIN b.existing THEN b
    ELSE [b EXCEPT !.existing = Put(@, list, Len(b.relocation_data)),
                   !.relocation_data = @ \o list]

(* add_stencil keeps each list of relocations once, and marks its end.     *)
Pooled(b, list) ==
    IF list \in DOMAIN b.existing THEN b
    ELSE [b EXCEPT !.existing = Put(@, list, Len(b.relocation_data)),
                   !.relocation_data = @ \o list \o <<Invalid>>]

(* The most a list uses of a kind of place.                                *)
Needs(list, kind) ==
    Max({0} \cup {r.id + 1 : r \in {q \in Range(list) : q.kind = kind}})

FamilyMismatch(sym, list) ==
    LET meta == Builder(sym.name).meta
        ins == Family(sym.name).ins
    IN  \/ meta.inputs # ins \/ meta.outputs # Len(sym.placement) - ins
        \/ meta.holes < Needs(list, "Hole")
        \/ meta.jumps < Needs(list, "Target")

-----------------------------------------------------------------------------

(* The place of a use: a narrow hole as the compiler made it in this       *)
(* function, a wide one and everything it calls relative, a stack offset   *)
(* absolute.                                                               *)
Shape(sym, use) ==
    CASE use.kind = "Hole" /\ ~ sym.wide ->
           lib.narrow[sym.name][sym.placement][use.id + 1]
      [] use.kind = "Stack" ->
           [encoding |-> "Generic", relative |-> FALSE, size |-> NarrowBits, addend |-> 0]
      [] OTHER ->
           [encoding |-> "Generic", relative |-> TRUE, size |-> NarrowBits, addend |-> 0]

(* new_relocation *)
NewRelocation(sym, use, offset, kind, id) ==
    LET place == Shape(sym, use)
    IN  [kind |-> kind, id |-> id, offset |-> offset, encoding |-> place.encoding,
         relative |-> place.relative, size |-> place.size, addend |-> place.addend]

FaultySymbolId(symbols, name) == Len(symbols)

(* RuntimeSymbols::add_symbol: the number it had, or the next one.         *)
SymbolId(symbols, name) ==
    LET i == SelectInSeq(symbols, LAMBDA s : s = name)
    IN  IF i = 0 THEN Len(symbols) ELSE i - 1

(* One relocation of a symbol, after some: got is what was read, and       *)
(* whether it is all right.                                                *)
ReadOne(sym, got, offset, use) ==
    IF ~ got.ok THEN got
    ELSE IF use.kind # "Call"
    THEN [got EXCEPT !.list = Append(@, NewRelocation(sym, use, offset, use.kind, use.id))]
    ELSE IF use.id \notin Allowed \/ Len(got.symbols) >= MaxSymbols
    THEN [got EXCEPT !.ok = FALSE]
    ELSE LET id == SymbolId(got.symbols, use.id)
         IN  [got EXCEPT !.list = Append(@, NewRelocation(sym, use, offset, "Runtime", id)),
                         !.symbols = IF Contains(@, use.id) THEN @ ELSE Append(@, use.id)]

FaultySorted(list) == list

(* Sorted by offset, of which each relocation has its own: the k-th has k  *)
(* not after it.                                                           *)
Sorted(list) ==
    [k \in DOMAIN list |->
        CHOOSE p \in Range(list) :
            Cardinality({q \in Range(list) : q.offset <= p.offset}) = k]

(* The relocations of a symbol, in the order its object file lists them.   *)
Read(sym, uses, backwards) ==
    LET offsets == [i \in DOMAIN uses |-> i]
    IN  FoldLeft(LAMBDA got, o : ReadOne(sym, got, o, uses[o]),
                 [ok |-> TRUE, list |-> <<>>, symbols |-> rt_symbols],
                 IF backwards THEN Reverse(offsets) ELSE offsets)

(* The code of a symbol, a cell for each of its places and one more.       *)
Code(sym, uses) == [i \in 1..(Len(uses) + 1) |-> <<sym, i>>]

-----------------------------------------------------------------------------

Taken(k, got) ==
    /\ phase = "extract"
    /\ pending' = RemoveAt(pending, k)
    /\ rt_symbols' = got.symbols
    /\ UNCHANGED <<phase, lib, current, running, expanded, error, tables>>

FaultyRelocationIndex(start) == start % (MaxIndex + 1)

(* relocation_start.try_into(), once it is known to succeed                *)
RelocationIndex(start) == start

WrongRegs(sym) ==
    /\ sym.name \notin DOMAIN builders
    /\ max_regs \notin {0, Family(sym.name).regs}

TooLarge(sym, list) ==
    RelocationIndex(Pooled(Builder(sym.name), list).existing[list]) > MaxIndex

(* Why extract or add_stencil refuses a symbol whose relocations are known.*)
Fault(sym, list) ==
    CASE WrongRegs(sym) -> "max_regs"
      [] ~ WrongRegs(sym) /\ FamilyMismatch(sym, list) -> "mismatch"
      [] ~ WrongRegs(sym) /\ ~ FamilyMismatch(sym, list) ->
           IF TooLarge(sym, list) THEN "too large" ELSE "none"

(* extract, for a symbol all of whose relocations it knows, and            *)
(* StencilFamilyBuilder::add_stencil.                                      *)
Extract(k, uses, got) ==
    LET sym  == pending[k]
        list == Sorted(got.list)
        b    == Pooled(Builder(sym.name), list)
        code == Code(sym, uses)
        entry == [code_index |-> Len(all_code), code_len |-> Len(code),
                  relocation_index |-> RelocationIndex(b.existing[list])]
    IN  /\ got.ok /\ Fault(sym, list) = "none"
        /\ Taken(k, got)
        /\ all_code' = all_code \o code
        /\ max_regs' = Family(sym.name).regs
        /\ builders' =
             Put(builders, sym.name,
                 [b EXCEPT !.stencils =
                    [@ EXCEPT ![io_to_index(Family(sym.name), sym.placement, sym.wide)] = entry]])
        /\ compiled' = Put(compiled, sym, uses)

(* extract, for a symbol that calls what is not allowed: the runtime       *)
(* functions met before that keep their numbers.                           *)
Skip(k, uses, got) ==
    /\ ~ got.ok
    /\ Taken(k, got)
    /\ UNCHANGED <<builders, all_code, max_regs, compiled>>

Fail(why) ==
    /\ phase' = "failed"
    /\ error' = why
    /\ UNCHANGED <<lib, current, running, expanded, pending, builders, all_code,
                   rt_symbols, max_regs, compiled, tables>>

(* extract returns an error: for a relocation to something defined; for    *)
(* the first symbol of a family, without metadata in its object file; or   *)
(* for a fault.                                                            *)
Refuse(k, uses, got) ==
    LET sym == pending[k]
        fault == Fault(sym, Sorted(got.list))
    IN  /\ phase = "extract"
        /\ \/ odd < MaxOdd /\ Fail("not inlined")
           \/ odd < MaxOdd /\ got.ok /\ sym.name \notin DOMAIN builders /\ Fail("no metadata")
           \/ got.ok /\ fault # "none" /\ Fail(fault)

(* One symbol is read.                                                     *)
ReadSymbol ==
    \E k \in 1..Min({Window, Len(pending)}), calls \in {<<>>} \cup lib.calls,
       backwards \in BOOLEAN :
        LET uses == Uses(Family(pending[k].name), pending[k].placement, calls)
            got  == Read(pending[k], uses, backwards)
        IN  /\ odd' = odd + (IF k = 1 THEN 0 ELSE 1) + (IF calls = <<>> THEN 0 ELSE 1)
            /\ odd' <= MaxOdd
            /\ \/ Extract(k, uses, got)
               \/ Skip(k, uses, got)
               \/ Refuse(k, uses, got)

(* generate: the tables of all families but __empty, whose code becomes    *)
(* the library's empty if there is one stencil of it.                      *)
Generate ==
    /\ phase = "extract" /\ pending = <<>>
    /\ phase' = "library"
    /\ tables' =
         [code       |-> all_code,
          empty      |-> IF "__empty" \in DOMAIN builders
                            /\ DOMAIN builders["__empty"].stencils = {0}
                         THEN LET e == builders["__empty"].stencils[0]
                              IN  SubSeq(all_code, e.code_index + 1, e.code_index + e.code_len)
                         ELSE <<>>,
          families   |-> [n \in DOMAIN builders \ {"__empty"} |-> builders[n]],
          rt_symbols |-> rt_symbols]
    /\ UNCHANGED <<lib, current, running, expanded, pending, builders, all_code,
                   rt_symbols, max_regs, compiled, odd, error>>

Next == Expand \/ ReadSymbol \/ Generate

Spec == Init /\ [][Next]_vars

-----------------------------------------------------------------------------

(* What an emission has: a location for each value, outputs in different   *)
(* ones, and hole values.                                                  *)
Reg(i) == [kind |-> "Register", index |-> i]
Stk(i) == [kind |-> "Stack", index |-> i]

Operands(fam) ==
    LET locations == {Reg(i) : i \in 0..(fam.regs - 2)} \cup {Stk(i) : i \in 0..(StackSlots - 1)}
    IN  {ls \in [1..Values(fam) -> locations] :
            \A i, j \in (fam.ins + 1)..Values(fam) : ls[i] = ls[j] => i = j}

HoleValues(fam) == [1..fam.holes -> Words]

(* Location::into_bits *)
Bits(ls) == [i \in DOMAIN ls |-> IF ls[i].kind = "Stack" THEN 0 ELSE ls[i].index + 1]

(* Stencil::relocations: the list that starts at the index, up to its end. *)
ListAt(b, start) ==
    LET ends == {i \in (start + 1)..Len(b.relocation_data) : b.relocation_data[i] = Invalid}
    IN  SubSeq(b.relocation_data, start + 1,
               IF ends = {} THEN Len(b.relocation_data) ELSE Min(ends) - 1)

Entry(n, ls, wide) ==
    tables.families[n].stencils[io_to_index(Family(n), Bits(ls), wide)]

FaultyWide(n, ls, hs) ==
    /\ Entry(n, ls, FALSE).code_len # 0
    /\ \E place \in Range(ListAt(tables.families[n], Entry(n, ls, FALSE).relocation_index)) :
          place.kind = "Hole" /\ ~ supports_value(place, hs[place.id + 1])

(* StencilFamily::select: whether a narrow stencil takes the holes is read *)
(* from its relocations, also when there is no such stencil.               *)
Wide(n, ls, hs) ==
    \E place \in Range(ListAt(tables.families[n], Entry(n, ls, FALSE).relocation_index)) :
        place.kind = "Hole" /\ ~ supports_value(place, hs[place.id + 1])

Select(n, ls, hs) == Entry(n, ls, Wide(n, ls, hs))

(* SelectedStencil::new *)
Found(n, ls, hs) == Select(n, ls, hs).code_len # 0

FaultyLongJumpHole == 0

(* PatchBlock::long_jump_stencil selects with usize::MAX.                  *)
LongJumpHole == MaxWord

FaultyStackVars(fam, ls) ==
    LET ofKind(from, to) == SelectSeq(SubSeq(ls, from, to), LAMBDA l : l.kind = "Stack")
        onStack == ofKind(fam.ins + 1, Len(ls)) \o ofKind(1, fam.ins)
    IN  [i \in DOMAIN onStack |-> onStack[i].index]

(* The stack_vars of PatchBlock::copy_and_patch.                           *)
StackVars(fam, ls) ==
    FoldLeft(LAMBDA vs, l : IF l.kind = "Stack" THEN Append(vs, l.index) ELSE vs, <<>>, ls)

(* Stencil::code: the symbol whose code an entry leads to.                 *)
CodeOf(entry) ==
    SubSeq(tables.code, entry.code_index + 1, entry.code_index + entry.code_len)

Garbage == <<"garbage">>

(* What the use u of a stencil's code finds at its place when              *)
(* copy_and_patch and try_apply have patched the list of relocations for   *)
(* an emission: an immediate, a word of memory, a stack offset or a target.*)
Finds(sym, list, fam, ls, hs, wide, u) ==
    LET at == {r \in Range(list) : compiled[sym][r.offset] = u}
        r  == CHOOSE q \in at : TRUE
    IN  CASE at = {} -> Garbage
          [] at # {} /\ u.kind # r.kind -> Garbage
          [] at # {} /\ u.kind = r.kind /\ u.kind = "Stack" -> StackVars(fam, ls)[r.id + 1]
          [] at # {} /\ u.kind = r.kind /\ u.kind = "Target" -> <<"jump", r.id>>
          [] at # {} /\ u.kind = r.kind /\ u.kind = "Hole" ->
               CASE sym.wide # wide -> Garbage
                 [] sym.wide /\ wide -> hs[r.id + 1]
                 [] ~ sym.wide /\ ~ wide ->
                      (Widened(r, apply_raw(r, hs[r.id + 1])) - r.addend) % Bit[WordBits]

(* The registers and the stack before, and after an emission's stencil.    *)
Regs(fam) == [i \in 0..(fam.regs - 2) |-> <<"reg", i>>]
Stack     == [i \in 0..(StackSlots - 1) |-> <<"slot", i>>]

Ran(n, ls, hs) ==
    LET entry == Select(n, ls, hs)
        fam   == Family(n)
        sym   == CodeOf(entry)[1][1]
        list  == ListAt(tables.families[n], entry.relocation_index)
        wide  == Wide(n, ls, hs)
        field == [u \in Range(Uses(fam, sym.placement, <<>>)) |->
                    Finds(sym, list, fam, ls, hs, wide, u)]
    IN  Body(fam, sym.placement, Regs(fam), Stack, field)

(* What the emission was for.                                              *)
Meant(n, ls, hs) ==
    LET fam == Family(n)
        args == [i \in 1..fam.ins |->
                   IF ls[i].kind = "Stack" THEN Stack[ls[i].index] ELSE Regs(fam)[ls[i].index]]
        after(l, before) ==
            LET outs == {j \in (fam.ins + 1)..Len(ls) : ls[j] = l}
            IN  IF outs = {} THEN before ELSE Result(Max(outs) - fam.ins, args, hs)
    IN  [regs  |-> [i \in DOMAIN Regs(fam) |-> after(Reg(i), Regs(fam)[i])],
         stack |-> [i \in DOMAIN Stack |-> after(Stk(i), Stack[i])],
         exit  |-> CASE fam.kind = "next" -> <<<<"jump", 0>>>>
                     [] fam.kind = "targets" -> [t \in 1..fam.targets |-> <<"jump", t - 1>>]
                     [] fam.kind = "returns" -> [j \in 1..fam.outs |-> Result(j, args, hs)]
                     [] fam.kind = "trampoline" -> <<Result(1, args, hs)>>]

-----------------------------------------------------------------------------

(* The type of the state, and that no walk along a list of relocations     *)
(* leaves the pool: each list in it ends.                                  *)
LibraryTypeOK ==
    /\ phase \in {"expand", "extract", "library", "failed"}
    /\ \A n \in DOMAIN current : current[n] \in [1..Values(Family(n)) -> 0..(Family(n).regs - 1)]
    /\ odd \in 0..MaxOdd
    /\ Range(rt_symbols) \subseteq Allowed
    /\ \A n \in DOMAIN builders :
          LET b == builders[n]
              halves == IF Family(n).holes = 0 THEN 1 ELSE 2
          IN  /\ b.meta.max_regs = max_regs
              /\ DOMAIN b.stencils = 0..(halves * stencils_len(Family(n)) - 1)
              /\ Last(b.relocation_data) = Invalid
              /\ \A e \in Range(b.stencils) :
                    /\ e.relocation_index \in 0..(Len(b.relocation_data) - 1)
                    /\ e.relocation_index <= MaxIndex
                    /\ e.code_index + e.code_len <= Len(all_code)

(* RegPermutation yields every placement whose outputs are in different    *)
(* registers, each once (its documentation comment, test_two_outs).        *)
ExpandsEachOnce ==
    \A n \in DOMAIN expanded :
        /\ \A i, j \in DOMAIN expanded[n] : expanded[n][i] = expanded[n][j] => i = j
        /\ Range(expanded[n]) \subseteq Placements(Family(n))
        /\ n \notin running => Range(expanded[n]) = Placements(Family(n))

(* The metadata the macro writes and the functions it writes agree: no     *)
(* library is refused because a stencil is not one of its family.          *)
MetadataAgrees == error # "mismatch"

(* Sharing lists of relocations gives no stencil another one's: in         *)
(* whatever order symbols and their relocations were met, and whatever was *)
(* left out between them, each has the code it came with and the list of   *)
(* its own places, sorted by their offsets (as StencilFamily's comment     *)
(* promises).                                                              *)
ListsIntact ==
    phase = "library" =>
        \A sym \in DOMAIN compiled :
            LET b == builders[sym.name]
                entry == b.stencils[io_to_index(Family(sym.name), sym.placement, sym.wide)]
                list == ListAt(b, entry.relocation_index)
                uses == compiled[sym]
            IN  /\ CodeOf(entry) = Code(sym, uses)
                /\ Len(list) = Len(uses)
                /\ \A o \in DOMAIN list :
                      /\ list[o].offset = o
                      /\ uses[o].kind # "Call" => list[o].kind = uses[o].kind
                                                  /\ list[o].id = uses[o].id

(* A call of a stencil reaches the function it was written for, although   *)
(* numbers are given across families and to symbols left out later.        *)
CallsArrive ==
    phase = "library" =>
        \A sym \in DOMAIN compiled :
            LET b == builders[sym.name]
                entry == b.stencils[io_to_index(Family(sym.name), sym.placement, sym.wide)]
            IN  \A r \in Range(ListAt(b, entry.relocation_index)) :
                    LET use == compiled[sym][r.offset]
                    IN  use.kind = "Call" =>
                            /\ r.kind = "Runtime" /\ r.id < Len(tables.rt_symbols)
                            /\ tables.rt_symbols[r.id + 1] = use.id

(* The stencil selected for an emission does what it is for: its results   *)
(* depend on the operands of the emission and on its whole hole values,    *)
(* arrive where the emission wants them, and no other register or stack    *)
(* slot changes.  Left aside are holes whose folded addend carries them    *)
(* over the end of a place that would take the value itself.               *)
StencilComputes ==
    phase = "library" =>
        \A n \in DOMAIN tables.families :
            \A ls \in Operands(Family(n)), hs \in HoleValues(Family(n)) :
                LET place(h) == lib.narrow[n][Bits(ls)][h]
                    carries(h) ==
                        /\ supports_value(place(h), hs[h])
                        /\ ~ supports_value(place(h), (hs[h] + place(h).addend) % Bit[WordBits])
                IN  Found(n, ls, hs) /\ (\A h \in DOMAIN hs : ~ carries(h)) =>
                        Ran(n, ls, hs) = Meant(n, ls, hs)

(* A stencil that was extracted and takes the operands and hole values is  *)
(* found.  Where no narrow one was extracted for the operands, select      *)
(* reads the places of another placement: the wide one is still found,     *)
(* unless a narrow one of the family takes the hole values that the        *)
(* missing one would not.                                                  *)
SelectFinds ==
    phase = "library" =>
        \A n \in DOMAIN tables.families :
            \A ls \in Operands(Family(n)), hs \in HoleValues(Family(n)) :
                LET needs(c) == \E h \in DOMAIN hs : ~ supports_value(lib.narrow[n][c][h], hs[h])
                    hidden == /\ Symbol(n, Bits(ls), FALSE) \notin DOMAIN compiled
                              /\ \E s \in DOMAIN compiled :
                                    s.name = n /\ ~ s.wide /\ ~ needs(s.placement)
                IN  Symbol(n, Bits(ls), needs(Bits(ls))) \in DOMAIN compiled /\ ~ hidden
                        => Found(n, ls, hs)

(* When nothing of a family was left out, an entry without code is one     *)
(* whose outputs repeat a register, and those have none (test_has_code of  *)
(* the calculator example).                                                *)
EmptyForRepeats ==
    phase = "library" =>
        \A n \in DOMAIN tables.families :
            LET fam == Family(n)
                halves == IF fam.holes = 0 THEN 1 ELSE 2
                complete == Cardinality({s \in DOMAIN compiled : s.name = n})
                              = halves * Len(expanded[n])
                has_var_dups(io) ==
                    \E i, j \in (fam.ins + 1)..Len(io) : i # j /\ io[i] = io[j] /\ io[i] # 0
            IN  complete =>
                  \A i \in DOMAIN tables.families[n].stencils :
                      tables.families[n].stencils[i].code_len = 0
                        <=> has_var_dups(index_to_io_lossy(fam, i % stencils_len(fam)))

(* The stencil that finalize_into takes for its long jumps, selected with  *)
(* the hole usize::MAX, reads the address from memory, where finalize_into *)
(* puts it, unless the compiler left a place for the narrow one that can   *)
(* hold that value: one that is sign-extended or takes a whole word.       *)
LongJumpIsWide ==
    phase = "library" /\ "__long_jump" \in DOMAIN tables.families =>
        \/ LET place == lib.narrow["__long_jump"][<<>>][1]
           IN  ~ place.relative /\ (place.encoding = "X86Signed" \/ place.size = WordBits)
        \/ ~ Found("__long_jump", <<>>, <<LongJumpHole>>)
        \/ LET entry == Select("__long_jump", <<>>, <<LongJumpHole>>)
           IN  /\ CodeOf(entry)[1][1].wide
               /\ Wide("__long_jump", <<>>, <<LongJumpHole>>)

=============================================================================
