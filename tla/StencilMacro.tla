---------------------------- MODULE StencilMacro ----------------------------
(***************************************************************************)
(* What the macros of crates/patchouly-macros make of a stencil family:    *)
(* its metadata, the ways to place its values, and the body of the         *)
(* function it writes for each of them.                                    *)
(*                                                                         *)
(* A family is a record, the signature of the user's function:             *)
(*   ins, outs, holes   how many arguments, results and holes it has       *)
(*   targets            how many branches it decides between               *)
(*   kind   "next"      goes on to the next stencil                        *)
(*          "targets"   goes on to one of its targets, without results     *)
(*          "returns"   returns its results                                *)
(*          "trampoline" jumps to the address that is its result           *)
(*   regs               MAX_REGS: the registers, and one for the stack     *)
(*                                                                         *)
(* A placement is a sequence of the inputs' numbers and then the outputs': *)
(* 0 for the stack, i + 1 for register i, which is also the bits of a      *)
(* Location.                                                               *)
(***************************************************************************)
EXTENDS Relocation

FamilyOK(fam) ==
    /\ fam.ins \in Nat /\ fam.outs \in Nat /\ fam.holes \in Nat /\ fam.targets \in Nat
    /\ fam.kind \in {"next", "targets", "returns", "trampoline"}
    /\ fam.regs \in Nat \ {0}

(* A map to which another is added, or one entry.                          *)
Over(f, g) == [x \in DOMAIN f \cup DOMAIN g |-> IF x \in DOMAIN f THEN f[x] ELSE g[x]]

Put(f, x, v) == Over([y \in {x} |-> v], f)

(* StencilFamily::expand: results that are placed.                         *)
PlacedOuts(fam) == IF fam.kind \in {"returns", "trampoline"} THEN 0 ELSE fam.outs

Values(fam) == fam.ins + PlacedOuts(fam)

(* FnSignature::new names each hole, and each target, by how many of them  *)
(* came before it.                                                         *)
hole_names(fam) == [h \in 1..fam.holes |-> h - 1]
target_names(fam) == [t \in 1..fam.targets |-> t - 1]

(* The placements of a family whose outputs are in different registers.    *)
Placements(fam) ==
    {c \in [1..Values(fam) -> 0..(fam.regs - 1)] :
        \A i, j \in (fam.ins + 1)..Values(fam) : c[i] = c[j] => i = j \/ c[i] = 0}

(* generate_meta, as Metadata::unpack reads it.                            *)
Metadata(fam) ==
    [inputs   |-> fam.ins,
     outputs  |-> IF fam.kind \in {"returns", "trampoline"} THEN 0 ELSE fam.outs,
     max_regs |-> fam.regs,
     holes    |-> Len(hole_names(fam)),
     jumps    |-> CASE fam.kind = "targets" -> Len(target_names(fam))
                    [] fam.kind \in {"returns", "trampoline"} -> 0
                    [] OTHER -> 1]

-----------------------------------------------------------------------------

FaultySteps(fam, c, i) == (c[i] + 1)..(fam.regs - 1)

(* RegPermutation::next: what the i-th number may be raised to; registers  *)
(* of outputs before it are taken.                                         *)
Steps(fam, c, i) ==
    {v \in (c[i] + 1)..(fam.regs - 1) :
        i <= fam.ins \/ \A j \in (fam.ins + 1)..(i - 1) : c[j] # v}

(* The last number that can be raised is, by as little as possible, and    *)
(* those behind it return to 0.                                            *)
Raised(fam, c, i) ==
    [j \in DOMAIN c |->
        IF j < i THEN c[j]
        ELSE IF j = i THEN Min(Steps(fam, c, i)) ELSE 0]

LastRaise(fam, c, i) ==
    /\ Steps(fam, c, i) # {}
    /\ \A j \in (i + 1)..Len(c) : Steps(fam, c, j) = {}

-----------------------------------------------------------------------------

(* A function the macro writes: the placement, and whether its holes are   *)
(* read from memory.                                                       *)
Symbol(name, placement, wide) ==
    [name |-> name, placement |-> placement, wide |-> wide]

(* StencilFamily::expand, for one placement.                               *)
SymbolsOf(name, fam, placement) ==
    IF fam.holes = 0
    THEN <<Symbol(name, placement, FALSE)>>
    ELSE <<Symbol(name, placement, FALSE), Symbol(name, placement, TRUE)>>

(* StencilSignature::new numbers the values on the stack from 0.           *)
StackId(placement, i) == Cardinality({j \in 1..(i - 1) : placement[j] = 0})

(* reg_names: the parameter of register r is named for the last input and  *)
(* the last output in it (Regs::from_args), or for itself.                 *)
RegName(fam, placement, r) ==
    LET last(from, to) == LET used == {i \in from..to : placement[i] = r + 1}
                          IN  IF used = {} THEN 0 ELSE Max(used)
        in  == last(1, fam.ins)
        out == last(fam.ins + 1, Len(placement))
    IN  IF in = 0 /\ out = 0 THEN <<"pass", r + 1>> ELSE <<"in_out", in, out>>

(* The variable that holds the i-th value (io_locations).                  *)
ValueName(fam, placement, i) ==
    IF placement[i] = 0
    THEN <<"stack", StackId(placement, i)>>
    ELSE RegName(fam, placement, placement[i] - 1)

(* The places of a function that are left to be patched, as its body uses  *)
(* them: generate_holes declares the holes and the stack offsets,          *)
(* generate_next what it goes on to; calls are those of the user's         *)
(* function that the compiler did not inline.  The next stencil,           *)
(* copy_and_patch_next, is the target 0 of a relocation.                   *)
Use(kind, id) == [kind |-> kind, id |-> id]

StackUses(placement, from, to) ==
    FoldLeft(LAMBDA uses, i : IF placement[i] = 0
                              THEN Append(uses, Use("Stack", StackId(placement, i)))
                              ELSE uses,
             <<>>, [k \in 1..(to - from + 1) |-> from + k - 1])

FaultyNextUses(fam) ==
    CASE fam.kind = "targets" ->
           [t \in DOMAIN target_names(fam) |-> Use("Target", target_names(fam)[t])]
      [] fam.kind = "trampoline" -> <<>>
      [] OTHER -> <<Use("Target", 0)>>

NextUses(fam) ==
    CASE fam.kind = "targets" ->
           [t \in DOMAIN target_names(fam) |-> Use("Target", target_names(fam)[t])]
      [] fam.kind = "returns" -> <<>>
      [] fam.kind = "trampoline" -> <<>>
      [] fam.kind = "next" -> <<Use("Target", 0)>>

Uses(fam, placement, calls) ==
    [h \in DOMAIN hole_names(fam) |-> Use("Hole", hole_names(fam)[h])]
      \o StackUses(placement, 1, fam.ins)
      \o [c \in DOMAIN calls |-> Use("Call", calls[c])]
      \o StackUses(placement, fam.ins + 1, Len(placement))
      \o NextUses(fam)

-----------------------------------------------------------------------------

(* The user's function, of which nothing is known but that its results     *)
(* depend on its arguments and holes.                                      *)
Result(j, args, holes) == <<"result", j, args, holes>>

(* The body of the function for a placement, run on registers and a stack. *)
(* field[u] is what the instruction with the use u finds at its place; the *)
(* variables of the body are a function from their names to their values.  *)
Body(fam, placement, regs, stack, field) ==
    LET placed(from, to) == {i \in from..to : placement[i] = 0}
        offset(i)  == field[Use("Stack", StackId(placement, i))]
        name(i)    == ValueName(fam, placement, i)
        holes      == [h \in DOMAIN hole_names(fam) |-> field[Use("Hole", hole_names(fam)[h])]]
        registers  == DOMAIN regs
        regName(r) == RegName(fam, placement, r)
        (* the parameters, and what hole_inits loads from the stack        *)
        entry == Over([n \in {regName(r) : r \in registers} |->
                         regs[CHOOSE r \in registers : regName(r) = n]],
                      [n \in {name(i) : i \in placed(1, fam.ins)} |->
                         stack[offset(CHOOSE i \in placed(1, fam.ins) : name(i) = n)]])
        args  == [i \in 1..fam.ins |-> entry[name(i)]]
        outs  == (fam.ins + 1)..Len(placement)
        (* generate_call: the results go to the variables of the outputs   *)
        bound == Over([n \in {name(i) : i \in outs} |->
                         Result((CHOOSE i \in outs : name(i) = n) - fam.ins, args, holes)],
                      entry)
        stored(s) == {i \in outs : placement[i] = 0 /\ offset(i) = s}
    IN  [regs  |-> [r \in registers |-> bound[regName(r)]],
         stack |-> [s \in DOMAIN stack |->
                      IF stored(s) = {} THEN stack[s] ELSE bound[name(Max(stored(s)))]],
         exit  |-> CASE fam.kind \in {"next", "targets"} ->
                          [t \in DOMAIN NextUses(fam) |-> field[NextUses(fam)[t]]]
                     [] fam.kind = "returns" ->
                          [j \in 1..fam.outs |-> Result(j, args, holes)]
                     [] fam.kind = "trampoline" -> <<Result(1, args, holes)>>]

=============================================================================
