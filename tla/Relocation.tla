----------------------------- MODULE Relocation -----------------------------
(***************************************************************************)
(* The arithmetic of relocated places (crates/patchouly-core/              *)
(* relocation.rs): which values a place can hold, what is stored in it,    *)
(* and what an instruction then finds there.  A place is a record with     *)
(*   encoding   "Generic" or "X86Signed"                                   *)
(*   relative   whether it holds a distance from its own address           *)
(*   size       its width in bits                                          *)
(*   addend     what the compiler folded into it                           *)
(* A usize is a number in Words; an isize is the same bits.                *)
(***************************************************************************)
EXTENDS Integers, SequencesExt

CONSTANT WordBits   \* the width of a usize: 64 in the program

ASSUME WordAssumption == WordBits \in Nat \ {0}

(* 1 << n, for the bits of a word and one more.                            *)
Bit == [n \in 0..WordBits |-> FoldLeft(LAMBDA b, i : b + b, 1, [i \in 1..n |-> i])]

Words == 0..(Bit[WordBits] - 1)

(* usize::MAX *)
MaxWord == Bit[WordBits] - 1

PlaceShape == [encoding : {"Generic", "X86Signed"}, relative : BOOLEAN,
               size : 1..WordBits, addend : Int]

(* The word whose low bits these are, the highest of them its sign: what   *)
(* shifting an isize up and arithmetically down again leaves.              *)
SignExtend(value, bits) ==
    LET low == value % Bit[bits]
    IN  IF low < Bit[bits - 1] THEN low ELSE low + Bit[WordBits] - Bit[bits]

-----------------------------------------------------------------------------

fits_unsigned(value, bits) ==
    IF bits = 0 THEN value = 0 ELSE bits >= WordBits \/ value < Bit[bits]

(* Operators named Faulty... are what a bug would make of the definition   *)
(* that follows them; the properties are run against them, to see that     *)
(* they notice.                                                            *)
FaultyFitsSigned(value, bits) == fits_unsigned(value, bits)

fits_signed(value, bits) ==
    IF bits = 0 THEN value = 0 ELSE bits >= WordBits \/ SignExtend(value, bits) = value

(* Relocation::supports_value: the addend is not considered.               *)
supports_value(place, value) ==
    /\ ~ place.relative
    /\ \/ place.encoding = "Generic"   /\ fits_unsigned(value, place.size)
       \/ place.encoding = "X86Signed" /\ fits_signed(value, place.size)

(* Relocation::apply_raw: the bits it writes.                              *)
apply_raw(place, value) == ((value + place.addend) % Bit[WordBits]) % Bit[place.size]

(* What the instruction makes of an absolute place: it widens the bits as  *)
(* the encoding says.                                                      *)
Widened(place, bits) ==
    IF place.encoding = "X86Signed" THEN SignExtend(bits, place.size) ELSE bits

=============================================================================
