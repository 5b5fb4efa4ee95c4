------------------------------ MODULE Allocator ------------------------------
(***************************************************************************)
(* The slot allocator of src/regs.rs on its three slabs: `slots` maps the  *)
(* slot number inside a Value to its Location, `registers` and             *)
(* `stack_slots` hand out the register and stack numbers.  The client is   *)
(* the managed builder: it drops each Value it was given at most once      *)
(* (FunctionBuilder!OwnedExactlyOnce).                                     *)
(***************************************************************************)
EXTENDS Slab

CONSTANTS Regs, U16Max

ASSUME RegsAssumption == Regs \in Nat
ASSUME U16MaxAssumption == U16Max \in Nat \ {0}

VARIABLES
    slots, registers, stackSlots,  \* the slabs of struct Allocator
    stackSize,                     \* Allocator.stack_size
    values,   \* history: Value.slot of the values handed out, not yet dropped
    peak,     \* history: most values that were ever live at once
    dropped   \* history: some value was dropped

vars == <<slots, registers, stackSlots, stackSize, values, peak, dropped>>

Abstract == INSTANCE AllocatorSpec WITH loc <- slots.val

Register(i) == Abstract!Register(i)
Stack(i)    == Abstract!Stack(i)

AsU16(n) == n % (U16Max + 1)

-----------------------------------------------------------------------------

(* Allocator::new inserts every register and removes them last to first,   *)
(* which leaves the lowest register at the head of the free list.          *)
RegisterPool ==
    [val |-> [k \in {} |-> 0], free |-> [i \in 1..Regs |-> i - 1], size |-> Regs]

Init ==
    /\ registers = RegisterPool
    /\ slots = EmptySlab
    /\ stackSlots = EmptySlab
    /\ stackSize = 0
    /\ values = {}
    /\ peak = 0
    /\ dropped = FALSE

(* Operators named Faulty... are what a bug would make of the definition   *)
(* that follows them; the properties are run against them, to see that     *)
(* they notice.                                                            *)
FaultyRoomForOneMore == SlabLen(slots) <= U16Max

HasRoom == SlabLen(slots) < U16Max

FaultyRegisterShort == SlabLen(registers) + 1 < Regs

RegisterFree == SlabLen(registers) < Regs

(* The tail of allocate: enter the location and hand out its Value.        *)
Give(l) ==
    /\ slots' = Insert(slots, l)
    /\ values' = values \cup {AsU16(NextKey(slots))}
    /\ peak' = Abstract!Larger(peak, SlabLen(slots) + 1)
    /\ UNCHANGED dropped

AllocateRegister ==
    /\ HasRoom
    /\ RegisterFree
    /\ registers' = Insert(registers, 0)
    /\ Give(Register(AsU16(NextKey(registers))))
    /\ UNCHANGED <<stackSlots, stackSize>>

FaultyFrameShrinks ==
    /\ HasRoom
    /\ ~ RegisterFree
    /\ stackSlots' = Insert(stackSlots, 0)
    /\ stackSize' = AsU16(NextKey(stackSlots) + 1)
    /\ Give(Stack(NextKey(stackSlots)))
    /\ UNCHANGED registers

(* A stack number that does not fit u16 makes allocate return None after   *)
(* the stack slab has already been changed.                                *)
AllocateStack ==
    /\ HasRoom
    /\ ~ RegisterFree
    /\ stackSlots' = Insert(stackSlots, 0)
    /\ LET slot == NextKey(stackSlots)
       IN  IF slot > U16Max
           THEN UNCHANGED <<slots, stackSize, values, peak, dropped>>
           ELSE /\ stackSize' = Abstract!Larger(stackSize, AsU16(slot + 1))
                /\ Give(Stack(slot))
    /\ UNCHANGED registers

FaultyDropKeepsNumber(v) ==
    /\ slots' = RemoveKey(slots, v)
    /\ values' = values \ {v}
    /\ dropped' = TRUE
    /\ UNCHANGED <<registers, stackSlots, stackSize, peak>>

Drop(v) ==
    /\ slots' = RemoveKey(slots, v)
    /\ LET l == slots.val[v]
       IN  IF l.kind = "Register"
           THEN /\ registers' = RemoveKey(registers, l.index)
                /\ UNCHANGED stackSlots
           ELSE /\ stackSlots' = RemoveKey(stackSlots, l.index)
                /\ UNCHANGED registers
    /\ values' = values \ {v}
    /\ dropped' = TRUE
    /\ UNCHANGED <<stackSize, peak>>

Next ==
    \/ AllocateRegister
    \/ AllocateStack
    \/ \E v \in values : Drop(v)

Spec == Init /\ [][Next]_vars

-----------------------------------------------------------------------------

TypeOK ==
    /\ WellFormed(slots) /\ WellFormed(registers) /\ WellFormed(stackSlots)
    /\ slots.val \in [Occupied(slots) -> Abstract!Location]
    /\ stackSize \in 0..U16Max
    /\ values \subseteq 0..U16Max
    /\ peak \in 0..U16Max
    /\ dropped \in BOOLEAN

Numbers(kind) ==
    {slots.val[s].index : s \in {t \in Occupied(slots) : slots.val[t].kind = kind}}

(* Neither Slab::remove of Allocator::drop, nor the indexing of            *)
(* Allocator::location, can panic on a Value that is still live: a Value   *)
(* names an occupied slot, and the two number slabs hold exactly the       *)
(* registers and stack slots that live values use, each for one value.     *)
SlabsMirror ==
    /\ values = Occupied(slots)
    /\ Numbers("Register") = Occupied(registers)
    /\ Numbers("Stack") = Occupied(stackSlots)
    /\ Abstract!DistinctLocations

(* Until something is dropped, the i-th value is slot i and lives in       *)
(* register i, and past the registers in consecutive stack slots: the      *)
(* parameters of the entry block are where the calling convention of       *)
(* EntrypointSignature puts the arguments (test_greedy in src/regs.rs).    *)
InOrderUntilDrop ==
    dropped \/ \A s \in Occupied(slots) :
                  slots.val[s] = IF s < Regs THEN Register(s) ELSE Stack(s - Regs)

(* The slabs implement the promise of AllocatorSpec.                       *)
ImplementsSpec == Abstract!Spec

=============================================================================
