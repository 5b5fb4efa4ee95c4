--------------------------- MODULE AllocatorSpec ---------------------------
(***************************************************************************)
(* What the slot allocator of a function under construction promises to    *)
(* the managed builder (src/regs.rs as src/managed.rs uses it):            *)
(* a live variable slot has one location of its own, registers are handed  *)
(* out before stack slots, a vacant stack slot is reused before the frame  *)
(* grows, and the frame never shrinks.  WHICH vacant slot, register or     *)
(* stack slot is taken is left open; module Allocator, which follows the   *)
(* three slabs of the code, resolves that choice.                          *)
(***************************************************************************)
EXTENDS Integers, FiniteSets

CONSTANTS
    Regs,    \* registers the allocator owns: MAX_REGS - 1
    U16Max   \* u16::MAX; small in the model-checked instances

ASSUME RegsAssumption == Regs \in Nat
ASSUME U16MaxAssumption == U16Max \in Nat \ {0}

VARIABLES
    loc,        \* live slot -> the location it was given
    stackSize,  \* Allocator.stack_size: stack slots the frame must hold
    peak        \* history: most slots that were ever live at once

allocVars == <<loc, stackSize, peak>>

-----------------------------------------------------------------------------

Register(i) == [kind |-> "Register", index |-> i]
Stack(i)    == [kind |-> "Stack", index |-> i]

Slot == 0..(U16Max - 1)

Registers    == {Register(i) : i \in 0..(Regs - 1)}
StackBelow(n) == {Stack(i) : i \in 0..(n - 1)}
Location == Registers \cup StackBelow(U16Max)

InUse == {loc[s] : s \in DOMAIN loc}

FreeRegisters == Registers \ InUse
VacantStack   == StackBelow(stackSize) \ InUse

(* Operators named Faulty... are what a bug would make of the definition   *)
(* that follows them; the properties are run against them, to see that     *)
(* they notice.                                                            *)
FaultyStackOnly == {Stack(stackSize)}

FaultyNoReuse ==
    IF FreeRegisters # {} THEN FreeRegisters ELSE {Stack(stackSize)}

(* Registers first, then a hole in the frame, then one more stack slot.    *)
Candidates ==
    IF FreeRegisters # {} THEN FreeRegisters
    ELSE IF VacantStack # {} THEN VacantStack
    ELSE {Stack(stackSize)}

Larger(m, n) == IF m >= n THEN m ELSE n

-----------------------------------------------------------------------------

AllocatorInit ==
    /\ loc = [s \in {} |-> Register(0)]
    /\ stackSize = 0
    /\ peak = 0

FaultyFrameFixed(s, l) ==
    /\ s \in Slot \ DOMAIN loc
    /\ l \in Candidates
    /\ loc' = [t \in DOMAIN loc \cup {s} |-> IF t = s THEN l ELSE loc[t]]
    /\ peak' = Larger(peak, Cardinality(DOMAIN loc) + 1)
    /\ UNCHANGED stackSize

FaultySpill(s, l) ==
    /\ Cardinality(DOMAIN loc) < U16Max
    /\ s \in Slot \ DOMAIN loc
    /\ l \in Candidates
    /\ LET spilled == {t \in DOMAIN loc : loc[t] = Register(0)}
       IN  loc' = [t \in DOMAIN loc \cup {s} |->
                     IF spilled = {} THEN (IF t = s THEN l ELSE loc[t])
                     ELSE IF t = s THEN Register(0)
                     ELSE IF t \in spilled THEN l ELSE loc[t]]
    /\ stackSize' = IF l = Stack(stackSize) THEN stackSize + 1 ELSE stackSize
    /\ peak' = Larger(peak, Cardinality(DOMAIN loc) + 1)

AllocateAt(s, l) ==
    /\ Cardinality(DOMAIN loc) < U16Max
    /\ s \in Slot \ DOMAIN loc
    /\ l \in Candidates
    /\ loc' = [t \in DOMAIN loc \cup {s} |-> IF t = s THEN l ELSE loc[t]]
    /\ stackSize' = IF l = Stack(stackSize) THEN stackSize + 1 ELSE stackSize
    /\ peak' = Larger(peak, Cardinality(DOMAIN loc) + 1)

DropAll(S) ==
    /\ loc' = [t \in DOMAIN loc \ S |-> loc[t]]
    /\ UNCHANGED <<stackSize, peak>>

Allocate == \E s \in Slot, l \in Candidates : AllocateAt(s, l)

Drop == \E S \in SUBSET DOMAIN loc : DropAll(S)

Init == AllocatorInit
Next == Allocate \/ Drop
Spec == Init /\ [][Next]_allocVars

-----------------------------------------------------------------------------

AllocatorTypeOK ==
    /\ DOMAIN loc \subseteq Slot
    /\ loc \in [DOMAIN loc -> Location]
    /\ stackSize \in 0..U16Max
    /\ peak \in 0..U16Max

(* Live slots have locations of their own.  Here Candidates says so; that  *)
(* the slabs keep to it is SlabsMirror of module Allocator, and this part  *)
(* of the contract is what proofs cite.                                    *)
DistinctLocations ==
    \A s, t \in DOMAIN loc : loc[s] = loc[t] => s = t

(* A live stack location lies inside the frame the caller of the program   *)
(* is told to provide (Program.stack_slots).                               *)
StackInFrame ==
    \A s \in DOMAIN loc : loc[s] \in Registers \cup StackBelow(stackSize)

(* The frame is exactly the register pressure that could not be kept in    *)
(* registers: no order of allocations and drops fragments it, and none     *)
(* makes it too small.                                                     *)
FrameIsPeak ==
    Regs + stackSize = Larger(Regs, peak)

=============================================================================
