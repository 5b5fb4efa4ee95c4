----------------------- MODULE FunctionBuilderProofs -----------------------
(***************************************************************************)
(* The promises of AllocatorSpec hold for every number of registers and    *)
(* every slot limit.  On them rests what the managed builder guarantees    *)
(* for any number of blocks, scopes and variables: to any client, that     *)
(* every live slot is owned by exactly one variable; to a client that      *)
(* switches to a block at most once, that accepted handles are live; to    *)
(* one that stops at the first error, that code is emitted only where some *)
(* jump leads; and, to one that opens no builder inside another, that the  *)
(* scopes that are open are those that enclose the block being built, and  *)
(* every path into it passes through them.                                 *)
(***************************************************************************)
EXTENDS FunctionBuilder, FunctionTheorems, FiniteSetTheorems, SequenceTheorems, TLAPS

(* Every location the allocator can have handed out so far.                *)
Frame(n) == Registers \cup StackBelow(n)

(* The inductive invariant of the allocator.  FrameIsPeak needs to know    *)
(* that no more slots are live than were ever live, and the type of        *)
(* stackSize needs FrameIsPeak.                                            *)
AllocatorInv ==
    /\ AllocatorTypeOK
    /\ DistinctLocations
    /\ StackInFrame
    /\ FrameIsPeak
    /\ Cardinality(DOMAIN loc) <= peak

-----------------------------------------------------------------------------

LEMMA SlotsFinite ==
    ASSUME DOMAIN loc \subseteq Slot
    PROVE  /\ IsFiniteSet(DOMAIN loc)
           /\ Cardinality(DOMAIN loc) \in Nat
<1>1. IsFiniteSet(Slot)
  BY FS_Interval, U16MaxAssumption DEF Slot
<1> QED BY <1>1, FS_Subset, FS_CardinalityType

LEMMA LocationsDiffer ==
    /\ \A i, j : Stack(i) = Stack(j) => i = j
    /\ \A i, j : Register(i) = Register(j) => i = j
    /\ \A i, j : Register(i) # Stack(j)
<1>1. \A i, j : Stack(i) = Stack(j) => i = j
  BY SMT DEF Stack
<1>2. \A i, j : Register(i) = Register(j) => i = j
  BY SMT DEF Register
<1>3. \A i, j : Register(i) # Stack(j)
  BY SMT DEF Register, Stack
<1> QED BY <1>1, <1>2, <1>3

LEMMA StackMonotone ==
    ASSUME NEW m \in Nat, NEW n \in Nat, m <= n
    PROVE  StackBelow(m) \subseteq StackBelow(n)
<1>1. 0..(m - 1) \subseteq 0..(n - 1)
  OBVIOUS
<1> QED BY <1>1 DEF StackBelow

LEMMA OneLess ==
    ASSUME NEW F, IsFiniteSet(F), NEW x \in F
    PROVE  /\ IsFiniteSet(F \ {x})
           /\ Cardinality(F \ {x}) = Cardinality(F) - 1
<1> QED BY FS_RemoveElement

LEMMA FrameFits ==
    ASSUME NEW p \in Nat, NEW n \in Nat, p <= U16Max, Regs + n = Larger(Regs, p)
    PROVE  n <= U16Max
<1> QED BY RegsAssumption, U16MaxAssumption DEF Larger

(* Numbering the locations: registers first, the stack slots after them.   *)
LEMMA FrameCardinality ==
    ASSUME NEW n \in Nat
    PROVE  IsFiniteSet(Frame(n)) /\ Cardinality(Frame(n)) = Regs + n
<1> DEFINE S == 0..(Regs + n - 1)
           f == [i \in S |-> IF i < Regs THEN Register(i) ELSE Stack(i - Regs)]
<1>1. f \in [S -> Frame(n)]
  BY RegsAssumption, SMT DEF Frame, Registers, StackBelow
<1>2. \A i, j \in S : f[i] = f[j] => i = j
  BY RegsAssumption, LocationsDiffer
<1>3. \A l \in Frame(n) : \E i \in S : f[i] = l
  <2> SUFFICES ASSUME NEW l \in Frame(n) PROVE \E i \in S : f[i] = l
    OBVIOUS
  <2>1. CASE l \in Registers
    <3>1. PICK i \in 0..(Regs - 1) : l = Register(i)
      BY <2>1 DEF Registers
    <3>2. i \in S /\ f[i] = l
      BY <3>1, RegsAssumption
    <3> QED BY <3>2
  <2>2. CASE l \in StackBelow(n)
    <3>1. PICK i \in 0..(n - 1) : l = Stack(i)
      BY <2>2 DEF StackBelow
    <3>2. Regs + i \in S /\ f[Regs + i] = l
      BY <3>1, RegsAssumption
    <3> QED BY <3>2
  <2> QED BY <2>1, <2>2 DEF Frame
<1>4. f \in Bijection(S, Frame(n))
  BY <1>1, <1>2, <1>3 DEF Bijection, Injection, Surjection, IsInjective
<1>5. ExistsBijection(S, Frame(n))
  BY <1>4 DEF ExistsBijection
<1>6. IsFiniteSet(S) /\ Cardinality(S) = Regs + n
  BY FS_Interval, RegsAssumption
<1> QED BY <1>5, <1>6, FS_Bijection

(* As long as locations are distinct and inside the frame, no more slots   *)
(* are live than the frame has locations; and when every one of them is    *)
(* taken, exactly as many.                                                 *)
LEMMA LiveFitsFrame ==
    ASSUME AllocatorTypeOK, DistinctLocations, StackInFrame
    PROVE  /\ Cardinality(DOMAIN loc) <= Regs + stackSize
           /\ Frame(stackSize) \subseteq InUse =>
                  Cardinality(DOMAIN loc) = Regs + stackSize
<1>1. stackSize \in Nat
  BY DEF AllocatorTypeOK
<1>2. IsFiniteSet(Frame(stackSize)) /\ Cardinality(Frame(stackSize)) = Regs + stackSize
  BY <1>1, FrameCardinality
<1>3. loc \in [DOMAIN loc -> Frame(stackSize)]
  BY DEF AllocatorTypeOK, StackInFrame, Frame
<1>4. loc \in Injection(DOMAIN loc, Frame(stackSize))
  BY <1>3 DEF DistinctLocations, Injection, IsInjective
<1>5. /\ Cardinality(DOMAIN loc) <= Cardinality(Frame(stackSize))
      /\ Cardinality(DOMAIN loc) = Cardinality(Frame(stackSize))
            <=> loc \in Surjection(DOMAIN loc, Frame(stackSize))
  BY <1>2, <1>4, FS_Injection
<1>6. ASSUME Frame(stackSize) \subseteq InUse
      PROVE  loc \in Surjection(DOMAIN loc, Frame(stackSize))
  BY <1>3, <1>6 DEF Surjection, InUse
<1> QED BY <1>2, <1>5, <1>6

-----------------------------------------------------------------------------

LEMMA AllocatorInitInv == AllocatorInit => AllocatorInv
<1> SUFFICES ASSUME AllocatorInit PROVE AllocatorInv
  OBVIOUS
<1>1. DOMAIN loc = {}
  BY DEF AllocatorInit
<1>2. Cardinality(DOMAIN loc) = 0
  BY <1>1, FS_EmptySet
<1>3. AllocatorTypeOK
  BY <1>1, U16MaxAssumption DEF AllocatorInit, AllocatorTypeOK
<1>4. DistinctLocations /\ StackInFrame
  BY <1>1 DEF DistinctLocations, StackInFrame
<1>5. FrameIsPeak
  BY RegsAssumption DEF FrameIsPeak, AllocatorInit, Larger
<1> QED BY <1>2, <1>3, <1>4, <1>5 DEF AllocatorInv, AllocatorInit

(* The heart of the matter is the case that grows the frame: it is reached *)
(* only when the frame is full, so the number of live slots is known.      *)
LEMMA AllocateKeepsInv ==
    ASSUME AllocatorInv, NEW s, NEW l, AllocateAt(s, l)
    PROVE  AllocatorInv'
<1> DEFINE live == Cardinality(DOMAIN loc)
<1>0. /\ AllocatorTypeOK /\ DistinctLocations /\ StackInFrame /\ FrameIsPeak
      /\ live <= peak
  BY DEF AllocatorInv
<1>1. /\ s \in Slot /\ s \notin DOMAIN loc /\ l \in Candidates /\ live < U16Max
      /\ loc' = [t \in DOMAIN loc \cup {s} |-> IF t = s THEN l ELSE loc[t]]
      /\ stackSize' = IF l = Stack(stackSize) THEN stackSize + 1 ELSE stackSize
      /\ peak' = Larger(peak, live + 1)
  BY DEF AllocateAt
<1>2. DOMAIN loc' = DOMAIN loc \cup {s}
  BY <1>1
<1>3. live \in Nat /\ Cardinality(DOMAIN loc') = live + 1
  BY <1>0, <1>1, <1>2, SlotsFinite, FS_AddElement DEF AllocatorTypeOK
<1>4. live <= Regs + stackSize
  BY <1>0, LiveFitsFrame
<1>5. /\ stackSize \in Nat /\ peak \in Nat /\ Regs \in Nat /\ U16Max \in Nat
      /\ stackSize <= U16Max /\ peak <= U16Max
  BY <1>0, RegsAssumption, U16MaxAssumption DEF AllocatorTypeOK
<1>6. l \notin InUse /\ l \in Frame(stackSize')
  <2>1. CASE FreeRegisters # {}
    BY <1>1, <2>1 DEF Candidates, FreeRegisters, Frame
  <2>2. CASE FreeRegisters = {} /\ VacantStack # {}
    <3>1. l \in StackBelow(stackSize) /\ l \notin InUse
      BY <1>1, <2>2 DEF Candidates, VacantStack
    <3>2. PICK i \in 0..(stackSize - 1) : l = Stack(i)
      BY <3>1 DEF StackBelow
    <3>3. stackSize' = stackSize
      BY <1>1, <1>5, <3>2, LocationsDiffer
    <3> QED BY <3>1, <3>3 DEF Frame
  <2>3. CASE FreeRegisters = {} /\ VacantStack = {}
    <3>1. l = Stack(stackSize) /\ stackSize' = stackSize + 1
      BY <1>1, <2>3 DEF Candidates
    <3>2. l \notin Frame(stackSize)
      BY <3>1, <1>5, LocationsDiffer DEF Frame, Registers, StackBelow
    <3>3. InUse \subseteq Frame(stackSize)
      BY <1>0 DEF InUse, StackInFrame, Frame
    <3>4. l \in StackBelow(stackSize')
      BY <3>1, <1>5 DEF StackBelow
    <3> QED BY <3>2, <3>3, <3>4 DEF Frame
  <2> QED BY <2>1, <2>2, <2>3
<1>7. DistinctLocations'
  BY <1>0, <1>1, <1>2, <1>6 DEF DistinctLocations, InUse
<1>8. stackSize' \in Nat /\ stackSize <= stackSize'
  BY <1>1, <1>5
<1>9. StackInFrame'
  <2>1. StackBelow(stackSize) \subseteq StackBelow(stackSize')
    BY <1>5, <1>8, StackMonotone
  <2> QED BY <1>0, <1>1, <1>2, <1>6, <2>1 DEF StackInFrame, Frame
<1>10. FrameIsPeak' /\ peak' \in 0..U16Max /\ live + 1 <= peak'
  <2>1. CASE stackSize' = stackSize + 1 /\ l = Stack(stackSize)
    <3>1. l \notin Registers /\ l \notin StackBelow(stackSize)
      BY <2>1, <1>5, LocationsDiffer DEF Registers, StackBelow
    <3>2. FreeRegisters = {} /\ VacantStack = {}
      BY <1>1, <3>1 DEF Candidates, FreeRegisters, VacantStack
    <3>3. Frame(stackSize) \subseteq InUse
      BY <3>2 DEF FreeRegisters, VacantStack, Frame
    <3>4. live = Regs + stackSize
      BY <1>0, <3>3, LiveFitsFrame
    <3> QED BY <3>4, <2>1, <1>0, <1>1, <1>3, <1>5 DEF FrameIsPeak, Larger
  <2>2. CASE stackSize' = stackSize /\ l # Stack(stackSize)
    <3>1. InUse \cup {l} \subseteq Frame(stackSize)
      BY <1>0, <1>6, <2>2 DEF InUse, StackInFrame, Frame
    <3>2. live < Regs + stackSize
      <4> DEFINE F == Frame(stackSize)
      <4>1. l \in F /\ l \notin InUse
        BY <3>1, <1>6
      <4>2. IsFiniteSet(F) /\ Cardinality(F) = Regs + stackSize
        BY <1>5, FrameCardinality
      <4>3. loc \in Injection(DOMAIN loc, F \ {l})
        BY <1>0, <4>1
           DEF AllocatorTypeOK, StackInFrame, Frame, InUse,
               DistinctLocations, Injection, IsInjective
      <4> HIDE DEF F
      <4>4. IsFiniteSet(F \ {l}) /\ Cardinality(F \ {l}) = Cardinality(F) - 1
        BY <4>1, <4>2, OneLess
      <4>5. live <= Cardinality(F \ {l})
        BY <4>3, <4>4, FS_Injection
      <4> QED BY <4>2, <4>4, <4>5, <1>3, <1>5
    <3> QED BY <3>2, <2>2, <1>0, <1>1, <1>3, <1>5 DEF FrameIsPeak, Larger
  <2> QED BY <2>1, <2>2, <1>1, <1>5
<1>11. AllocatorTypeOK'
  <2>1. stackSize' \in 0..U16Max
    <3>1. Regs + stackSize' = Larger(Regs, peak')
      BY <1>10 DEF FrameIsPeak
    <3>2. peak' \in Nat /\ peak' <= U16Max
      BY <1>10, <1>5
    <3>3. stackSize' <= U16Max
      BY <3>1, <3>2, <1>8, FrameFits
    <3> QED BY <3>3, <1>5, <1>8
  <2>2. Frame(stackSize') \subseteq Location
    BY <2>1, <1>5, StackMonotone DEF Frame, Location
  <2>3. loc' \in [DOMAIN loc' -> Location]
    BY <1>0, <1>1, <1>2, <1>6, <2>2 DEF AllocatorTypeOK
  <2> QED BY <1>0, <1>1, <1>2, <1>10, <2>1, <2>3 DEF AllocatorTypeOK
<1> QED BY <1>3, <1>7, <1>9, <1>10, <1>11 DEF AllocatorInv

LEMMA DropKeepsInv ==
    ASSUME AllocatorInv, NEW S, DropAll(S)
    PROVE  AllocatorInv'
<1>1. /\ loc' = [t \in DOMAIN loc \ S |-> loc[t]]
      /\ stackSize' = stackSize /\ peak' = peak
  BY DEF DropAll
<1>2. DOMAIN loc' \subseteq DOMAIN loc
  BY <1>1
<1>3. Cardinality(DOMAIN loc') <= Cardinality(DOMAIN loc) /\ Cardinality(DOMAIN loc') \in Nat
  BY <1>2, SlotsFinite, FS_Subset, FS_CardinalityType DEF AllocatorInv, AllocatorTypeOK
<1>4. AllocatorTypeOK'
  BY <1>1, <1>2 DEF AllocatorInv, AllocatorTypeOK
<1>5. DistinctLocations' /\ StackInFrame' /\ FrameIsPeak'
  BY <1>1, <1>2 DEF AllocatorInv, DistinctLocations, StackInFrame, FrameIsPeak
<1>6. Cardinality(DOMAIN loc') <= peak'
  BY <1>1, <1>3, SlotsFinite DEF AllocatorInv, AllocatorTypeOK
<1> QED BY <1>4, <1>5, <1>6 DEF AllocatorInv

-----------------------------------------------------------------------------

(* Live variables keep distinct locations inside the frame, and the frame  *)
(* is exactly the peak pressure beyond the registers, along every run of   *)
(* allocations and drops.                                                  *)
THEOREM AllocatorSafe ==
    Spec => [](AllocatorTypeOK /\ DistinctLocations /\ StackInFrame /\ FrameIsPeak)
<1>1. Init => AllocatorInv
  BY AllocatorInitInv DEF Init
<1>2. AllocatorInv /\ [Next]_allocVars => AllocatorInv'
  <2> SUFFICES ASSUME AllocatorInv, [Next]_allocVars PROVE AllocatorInv'
    OBVIOUS
  <2>1. CASE Allocate
    BY <2>1, AllocateKeepsInv DEF Allocate
  <2>2. CASE Drop
    BY <2>2, DropKeepsInv DEF Drop
  <2>3. CASE UNCHANGED allocVars
    BY <2>3 DEF allocVars, AllocatorInv, AllocatorTypeOK, DistinctLocations,
                StackInFrame, FrameIsPeak
  <2> QED BY <2>1, <2>2, <2>3 DEF Next
<1>3. AllocatorInv =>
        AllocatorTypeOK /\ DistinctLocations /\ StackInFrame /\ FrameIsPeak
  BY DEF AllocatorInv
<1> QED BY <1>1, <1>2, <1>3, PTL DEF Spec

-----------------------------------------------------------------------------

(* Handles are numbered in the order of their creation, and the owned ones *)
(* are among them.                                                         *)
HandlesKnown ==
    /\ \A h \in handles : h.serial < born
    /\ \A b \in Block : variables[b] \subseteq handles

(* The inductive invariant of the ownership of slots.                      *)
OwnershipInv ==
    /\ FBTypeOK
    /\ AllocatorInv
    /\ OwnedExactlyOnce
    /\ HandlesKnown

-----------------------------------------------------------------------------

LEMMA SelfIsBlock ==
    ASSUME FBTypeOK, Active
    PROVE  Self \in Block /\ Len(cursor) \in Nat \ {0} /\ Len(cursor) \in DOMAIN cursor
<1>1. cursor \in Seq(Block) /\ cursor # <<>>
  BY DEF FBTypeOK, Active
<1> QED BY <1>1, LenProperties, EmptySeq, ElementOfSeq DEF Self

LEMMA PopType ==
    ASSUME FBTypeOK, Active, Pop
    PROVE  cursor' \in Seq(Block)
<1>1. cursor \in Seq(Block) /\ cursor # <<>>
  BY DEF FBTypeOK, Active
<1>2. /\ Len(cursor) \in Nat
      /\ \A i \in 1..(Len(cursor) - 1) : cursor[i] \in Block
  BY <1>1, LenProperties, ElementOfSeq
<1> QED BY <1>2, SubSeqProperties DEF Pop

LEMMA EntryIsBlock == Entry \in Block
<1> QED BY BoundsAssumption DEF Entry, Block

LEMMA CreatedBlocks ==
    ASSUME FBTypeOK
    PROVE  Created \subseteq Block
<1> QED BY BoundsAssumption DEF FBTypeOK, Created, Block

(* branch_prep leaves every block a parent or none.                        *)
LEMMA DeclareType ==
    ASSUME NEW par \in [Block -> Block \cup {NoBlock}], NEW b \in Block,
           FBTypeOK, NEW j \in Jump
    PROVE  Declare(par, b, j) \in [Block -> Block \cup {NoBlock}]
<1>1. CASE j = JumpNext
  BY <1>1 DEF Declare, JumpNext
<1>2. CASE \E c \in Created : j = JumpChild(c)
  BY <1>2, CreatedBlocks DEF Declare, JumpChild
<1>3. CASE \E c \in Created : j = JumpSame(c)
  BY <1>3, CreatedBlocks, EntryIsBlock DEF Declare, JumpSame
<1>4. CASE \E c, p \in Created : j = JumpParent(c, p)
  BY <1>4, CreatedBlocks DEF Declare, JumpParent
<1> QED BY <1>1, <1>2, <1>3, <1>4 DEF Jump

LEMMA DeclareAllType ==
    ASSUME FBTypeOK, NEW b \in Block, NEW js \in Jumps
    PROVE  DeclareAll(parent, b, js) \in [Block -> Block \cup {NoBlock}]
<1>1. parent \in [Block -> Block \cup {NoBlock}]
  BY DEF FBTypeOK
<1>2. PICK n \in 0..MaxJumps : js \in [1..n -> Jump]
  BY DEF Jumps
<1>3. n \in 0..2
  BY BoundsAssumption
<1>4. js \in Seq(Jump) /\ Len(js) = n
  BY <1>2, <1>3
<1>5. CASE n = 0
  BY <1>1, <1>4, <1>5 DEF DeclareAll
<1>6. CASE n = 1
  <2>1. js[1] \in Jump
    BY <1>2, <1>6
  <2>2. DeclareAll(parent, b, js) = Declare(parent, b, js[1])
    BY <1>4, <1>6 DEF DeclareAll
  <2> QED BY <1>1, <2>1, <2>2, DeclareType
<1>7. CASE n = 2
  <2>1. js[1] \in Jump /\ js[2] \in Jump
    BY <1>2, <1>7
  <2>2. DeclareAll(parent, b, js) = Declare(Declare(parent, b, js[1]), b, js[2])
    BY <1>4, <1>7 DEF DeclareAll
  <2>3. Declare(parent, b, js[1]) \in [Block -> Block \cup {NoBlock}]
    BY <1>1, <2>1, DeclareType
  <2> QED BY <2>1, <2>2, <2>3, DeclareType
<1> QED BY <1>3, <1>5, <1>6, <1>7

-----------------------------------------------------------------------------

(* Ownership is about four variables, and most operations leave them alone.*)
LEMMA OwnershipFrame ==
    ASSUME OwnershipInv,
           UNCHANGED <<allocVars, variables, handles, born>>,
           FBTypeOK'
    PROVE  OwnershipInv'
<1>1. AllocatorInv'
  BY DEF OwnershipInv, AllocatorInv, AllocatorTypeOK, DistinctLocations, StackInFrame,
         FrameIsPeak, allocVars
<1>2. OwnedExactlyOnce' /\ HandlesKnown'
  BY DEF OwnershipInv, OwnedExactlyOnce, HandlesKnown, Owned, allocVars
<1> QED BY <1>1, <1>2 DEF OwnershipInv

(* A new variable takes a slot that no other variable has.                 *)
LEMMA BindOwnership ==
    ASSUME OwnershipInv, Active, NEW h \in Fresh, Bind(h), FBTypeOK'
    PROVE  OwnershipInv'
<1>1. /\ FBTypeOK /\ AllocatorInv /\ OwnedExactlyOnce /\ HandlesKnown
      /\ variables \in [Block -> SUBSET Handle] /\ born \in Nat
      /\ Self \in Block
  BY SelfIsBlock, BoundsAssumption DEF OwnershipInv, FBTypeOK
<1>2. PICK l \in Candidates : AllocateAt(h.slot, l)
  BY DEF Bind
<1>3. AllocatorInv'
  BY <1>1, <1>2, AllocateKeepsInv
<1>4. /\ DOMAIN loc' = DOMAIN loc \cup {h.slot}
      /\ h.slot \notin DOMAIN loc /\ h.scope = Self /\ h.serial = born
  BY <1>2 DEF AllocateAt, Fresh
<1>5. /\ variables' = [variables EXCEPT ![Self] = @ \cup {h}]
      /\ handles' = handles \cup {h} /\ born' = born + 1
  BY DEF Bind
<1>6. Owned' = Owned \cup {h}
  BY <1>1, <1>5 DEF Owned
<1>7. OwnedExactlyOnce'
  <2>1. DOMAIN loc' = {k.slot : k \in Owned'}
    BY <1>1, <1>4, <1>6 DEF OwnedExactlyOnce
  <2>2. \A k \in Owned : k.slot # h.slot
    BY <1>1, <1>4 DEF OwnedExactlyOnce
  <2>3. \A k, m \in Owned' : k.slot = m.slot => k = m
    BY <1>1, <1>6, <2>2 DEF OwnedExactlyOnce
  <2>4. \A b \in Block : \A k \in variables'[b] : k.scope = b
    BY <1>1, <1>4, <1>5 DEF OwnedExactlyOnce
  <2> QED BY <2>1, <2>3, <2>4 DEF OwnedExactlyOnce
<1>8. HandlesKnown'
  <2>1. \A k \in handles' : k.serial < born'
    <3> SUFFICES ASSUME NEW k \in handles' PROVE k.serial < born'
      OBVIOUS
    <3>1. CASE k = h
      BY <3>1, <1>1, <1>4, <1>5
    <3>2. CASE k \in handles
      <4>1. k.serial < born /\ k.serial \in Nat
        BY <3>2, <1>1, BoundsAssumption DEF HandlesKnown, FBTypeOK, Handle
      <4> QED BY <4>1, <1>1, <1>5
    <3> QED BY <3>1, <3>2, <1>5
  <2>2. \A b \in Block : variables'[b] \subseteq handles'
    BY <1>1, <1>5 DEF HandlesKnown
  <2> QED BY <2>1, <2>2 DEF HandlesKnown
<1> QED BY <1>3, <1>7, <1>8 DEF OwnershipInv

(* Leaving scopes drops exactly the slots of their variables.              *)
LEMMA SwitchOwnership ==
    ASSUME OwnershipInv, NEW b, NEW par, SwitchToBlock(b, par),
           UNCHANGED <<handles, born>>, FBTypeOK'
    PROVE  OwnershipInv'
<1>1. /\ FBTypeOK /\ AllocatorInv /\ OwnedExactlyOnce /\ HandlesKnown
      /\ variables \in [Block -> SUBSET Handle]
  BY DEF OwnershipInv, FBTypeOK
<1>2. PICK left \in SUBSET Block :
        /\ variables' = [c \in Block |-> IF c \in left THEN {} ELSE variables[c]]
        /\ DropAll({h.slot : h \in UNION {variables[c] : c \in left}})
  <2>0. Len(scopes) \in Nat /\ scopes \in Seq(Block)
    BY <1>1, LenProperties DEF FBTypeOK
  <2>1. PICK kept \in (IF b = Entry THEN {Len(scopes)} ELSE 1..Len(scopes)) :
          LET left == {scopes[i] : i \in (kept + 1)..Len(scopes)}
          IN  /\ variables' = [c \in Block |-> IF c \in left THEN {} ELSE variables[c]]
              /\ DropAll({h.slot : h \in UNION {variables[c] : c \in left}})
    BY DEF SwitchToBlock
  <2>3. kept \in Nat
    BY <2>0
  <2>2. {scopes[i] : i \in (kept + 1)..Len(scopes)} \subseteq Block
    <3>1. \A i \in (kept + 1)..Len(scopes) : i \in 1..Len(scopes)
      BY <2>0, <2>3
    <3> QED BY <2>0, <3>1, ElementOfSeq
  <2> QED BY <2>1, <2>2
<1>3. AllocatorInv'
  BY <1>1, <1>2, DropKeepsInv
<1> DEFINE gone == {h.slot : h \in UNION {variables[c] : c \in left}}
<1>4. DOMAIN loc' = DOMAIN loc \ gone
  BY <1>2 DEF DropAll
<1>5. \A c \in Block : variables'[c] \subseteq variables[c]
  BY <1>1, <1>2
<1>6. Owned' \subseteq Owned
  BY <1>1, <1>5 DEF Owned
<1>7. \A h \in Owned : h \in Owned' <=> h.slot \notin gone
  <2> SUFFICES ASSUME NEW h \in Owned
               PROVE  h \in Owned' <=> h.slot \notin gone
    OBVIOUS
  <2>1. PICK c \in Block : h \in variables[c]
    BY DEF Owned
  <2>2. \A d \in Block : h \in variables[d] => d = c
    BY <1>1, <2>1 DEF OwnedExactlyOnce
  <2>3. h \in Owned' <=> c \notin left
    BY <1>2, <1>5, <2>1, <2>2 DEF Owned
  <2>4. c \in left => h.slot \in gone
    BY <2>1
  <2>5. ASSUME h.slot \in gone PROVE c \in left
    <3>1. PICK k \in UNION {variables[d] : d \in left} : k.slot = h.slot
      BY <2>5
    <3>2. PICK d \in left : k \in variables[d]
      BY <3>1
    <3>3. k = h
      BY <1>1, <3>1, <3>2 DEF OwnedExactlyOnce, Owned
    <3> QED BY <2>2, <3>2, <3>3
  <2> QED BY <2>3, <2>4, <2>5
<1>8. OwnedExactlyOnce'
  <2>1. DOMAIN loc' = {h.slot : h \in Owned'}
    BY <1>1, <1>4, <1>6, <1>7 DEF OwnedExactlyOnce
  <2>2. \A h, k \in Owned' : h.slot = k.slot => h = k
    BY <1>1, <1>6 DEF OwnedExactlyOnce
  <2>3. \A c \in Block : \A h \in variables'[c] : h.scope = c
    BY <1>1, <1>5 DEF OwnedExactlyOnce
  <2> QED BY <2>1, <2>2, <2>3 DEF OwnedExactlyOnce
<1>9. HandlesKnown'
  BY <1>1, <1>5 DEF HandlesKnown
<1> QED BY <1>3, <1>8, <1>9 DEF OwnershipInv

-----------------------------------------------------------------------------

(* What SwitchToBlock does when it keeps the first so many scopes.         *)
KeepsScopes(b, par, kept) ==
    /\ kept <= Len(scopes)
    /\ b = Entry => kept = Len(scopes)
    /\ b # Entry => kept # 0 /\ scopes[kept] = par[b]
    /\ \A c : InScope(c)' <=> c = b \/ \E i \in 1..kept : scopes[i] = c
    /\ Len(scopes') = kept + 1
    /\ \A i \in 1..kept : scopes'[i] = scopes[i]
    /\ scopes'[kept + 1] = b
    /\ variables' = [c \in Block |->
          IF \E i \in (kept + 1)..Len(scopes) : scopes[i] = c
          THEN {} ELSE variables[c]]
    /\ chain' = [chain EXCEPT ![b] = {scopes[i] : i \in 1..kept} \cup {b}]

LEMMA SwitchScopes ==
    ASSUME FBTypeOK, NEW b \in Block, NEW par, SwitchToBlock(b, par)
    PROVE  /\ scopes' \in Seq(Block)
           /\ variables' \in [Block -> SUBSET Handle]
           /\ chain' \in [Block -> SUBSET Block]
           /\ visited' = visited \cup {b}
           /\ \E kept \in Nat : KeepsScopes(b, par, kept)
<1>1. /\ scopes \in Seq(Block) /\ Len(scopes) \in Nat
      /\ variables \in [Block -> SUBSET Handle]
      /\ chain \in [Block -> SUBSET Block]
  BY LenProperties DEF FBTypeOK
<1>2. PICK kept \in (IF b = Entry THEN {Len(scopes)} ELSE 1..Len(scopes)) :
        /\ LET left == {scopes[i] : i \in (kept + 1)..Len(scopes)}
           IN  variables' = [c \in Block |-> IF c \in left THEN {} ELSE variables[c]]
        /\ scopes' = Append(SubSeq(scopes, 1, kept), b)
        /\ chain' = [chain EXCEPT ![b] = {scopes[i] : i \in 1..kept} \cup {b}]
        /\ Enclosing(b, par, kept)
  BY DEF SwitchToBlock
<1>3. kept \in Nat /\ kept <= Len(scopes)
  BY <1>1
<1>4. \A i \in 1..kept : i \in 1..Len(scopes)
  BY <1>1, <1>3
<1>5. \A i \in 1..kept : scopes[i] \in Block
  BY <1>1, <1>4, ElementOfSeq
<1> DEFINE front == SubSeq(scopes, 1, kept)
<1>6. /\ front \in Seq(Block) /\ Len(front) = kept
      /\ \A i \in 1..kept : front[i] = scopes[i]
  BY <1>3, <1>5, SubSeqProperties
<1>7. scopes' = Append(front, b)
  BY <1>2
<1> HIDE DEF front
<1>8. /\ scopes' \in Seq(Block) /\ Len(scopes') = kept + 1
      /\ \A i \in 1..kept : scopes'[i] = scopes[i]
      /\ scopes'[kept + 1] = b
  BY <1>6, <1>7, AppendProperties
<1>9. \A c : InScope(c)' <=> c = b \/ \E i \in 1..kept : scopes[i] = c
  <2>1. \A c : InScope(c)' <=> \E i \in 1..(kept + 1) : scopes'[i] = c
    BY <1>8 DEF InScope
  <2>2. \A i : i \in 1..(kept + 1) <=> i \in 1..kept \/ i = kept + 1
    BY <1>3
  <2> QED BY <2>1, <2>2, <1>8
<1>10. variables' = [c \in Block |->
          IF \E i \in (kept + 1)..Len(scopes) : scopes[i] = c
          THEN {} ELSE variables[c]]
  BY <1>2
<1>11. variables' \in [Block -> SUBSET Handle]
  BY <1>1, <1>10
<1>12. chain' \in [Block -> SUBSET Block]
  BY <1>1, <1>2, <1>5
<1>13. visited' = visited \cup {b}
  BY DEF SwitchToBlock
<1>14. /\ b = Entry => kept = Len(scopes)
       /\ b # Entry => kept # 0 /\ scopes[kept] = par[b]
  BY <1>1, <1>2 DEF Enclosing
<1>15. KeepsScopes(b, par, kept)
  BY <1>2, <1>3, <1>8, <1>9, <1>10, <1>14 DEF KeepsScopes
<1> QED BY <1>3, <1>8, <1>11, <1>12, <1>13, <1>15

LEMMA SwitchType ==
    ASSUME OwnershipInv, NEW b \in Block, NEW par, SwitchToBlock(b, par)
    PROVE  /\ AllocatorTypeOK'
           /\ scopes' \in Seq(Block)
           /\ variables' \in [Block -> SUBSET Handle]
           /\ chain' \in [Block -> SUBSET Block]
           /\ visited' \subseteq Block
<1>1. \E S : DropAll(S)
  BY DEF SwitchToBlock
<1>2. AllocatorTypeOK'
  BY <1>1, DropKeepsInv DEF OwnershipInv, AllocatorInv
<1> QED BY <1>2, SwitchScopes DEF OwnershipInv, FBTypeOK

LEMMA EmitJumpsType ==
    ASSUME FBTypeOK, Active, NEW js \in Jumps, EmitJumps(js)
    PROVE  /\ tail' \in [Block -> {"none", "falls", "leaves"}]
           /\ targeted' \subseteq Block
           /\ common' \in [Block -> SUBSET Block]
<1>1. Self \in Block
  BY SelfIsBlock
<1>2. PICK n \in 0..MaxJumps : js \in [1..n -> Jump]
  BY DEF Jumps
<1>3. n \in 0..2
  BY BoundsAssumption
<1>4. Len(js) = n
  BY <1>2, <1>3
<1>5. JumpsOf(js) \subseteq Jump
  BY <1>2, <1>4 DEF JumpsOf
<1>6. \A j \in Jump \ {JumpNext} : j.to \in Created
  BY DEF Jump, JumpChild, JumpSame, JumpParent
<1>7. Targets(js) \subseteq Block
  BY <1>5, <1>6, CreatedBlocks DEF Targets
<1>8. tail' \in [Block -> {"none", "falls", "leaves"}]
  BY <1>1 DEF EmitJumps, FBTypeOK
<1>9. targeted' \subseteq Block
  BY <1>7 DEF EmitJumps, FBTypeOK
<1>10. common' \in [Block -> SUBSET Block]
  BY <1>1 DEF EmitJumps, FBTypeOK
<1> QED BY <1>8, <1>9, <1>10

LEMMA EndType ==
    ASSUME FBTypeOK, Active, End
    PROVE  ended' \in [Block -> BOOLEAN]
<1> QED BY SelfIsBlock DEF FBTypeOK, End

LEMMA BindType ==
    ASSUME OwnershipInv, Active, born < MaxVars, NEW h \in Fresh, Bind(h),
           params' \subseteq handles'
    PROVE  FBTypeOK'
<1>1. FBTypeOK /\ AllocatorInv /\ Self \in Block
  BY SelfIsBlock DEF OwnershipInv
<1>2. h \in Handle
  BY <1>1 DEF Fresh, Handle, FBTypeOK
<1>3. AllocatorTypeOK'
  <2>1. \E s, l : AllocateAt(s, l)
    BY DEF Bind
  <2> QED BY <1>1, <2>1, AllocateKeepsInv DEF AllocatorInv
<1>4. variables' \in [Block -> SUBSET Handle]
  BY <1>1, <1>2 DEF Bind, FBTypeOK
<1>5. handles' \subseteq Handle
  BY <1>1, <1>2 DEF Bind, FBTypeOK
<1>6. born' \in 0..MaxVars
  BY <1>1, BoundsAssumption DEF Bind, FBTypeOK
<1> QED BY <1>1, <1>3, <1>4, <1>5, <1>6 DEF Bind, FBTypeOK

LEMMA OwnershipInit == FBInit => OwnershipInv
<1> SUFFICES ASSUME FBInit PROVE OwnershipInv
  OBVIOUS
<1>1. AllocatorInv
  BY AllocatorInitInv DEF FBInit
<1>2. FBTypeOK
  <2>1. AllocatorTypeOK
    BY <1>1 DEF AllocatorInv
  <2>2. 1 \in 1..MaxBlocks /\ 0 \in 0..MaxVars
    BY BoundsAssumption
  <2>3. <<>> \in Seq(Block)
    BY EmptySeq
  <2> QED BY <2>1, <2>2, <2>3 DEF FBInit, FBTypeOK
<1>3. Owned = {}
  BY DEF FBInit, Owned
<1>4. OwnedExactlyOnce
  BY <1>3 DEF FBInit, AllocatorInit, OwnedExactlyOnce
<1>5. HandlesKnown
  BY DEF FBInit, HandlesKnown
<1> QED BY <1>1, <1>2, <1>4, <1>5 DEF OwnershipInv

LEMMA BranchOwnership ==
    ASSUME OwnershipInv, BranchSome
    PROVE  OwnershipInv'
<1>1. PICK js \in Jumps :
        LET par == DeclareAll(parent, Self, js)
        IN  \/ Branch(js, par)
            \/ FailBranch(par)
            \/ \E next \in Created : EndBranch(js, par, next)
            \/ EndBranchNoNext(js, par)
            \/ FailEndBranch(js, par)
  BY DEF BranchSome
<1> DEFINE par == DeclareAll(parent, Self, js)
<1>2. FBTypeOK /\ Active
  BY DEF OwnershipInv, BranchSome
<1>3. par \in [Block -> Block \cup {NoBlock}]
  BY <1>2, SelfIsBlock, DeclareAllType
<1> HIDE DEF par
<1>4. CASE Branch(js, par)
  <2>1. FBTypeOK'
    BY <1>2, <1>3, <1>4, EmitJumpsType
       DEF Branch, FBTypeOK, AllocatorTypeOK, allocVars
  <2> QED BY <1>4, <2>1, OwnershipFrame DEF Branch
<1>5. CASE FailBranch(par)
  <2>1. FBTypeOK'
    BY <1>2, <1>3, <1>5
       DEF FailBranch, FBTypeOK, AllocatorTypeOK, allocVars, historyVars
  <2> QED BY <1>5, <2>1, OwnershipFrame DEF FailBranch, historyVars
<1>6. CASE \E next \in Created : EndBranch(js, par, next)
  <2>1. PICK next \in Created : EndBranch(js, par, next)
    BY <1>6
  <2>2. next \in Block /\ SwitchToBlock(next, par)
    BY <1>2, <2>1, CreatedBlocks DEF EndBranch
  <2>3. cursor' \in Seq(Block)
    <3>1. Len(cursor) \in 1..Len(cursor)
      BY <1>2, SelfIsBlock
    <3> QED BY <1>2, <2>1, <2>2, <3>1, ExceptSeq DEF EndBranch, FBTypeOK
  <2>4. FBTypeOK'
    BY <1>2, <1>3, <2>1, <2>2, <2>3, SwitchType, EmitJumpsType, EndType
       DEF EndBranch, FBTypeOK
  <2> QED BY <2>1, <2>2, <2>4, SwitchOwnership DEF EndBranch
<1>7. CASE EndBranchNoNext(js, par)
  <2>1. FBTypeOK'
    BY <1>2, <1>3, <1>7, EmitJumpsType, EndType
       DEF EndBranchNoNext, FBTypeOK, AllocatorTypeOK, allocVars
  <2> QED BY <1>7, <2>1, OwnershipFrame DEF EndBranchNoNext
<1>8. CASE FailEndBranch(js, par)
  <2>1. FBTypeOK'
    BY <1>2, <1>3, <1>8, EndType
       DEF FailEndBranch, FBTypeOK, AllocatorTypeOK, allocVars, historyVars
  <2> QED BY <1>8, <2>1, OwnershipFrame DEF FailEndBranch, historyVars
<1> QED BY <1>1, <1>4, <1>5, <1>6, <1>7, <1>8 DEF par

LEMMA OwnershipStep ==
    ASSUME OwnershipInv, [FBNext]_vars
    PROVE  OwnershipInv'
<1>0. FBTypeOK
  BY DEF OwnershipInv
<1> USE DEF FBTypeOK, AllocatorTypeOK, allocVars, blockVars, historyVars
<1>1. CASE CreateBlock
  <2>1. FBTypeOK'
    BY <1>0, <1>1, BoundsAssumption DEF CreateBlock
  <2> QED BY <1>1, <2>1, OwnershipFrame DEF CreateBlock
<1>2. CASE \E b \in Created : OpenBlock(b)
  <2>1. PICK b \in Created : OpenBlock(b)
    BY <1>2
  <2>2. b \in Block /\ SwitchToBlock(b, parent)
    BY <1>0, <2>1, CreatedBlocks DEF OpenBlock
  <2>3. cursor' \in Seq(Block)
    BY <1>0, <2>1, <2>2, AppendProperties DEF OpenBlock
  <2>4. FBTypeOK'
    BY <1>0, <2>1, <2>2, <2>3, SwitchType DEF OpenBlock
  <2> QED BY <2>1, <2>2, <2>4, SwitchOwnership DEF OpenBlock
<1>3. CASE CloseBlock
  <2>1. FBTypeOK'
    BY <1>0, <1>3, PopType DEF CloseBlock
  <2> QED BY <1>3, <2>1, OwnershipFrame DEF CloseBlock
<1>4. CASE NewVariable
  <2>1. PICK h \in Fresh : Bind(h)
    BY <1>4 DEF NewVariable
  <2>2. params' \subseteq handles'
    BY <1>0, <1>4, <2>1 DEF NewVariable, Bind
  <2> QED BY <1>4, <2>1, <2>2, BindType, BindOwnership DEF NewVariable
<1>5. CASE NewParam
  <2>1. PICK h \in Fresh : Bind(h) /\ params' = params \cup {h}
    BY <1>5 DEF NewParam
  <2>2. params' \subseteq handles'
    BY <1>0, <2>1 DEF Bind
  <2> QED BY <1>5, <2>1, <2>2, BindType, BindOwnership DEF NewParam
<1>6. CASE PanicOnHandle
  <2>1. FBTypeOK'
    BY <1>0, <1>6 DEF PanicOnHandle
  <2> QED BY <1>6, <2>1, OwnershipFrame DEF PanicOnHandle
<1>7. CASE Emit
  <2>1. FBTypeOK'
    BY <1>0, <1>7, SelfIsBlock DEF Emit
  <2> QED BY <1>7, <2>1, OwnershipFrame DEF Emit
<1>8. CASE BranchSome
  BY <1>8, BranchOwnership
<1>9. CASE Ret
  <2>1. FBTypeOK'
    BY <1>0, <1>9, SelfIsBlock, PopType, EndType DEF Ret
  <2> QED BY <1>9, <2>1, OwnershipFrame DEF Ret
<1>10. CASE FailRet
  <2>1. FBTypeOK'
    BY <1>0, <1>10, PopType, EndType DEF FailRet
  <2> QED BY <1>10, <2>1, OwnershipFrame DEF FailRet
<1>11. CASE Finalize
  <2>1. FBTypeOK'
    BY <1>0, <1>11 DEF Finalize
  <2> QED BY <1>11, <2>1, OwnershipFrame DEF Finalize
<1>12. CASE UNCHANGED vars
  <2>1. FBTypeOK'
    BY <1>0, <1>12 DEF vars
  <2> QED BY <1>12, <2>1, OwnershipFrame DEF vars
<1> QED BY <1>1, <1>2, <1>3, <1>4, <1>5, <1>6, <1>7, <1>8, <1>9, <1>10,
           <1>11, <1>12 DEF FBNext

(* Whatever a client calls in whatever order, errors ignored: every live   *)
(* slot belongs to exactly one variable, so leaving a scope neither drops  *)
(* a slot twice nor leaks one; live variables have distinct locations,     *)
(* those on the stack lie in the frame, and the frame is the peak of the   *)
(* pressure.                                                               *)
THEOREM FunctionBuilderSafe ==
    FBSpec => [](/\ FBTypeOK /\ OwnedExactlyOnce
                 /\ DistinctLocations /\ StackInFrame /\ FrameIsPeak)
<1>1. FBInit => OwnershipInv
  BY OwnershipInit
<1>2. OwnershipInv /\ [FBNext]_vars => OwnershipInv'
  BY OwnershipStep
<1>3. OwnershipInv =>
        /\ FBTypeOK /\ OwnedExactlyOnce
        /\ DistinctLocations /\ StackInFrame /\ FrameIsPeak
  BY DEF OwnershipInv, AllocatorInv
<1> QED BY <1>1, <1>2, <1>3, PTL DEF FBSpec

-----------------------------------------------------------------------------

(* With a client that never switches to a block again, a scope that has    *)
(* been left stays left, so its handles are refused for good.              *)
LifetimeInv ==
    /\ \A i, j \in 1..Len(scopes) : scopes[i] = scopes[j] => i = j
    /\ \A b : InScope(b) => b \in visited
    /\ \A i \in 1..Len(cursor) : cursor[i] \in visited
    /\ \A h \in handles : h.scope \in visited
    /\ AcceptedHandlesLive

LEMMA LifetimeFrame ==
    ASSUME LifetimeInv, UNCHANGED <<variables, scopes, handles, visited>>,
           \A i \in 1..Len(cursor') : cursor'[i] \in visited
    PROVE  LifetimeInv'
<1> QED BY DEF LifetimeInv, AcceptedHandlesLive, Accepted, InScope

LEMMA PopVisited ==
    ASSUME FBTypeOK, Active, Pop, \A i \in 1..Len(cursor) : cursor[i] \in visited
    PROVE  \A i \in 1..Len(cursor') : cursor'[i] \in visited
<1>1. Len(cursor) \in Nat \ {0} /\ \A i \in 1..Len(cursor) : cursor[i] \in Block
  BY SelfIsBlock, ElementOfSeq DEF FBTypeOK
<1>2. \A i \in 1..(Len(cursor) - 1) : i \in 1..Len(cursor)
  BY <1>1
<1>3. \A i \in 1..(Len(cursor) - 1) : cursor[i] \in Block
  BY <1>1, <1>2
<1> DEFINE n == Len(cursor) - 1
<1>4. n \in Nat /\ cursor' = SubSeq(cursor, 1, n)
  BY <1>1 DEF Pop
<1>5. \A i \in 1..n : i \in 1..Len(cursor) /\ cursor[i] \in Block
  BY <1>2, <1>3
<1> HIDE DEF n
<1>6. /\ Len(SubSeq(cursor, 1, n)) = n
      /\ \A i \in 1..n : SubSeq(cursor, 1, n)[i] = cursor[i]
  BY <1>4, <1>5, SubSeqProperties
<1> QED BY <1>4, <1>5, <1>6

LEMMA SelfVisited ==
    ASSUME FBTypeOK, Active, LifetimeInv
    PROVE  Self \in visited
<1> QED BY SelfIsBlock DEF LifetimeInv, Self

LEMMA SwitchLifetime ==
    ASSUME FBTypeOK, LifetimeInv, NEW b \in Block, b \notin visited, NEW par,
           SwitchToBlock(b, par), UNCHANGED handles,
           \A i \in 1..Len(cursor') : cursor'[i] \in visited \cup {b},
           \A h \in handles : h \in Handle
    PROVE  LifetimeInv'
<1>0. PICK kept \in Nat : KeepsScopes(b, par, kept)
  BY SwitchScopes
<1>1. /\ kept <= Len(scopes)
      /\ \A c : InScope(c)' <=> c = b \/ \E i \in 1..kept : scopes[i] = c
      /\ Len(scopes') = kept + 1
      /\ \A i \in 1..kept : scopes'[i] = scopes[i]
      /\ scopes'[kept + 1] = b
      /\ variables' = [c \in Block |->
            IF \E i \in (kept + 1)..Len(scopes) : scopes[i] = c
            THEN {} ELSE variables[c]]
  BY <1>0 DEF KeepsScopes
<1>2. visited' = visited \cup {b} /\ Len(scopes) \in Nat
  BY SwitchScopes, LenProperties DEF FBTypeOK
<1>3. \A i \in 1..kept : i \in 1..Len(scopes) /\ scopes[i] # b
  <2>1. \A i \in 1..kept : i \in 1..Len(scopes)
    BY <1>1, <1>2
  <2> QED BY <2>1 DEF LifetimeInv, InScope
<1>4. \A i, j \in 1..Len(scopes') : scopes'[i] = scopes'[j] => i = j
  <2>1. \A i : i \in 1..(kept + 1) <=> i \in 1..kept \/ i = kept + 1
    OBVIOUS
  <2> QED BY <1>1, <1>3, <2>1 DEF LifetimeInv
<1>5. \A c : InScope(c)' => c \in visited'
  BY <1>1, <1>2, <1>3 DEF LifetimeInv, InScope
<1>6. AcceptedHandlesLive'
  <2> SUFFICES ASSUME NEW h \in handles, InScope(h.scope)'
               PROVE  h \in variables'[h.scope]
    BY DEF AcceptedHandlesLive, Accepted
  <2>1. h.scope \in Block /\ h.scope # b
    BY DEF LifetimeInv, Handle
  <2>2. PICK i \in 1..kept : scopes[i] = h.scope
    BY <1>1, <2>1
  <2>3. i \in 1..Len(scopes) /\ h \in variables[h.scope]
    BY <1>3, <2>2 DEF LifetimeInv, AcceptedHandlesLive, Accepted, InScope
  <2>4. \A j \in (kept + 1)..Len(scopes) : j \in 1..Len(scopes) /\ j # i
    BY <1>1, <1>2, <2>2
  <2>5. \A j \in (kept + 1)..Len(scopes) : scopes[j] # h.scope
    BY <2>2, <2>3, <2>4 DEF LifetimeInv
  <2> QED BY <1>1, <2>1, <2>3, <2>5
<1> QED BY <1>2, <1>4, <1>5, <1>6 DEF LifetimeInv

LEMMA BindLifetime ==
    ASSUME FBTypeOK, Active, LifetimeInv, NEW h \in Fresh, Bind(h)
    PROVE  LifetimeInv'
<1>1. Self \in visited /\ Self \in Block
  BY SelfVisited, SelfIsBlock
<1>2. /\ variables' = [variables EXCEPT ![Self] = @ \cup {h}]
      /\ handles' = handles \cup {h} /\ h.scope = Self
      /\ UNCHANGED <<scopes, cursor, visited>>
  BY DEF Bind, Fresh
<1>3. variables \in [Block -> SUBSET Handle]
  BY DEF FBTypeOK
<1>4. \A k \in handles : k.scope \in Block
  BY DEF FBTypeOK, Handle
<1>5. AcceptedHandlesLive'
  BY <1>1, <1>2, <1>3, <1>4 DEF LifetimeInv, AcceptedHandlesLive, Accepted, InScope
<1> QED BY <1>1, <1>2, <1>5 DEF LifetimeInv, InScope

LEMMA LifetimeInit == FBInit => LifetimeInv
<1> SUFFICES ASSUME FBInit PROVE LifetimeInv
  OBVIOUS
<1>1. Len(scopes) = 0 /\ Len(cursor) = 0 /\ handles = {}
  BY EmptySeq DEF FBInit
<1> QED BY <1>1 DEF LifetimeInv, InScope, AcceptedHandlesLive

LEMMA LifetimeStep ==
    ASSUME SwitchOnce = TRUE, FBTypeOK, LifetimeInv, [FBNext]_vars
    PROVE  LifetimeInv'
<1>0. \A i \in 1..Len(cursor) : cursor[i] \in visited
  BY DEF LifetimeInv
<1>1. CASE \E b \in Created : OpenBlock(b)
  <2>1. PICK b \in Created : OpenBlock(b)
    BY <1>1
  <2>2. /\ b \in Block /\ b \notin visited /\ SwitchToBlock(b, parent)
        /\ cursor' = Append(cursor, b) /\ UNCHANGED handles
    BY <2>1, CreatedBlocks DEF OpenBlock, MaySwitch
  <2>3. \A i \in 1..Len(cursor') : cursor'[i] \in visited \cup {b}
    <3>1. cursor \in Seq(Block) /\ Len(cursor) \in Nat
      BY LenProperties DEF FBTypeOK
    <3>2. /\ Len(cursor') = Len(cursor) + 1
          /\ \A i \in 1..Len(cursor) : cursor'[i] = cursor[i]
          /\ cursor'[Len(cursor) + 1] = b
      BY <2>2, <3>1, AppendProperties
    <3>3. \A i : i \in 1..(Len(cursor) + 1) <=> i \in 1..Len(cursor) \/ i = Len(cursor) + 1
      BY <3>1
    <3> QED BY <1>0, <3>2, <3>3
  <2> QED BY <2>2, <2>3, SwitchLifetime DEF FBTypeOK
<1>2. CASE NewVariable \/ NewParam
  BY <1>2, BindLifetime DEF NewVariable, NewParam
<1>3. CASE \E js, par, next : next \in Created /\ Active /\ EndBranch(js, par, next)
  <2>1. PICK js, par, next : next \in Created /\ Active /\ EndBranch(js, par, next)
    BY <1>3
  <2>2. /\ next \in Block /\ next \notin visited /\ SwitchToBlock(next, par)
        /\ cursor' = [cursor EXCEPT ![Len(cursor)] = next] /\ UNCHANGED handles
    BY <2>1, CreatedBlocks DEF EndBranch, MaySwitch
  <2>3. \A i \in 1..Len(cursor') : cursor'[i] \in visited \cup {next}
    <3>1. Len(cursor) \in 1..Len(cursor) /\ cursor \in Seq(Block)
      BY <2>1, SelfIsBlock DEF FBTypeOK
    <3>2. /\ Len(cursor') = Len(cursor)
          /\ \A i \in 1..Len(cursor) :
                cursor'[i] = IF i = Len(cursor) THEN next ELSE cursor[i]
      BY <2>2, <3>1, ExceptSeq
    <3> QED BY <1>0, <3>2
  <2> QED BY <2>2, <2>3, SwitchLifetime DEF FBTypeOK
<1>4. CASE /\ UNCHANGED <<variables, scopes, handles, visited>>
           /\ UNCHANGED cursor \/ (Active /\ Pop)
  BY <1>0, <1>4, PopVisited, LifetimeFrame
<1>5. \/ \E b \in Created : OpenBlock(b)
      \/ NewVariable \/ NewParam
      \/ \E js, par, next : next \in Created /\ Active /\ EndBranch(js, par, next)
      \/ /\ UNCHANGED <<variables, scopes, handles, visited>>
         /\ UNCHANGED cursor \/ (Active /\ Pop)
  <2> USE DEF blockVars, historyVars
  <2>1. CASE CreateBlock \/ CloseBlock \/ PanicOnHandle \/ Emit \/ Ret \/ FailRet
             \/ Finalize \/ UNCHANGED vars
    BY <2>1 DEF CreateBlock, CloseBlock, PanicOnHandle, Emit, Ret, FailRet, Finalize, vars
  <2>2. CASE BranchSome
    <3>1. PICK js, par :
            \/ Branch(js, par)
            \/ FailBranch(par)
            \/ \E next \in Created : EndBranch(js, par, next)
            \/ EndBranchNoNext(js, par)
            \/ FailEndBranch(js, par)
      BY <2>2 DEF BranchSome
    <3>2. Active
      BY <2>2 DEF BranchSome
    <3>3. CASE \E next \in Created : EndBranch(js, par, next)
      BY <3>2, <3>3
    <3>4. CASE Branch(js, par) \/ FailBranch(par)
               \/ EndBranchNoNext(js, par) \/ FailEndBranch(js, par)
      BY <3>4 DEF Branch, FailBranch, EndBranchNoNext, FailEndBranch
    <3> QED BY <3>1, <3>3, <3>4
  <2> QED BY <2>1, <2>2 DEF FBNext
<1> QED BY <1>1, <1>2, <1>3, <1>4, <1>5

(* If the client switches to each block at most once, every handle that    *)
(* emission accepts names its own live variable: no stale handle is ever   *)
(* looked up, however builders are nested and whatever calls fail.         *)
THEOREM HandlesSafe ==
    SwitchOnce = TRUE => (FBSpec => []AcceptedHandlesLive)
<1> SUFFICES ASSUME SwitchOnce = TRUE PROVE FBSpec => []AcceptedHandlesLive
  OBVIOUS
<1>1. FBInit => OwnershipInv /\ LifetimeInv
  BY OwnershipInit, LifetimeInit
<1>2. OwnershipInv /\ LifetimeInv /\ [FBNext]_vars => OwnershipInv' /\ LifetimeInv'
  <2>1. OwnershipInv => FBTypeOK
    BY DEF OwnershipInv
  <2> QED BY <2>1, OwnershipStep, LifetimeStep
<1>3. LifetimeInv => AcceptedHandlesLive
  BY DEF LifetimeInv
<1> QED BY <1>1, <1>2, <1>3, PTL DEF FBSpec

-----------------------------------------------------------------------------

(***************************************************************************)
(* Where parameters can be, and how the blocks of a finished program end.  *)
(***************************************************************************)

(* A block that is being built is the entry, or some branch gave it a      *)
(* parent: new_param, which looks for a block without one, is left with    *)
(* the entry.                                                              *)
HasParent(par, b) == b = Entry \/ par[b] # NoBlock

ParamsInv ==
    /\ \A i \in 1..Len(cursor) : HasParent(parent, cursor[i])
    /\ ParamsInEntry

-----------------------------------------------------------------------------

LEMMA NoBlockIsNoBlock == NoBlock \notin Block
<1> QED BY NoBlockAssumption, BoundsAssumption DEF Block

(* branch_prep moves blocks from one parent to another, and never leaves   *)
(* a block without the parent it had.                                      *)
LEMMA DeclareKeepsParents ==
    ASSUME FBTypeOK, NEW par \in [Block -> Block \cup {NoBlock}],
           NEW b \in Block, NEW j \in Jump,
           NEW c \in Block, par[c] # NoBlock
    PROVE  Declare(par, b, j)[c] # NoBlock
<1> USE CreatedBlocks, EntryIsBlock, NoBlockIsNoBlock
<1>1. CASE j = JumpNext
  BY <1>1 DEF Declare, JumpNext
<1>2. CASE \E d \in Created : j = JumpChild(d)
  BY <1>2 DEF Declare, JumpChild
<1>3. CASE \E d \in Created : j = JumpSame(d)
  BY <1>3 DEF Declare, JumpSame
<1>4. CASE \E d, p \in Created : j = JumpParent(d, p)
  BY <1>4 DEF Declare, JumpParent
<1> QED BY <1>1, <1>2, <1>3, <1>4 DEF Jump

LEMMA DeclareAllKeepsParents ==
    ASSUME FBTypeOK, NEW b \in Block, NEW js \in Jumps,
           NEW c \in Block, parent[c] # NoBlock
    PROVE  DeclareAll(parent, b, js)[c] # NoBlock
<1>1. parent \in [Block -> Block \cup {NoBlock}]
  BY DEF FBTypeOK
<1>2. PICK n \in 0..MaxJumps : js \in [1..n -> Jump]
  BY DEF Jumps
<1>3. n \in 0..2
  BY BoundsAssumption
<1>4. Len(js) = n
  BY <1>2, <1>3
<1>5. CASE n = 0
  BY <1>4, <1>5 DEF DeclareAll
<1>6. CASE n = 1
  <2>1. js[1] \in Jump
    BY <1>2, <1>6
  <2>2. DeclareAll(parent, b, js) = Declare(parent, b, js[1])
    BY <1>4, <1>6 DEF DeclareAll
  <2> QED BY <1>1, <2>1, <2>2, DeclareKeepsParents
<1>7. CASE n = 2
  <2>1. js[1] \in Jump /\ js[2] \in Jump
    BY <1>2, <1>7
  <2>2. DeclareAll(parent, b, js) = Declare(Declare(parent, b, js[1]), b, js[2])
    BY <1>4, <1>7 DEF DeclareAll
  <2>3. /\ Declare(parent, b, js[1]) \in [Block -> Block \cup {NoBlock}]
        /\ Declare(parent, b, js[1])[c] # NoBlock
    BY <1>1, <2>1, DeclareType, DeclareKeepsParents
  <2> QED BY <2>1, <2>2, <2>3, DeclareKeepsParents
<1> QED BY <1>3, <1>5, <1>6, <1>7

(* switch_to_block succeeds only for a block with a parent.                *)
LEMMA SwitchHasParent ==
    ASSUME FBTypeOK, NEW b, NEW par, SwitchToBlock(b, par)
    PROVE  HasParent(par, b)
<1>1. \A i \in 1..Len(scopes) : scopes[i] \in Block
  BY ElementOfSeq DEF FBTypeOK
<1> QED BY <1>1, NoBlockIsNoBlock DEF SwitchToBlock, CanSwitch, InScope, HasParent

LEMMA PopElements ==
    ASSUME FBTypeOK, Active, Pop
    PROVE  \A i \in 1..Len(cursor') : i \in 1..Len(cursor) /\ cursor'[i] = cursor[i]
<1>1. Len(cursor) \in Nat \ {0} /\ \A i \in 1..Len(cursor) : cursor[i] \in Block
  BY SelfIsBlock, ElementOfSeq DEF FBTypeOK
<1> DEFINE n == Len(cursor) - 1
<1>2. n \in Nat /\ cursor' = SubSeq(cursor, 1, n)
  BY <1>1 DEF Pop
<1>3. \A i \in 1..n : i \in 1..Len(cursor) /\ cursor[i] \in Block
  BY <1>1
<1> HIDE DEF n
<1>4. /\ Len(SubSeq(cursor, 1, n)) = n
      /\ \A i \in 1..n : SubSeq(cursor, 1, n)[i] = cursor[i]
  BY <1>2, <1>3, SubSeqProperties
<1> QED BY <1>2, <1>3, <1>4

-----------------------------------------------------------------------------

(* Every step that does not bind a value leaves the parameters alone; what *)
(* remains is that the blocks being built keep or have a parent.           *)
LEMMA ParamsFrame ==
    ASSUME ParamsInv, UNCHANGED params,
           \A i \in 1..Len(cursor') : HasParent(parent', cursor'[i])
    PROVE  ParamsInv'
<1> QED BY DEF ParamsInv, ParamsInEntry, HasParent

LEMMA BindParams ==
    ASSUME FBTypeOK, Active, ParamsInv, NEW h \in Fresh, Bind(h),
           params' = params \/ (parent[Self] = NoBlock /\ params' = params \cup {h})
    PROVE  ParamsInv'
<1>1. /\ UNCHANGED <<parent, cursor>> /\ h.scope = Self
  BY DEF Bind, Fresh
<1>2. parent[Self] = NoBlock => Self = Entry
  BY SelfIsBlock DEF ParamsInv, HasParent, Self
<1>3. ParamsInEntry'
  BY <1>1, <1>2 DEF ParamsInv, ParamsInEntry
<1> QED BY <1>1, <1>3 DEF ParamsInv, HasParent

LEMMA BranchParams ==
    ASSUME FBTypeOK, ParamsInv, BranchSome
    PROVE  ParamsInv'
<1>1. PICK js \in Jumps :
        LET par == DeclareAll(parent, Self, js)
        IN  \/ Branch(js, par)
            \/ FailBranch(par)
            \/ \E next \in Created : EndBranch(js, par, next)
            \/ EndBranchNoNext(js, par)
            \/ FailEndBranch(js, par)
  BY DEF BranchSome
<1> DEFINE par == DeclareAll(parent, Self, js)
<1>2. Active /\ Self \in Block
  BY SelfIsBlock DEF BranchSome
<1>3. \A c \in Block : HasParent(parent, c) => HasParent(par, c)
  BY <1>2, DeclareAllKeepsParents DEF HasParent
<1> HIDE DEF par
<1>4. \A i \in 1..Len(cursor) : HasParent(par, cursor[i])
  <2>1. \A i \in 1..Len(cursor) : cursor[i] \in Block
    BY ElementOfSeq DEF FBTypeOK
  <2> QED BY <1>3, <2>1 DEF ParamsInv
<1>5. CASE \E next \in Created : EndBranch(js, par, next)
  <2>1. PICK next \in Created : EndBranch(js, par, next)
    BY <1>5
  <2>2. /\ parent' = par /\ UNCHANGED params /\ SwitchToBlock(next, par)
        /\ cursor' = [cursor EXCEPT ![Len(cursor)] = next]
    BY <2>1 DEF EndBranch
  <2>3. next \in Block /\ HasParent(par, next)
    BY <2>2, CreatedBlocks, SwitchHasParent
  <2>4. Len(cursor) \in 1..Len(cursor) /\ cursor \in Seq(Block)
    BY <1>2, SelfIsBlock DEF FBTypeOK
  <2>5. /\ Len(cursor') = Len(cursor)
        /\ \A i \in 1..Len(cursor) :
              cursor'[i] = IF i = Len(cursor) THEN next ELSE cursor[i]
    BY <2>2, <2>3, <2>4, ExceptSeq
  <2>6. \A i \in 1..Len(cursor') : HasParent(par, cursor'[i])
    BY <1>4, <2>3, <2>5
  <2> QED BY <2>2, <2>6, ParamsFrame
<1>6. CASE \/ Branch(js, par) \/ FailBranch(par)
           \/ EndBranchNoNext(js, par) \/ FailEndBranch(js, par)
  <2>1. parent' = par /\ UNCHANGED <<cursor, params>>
    BY <1>6 DEF Branch, FailBranch, EndBranchNoNext, FailEndBranch, historyVars
  <2> QED BY <1>4, <2>1, ParamsFrame
<1> QED BY <1>1, <1>5, <1>6 DEF par

LEMMA ParamsStep ==
    ASSUME FBTypeOK, ParamsInv, [FBNext]_vars
    PROVE  ParamsInv'
<1>1. CASE \E b \in Created : OpenBlock(b)
  <2>1. PICK b \in Created : OpenBlock(b)
    BY <1>1
  <2>2. /\ HasParent(parent, b) /\ b \in Block
        /\ cursor' = Append(cursor, b) /\ UNCHANGED <<parent, params>>
    BY <2>1, CreatedBlocks, SwitchHasParent DEF OpenBlock
  <2>3. cursor \in Seq(Block) /\ Len(cursor) \in Nat
    BY LenProperties DEF FBTypeOK
  <2>4. /\ Len(cursor') = Len(cursor) + 1
        /\ \A i \in 1..Len(cursor) : cursor'[i] = cursor[i]
        /\ cursor'[Len(cursor) + 1] = b
    BY <2>2, <2>3, AppendProperties
  <2>5. \A i : i \in 1..(Len(cursor) + 1) <=> i \in 1..Len(cursor) \/ i = Len(cursor) + 1
    BY <2>3
  <2>6. \A i \in 1..Len(cursor') : HasParent(parent, cursor'[i])
    BY <2>2, <2>4, <2>5 DEF ParamsInv
  <2> QED BY <2>2, <2>6, ParamsFrame
<1>2. CASE NewVariable
  BY <1>2, BindParams DEF NewVariable
<1>3. CASE NewParam
  BY <1>3, BindParams DEF NewParam
<1>4. CASE BranchSome
  BY <1>4, BranchParams
<1>5. CASE CreateBlock \/ PanicOnHandle \/ Emit \/ Finalize \/ UNCHANGED vars
  <2>1. UNCHANGED <<parent, cursor, params>>
    BY <1>5 DEF CreateBlock, PanicOnHandle, Emit, Finalize, vars, blockVars, historyVars
  <2> QED BY <2>1, ParamsFrame DEF ParamsInv
<1>6. CASE CloseBlock \/ Ret \/ FailRet
  <2>1. Active /\ Pop /\ UNCHANGED <<parent, params>>
    BY <1>6 DEF CloseBlock, Ret, FailRet, blockVars, historyVars
  <2>2. \A i \in 1..Len(cursor') : HasParent(parent, cursor'[i])
    BY <2>1, PopElements DEF ParamsInv
  <2> QED BY <2>1, <2>2, ParamsFrame
<1> QED BY <1>1, <1>2, <1>3, <1>4, <1>5, <1>6 DEF FBNext

LEMMA ParamsInit == FBInit => ParamsInv
<1>1. FBInit => Len(cursor) = 0 /\ params = {}
  BY EmptySeq DEF FBInit
<1> QED BY <1>1 DEF ParamsInv, ParamsInEntry

(* new_param never makes a parameter outside the entry block, whatever the *)
(* client calls and whichever branches fail: the test it makes, that the   *)
(* block has no parent, is as good as asking for the entry, although a     *)
(* failed branch leaves parents behind.                                    *)
THEOREM ParamsSafe == FBSpec => []ParamsInEntry
<1>1. FBInit => OwnershipInv /\ ParamsInv
  BY OwnershipInit, ParamsInit
<1>2. OwnershipInv /\ ParamsInv /\ [FBNext]_vars => OwnershipInv' /\ ParamsInv'
  <2>1. OwnershipInv => FBTypeOK
    BY DEF OwnershipInv
  <2> QED BY <2>1, OwnershipStep, ParamsStep
<1>3. ParamsInv => ParamsInEntry
  BY DEF ParamsInv
<1> QED BY <1>1, <1>2, <1>3, PTL DEF FBSpec

-----------------------------------------------------------------------------

(* A client that stops at the first error never leaves a block that is     *)
(* ended and has no code, which is what finalize_into does not look for.   *)
EndInv ==
    /\ \A b \in Block : ended[b] => tail[b] # "none"
    /\ NoRunOff

LEMMA EndFrame ==
    ASSUME EndInv, UNCHANGED <<ended, tail>>,
           UNCHANGED <<status, nblocks>> \/ status' # "program"
    PROVE  EndInv'
<1> QED BY DEF EndInv, NoRunOff, Created

(* Emission and the ending of a block: the block has code, and the         *)
(* function is not finished.                                               *)
LEMMA EndWithCode ==
    ASSUME FBTypeOK, EndInv, Active, UNCHANGED status,
           NEW t \in {"falls", "leaves"},
           tail' = [tail EXCEPT ![Self] = t],
           \A b \in Block \ {Self} : ended'[b] = ended[b]
    PROVE  EndInv'
<1>1. /\ Self \in Block
      /\ tail \in [Block -> {"none", "falls", "leaves"}]
  BY SelfIsBlock DEF FBTypeOK
<1>2. \A b \in Block : ended'[b] => tail'[b] # "none"
  BY <1>1 DEF EndInv
<1> QED BY <1>2 DEF EndInv, NoRunOff, Active

LEMMA OnlySelfEnds ==
    ASSUME FBTypeOK, Active, UNCHANGED ended \/ End
    PROVE  \A b \in Block \ {Self} : ended'[b] = ended[b]
<1> QED BY DEF FBTypeOK, End

LEMMA EndStep ==
    ASSUME ContinueAfterError = FALSE, FBTypeOK, EndInv, [FBNext]_vars
    PROVE  EndInv'
<1> USE DEF blockVars, historyVars
<1>1. CASE CreateBlock
  BY <1>1, EndFrame DEF CreateBlock
<1>2. CASE \/ \E b \in Created : OpenBlock(b)
           \/ CloseBlock \/ NewVariable \/ NewParam \/ PanicOnHandle \/ UNCHANGED vars
  <2>1. /\ UNCHANGED <<ended, tail>>
        /\ UNCHANGED <<status, nblocks>> \/ status' # "program"
    BY <1>2 DEF OpenBlock, CloseBlock, NewVariable, NewParam, Bind, PanicOnHandle, vars
  <2> QED BY <2>1, EndFrame
<1>3. CASE Emit \/ Ret
  <2>1. Active /\ UNCHANGED status /\ (UNCHANGED ended \/ End)
    BY <1>3 DEF Emit, Ret
  <2>2. PICK t \in {"falls", "leaves"} : tail' = [tail EXCEPT ![Self] = t]
    BY <1>3 DEF Emit, Ret
  <2>3. \A b \in Block \ {Self} : ended'[b] = ended[b]
    BY <2>1, OnlySelfEnds
  <2> QED BY <2>1, <2>2, <2>3, EndWithCode
<1>4. CASE BranchSome
  <2>1. PICK js, par :
          Branch(js, par) \/ \E next \in Created : EndBranch(js, par, next)
    BY <1>4 DEF BranchSome, FailBranch, EndBranchNoNext, FailEndBranch
  <2>2. /\ Active /\ EmitJumps(js) /\ UNCHANGED status
        /\ UNCHANGED ended \/ End
    BY <1>4, <2>1 DEF BranchSome, Branch, EndBranch
  <2> DEFINE last == IF JumpNext \in JumpsOf(js) THEN "falls" ELSE "leaves"
  <2>3. tail' = [tail EXCEPT ![Self] = last]
    BY <2>2 DEF EmitJumps
  <2>4. last \in {"falls", "leaves"}
    OBVIOUS
  <2> HIDE DEF last
  <2>5. \A b \in Block \ {Self} : ended'[b] = ended[b]
    BY <2>2, OnlySelfEnds
  <2> QED BY <2>2, <2>3, <2>4, <2>5, EndWithCode
<1>5. CASE FailRet
  BY <1>5 DEF FailRet
<1>6. CASE Finalize
  <2>1. UNCHANGED <<ended, tail, nblocks>>
    BY <1>6 DEF Finalize
  <2>2. ASSUME Complete
        PROVE  \A b \in Created : tail[b] = "leaves"
    BY <2>2, CreatedBlocks DEF Complete, EndInv, FBTypeOK
  <2>3. status' = "program" => Complete
    BY <1>6 DEF Finalize
  <2> QED BY <2>1, <2>2, <2>3 DEF EndInv, NoRunOff, Created
<1> QED BY <1>1, <1>2, <1>3, <1>4, <1>5, <1>6 DEF FBNext

(* If the client stops at the first error, finalize_into yields a program  *)
(* only when every block has code and the code leaves the block: no        *)
(* execution runs off the end of a block into what happens to follow it.   *)
THEOREM ProgramsEnd ==
    ContinueAfterError = FALSE => (FBSpec => []NoRunOff)
<1> SUFFICES ASSUME ContinueAfterError = FALSE PROVE FBSpec => []NoRunOff
  OBVIOUS
<1>1. FBInit => OwnershipInv /\ EndInv
  <2>1. FBInit => EndInv
    BY DEF FBInit, EndInv, NoRunOff
  <2> QED BY <2>1, OwnershipInit
<1>2. OwnershipInv /\ EndInv /\ [FBNext]_vars => OwnershipInv' /\ EndInv'
  <2>1. OwnershipInv => FBTypeOK
    BY DEF OwnershipInv
  <2> QED BY <2>1, OwnershipStep, EndStep
<1>3. EndInv => NoRunOff
  BY DEF EndInv
<1> QED BY <1>1, <1>2, <1>3, PTL DEF FBSpec

-----------------------------------------------------------------------------

(* The steps, as far as scopes, parents and jumps are concerned.           *)
Quiet ==
    /\ UNCHANGED <<parent, variables, scopes, handles, visited, targeted, chain, common>>
    /\ UNCHANGED cursor \/ (Active /\ Pop)

LEMMA StepCases ==
    ASSUME [FBNext]_vars
    PROVE  \/ \E b \in Created : OpenBlock(b)
           \/ Active /\ \E h \in Fresh : Bind(h)
           \/ BranchSome
           \/ Quiet
<1> USE DEF blockVars, historyVars
<1>1. CASE CreateBlock \/ CloseBlock \/ PanicOnHandle \/ Emit \/ Ret \/ FailRet
           \/ Finalize \/ UNCHANGED vars
  BY <1>1 DEF CreateBlock, CloseBlock, PanicOnHandle, Emit, Ret, FailRet, Finalize,
              vars, Quiet
<1>2. CASE NewVariable \/ NewParam
  BY <1>2 DEF NewVariable, NewParam
<1> QED BY <1>1, <1>2 DEF FBNext

(* What a branch declares: par is what branch_prep makes of the parents.   *)
Declares(js, par) ==
    /\ Active
    /\ js \in Jumps
    /\ par = DeclareAll(parent, Self, js)
    /\ MayBranch(par)
    /\ parent' = par
    /\ EmitJumps(js)

(* A client that stops at the first error makes branches that succeed.     *)
LEMMA BranchCases ==
    ASSUME ContinueAfterError = FALSE, BranchSome
    PROVE  \E js, par :
              /\ Declares(js, par)
              /\ \/ UNCHANGED <<variables, scopes, cursor, handles, visited, chain>>
                 \/ \E next \in Created :
                       /\ MaySwitch(next) /\ SwitchToBlock(next, par)
                       /\ cursor' = [cursor EXCEPT ![Len(cursor)] = next]
                       /\ UNCHANGED handles
<1>1. PICK js \in Jumps :
        LET par == DeclareAll(parent, Self, js)
        IN  /\ MayBranch(par)
            /\ Branch(js, par) \/ \E next \in Created : EndBranch(js, par, next)
  BY DEF BranchSome, FailBranch, EndBranchNoNext, FailEndBranch
<1> DEFINE par == DeclareAll(parent, Self, js)
<1>2. Declares(js, par)
  BY <1>1 DEF Declares, BranchSome, Branch, EndBranch
<1>3. CASE Branch(js, par)
  <2>1. UNCHANGED <<variables, scopes, cursor, handles, visited, chain>>
    BY <1>3 DEF Branch
  <2> QED BY <1>2, <2>1
<1>4. CASE \E next \in Created : EndBranch(js, par, next)
  <2>1. PICK next \in Created : EndBranch(js, par, next)
    BY <1>4
  <2>2. /\ MaySwitch(next) /\ SwitchToBlock(next, par)
        /\ cursor' = [cursor EXCEPT ![Len(cursor)] = next]
        /\ UNCHANGED handles
    BY <2>1 DEF EndBranch
  <2> QED BY <1>2, <2>2
<1> QED BY <1>1, <1>3, <1>4

-----------------------------------------------------------------------------

(* A block gets a parent from the jumps to it, and only from those.        *)
LEMMA DeclareChanges ==
    ASSUME FBTypeOK, NEW par \in [Block -> Block \cup {NoBlock}],
           NEW b \in Block, NEW j \in Jump, NEW c \in Block,
           Declare(par, b, j)[c] # par[c]
    PROVE  j # JumpNext /\ j.to = c
<1>1. CASE j = JumpNext
  BY <1>1 DEF Declare, JumpNext
<1>2. CASE \E d \in Created : j = JumpChild(d)
  BY <1>2, CreatedBlocks DEF Declare, JumpChild, JumpNext
<1>3. CASE \E d \in Created : j = JumpSame(d)
  BY <1>3, CreatedBlocks DEF Declare, JumpSame, JumpNext
<1>4. CASE \E d, p \in Created : j = JumpParent(d, p)
  BY <1>4, CreatedBlocks DEF Declare, JumpParent, JumpNext
<1> QED BY <1>1, <1>2, <1>3, <1>4 DEF Jump

(* The jumps of a stencil, one by one.                                     *)
LEMMA JumpsInOrder ==
    ASSUME FBTypeOK, NEW js \in Jumps, NEW b \in Block
    PROVE  \/ JumpsOf(js) = {} /\ DeclareAll(parent, b, js) = parent
           \/ \E j \in Jump :
                 /\ JumpsOf(js) = {j}
                 /\ DeclareAll(parent, b, js) = Declare(parent, b, j)
           \/ \E i, j \in Jump :
                 /\ JumpsOf(js) = {i, j}
                 /\ Declare(parent, b, i) \in [Block -> Block \cup {NoBlock}]
                 /\ DeclareAll(parent, b, js) = Declare(Declare(parent, b, i), b, j)
<1>1. parent \in [Block -> Block \cup {NoBlock}]
  BY DEF FBTypeOK
<1>2. PICK n \in 0..MaxJumps : js \in [1..n -> Jump]
  BY DEF Jumps
<1>3. n \in 0..2
  BY BoundsAssumption
<1>4. Len(js) = n
  BY <1>2, <1>3
<1>5. \A i \in 1..n : js[i] \in Jump
  BY <1>2
<1>6. CASE n = 0
  BY <1>4, <1>6 DEF DeclareAll, JumpsOf
<1>7. CASE n = 1
  <2>1. js[1] \in Jump /\ JumpsOf(js) = {js[1]}
    BY <1>4, <1>5, <1>7 DEF JumpsOf
  <2>2. DeclareAll(parent, b, js) = Declare(parent, b, js[1])
    BY <1>4, <1>7 DEF DeclareAll
  <2> QED BY <2>1, <2>2
<1>8. CASE n = 2
  <2>1. js[1] \in Jump /\ js[2] \in Jump /\ JumpsOf(js) = {js[1], js[2]}
    BY <1>4, <1>5, <1>8 DEF JumpsOf
  <2>2. DeclareAll(parent, b, js) = Declare(Declare(parent, b, js[1]), b, js[2])
    BY <1>4, <1>8 DEF DeclareAll
  <2>3. Declare(parent, b, js[1]) \in [Block -> Block \cup {NoBlock}]
    BY <1>1, <2>1, DeclareType
  <2> QED BY <2>1, <2>2, <2>3
<1> QED BY <1>3, <1>6, <1>7, <1>8

LEMMA DeclareAllChanges ==
    ASSUME FBTypeOK, NEW js \in Jumps, NEW b \in Block, NEW c \in Block,
           DeclareAll(parent, b, js)[c] # parent[c]
    PROVE  c \in Targets(js)
<1> DEFINE par == DeclareAll(parent, b, js)
<1>0. parent \in [Block -> Block \cup {NoBlock}]
  BY DEF FBTypeOK
<1>1. CASE par = parent
  BY <1>1
<1>2. CASE \E j \in Jump : JumpsOf(js) = {j} /\ par = Declare(parent, b, j)
  <2>1. PICK j \in Jump : JumpsOf(js) = {j} /\ par = Declare(parent, b, j)
    BY <1>2
  <2>2. j # JumpNext /\ j.to = c
    BY <1>0, <2>1, DeclareChanges
  <2> QED BY <2>1, <2>2 DEF Targets
<1>3. CASE \E i, j \in Jump :
              /\ JumpsOf(js) = {i, j}
              /\ Declare(parent, b, i) \in [Block -> Block \cup {NoBlock}]
              /\ par = Declare(Declare(parent, b, i), b, j)
  <2>1. PICK i, j \in Jump :
          /\ JumpsOf(js) = {i, j}
          /\ Declare(parent, b, i) \in [Block -> Block \cup {NoBlock}]
          /\ par = Declare(Declare(parent, b, i), b, j)
    BY <1>3
  <2> DEFINE mid == Declare(parent, b, i)
  <2>2. CASE mid[c] # parent[c]
    <3>1. i # JumpNext /\ i.to = c
      BY <1>0, <2>1, <2>2, DeclareChanges
    <3> QED BY <2>1, <3>1 DEF Targets
  <2>3. CASE mid[c] = parent[c]
    <3>1. Declare(mid, b, j)[c] # mid[c] /\ mid \in [Block -> Block \cup {NoBlock}]
      BY <2>1, <2>3
    <3>2. j # JumpNext /\ j.to = c
      BY <2>1, <3>1, DeclareChanges
    <3> QED BY <2>1, <3>2 DEF Targets
  <2> QED BY <2>2, <2>3
<1> QED BY <1>1, <1>2, <1>3, JumpsInOrder

-----------------------------------------------------------------------------

(* A block with a parent is one that a stencil jumps to: with a client     *)
(* that stops at the first error, the two are recorded together.           *)
CodeInv ==
    /\ \A b \in Block : parent[b] # NoBlock => b \in targeted
    /\ CodeIsTargeted

(* A call that gives only the block it works on code, and at most targets  *)
(* more blocks.                                                            *)
LEMMA CodeInSelf ==
    ASSUME FBTypeOK, ParamsInv, CodeInv, Active, targeted \subseteq targeted',
           \A b \in Block \ {Self} : tail'[b] = tail[b],
           \A b \in Block : parent'[b] = parent[b] \/ b \in targeted'
    PROVE  CodeInv'
<1>1. Self \in Block /\ HasParent(parent, Self)
  BY SelfIsBlock DEF ParamsInv, Self
<1>2. Self = Entry \/ Self \in targeted
  BY <1>1 DEF HasParent, CodeInv
<1> QED BY <1>2 DEF CodeInv, CodeIsTargeted

LEMMA OnlySelfTail ==
    ASSUME FBTypeOK, NEW t, tail' = [tail EXCEPT ![Self] = t]
    PROVE  \A b \in Block \ {Self} : tail'[b] = tail[b]
<1> QED BY DEF FBTypeOK

LEMMA CodeTargetedStep ==
    ASSUME ContinueAfterError = FALSE, FBTypeOK, ParamsInv, CodeInv, [FBNext]_vars
    PROVE  CodeInv'
<1> USE DEF blockVars, historyVars
<1>1. CASE Emit \/ Ret
  <2>1. Active /\ UNCHANGED <<parent, targeted>>
    BY <1>1 DEF Emit, Ret
  <2>2. PICK t : tail' = [tail EXCEPT ![Self] = t]
    BY <1>1 DEF Emit, Ret
  <2> QED BY <2>1, <2>2, OnlySelfTail, CodeInSelf
<1>2. CASE BranchSome
  <2>1. PICK js, par : Declares(js, par)
    BY <1>2, BranchCases
  <2>2. Active /\ Self \in Block
    BY <2>1, SelfIsBlock DEF Declares
  <2>3. targeted' = targeted \cup Targets(js)
    BY <2>1 DEF Declares, EmitJumps
  <2>4. \A b \in Block : parent'[b] = parent[b] \/ b \in targeted'
    BY <2>1, <2>2, <2>3, DeclareAllChanges DEF Declares
  <2>5. PICK t : tail' = [tail EXCEPT ![Self] = t]
    BY <2>1 DEF Declares, EmitJumps
  <2> QED BY <2>2, <2>3, <2>4, <2>5, OnlySelfTail, CodeInSelf
<1>3. CASE \/ CreateBlock \/ \E b \in Created : OpenBlock(b)
           \/ CloseBlock \/ NewVariable \/ NewParam \/ PanicOnHandle
           \/ FailRet \/ Finalize \/ UNCHANGED vars
  <2>1. UNCHANGED <<parent, tail, targeted>>
    BY <1>3 DEF CreateBlock, OpenBlock, CloseBlock, NewVariable, NewParam, Bind,
                PanicOnHandle, FailRet, Finalize, vars
  <2> QED BY <2>1 DEF CodeInv, CodeIsTargeted
<1> QED BY <1>1, <1>2, <1>3 DEF FBNext

(* If the client stops at the first error, no stencil is emitted into a    *)
(* block that no emitted jump leads to: the test for a parent, which is    *)
(* all switch_to_block makes, is enough for that.                          *)
THEOREM CodeReached ==
    ContinueAfterError = FALSE => (FBSpec => []CodeIsTargeted)
<1> SUFFICES ASSUME ContinueAfterError = FALSE PROVE FBSpec => []CodeIsTargeted
  OBVIOUS
<1>1. FBInit => OwnershipInv /\ ParamsInv /\ CodeInv
  <2>1. FBInit => CodeInv
    BY DEF FBInit, CodeInv, CodeIsTargeted
  <2> QED BY <2>1, OwnershipInit, ParamsInit
<1>2. OwnershipInv /\ ParamsInv /\ CodeInv /\ [FBNext]_vars
        => OwnershipInv' /\ ParamsInv' /\ CodeInv'
  <2>1. OwnershipInv => FBTypeOK
    BY DEF OwnershipInv
  <2> QED BY <2>1, OwnershipStep, ParamsStep, CodeTargetedStep
<1>3. CodeInv => CodeIsTargeted
  BY DEF CodeInv
<1> QED BY <1>1, <1>2, <1>3, PTL DEF FBSpec

-----------------------------------------------------------------------------

(* With one builder alive at a time, the block being built is the          *)
(* innermost of the open scopes, and these are the scopes that enclose it. *)
NestInv ==
    /\ Len(cursor) <= 1
    /\ cursor # <<>> =>
          /\ Len(scopes) # 0
          /\ scopes[Len(scopes)] = Self
          /\ \A c \in Block : InScope(c) <=> c \in chain[Self]
    /\ LeftScopesEmpty

(* The builder's place moves to the block it switches to.                  *)
LEMMA CursorTypes ==
    ASSUME FBTypeOK
    PROVE  /\ cursor \in Seq(Block) /\ Len(cursor) \in Nat
           /\ cursor = <<>> <=> Len(cursor) = 0
<1> QED BY LenProperties, EmptySeq DEF FBTypeOK

LEMMA OpenedCursor ==
    ASSUME FBTypeOK, Len(cursor) < 1, NEW b \in Block, cursor' = Append(cursor, b)
    PROVE  Len(cursor') = 1 /\ Self' = b /\ cursor' # <<>>
<1>1. Len(cursor') = 1 /\ cursor'[1] = b
  BY CursorTypes, AppendProperties
<1>2. cursor' \in Seq(Block)
  BY CursorTypes, AppendProperties
<1> QED BY <1>1, <1>2, EmptySeq DEF Self

LEMMA MovedCursor ==
    ASSUME FBTypeOK, Active, NEW b \in Block,
           cursor' = [cursor EXCEPT ![Len(cursor)] = b]
    PROVE  Len(cursor') = Len(cursor) /\ Self' = b /\ cursor' # <<>>
<1>1. Len(cursor) \in 1..Len(cursor) /\ Len(cursor) # 0 /\ cursor \in Seq(Block)
  BY SelfIsBlock DEF FBTypeOK
<1>2. /\ Len(cursor') = Len(cursor)
      /\ cursor'[Len(cursor)] = b
  BY <1>1, ExceptSeq
<1>3. cursor' # <<>>
  BY <1>1, <1>2, EmptySeq
<1> QED BY <1>2, <1>3 DEF Self

LEMMA PoppedCursor ==
    ASSUME FBTypeOK, Active, Pop
    PROVE  Len(cursor') = Len(cursor) - 1 /\ Len(cursor) \in Nat \ {0}
<1>1. Len(cursor) \in Nat \ {0} /\ cursor \in Seq(Block)
  BY SelfIsBlock DEF FBTypeOK
<1> DEFINE n == Len(cursor) - 1
<1>2. n \in Nat /\ cursor' = SubSeq(cursor, 1, n)
  BY <1>1 DEF Pop
<1>3. \A i \in 1..n : cursor[i] \in Block
  BY <1>1, ElementOfSeq
<1> HIDE DEF n
<1>4. Len(SubSeq(cursor, 1, n)) = n
  BY <1>2, <1>3, SubSeqProperties
<1> QED BY <1>1, <1>2, <1>4 DEF n

(* The switch itself, wherever it comes from.                              *)
LEMMA SwitchNest ==
    ASSUME FBTypeOK, NestInv, NEW b \in Block, NEW par, SwitchToBlock(b, par),
           Len(cursor') = 1, Self' = b
    PROVE  NestInv'
<1>1. PICK kept \in Nat : KeepsScopes(b, par, kept)
  BY SwitchScopes
<1> USE DEF KeepsScopes
<1>2. Len(scopes') # 0 /\ scopes'[Len(scopes')] = Self'
  BY <1>1
<1>3. chain'[b] = {scopes[i] : i \in 1..kept} \cup {b}
  BY <1>1 DEF FBTypeOK
<1>4. \A c \in Block : InScope(c)' <=> c \in chain'[Self']
  BY <1>1, <1>3
<1>5. LeftScopesEmpty'
  <2> SUFFICES ASSUME NEW c \in Block, variables'[c] # {} PROVE InScope(c)'
    BY DEF LeftScopesEmpty
  <2>1. variables[c] # {} /\ \A i \in (kept + 1)..Len(scopes) : scopes[i] # c
    BY <1>1
  <2>2. PICK i \in 1..Len(scopes) : scopes[i] = c
    BY <2>1 DEF NestInv, LeftScopesEmpty, InScope
  <2>3. Len(scopes) \in Nat
    BY LenProperties DEF FBTypeOK
  <2>4. i \in 1..kept
    BY <1>1, <2>1, <2>2, <2>3
  <2> QED BY <1>1, <2>2, <2>4
<1> QED BY <1>2, <1>4, <1>5 DEF NestInv

LEMMA SelfInScope ==
    ASSUME FBTypeOK, Active, NestInv
    PROVE  InScope(Self)
<1>1. Len(scopes) \in Nat \ {0} /\ scopes[Len(scopes)] = Self
  BY LenProperties DEF FBTypeOK, NestInv, Active
<1> QED BY <1>1 DEF InScope

LEMMA NestStep ==
    ASSUME MaxNest <= 1, FBTypeOK, NestInv, [FBNext]_vars
    PROVE  NestInv'
<1>1. CASE \E b \in Created : OpenBlock(b)
  <2>1. PICK b \in Created : OpenBlock(b)
    BY <1>1
  <2>2. /\ b \in Block /\ SwitchToBlock(b, parent)
        /\ cursor' = Append(cursor, b) /\ Len(cursor) < MaxNest
    BY <2>1, CreatedBlocks DEF OpenBlock
  <2>3. Len(cursor) < 1
    BY <2>2, CursorTypes, BoundsAssumption
  <2> QED BY <2>2, <2>3, OpenedCursor, SwitchNest
<1>2. CASE Active /\ \E h \in Fresh : Bind(h)
  <2>1. PICK h \in Fresh : Bind(h)
    BY <1>2
  <2>2. /\ variables' = [variables EXCEPT ![Self] = @ \cup {h}]
        /\ UNCHANGED <<scopes, cursor, chain>>
    BY <2>1 DEF Bind
  <2>3. InScope(Self) /\ Self \in Block
    BY <1>2, SelfInScope, SelfIsBlock
  <2>4. LeftScopesEmpty'
    BY <2>2, <2>3 DEF NestInv, LeftScopesEmpty, InScope, FBTypeOK
  <2> QED BY <2>2, <2>4 DEF NestInv, InScope, Self
<1>3. CASE BranchSome
  <2>1. Active /\ Len(cursor) \in Nat \ {0}
    BY <1>3, SelfIsBlock DEF BranchSome
  <2>2. CASE \E js, par : \E next \in Created : EndBranch(js, par, next)
    <3>1. PICK js, par : \E next \in Created : EndBranch(js, par, next)
      BY <2>2
    <3>2. PICK next \in Created : EndBranch(js, par, next)
      BY <3>1
    <3>3. /\ next \in Block /\ SwitchToBlock(next, par)
          /\ cursor' = [cursor EXCEPT ![Len(cursor)] = next]
      BY <3>2, CreatedBlocks DEF EndBranch
    <3>4. Len(cursor) = 1
      <4>1. Len(cursor) <= 1
        BY DEF NestInv
      <4> QED BY <2>1, <4>1
    <3> QED BY <2>1, <3>3, <3>4, MovedCursor, SwitchNest
  <2>3. CASE UNCHANGED <<variables, scopes, cursor, chain>>
    BY <2>3 DEF NestInv, LeftScopesEmpty, InScope, Self
  <2> QED BY <1>3, <2>2, <2>3 DEF BranchSome, Branch, FailBranch, EndBranchNoNext,
             FailEndBranch, historyVars
<1>4. CASE Quiet
  <2>1. CASE UNCHANGED cursor
    BY <1>4, <2>1 DEF Quiet, NestInv, LeftScopesEmpty, InScope, Self
  <2>2. CASE Active /\ Pop
    <3>1. Len(cursor') = 0 /\ cursor' \in Seq(Block)
      BY <2>2, PoppedCursor, PopType DEF NestInv
    <3>2. cursor' = <<>>
      BY <3>1, EmptySeq
    <3> QED BY <1>4, <3>1, <3>2 DEF Quiet, NestInv, LeftScopesEmpty, InScope
  <2> QED BY <1>4, <2>1, <2>2 DEF Quiet
<1> QED BY <1>1, <1>2, <1>3, <1>4, StepCases

LEMMA NestInit == FBInit => NestInv
<1>1. FBInit => Len(cursor) = 0 /\ cursor = <<>>
  BY EmptySeq DEF FBInit
<1> QED BY <1>1 DEF FBInit, NestInv, LeftScopesEmpty

(* With one builder alive at a time, whatever else the client calls and    *)
(* whichever calls fail: exactly the variables of enclosing blocks are     *)
(* accepted, and a block whose scope was left has given back all slots.    *)
THEOREM ScopesNest ==
    MaxNest <= 1 => (FBSpec => [](AcceptedEncloses /\ LeftScopesEmpty))
<1> SUFFICES ASSUME MaxNest <= 1
             PROVE  FBSpec => [](AcceptedEncloses /\ LeftScopesEmpty)
  OBVIOUS
<1>1. FBInit => OwnershipInv /\ NestInv
  BY OwnershipInit, NestInit
<1>2. OwnershipInv /\ NestInv /\ [FBNext]_vars => OwnershipInv' /\ NestInv'
  <2>1. OwnershipInv => FBTypeOK
    BY DEF OwnershipInv
  <2> QED BY <2>1, OwnershipStep, NestStep
<1>3. NestInv => AcceptedEncloses /\ LeftScopesEmpty
  BY DEF NestInv, AcceptedEncloses, Active
<1> QED BY <1>1, <1>2, <1>3, PTL DEF FBSpec

-----------------------------------------------------------------------------

(* With one builder alive at a time, a step either switches to a block or  *)
(* leaves the scopes alone.                                                *)
Switches(b, par) ==
    /\ b \in Block
    /\ SwitchOnce => b \notin visited
    /\ SwitchToBlock(b, par)
    /\ cursor' # <<>> /\ Self' = b

LEMMA OpenSwitches ==
    ASSUME MaxNest <= 1, FBTypeOK, NEW b \in Created, OpenBlock(b)
    PROVE  Switches(b, parent)
<1>1. Len(cursor) < 1
  BY CursorTypes, BoundsAssumption DEF OpenBlock
<1>2. b \in Block /\ cursor' = Append(cursor, b)
  BY CreatedBlocks DEF OpenBlock
<1> QED BY <1>1, <1>2, OpenedCursor DEF OpenBlock, MaySwitch, Switches

LEMMA EndSwitches ==
    ASSUME FBTypeOK, Active, NEW b \in Created, NEW par,
           MaySwitch(b), SwitchToBlock(b, par),
           cursor' = [cursor EXCEPT ![Len(cursor)] = b]
    PROVE  Switches(b, par)
<1> QED BY CreatedBlocks, MovedCursor DEF MaySwitch, Switches

Stays ==
    /\ UNCHANGED <<scopes, chain, visited>>
    /\ cursor' # <<>> => cursor # <<>> /\ Self' = Self

LEMMA NestCases ==
    ASSUME MaxNest <= 1, FBTypeOK, NestInv, [FBNext]_vars
    PROVE  Stays \/ \E b, par : Switches(b, par)
<1>1. CASE \E b \in Created : OpenBlock(b)
  BY <1>1, OpenSwitches
<1>2. CASE Active /\ \E h \in Fresh : Bind(h)
  BY <1>2 DEF Bind, Stays, Active, Self
<1>3. CASE BranchSome
  <2>1. CASE \E js, par : \E b \in Created : EndBranch(js, par, b)
    BY <1>3, <2>1, EndSwitches DEF EndBranch, BranchSome
  <2>2. CASE UNCHANGED <<scopes, chain, visited, cursor>>
    BY <2>2 DEF Stays, Self
  <2> QED BY <1>3, <2>1, <2>2 DEF BranchSome, Branch, FailBranch, EndBranchNoNext,
             FailEndBranch, historyVars
<1>4. CASE Quiet
  <2>1. CASE UNCHANGED cursor
    BY <1>4, <2>1 DEF Quiet, Stays, Self
  <2>2. CASE Active /\ Pop
    <3>1. Len(cursor') = 0 /\ cursor' \in Seq(Block)
      BY <2>2, PoppedCursor, PopType DEF NestInv
    <3>2. cursor' = <<>>
      BY <3>1, EmptySeq
    <3> QED BY <1>4, <3>2 DEF Quiet, Stays
  <2> QED BY <1>4, <2>1, <2>2 DEF Quiet
<1> QED BY <1>1, <1>2, <1>3, <1>4, StepCases

(* The outermost scope is the entry's, and it stays open; a block encloses *)
(* itself, and no block visited before it.                                 *)
RootInv ==
    /\ Len(scopes) # 0 => scopes[1] = Entry
    /\ visited # {} => Len(scopes) # 0
    /\ \A b \in visited : b \in chain[b] /\ chain[b] \subseteq visited
    /\ cursor # <<>> => \A b \in visited : Self \in chain[b] => b = Self

LEMMA RootStep ==
    ASSUME MaxNest <= 1, SwitchOnce = TRUE,
           FBTypeOK, LifetimeInv, NestInv, RootInv, [FBNext]_vars
    PROVE  RootInv'
<1>1. CASE Stays
  BY <1>1 DEF Stays, RootInv
<1>2. CASE \E b, par : Switches(b, par)
  <2>1. PICK b, par : Switches(b, par)
    BY <1>2
  <2>2. /\ b \in Block /\ b \notin visited /\ SwitchToBlock(b, par)
        /\ cursor' # <<>> /\ Self' = b
    BY <2>1 DEF Switches
  <2>3. PICK kept \in Nat : KeepsScopes(b, par, kept)
    BY <2>2, SwitchScopes
  <2>4. visited' = visited \cup {b} /\ Len(scopes) \in Nat
    BY <2>2, SwitchScopes, LenProperties DEF FBTypeOK
  <2>5. Len(scopes') = kept + 1
    BY <2>3 DEF KeepsScopes
  <2>6. scopes'[1] = Entry
    <3>1. CASE kept = 0
      BY <2>3, <3>1 DEF KeepsScopes
    <3>2. CASE kept # 0
      <4>1. scopes'[1] = scopes[1] /\ Len(scopes) # 0
        BY <2>3, <2>4, <3>2 DEF KeepsScopes
      <4> QED BY <4>1 DEF RootInv
    <3> QED BY <3>1, <3>2
  <2>7. /\ chain'[b] = {scopes[i] : i \in 1..kept} \cup {b}
        /\ \A c \in Block \ {b} : chain'[c] = chain[c]
    BY <2>2, <2>3 DEF KeepsScopes, FBTypeOK
  <2>8. chain'[b] \subseteq visited'
    <3>1. \A i \in 1..kept : i \in 1..Len(scopes)
      BY <2>3, <2>4 DEF KeepsScopes
    <3> QED BY <2>4, <2>7, <3>1 DEF LifetimeInv, InScope
  <2>9. \A c \in visited : c \in Block \ {b} /\ c \in chain'[c] /\ chain'[c] \subseteq visited
    BY <2>2, <2>7 DEF FBTypeOK, RootInv
  <2> QED BY <2>2, <2>4, <2>5, <2>6, <2>7, <2>8, <2>9 DEF RootInv
<1> QED BY <1>1, <1>2, NestCases

LEMMA RootInit == FBInit => RootInv
<1>1. FBInit => Len(scopes) = 0
  BY EmptySeq DEF FBInit
<1> QED BY <1>1 DEF FBInit, RootInv

-----------------------------------------------------------------------------

(* The scope of a block's parent encloses every emitted jump to the block. *)
Dominated(par, com) ==
    \A c \in Block : \/ par[c] = NoBlock /\ com[c] = Block
                     \/ par[c] \in visited /\ chain[par[c]] \subseteq com[c]

(* Each open scope is the parent of the next, and they enclose each other. *)
NestedScopes(par) ==
    /\ \A i \in 1..Len(scopes) : chain[scopes[i]] = {scopes[k] : k \in 1..i}
    /\ \A i \in 2..Len(scopes) : par[scopes[i]] = scopes[i - 1]
    /\ Len(scopes) <= 1 => par[Entry] \in {NoBlock, Entry}

ScopeInv == Dominated(parent, common) /\ NestedScopes(parent)

(* A jump from block b gives its target a parent that is in scope, if b    *)
(* and its own parent are.                                                 *)
LEMMA DeclareInScope ==
    ASSUME FBTypeOK, NEW par \in [Block -> Block \cup {NoBlock}],
           NEW b \in Block, NEW j \in Jump,
           InScope(b), InScope(Entry), par[b] = NoBlock \/ InScope(par[b]),
           j.kind = "Parent" => InScope(j.parent), j # JumpNext
    PROVE  InScope(Declare(par, b, j)[j.to])
<1>1. CASE \E d \in Created : j = JumpChild(d)
  BY <1>1, CreatedBlocks DEF Declare, JumpChild
<1>2. CASE \E d \in Created : j = JumpSame(d)
  <2>1. PICK d \in Created : j = JumpSame(d)
    BY <1>2
  <2>2. Declare(par, b, j)[j.to] = IF par[b] = NoBlock THEN Entry ELSE par[b]
    BY <2>1, CreatedBlocks DEF Declare, JumpSame
  <2> QED BY <2>2
<1>3. CASE \E d, p \in Created : j = JumpParent(d, p)
  <2>1. PICK d, p \in Created : j = JumpParent(d, p)
    BY <1>3
  <2>2. Declare(par, b, j)[j.to] = p /\ j.kind = "Parent" /\ j.parent = p
    BY <2>1, CreatedBlocks DEF Declare, JumpParent
  <2> QED BY <2>2
<1> QED BY <1>1, <1>2, <1>3 DEF Jump

LEMMA DeclareAllInScope ==
    ASSUME FBTypeOK, NEW js \in Jumps, NEW b \in Block,
           InScope(b), InScope(Entry), parent[b] = NoBlock \/ InScope(parent[b]),
           ParentsInScope(js), NEW c \in Targets(js)
    PROVE  InScope(DeclareAll(parent, b, js)[c])
<1> DEFINE par == DeclareAll(parent, b, js)
<1>0. /\ parent \in [Block -> Block \cup {NoBlock}]
      /\ \A j \in JumpsOf(js) : j.kind = "Parent" => InScope(j.parent)
  BY DEF FBTypeOK, ParentsInScope
<1>1. PICK t \in JumpsOf(js) : t # JumpNext /\ c = t.to
  BY DEF Targets
<1>2. CASE \E j \in Jump : JumpsOf(js) = {j} /\ par = Declare(parent, b, j)
  BY <1>0, <1>1, <1>2, DeclareInScope
<1>3. CASE \E i, j \in Jump :
              /\ JumpsOf(js) = {i, j}
              /\ Declare(parent, b, i) \in [Block -> Block \cup {NoBlock}]
              /\ par = Declare(Declare(parent, b, i), b, j)
  <2>1. PICK i, j \in Jump :
          /\ JumpsOf(js) = {i, j}
          /\ Declare(parent, b, i) \in [Block -> Block \cup {NoBlock}]
          /\ par = Declare(Declare(parent, b, i), b, j)
    BY <1>3
  <2> DEFINE mid == Declare(parent, b, i)
  <2>2. i # JumpNext => InScope(mid[i.to])
    BY <1>0, <2>1, DeclareInScope
  <2>3. mid[b] = parent[b] \/ InScope(mid[b])
    BY <1>0, <2>1, <2>2, DeclareChanges
  <2>4. mid[b] = NoBlock \/ InScope(mid[b])
    BY <2>3
  <2>5. mid \in [Block -> Block \cup {NoBlock}] /\ par = Declare(mid, b, j)
    BY <2>1
  <2>6. j # JumpNext => InScope(par[j.to])
    <3> HIDE DEF mid
    <3> QED BY <1>0, <2>1, <2>4, <2>5, DeclareInScope
  <2>7. CASE t = j
    BY <1>1, <2>6, <2>7
  <2>8. CASE t = i
    <3>1. c \in Block
      BY <1>1, <2>1, <2>8, CreatedBlocks DEF Jump, JumpChild, JumpSame, JumpParent
    <3>2. par[c] = mid[c] \/ (j # JumpNext /\ j.to = c)
      <4> HIDE DEF mid
      <4> QED BY <2>1, <2>5, <3>1, DeclareChanges
    <3> QED BY <1>1, <2>2, <2>6, <2>8, <3>2
  <2> QED BY <1>1, <2>1, <2>7, <2>8
<1> QED BY <1>1, <1>2, <1>3, JumpsInOrder

-----------------------------------------------------------------------------

(* The block being built and its parent are in scope, and it is enclosed   *)
(* by whatever encloses a block in scope.                                  *)
LEMMA SelfAndParent ==
    ASSUME FBTypeOK, Active, NestInv, RootInv, NestedScopes(parent)
    PROVE  /\ InScope(Self) /\ InScope(Entry)
           /\ parent[Self] = NoBlock \/ InScope(parent[Self])
           /\ \A c : InScope(c) => chain[c] \subseteq chain[Self]
<1>1. /\ Len(scopes) \in Nat \ {0} /\ scopes[Len(scopes)] = Self /\ scopes[1] = Entry
  BY LenProperties DEF FBTypeOK, NestInv, RootInv, Active
<1>2. InScope(Self) /\ InScope(Entry)
  BY <1>1 DEF InScope
<1>3. parent[Self] = NoBlock \/ InScope(parent[Self])
  <2>1. CASE Len(scopes) = 1
    BY <1>1, <1>2, <2>1 DEF NestedScopes
  <2>2. CASE Len(scopes) # 1
    <3>0. ASSUME NEW n \in Nat \ {0}, n # 1
          PROVE  n \in 2..n /\ n - 1 \in 1..n
      BY <3>0
    <3>1. Len(scopes) \in 2..Len(scopes) /\ Len(scopes) - 1 \in 1..Len(scopes)
      BY <1>1, <2>2, <3>0
    <3>2. parent[Self] = scopes[Len(scopes) - 1]
      BY <1>1, <3>1 DEF NestedScopes
    <3> QED BY <3>1, <3>2 DEF InScope
  <2> QED BY <2>1, <2>2
<1>4. ASSUME NEW c, InScope(c) PROVE chain[c] \subseteq chain[Self]
  <2>1. PICK i \in 1..Len(scopes) : scopes[i] = c
    BY <1>4 DEF InScope
  <2>2. Len(scopes) \in 1..Len(scopes)
    BY <1>1
  <2>3. /\ chain[c] = {scopes[k] : k \in 1..i}
        /\ chain[Self] = {scopes[k] : k \in 1..Len(scopes)}
    BY <1>1, <2>1, <2>2 DEF NestedScopes
  <2>4. \A k \in 1..i : k \in 1..Len(scopes)
    BY <1>1, <2>1
  <2> QED BY <2>3, <2>4
<1> QED BY <1>2, <1>3, <1>4

(* A stencil that jumps keeps the blocks dominated by their parents.       *)
LEMMA BranchScopes ==
    ASSUME OneParent = TRUE, FBTypeOK, LifetimeInv, NestInv, RootInv, ScopeInv,
           NEW js, NEW par, Declares(js, par)
    PROVE  Dominated(par, common') /\ NestedScopes(par)
<1>1. /\ Active /\ js \in Jumps /\ par = DeclareAll(parent, Self, js)
      /\ \A c \in Block : parent[c] # NoBlock => par[c] = parent[c]
      /\ ParentsInScope(js)
      /\ common' = [c \in Block |-> IF c \in Targets(js)
                                    THEN common[c] \cap chain[Self] ELSE common[c]]
  BY DEF Declares, MayBranch, EmitJumps
<1>2. Self \in Block
  BY <1>1, SelfIsBlock
<1>3. /\ InScope(Self) /\ InScope(Entry)
      /\ parent[Self] = NoBlock \/ InScope(parent[Self])
      /\ \A c : InScope(c) => chain[c] \subseteq chain[Self]
  BY <1>1, SelfAndParent DEF ScopeInv
<1>4. \A c \in Targets(js) : InScope(par[c])
  BY <1>1, <1>2, <1>3, DeclareAllInScope
<1>5. \A c \in Block \ Targets(js) : par[c] = parent[c]
  BY <1>1, <1>2, DeclareAllChanges
<1>6. \A i \in 1..Len(scopes) : scopes[i] \in Block /\ scopes[i] # NoBlock
  BY ElementOfSeq, NoBlockIsNoBlock DEF FBTypeOK
<1> HIDE DEF Declares
<1>7. ASSUME NEW c \in Block
      PROVE  \/ par[c] = NoBlock /\ common'[c] = Block
             \/ par[c] \in visited /\ chain[par[c]] \subseteq common'[c]
  <2>1. CASE c \notin Targets(js)
    <3>1. par[c] = parent[c] /\ common'[c] = common[c]
      BY <1>1, <1>5, <2>1
    <3> QED BY <3>1 DEF ScopeInv, Dominated
  <2>2. CASE c \in Targets(js)
    <3>1. InScope(par[c]) /\ common'[c] = common[c] \cap chain[Self]
      BY <1>1, <1>4, <2>2
    <3>2. par[c] \in visited /\ chain[par[c]] \subseteq chain[Self]
      BY <1>3, <3>1 DEF LifetimeInv
    <3>3. chain[par[c]] \subseteq common[c]
      <4>1. CASE parent[c] = NoBlock
        <5>1. common[c] = Block
          BY <4>1, NoBlockIsNoBlock DEF ScopeInv, Dominated, FBTypeOK
        <5> QED BY <3>2, <5>1 DEF FBTypeOK
      <4>2. CASE parent[c] # NoBlock
        BY <1>1, <4>2 DEF ScopeInv, Dominated
      <4> QED BY <4>1, <4>2
    <3> QED BY <3>1, <3>2, <3>3
  <2> QED BY <2>1, <2>2
<1>8. ASSUME NEW i \in 2..Len(scopes)
      PROVE  par[scopes[i]] = scopes[i - 1]
  <2>1. i \in 1..Len(scopes) /\ i - 1 \in 1..Len(scopes)
    BY LenProperties DEF FBTypeOK
  <2>2. parent[scopes[i]] = scopes[i - 1]
    BY <1>8 DEF ScopeInv, NestedScopes
  <2> QED BY <1>1, <1>6, <2>1, <2>2
<1>9. ASSUME Len(scopes) <= 1
      PROVE  par[Entry] \in {NoBlock, Entry}
  <2>1. \A c : InScope(c) => c = Entry
    <3>1. Len(scopes) \in Nat /\ (Len(scopes) # 0 => scopes[1] = Entry)
      BY LenProperties DEF FBTypeOK, RootInv
    <3>2. \A i \in 1..Len(scopes) : i = 1 /\ Len(scopes) # 0
      BY <1>9, <3>1
    <3> QED BY <3>1, <3>2 DEF InScope
  <2>2. CASE Entry \in Targets(js)
    BY <1>4, <2>1, <2>2
  <2>3. CASE Entry \notin Targets(js)
    BY <1>5, <1>9, <2>3, EntryIsBlock DEF ScopeInv, NestedScopes
  <2> QED BY <2>2, <2>3
<1> QED BY <1>7, <1>8, <1>9 DEF Dominated, ScopeInv, NestedScopes

(* Switching to a block opens its scope inside its parent's.               *)
LEMMA SwitchScopeInv ==
    ASSUME FBTypeOK, LifetimeInv, RootInv,
           NEW par, NEW com, Dominated(par, com), NestedScopes(par),
           NEW b \in Block, b \notin visited, SwitchToBlock(b, par),
           parent' = par, common' = com
    PROVE  ScopeInv'
<1>1. PICK kept \in Nat : KeepsScopes(b, par, kept)
  BY SwitchScopes
<1>2. visited' = visited \cup {b} /\ Len(scopes) \in Nat /\ kept <= Len(scopes)
  BY <1>1, SwitchScopes, LenProperties DEF FBTypeOK, KeepsScopes
<1>3. /\ chain'[b] = {scopes[i] : i \in 1..kept} \cup {b}
      /\ \A c \in Block \ {b} : chain'[c] = chain[c]
  BY <1>1 DEF KeepsScopes, FBTypeOK
<1>4. \A i \in 1..kept : /\ i \in 1..Len(scopes)
                         /\ scopes[i] \in Block \ {b}
                         /\ scopes'[i] = scopes[i]
  <2>1. \A i \in 1..kept : i \in 1..Len(scopes)
    BY <1>2
  <2>2. \A i \in 1..Len(scopes) : scopes[i] \in Block /\ scopes[i] \in visited
    BY ElementOfSeq DEF FBTypeOK, LifetimeInv, InScope
  <2> QED BY <1>1, <2>1, <2>2 DEF KeepsScopes
<1>5. Len(scopes') = kept + 1 /\ scopes'[kept + 1] = b
  BY <1>1 DEF KeepsScopes
<1>6. Dominated(parent, common)'
  <2> SUFFICES ASSUME NEW c \in Block
               PROVE  \/ par[c] = NoBlock /\ com[c] = Block
                      \/ par[c] \in visited' /\ chain'[par[c]] \subseteq com[c]
    BY DEF Dominated
  <2>1. ASSUME par[c] \in visited
        PROVE  chain'[par[c]] = chain[par[c]]
    BY <1>3, <2>1 DEF FBTypeOK
  <2> QED BY <1>2, <2>1 DEF Dominated
<1>7. ASSUME NEW i \in 1..Len(scopes')
      PROVE  chain'[scopes'[i]] = {scopes'[k] : k \in 1..i}
  <2>1. CASE i = kept + 1
    <3>1. \A k : k \in 1..(kept + 1) <=> k \in 1..kept \/ k = kept + 1
      OBVIOUS
    <3>2. {scopes'[k] : k \in 1..(kept + 1)} = {scopes[k] : k \in 1..kept} \cup {b}
      BY <1>4, <1>5, <3>1
    <3> QED BY <1>3, <1>5, <2>1, <3>2
  <2>2. CASE i # kept + 1
    <3>1. i \in 1..kept
      BY <1>5, <2>2
    <3>2. \A k \in 1..i : k \in 1..kept
      BY <3>1
    <3>3. chain'[scopes'[i]] = chain[scopes[i]] /\ i \in 1..Len(scopes)
      BY <1>3, <1>4, <3>1
    <3>4. chain[scopes[i]] = {scopes[k] : k \in 1..i}
      BY <3>3 DEF NestedScopes
    <3>5. {scopes'[k] : k \in 1..i} = {scopes[k] : k \in 1..i}
      BY <1>4, <3>2
    <3> QED BY <3>3, <3>4, <3>5
  <2> QED BY <2>1, <2>2
<1>8. ASSUME NEW i \in 2..Len(scopes')
      PROVE  par[scopes'[i]] = scopes'[i - 1]
  <2>1. CASE i = kept + 1
    <3>1. kept # 0 /\ kept \in 1..kept
      BY <2>1
    <3>2. b # Entry
      <4>1. ASSUME b = Entry PROVE FALSE
        <5>1. Len(scopes) # 0 /\ 1 \in 1..Len(scopes) /\ scopes[1] = Entry
          BY <1>2, <3>1 DEF RootInv
        <5> QED BY <4>1, <5>1 DEF LifetimeInv, InScope
      <4> QED BY <4>1
    <3>3. scopes[kept] = par[b]
      BY <1>1, <3>2 DEF KeepsScopes
    <3>4. i - 1 = kept
      BY <2>1
    <3> QED BY <1>4, <1>5, <2>1, <3>1, <3>3, <3>4
  <2>2. CASE i # kept + 1
    <3>1. i \in 1..kept /\ i - 1 \in 1..kept
      BY <1>5, <2>2
    <3>2. i \in 2..Len(scopes)
      BY <1>2, <3>1
    <3>3. par[scopes[i]] = scopes[i - 1]
      BY <3>2 DEF NestedScopes
    <3> QED BY <1>4, <3>1, <3>3
  <2> QED BY <2>1, <2>2
<1>9. ASSUME Len(scopes') <= 1
      PROVE  par[Entry] \in {NoBlock, Entry}
  <2>1. kept = 0
    BY <1>5, <1>9
  <2>2. b = Entry /\ Len(scopes) = 0
    BY <1>1, <2>1 DEF KeepsScopes
  <2> QED BY <2>2 DEF NestedScopes
<1> QED BY <1>6, <1>7, <1>8, <1>9 DEF ScopeInv, NestedScopes

LEMMA ScopeStep ==
    ASSUME MaxNest <= 1, SwitchOnce = TRUE, OneParent = TRUE,
           ContinueAfterError = FALSE,
           FBTypeOK, LifetimeInv, NestInv, RootInv, ScopeInv, [FBNext]_vars
    PROVE  ScopeInv'
<1>1. CASE \E b \in Created : OpenBlock(b)
  <2>1. PICK b \in Created : OpenBlock(b)
    BY <1>1
  <2>2. /\ b \in Block /\ b \notin visited /\ SwitchToBlock(b, parent)
        /\ UNCHANGED <<parent, common>>
    BY <2>1, CreatedBlocks DEF OpenBlock, MaySwitch
  <2> QED BY <2>2, SwitchScopeInv DEF ScopeInv
<1>2. CASE BranchSome
  <2>1. PICK js, par :
          /\ Declares(js, par)
          /\ \/ UNCHANGED <<variables, scopes, cursor, handles, visited, chain>>
             \/ \E next \in Created :
                   /\ MaySwitch(next) /\ SwitchToBlock(next, par)
                   /\ cursor' = [cursor EXCEPT ![Len(cursor)] = next]
                   /\ UNCHANGED handles
    BY <1>2, BranchCases
  <2>2. Dominated(par, common') /\ NestedScopes(par) /\ parent' = par
    BY <2>1, BranchScopes DEF Declares
  <2>3. CASE UNCHANGED <<scopes, visited, chain>>
    <3>1. Dominated(parent, common)'
      BY <2>2, <2>3 DEF Dominated
    <3>2. NestedScopes(parent)'
      BY <2>2, <2>3 DEF NestedScopes
    <3> QED BY <3>1, <3>2 DEF ScopeInv
  <2>4. CASE \E next \in Created : MaySwitch(next) /\ SwitchToBlock(next, par)
    <3>1. PICK next \in Created : MaySwitch(next) /\ SwitchToBlock(next, par)
      BY <2>4
    <3>2. next \in Block /\ next \notin visited
      BY <3>1, CreatedBlocks DEF MaySwitch
    <3> QED BY <2>2, <3>1, <3>2, SwitchScopeInv
  <2> QED BY <2>1, <2>3, <2>4
<1>3. CASE (Active /\ \E h \in Fresh : Bind(h)) \/ Quiet
  <2>1. UNCHANGED <<parent, common, scopes, visited, chain>>
    BY <1>3 DEF Bind, Quiet
  <2> QED BY <2>1 DEF ScopeInv, Dominated, NestedScopes
<1> QED BY <1>1, <1>2, <1>3, StepCases

LEMMA ScopeInit == FBInit => ScopeInv
<1>1. FBInit => Len(scopes) = 0
  BY EmptySeq DEF FBInit
<1> QED BY <1>1, EntryIsBlock DEF FBInit, ScopeInv, Dominated, NestedScopes

LEMMA ScopesEnclosed ==
    ASSUME FBTypeOK, RootInv, ScopeInv
    PROVE  ScopesDominate
<1> SUFFICES ASSUME NEW i \in 1..Len(scopes), scopes[i] # Entry
             PROVE  chain[scopes[i]] \ {scopes[i]} \subseteq common[scopes[i]]
  BY DEF ScopesDominate
<1>1. Len(scopes) \in Nat /\ scopes[i] \in Block
  BY LenProperties, ElementOfSeq DEF FBTypeOK
<1>2. i \in 2..Len(scopes) /\ i - 1 \in 1..Len(scopes)
  <2>1. i # 1
    BY <1>1 DEF RootInv
  <2> QED BY <1>1, <2>1
<1>3. /\ chain[scopes[i]] = {scopes[k] : k \in 1..i}
      /\ chain[scopes[i - 1]] = {scopes[k] : k \in 1..(i - 1)}
      /\ parent[scopes[i]] = scopes[i - 1]
  BY <1>2 DEF ScopeInv, NestedScopes
<1>4. chain[scopes[i]] \ {scopes[i]} \subseteq chain[scopes[i - 1]]
  <2>1. \A k \in 1..i : k = i \/ k \in 1..(i - 1)
    BY <1>1
  <2> QED BY <1>3, <2>1
<1>5. scopes[i - 1] # NoBlock
  BY <1>2, ElementOfSeq, NoBlockIsNoBlock DEF FBTypeOK
<1>6. chain[scopes[i - 1]] \subseteq common[scopes[i]]
  BY <1>1, <1>3, <1>5 DEF ScopeInv, Dominated
<1> QED BY <1>4, <1>6

(* A client with one builder alive at a time that switches to a block at   *)
(* most once, does not move a block to another parent and stops at the     *)
(* first error: a variable visible in a block that is being built is       *)
(* visible at every jump to the block, so no path of the program enters    *)
(* its scope without passing its owner.                                    *)
THEOREM ScopesSafe ==
    /\ MaxNest <= 1 /\ SwitchOnce = TRUE
    /\ OneParent = TRUE /\ ContinueAfterError = FALSE
    => (FBSpec => []ScopesDominate)
<1> SUFFICES ASSUME MaxNest <= 1, SwitchOnce = TRUE, OneParent = TRUE,
                    ContinueAfterError = FALSE
             PROVE  FBSpec => []ScopesDominate
  OBVIOUS
<1> DEFINE Inv == OwnershipInv /\ LifetimeInv /\ NestInv /\ RootInv /\ ScopeInv
<1>1. FBInit => Inv
  BY OwnershipInit, LifetimeInit, NestInit, RootInit, ScopeInit
<1>2. Inv /\ [FBNext]_vars => Inv'
  <2>1. OwnershipInv => FBTypeOK
    BY DEF OwnershipInv
  <2> QED BY <2>1, OwnershipStep, LifetimeStep, NestStep, RootStep, ScopeStep
<1>3. Inv => ScopesDominate
  BY ScopesEnclosed DEF OwnershipInv
<1> QED BY <1>1, <1>2, <1>3, PTL DEF FBSpec

=============================================================================
