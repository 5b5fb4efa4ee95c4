--------------------------- MODULE AllocatorProofs ---------------------------
(***************************************************************************)
(* The three slabs of the code implement the promise of AllocatorSpec, for *)
(* every number of registers and every slot limit.                         *)
(***************************************************************************)
EXTENDS Allocator, FunctionTheorems, FiniteSetTheorems, SequenceTheorems, TLAPS

-----------------------------------------------------------------------------

(* A slab that has nothing vacant is filled from 0; otherwise the next key *)
(* is a vacant one below its size.                                         *)
LEMMA SlabNext ==
    ASSUME NEW slab, WellFormed(slab)
    PROVE  /\ NextKey(slab) \in Nat /\ NextKey(slab) \notin Occupied(slab)
           /\ slab.size \in Nat /\ Occupied(slab) \subseteq 0..(slab.size - 1)
           /\ slab.free = <<>> => /\ NextKey(slab) = slab.size
                                  /\ Occupied(slab) = 0..(slab.size - 1)
           /\ slab.free # <<>> => NextKey(slab) < slab.size
<1> DEFINE free == slab.free
           size == slab.size
<1>1. /\ size \in Nat /\ free \in Seq(0..(size - 1))
      /\ Occupied(slab) = (0..(size - 1)) \ {free[i] : i \in 1..Len(free)}
  BY DEF WellFormed
<1>2. CASE free = <<>>
  <2>1. Len(free) = 0
    BY <1>2, EmptySeq
  <2>2. Occupied(slab) = 0..(size - 1)
    BY <1>1, <2>1
  <2> QED BY <1>1, <1>2, <2>2 DEF NextKey
<1>3. CASE free # <<>>
  <2>1. Len(free) \in Nat \ {0} /\ Head(free) = free[1]
    BY <1>1, <1>3, EmptySeq, LenProperties
  <2>2. Head(free) \in 0..(size - 1)
    BY <1>1, <1>3, HeadTailProperties
  <2>3. Head(free) \notin Occupied(slab)
    BY <1>1, <2>1
  <2> QED BY <1>1, <1>3, <2>2, <2>3 DEF NextKey
<1> QED BY <1>2, <1>3

LEMMA SlabInsert ==
    ASSUME NEW slab, WellFormed(slab), NEW v
    PROVE  /\ WellFormed(Insert(slab, v))
           /\ Insert(slab, v).val = [k \in Occupied(slab) \cup {NextKey(slab)} |->
                                        IF k = NextKey(slab) THEN v ELSE slab.val[k]]
           /\ Insert(slab, v).size =
                 IF slab.free = <<>> THEN slab.size + 1 ELSE slab.size
<1> DEFINE free == slab.free
           size == slab.size
           new  == Insert(slab, v)
<1>1. /\ size \in Nat /\ free \in Seq(0..(size - 1)) /\ Len(free) \in Nat
      /\ \A i, j \in 1..Len(free) : free[i] = free[j] => i = j
      /\ Occupied(slab) = (0..(size - 1)) \ {free[i] : i \in 1..Len(free)}
  BY LenProperties DEF WellFormed
<1>2. /\ new.val = [k \in Occupied(slab) \cup {NextKey(slab)} |->
                      IF k = NextKey(slab) THEN v ELSE slab.val[k]]
      /\ new.free = IF free = <<>> THEN <<>> ELSE Tail(free)
      /\ new.size = IF free = <<>> THEN size + 1 ELSE size
  BY DEF Insert
<1>3. Occupied(new) = Occupied(slab) \cup {NextKey(slab)}
  BY <1>2 DEF Occupied
<1> HIDE DEF new
<1>4. ASSUME free = <<>> PROVE WellFormed(new)
  <2>1. new.free = <<>> /\ Len(new.free) = 0 /\ new.size = size + 1
    BY <1>2, <1>4, EmptySeq
  <2>2. new.free \in Seq(0..(new.size - 1))
    BY <2>1, EmptySeq
  <2>3. Occupied(new) = 0..size
    <3>1. NextKey(slab) = size /\ Occupied(slab) = 0..(size - 1)
      BY <1>4, SlabNext
    <3>2. 0..size = (0..(size - 1)) \cup {size}
      BY <1>1
    <3> QED BY <1>3, <3>1, <3>2
  <2>4. Occupied(new) = (0..(new.size - 1)) \ {new.free[i] : i \in 1..Len(new.free)}
    BY <1>1, <2>1, <2>3
  <2> QED BY <1>1, <1>2, <2>1, <2>2, <2>4 DEF WellFormed
<1>5. ASSUME free # <<>> PROVE WellFormed(new)
  <2>1. /\ new.free = Tail(free) /\ new.size = size
        /\ NextKey(slab) = free[1]
        /\ Len(free) \in Nat \ {0}
    BY <1>1, <1>2, <1>5, EmptySeq DEF NextKey
  <2>2. /\ new.free \in Seq(0..(size - 1)) /\ Len(new.free) = Len(free) - 1
        /\ \A i \in 1..Len(new.free) : new.free[i] = free[i + 1]
    <3> DEFINE K == 0..(size - 1)
    <3>1. free \in Seq(K)
      BY <1>1
    <3> HIDE DEF K
    <3>2. /\ Tail(free) \in Seq(K) /\ Len(Tail(free)) = Len(free) - 1
          /\ \A i \in 1..Len(Tail(free)) : Tail(free)[i] = free[i + 1]
      BY <1>5, <3>1, HeadTailProperties, Zenon
    <3> QED BY <2>1, <3>2 DEF K
  <2>3. \A i \in 1..Len(new.free) : i + 1 \in 1..Len(free) /\ i + 1 # 1
    BY <2>1, <2>2
  <2>4. \A i \in 1..Len(free) : i = 1 \/ (i - 1 \in 1..Len(new.free) /\ (i - 1) + 1 = i)
    BY <2>1, <2>2
  <2>5. \A i, j \in 1..Len(new.free) : new.free[i] = new.free[j] => i = j
    <3> SUFFICES ASSUME NEW i \in 1..Len(new.free), NEW j \in 1..Len(new.free),
                        new.free[i] = new.free[j]
                 PROVE  i = j
      OBVIOUS
    <3>1. free[i + 1] = free[j + 1]
      BY <2>2
    <3>2. i + 1 = j + 1
      BY <1>1, <2>3, <3>1
    <3> QED BY <3>2
  <2>6. \A k : (\E i \in 1..Len(free) : free[i] = k) <=>
                  k = free[1] \/ \E i \in 1..Len(new.free) : new.free[i] = k
    <3>1. 1 \in 1..Len(free)
      BY <2>1
    <3>2. \A i \in 1..Len(free) : i = 1 \/ new.free[i - 1] = free[i]
      BY <2>2, <2>4
    <3>3. ASSUME NEW k, NEW i \in 1..Len(free), free[i] = k
          PROVE  k = free[1] \/ \E j \in 1..Len(new.free) : new.free[j] = k
      BY <2>4, <3>2, <3>3
    <3>4. ASSUME NEW k, k = free[1] \/ \E i \in 1..Len(new.free) : new.free[i] = k
          PROVE  \E j \in 1..Len(free) : free[j] = k
      BY <2>2, <2>3, <3>1, <3>4
    <3> QED BY <3>3, <3>4
  <2>7. \A i \in 1..Len(new.free) : new.free[i] # free[1]
    <3>1. 1 \in 1..Len(free)
      BY <2>1
    <3> QED BY <1>1, <2>2, <2>3, <3>1
  <2>8. free[1] \in 0..(size - 1)
    BY <1>1, <1>5, HeadTailProperties
  <2>9. Occupied(new) = (0..(new.size - 1)) \ {new.free[i] : i \in 1..Len(new.free)}
    <3>1. \A k : k \in {free[i] : i \in 1..Len(free)} <=>
                     k = free[1] \/ k \in {new.free[i] : i \in 1..Len(new.free)}
      BY <2>6
    <3>2. free[1] \notin {new.free[i] : i \in 1..Len(new.free)}
      BY <2>7
    <3> DEFINE first == free[1]
               old == {free[i] : i \in 1..Len(free)}
               rest == {new.free[i] : i \in 1..Len(new.free)}
               all == 0..(size - 1)
    <3>3. /\ \A k : k \in old <=> k = first \/ k \in rest
          /\ first \notin rest /\ first \in all
          /\ Occupied(slab) = all \ old
          /\ Occupied(new) = Occupied(slab) \cup {first}
      BY <1>1, <1>3, <2>1, <2>8, <3>1, <3>2
    <3>4. 0..(new.size - 1) = all
      BY <2>1
    <3> HIDE DEF first, old, rest, all
    <3>5. Occupied(new) = all \ rest
      BY <3>3
    <3> QED BY <3>4, <3>5 DEF rest
  <2> QED BY <1>1, <1>2, <2>1, <2>2, <2>5, <2>9 DEF WellFormed
<1>6. WellFormed(new)
  BY <1>4, <1>5
<1> QED BY <1>2, <1>6 DEF new

LEMMA SlabRemove ==
    ASSUME NEW slab, WellFormed(slab), NEW key \in Occupied(slab)
    PROVE  /\ WellFormed(RemoveKey(slab, key))
           /\ RemoveKey(slab, key).val = [k \in Occupied(slab) \ {key} |-> slab.val[k]]
           /\ RemoveKey(slab, key).size = slab.size
<1> DEFINE free == slab.free
           size == slab.size
           new  == RemoveKey(slab, key)
<1>1. /\ size \in Nat /\ free \in Seq(0..(size - 1)) /\ Len(free) \in Nat
      /\ \A i, j \in 1..Len(free) : free[i] = free[j] => i = j
      /\ Occupied(slab) = (0..(size - 1)) \ {free[i] : i \in 1..Len(free)}
  BY LenProperties DEF WellFormed
<1>2. /\ new.val = [k \in Occupied(slab) \ {key} |-> slab.val[k]]
      /\ new.free = <<key>> \o free
      /\ new.size = size
  BY DEF RemoveKey
<1>3. Occupied(new) = Occupied(slab) \ {key}
  BY <1>2 DEF Occupied
<1> HIDE DEF new
<1>4. key \in 0..(size - 1) /\ \A i \in 1..Len(free) : free[i] # key
  BY <1>1
<1>5. /\ new.free \in Seq(0..(size - 1)) /\ Len(new.free) = Len(free) + 1
      /\ new.free[1] = key
      /\ \A i \in 1..Len(free) : new.free[i + 1] = free[i]
  <2>1. /\ <<key>> \in Seq(0..(size - 1)) /\ Len(<<key>>) = 1 /\ <<key>>[1] = key
    BY <1>4
  <2>2. /\ new.free \in Seq(0..(size - 1)) /\ Len(new.free) = 1 + Len(free)
        /\ \A i \in 1..(1 + Len(free)) :
              new.free[i] = IF i <= 1 THEN <<key>>[i] ELSE free[i - 1]
    BY <1>1, <1>2, <2>1, ConcatProperties
  <2>3. new.free[1] = key
    <3>1. 1 \in 1..(1 + Len(free)) /\ 1 <= 1
      BY <1>1
    <3> QED BY <2>1, <2>2, <3>1
  <2>4. ASSUME NEW i \in 1..Len(free) PROVE new.free[i + 1] = free[i]
    <3>1. i + 1 \in 1..(1 + Len(free)) /\ ~ (i + 1 <= 1) /\ (i + 1) - 1 = i
      BY <1>1
    <3> QED BY <2>2, <3>1
  <2> QED BY <1>1, <2>2, <2>3, <2>4
<1>6. \A i \in 1..Len(new.free) : i = 1 \/ (i - 1 \in 1..Len(free) /\ (i - 1) + 1 = i)
  BY <1>1, <1>5
<1>7. \A i \in 1..Len(new.free) : i = 1 \/ new.free[i] = free[i - 1]
  BY <1>5, <1>6
<1>8. \A i, j \in 1..Len(new.free) : new.free[i] = new.free[j] => i = j
  <2> SUFFICES ASSUME NEW i \in 1..Len(new.free), NEW j \in 1..Len(new.free),
                      new.free[i] = new.free[j]
               PROVE  i = j
    OBVIOUS
  <2>1. CASE i = 1 \/ j = 1
    <3>1. ASSUME NEW k \in 1..Len(new.free), k # 1 PROVE new.free[k] # new.free[1]
      BY <3>1, <1>4, <1>5, <1>6, <1>7
    <3> QED BY <2>1, <3>1
  <2>2. CASE i # 1 /\ j # 1
    <3>1. i - 1 = j - 1
      BY <2>2, <1>1, <1>6, <1>7
    <3> QED BY <3>1
  <2> QED BY <2>1, <2>2
<1>9. \A k : (\E i \in 1..Len(new.free) : new.free[i] = k) <=>
                k = key \/ \E i \in 1..Len(free) : free[i] = k
  <2>1. 1 \in 1..Len(new.free) /\ \A i \in 1..Len(free) : i + 1 \in 1..Len(new.free)
    BY <1>1, <1>5
  <2>2. ASSUME NEW k, NEW i \in 1..Len(new.free), new.free[i] = k
        PROVE  k = key \/ \E j \in 1..Len(free) : free[j] = k
    BY <1>5, <1>6, <1>7, <2>2
  <2>3. ASSUME NEW k, k = key \/ \E i \in 1..Len(free) : free[i] = k
        PROVE  \E j \in 1..Len(new.free) : new.free[j] = k
    <3>1. CASE k = key
      BY <1>5, <2>1, <3>1
    <3>2. CASE \E i \in 1..Len(free) : free[i] = k
      <4>1. PICK i \in 1..Len(free) : free[i] = k
        BY <3>2
      <4>2. i + 1 \in 1..Len(new.free) /\ new.free[i + 1] = k
        BY <1>5, <2>1, <4>1
      <4> QED BY <4>2
    <3> QED BY <2>3, <3>1, <3>2
  <2> QED BY <2>2, <2>3
<1>10. Occupied(new) = (0..(size - 1)) \ {new.free[i] : i \in 1..Len(new.free)}
  <2>1. \A k : k \in {new.free[i] : i \in 1..Len(new.free)} <=>
                   k = key \/ k \in {free[i] : i \in 1..Len(free)}
    BY <1>9
  <2> HIDE DEF free, size
  <2> QED BY <1>1, <1>3, <2>1
<1>11. WellFormed(new)
  BY <1>1, <1>2, <1>5, <1>8, <1>10 DEF WellFormed
<1> QED BY <1>2, <1>11 DEF new

-----------------------------------------------------------------------------

(* The inductive invariant: the slabs are well formed and mirror each      *)
(* other, the register slab keeps its size, and the frame is as large as   *)
(* the stack slab.                                                         *)
SlabInv ==
    /\ WellFormed(slots) /\ WellFormed(registers) /\ WellFormed(stackSlots)
    /\ registers.size = Regs
    /\ slots.size <= U16Max
    /\ stackSlots.size = stackSize /\ stackSize <= U16Max
    /\ slots.val \in [Occupied(slots) -> Abstract!Location]
    /\ SlabsMirror
    /\ peak \in 0..U16Max /\ dropped \in BOOLEAN

LEMMA LocationKinds ==
    /\ \A i, j : Stack(i) = Stack(j) => i = j
    /\ \A i, j : Register(i) = Register(j) => i = j
    /\ \A i, j : Register(i) # Stack(j)
    /\ \A i : /\ Register(i).kind = "Register" /\ Register(i).index = i
              /\ Stack(i).kind = "Stack" /\ Stack(i).index = i
<1>1. \A i : /\ Register(i).kind = "Register" /\ Register(i).index = i
            /\ Stack(i).kind = "Stack" /\ Stack(i).index = i
  BY SMT DEF Register, Stack, Abstract!Register, Abstract!Stack
<1> QED BY <1>1

LEMMA LocationIs ==
    ASSUME NEW l \in Abstract!Location
    PROVE  \/ l.kind = "Register" /\ l = Register(l.index) /\ l.index \in 0..(Regs - 1)
           \/ l.kind = "Stack" /\ l = Stack(l.index) /\ l.index \in 0..(U16Max - 1)
<1>1. CASE l \in Abstract!Registers
  <2>1. PICK i \in 0..(Regs - 1) : l = Register(i)
    BY <1>1 DEF Abstract!Registers, Register
  <2> QED BY <2>1, LocationKinds
<1>2. CASE l \in Abstract!StackBelow(U16Max)
  <2>1. PICK i \in 0..(U16Max - 1) : l = Stack(i)
    BY <1>2 DEF Abstract!StackBelow, Stack
  <2> QED BY <2>1, LocationKinds
<1> QED BY <1>1, <1>2 DEF Abstract!Location

(* A slab is finite.                                                       *)
LEMMA SlabFinite ==
    ASSUME NEW slab, WellFormed(slab)
    PROVE  /\ IsFiniteSet(Occupied(slab)) /\ SlabLen(slab) \in Nat
           /\ slab.free = <<>> => SlabLen(slab) = slab.size
<1>1. slab.size \in Nat /\ Occupied(slab) \subseteq 0..(slab.size - 1)
  BY SlabNext
<1>2. /\ IsFiniteSet(0..(slab.size - 1))
      /\ Cardinality(0..(slab.size - 1)) = slab.size
  <2>1. 0 \in Int /\ slab.size - 1 \in Int
    BY <1>1
  <2>2. /\ IsFiniteSet(0..(slab.size - 1))
        /\ Cardinality(0..(slab.size - 1)) =
             IF 0 > slab.size - 1 THEN 0 ELSE (slab.size - 1) - 0 + 1
    BY <2>1, FS_Interval
  <2>3. (IF 0 > slab.size - 1 THEN 0 ELSE (slab.size - 1) - 0 + 1) = slab.size
    BY <1>1
  <2> QED BY <2>2, <2>3
<1>3. IsFiniteSet(Occupied(slab))
  BY <1>1, <1>2, FS_Subset
<1>4. slab.free = <<>> => Occupied(slab) = 0..(slab.size - 1)
  BY SlabNext
<1> QED BY <1>2, <1>3, <1>4, FS_CardinalityType DEF SlabLen

(* No more stack slots are in use than there are live values.              *)
LEMMA StackFewer ==
    ASSUME SlabInv
    PROVE  SlabLen(stackSlots) <= SlabLen(slots)
<1> DEFINE spilled == {t \in Occupied(slots) : slots.val[t].kind = "Stack"}
           f == [t \in spilled |-> slots.val[t].index]
<1>1. Occupied(stackSlots) = {slots.val[t].index : t \in spilled}
  BY DEF SlabInv, SlabsMirror, Numbers
<1>2. f \in Surjection(spilled, Occupied(stackSlots))
  BY <1>1 DEF Surjection
<1>3. IsFiniteSet(Occupied(slots))
  BY SlabFinite DEF SlabInv
<1>4. IsFiniteSet(spilled) /\ Cardinality(spilled) <= Cardinality(Occupied(slots))
  BY <1>3, FS_Subset
<1>5. Cardinality(Occupied(stackSlots)) <= Cardinality(spilled)
  BY <1>2, <1>4, FS_Surjection
<1>6. /\ Cardinality(Occupied(stackSlots)) \in Nat /\ Cardinality(spilled) \in Nat
      /\ Cardinality(Occupied(slots)) \in Nat
  BY <1>3, <1>4, SlabFinite, FS_CardinalityType DEF SlabInv, SlabLen
<1> HIDE DEF spilled
<1> QED BY <1>4, <1>5, <1>6 DEF SlabLen

LEMMA SmallAsU16 ==
    ASSUME NEW n \in 0..U16Max
    PROVE  AsU16(n) = n
<1> QED BY U16MaxAssumption DEF AsU16

(* The numbers the slabs hand out fit, so no cast loses one.               *)
LEMMA NumbersFit ==
    ASSUME SlabInv, HasRoom
    PROVE  /\ NextKey(slots) \in 0..(U16Max - 1)
           /\ slots.free = <<>> => slots.size + 1 <= U16Max
           /\ RegisterFree => /\ NextKey(registers) \in 0..(Regs - 1)
                              /\ registers.free # <<>>
           /\ NextKey(stackSlots) \in 0..(U16Max - 1)
<1>1. /\ WellFormed(slots) /\ WellFormed(registers) /\ WellFormed(stackSlots)
      /\ registers.size = Regs /\ slots.size <= U16Max
      /\ stackSlots.size = stackSize /\ stackSize <= U16Max
      /\ U16Max \in Nat
  BY U16MaxAssumption DEF SlabInv
<1>2. SlabLen(slots) < U16Max /\ SlabLen(slots) \in Nat
  BY <1>1, SlabFinite DEF HasRoom
<1>3. NextKey(slots) \in 0..(U16Max - 1) /\ (slots.free = <<>> => slots.size + 1 <= U16Max)
  <2>1. /\ slots.size \in Nat /\ NextKey(slots) \in Nat
        /\ slots.free = <<>> => NextKey(slots) = slots.size /\ SlabLen(slots) = slots.size
        /\ slots.free # <<>> => NextKey(slots) < slots.size
    BY <1>1, SlabNext, SlabFinite
  <2> QED BY <2>1, <1>1, <1>2
<1>4. ASSUME RegisterFree
      PROVE  NextKey(registers) \in 0..(Regs - 1) /\ registers.free # <<>>
  <2>1. /\ SlabLen(registers) < Regs /\ SlabLen(registers) \in Nat
        /\ registers.free = <<>> => SlabLen(registers) = registers.size
    BY <1>1, <1>4, SlabFinite DEF RegisterFree
  <2>2. registers.free # <<>>
    BY <1>1, <2>1, RegsAssumption
  <2>3. NextKey(registers) \in Nat /\ NextKey(registers) < registers.size
    BY <1>1, <2>2, SlabNext
  <2> QED BY <1>1, <2>2, <2>3, RegsAssumption
<1>5. NextKey(stackSlots) \in 0..(U16Max - 1)
  <2>1. /\ stackSlots.size \in Nat /\ NextKey(stackSlots) \in Nat
        /\ stackSlots.free = <<>> =>
              NextKey(stackSlots) = stackSlots.size /\ SlabLen(stackSlots) = stackSlots.size
        /\ stackSlots.free # <<>> => NextKey(stackSlots) < stackSlots.size
    BY <1>1, SlabNext, SlabFinite
  <2>2. SlabLen(stackSlots) <= SlabLen(slots)
    BY StackFewer
  <2> QED BY <2>1, <2>2, <1>1, <1>2
<1> QED BY <1>3, <1>4, <1>5

-----------------------------------------------------------------------------

(* Entering a location that no live value has.                             *)
LEMMA GiveFacts ==
    ASSUME SlabInv, HasRoom, NEW l \in Abstract!Location,
           \A t \in Occupied(slots) : slots.val[t] # l,
           Give(l)
    PROVE  /\ WellFormed(slots)' /\ (slots.size <= U16Max)'
           /\ slots'.val \in [Occupied(slots)' -> Abstract!Location]
           /\ values' = Occupied(slots)'
           /\ Abstract!DistinctLocations'
           /\ \A kind : Numbers(kind)' =
                 IF kind = l.kind THEN Numbers(kind) \cup {l.index} ELSE Numbers(kind)
           /\ \E s \in Abstract!Slot \ Occupied(slots) :
                 slots'.val = [t \in Occupied(slots) \cup {s} |->
                                  IF t = s THEN l ELSE slots.val[t]]
           /\ peak' = Abstract!Larger(peak, SlabLen(slots) + 1)
<1> DEFINE s == NextKey(slots)
<1>1. /\ WellFormed(slots) /\ slots.size <= U16Max
      /\ slots.val \in [Occupied(slots) -> Abstract!Location]
      /\ values = Occupied(slots) /\ Abstract!DistinctLocations
  BY DEF SlabInv, SlabsMirror
<1>2. /\ s \in 0..(U16Max - 1) /\ s \notin Occupied(slots)
      /\ slots.free = <<>> => slots.size + 1 <= U16Max
  BY <1>1, NumbersFit, SlabNext
<1>3. AsU16(s) = s
  <2>1. s \in 0..U16Max
    BY <1>2, U16MaxAssumption
  <2> QED BY <2>1, SmallAsU16
<1>4. /\ slots' = Insert(slots, l) /\ values' = values \cup {s}
      /\ peak' = Abstract!Larger(peak, SlabLen(slots) + 1)
  BY <1>3 DEF Give
<1>5. /\ WellFormed(slots)'
      /\ slots'.val = [t \in Occupied(slots) \cup {s} |-> IF t = s THEN l ELSE slots.val[t]]
      /\ slots'.size = IF slots.free = <<>> THEN slots.size + 1 ELSE slots.size
  <2>1. /\ WellFormed(Insert(slots, l))
        /\ Insert(slots, l).val = [t \in Occupied(slots) \cup {s} |->
                                     IF t = s THEN l ELSE slots.val[t]]
        /\ Insert(slots, l).size =
              IF slots.free = <<>> THEN slots.size + 1 ELSE slots.size
    BY <1>1, SlabInsert
  <2>2. WellFormed(slots')
    BY <1>4, <2>1
  <2> HIDE DEF s
  <2>3. WellFormed(slots)'
    BY <2>2 DEF WellFormed, Occupied
  <2> QED BY <1>4, <2>1, <2>3
<1> HIDE DEF s
<1>6. Occupied(slots)' = Occupied(slots) \cup {s}
  BY <1>5 DEF Occupied
<1>7. (slots.size <= U16Max)'
  BY <1>1, <1>2, <1>5
<1>8. slots'.val \in [Occupied(slots)' -> Abstract!Location]
  BY <1>1, <1>5, <1>6
<1>9. Abstract!DistinctLocations'
  BY <1>1, <1>2, <1>5 DEF Abstract!DistinctLocations, Occupied
<1>10. \A kind : Numbers(kind)' =
          IF kind = l.kind THEN Numbers(kind) \cup {l.index} ELSE Numbers(kind)
  BY <1>2, <1>5, <1>6 DEF Numbers
<1> QED BY <1>1, <1>2, <1>4, <1>5, <1>6, <1>7, <1>8, <1>9, <1>10 DEF Abstract!Slot

LEMMA SameCardinality == \A S : Abstract!Cardinality(S) = Cardinality(S)
<1> QED BY DEF Abstract!Cardinality, Cardinality

(* The abstract allocation, in terms of the slabs.                         *)
LEMMA AbstractAllocation ==
    ASSUME HasRoom, NEW s \in Abstract!Slot \ Occupied(slots),
           NEW l \in Abstract!Candidates,
           slots'.val = [t \in Occupied(slots) \cup {s} |->
                            IF t = s THEN l ELSE slots.val[t]],
           stackSize' = IF l = Stack(stackSize) THEN stackSize + 1 ELSE stackSize,
           peak' = Abstract!Larger(peak, SlabLen(slots) + 1)
    PROVE  Abstract!Next
<1>1. /\ Cardinality(DOMAIN slots.val) < U16Max
      /\ s \in Abstract!Slot \ DOMAIN slots.val
      /\ slots'.val = [t \in DOMAIN slots.val \cup {s} |->
                          IF t = s THEN l ELSE slots.val[t]]
      /\ peak' = Abstract!Larger(peak, Cardinality(DOMAIN slots.val) + 1)
  BY DEF HasRoom, SlabLen, Occupied
<1>2. stackSize' = IF l = Abstract!Stack(stackSize) THEN stackSize + 1 ELSE stackSize
  BY DEF Stack
<1>3. Abstract!AllocateAt(s, l)
  BY <1>1, <1>2, SameCardinality DEF Abstract!AllocateAt
<1> QED BY <1>3 DEF Abstract!Next, Abstract!Allocate

LEMMA InUseIs ==
    ASSUME SlabInv
    PROVE  /\ \A i : Register(i) \in Abstract!InUse <=> i \in Occupied(registers)
           /\ \A i : Stack(i) \in Abstract!InUse <=> i \in Occupied(stackSlots)
<1>1. /\ slots.val \in [Occupied(slots) -> Abstract!Location]
      /\ Numbers("Register") = Occupied(registers)
      /\ Numbers("Stack") = Occupied(stackSlots)
  BY DEF SlabInv, SlabsMirror
<1>2. \A l : l \in Abstract!InUse <=> \E t \in Occupied(slots) : slots.val[t] = l
  BY DEF Abstract!InUse, Occupied
<1>3. \A t \in Occupied(slots) :
          \/ slots.val[t].kind = "Register" /\ slots.val[t] = Register(slots.val[t].index)
          \/ slots.val[t].kind = "Stack" /\ slots.val[t] = Stack(slots.val[t].index)
  BY <1>1, LocationIs
<1>4. \A i : i \in Numbers("Register") <=> \E t \in Occupied(slots) : slots.val[t] = Register(i)
  <2>1. \A t \in Occupied(slots) : \A i : slots.val[t] = Register(i) <=>
            slots.val[t].kind = "Register" /\ slots.val[t].index = i
    BY <1>3, LocationKinds
  <2> QED BY <2>1 DEF Numbers
<1>5. \A i : i \in Numbers("Stack") <=> \E t \in Occupied(slots) : slots.val[t] = Stack(i)
  <2>1. \A t \in Occupied(slots) : \A i : slots.val[t] = Stack(i) <=>
            slots.val[t].kind = "Stack" /\ slots.val[t].index = i
    BY <1>3, LocationKinds
  <2> QED BY <2>1 DEF Numbers
<1> QED BY <1>1, <1>2, <1>4, <1>5

-----------------------------------------------------------------------------

LEMMA InsertNumber ==
    ASSUME NEW slab, WellFormed(slab)
    PROVE  /\ WellFormed(Insert(slab, 0))
           /\ Occupied(Insert(slab, 0)) = Occupied(slab) \cup {NextKey(slab)}
           /\ Insert(slab, 0).size =
                 IF slab.free = <<>> THEN slab.size + 1 ELSE slab.size
<1> DEFINE new == Insert(slab, 0)
<1>1. /\ WellFormed(new)
      /\ new.val = [k \in Occupied(slab) \cup {NextKey(slab)} |->
                      IF k = NextKey(slab) THEN 0 ELSE slab.val[k]]
      /\ new.size = IF slab.free = <<>> THEN slab.size + 1 ELSE slab.size
  BY SlabInsert
<1> HIDE DEF new
<1>2. Occupied(new) = Occupied(slab) \cup {NextKey(slab)}
  BY <1>1 DEF Occupied
<1> QED BY <1>1, <1>2 DEF new

LEMMA LargerPeak ==
    ASSUME NEW p \in 0..U16Max, NEW n \in Nat, n < U16Max
    PROVE  Abstract!Larger(p, n + 1) \in 0..U16Max
<1> QED BY U16MaxAssumption DEF Abstract!Larger

(* When no register is free, none is vacant in the register slab.          *)
LEMMA RegistersUsedUp ==
    ASSUME SlabInv, ~ RegisterFree
    PROVE  Occupied(registers) = 0..(Regs - 1) /\ registers.free = <<>>
<1>1. /\ Occupied(registers) \subseteq 0..(Regs - 1) /\ SlabLen(registers) \in Nat
      /\ SlabLen(registers) >= Regs
  BY SlabNext, SlabFinite, RegsAssumption DEF SlabInv, RegisterFree
<1>2. IsFiniteSet(0..(Regs - 1)) /\ Cardinality(0..(Regs - 1)) = Regs
  BY FS_Interval, RegsAssumption
<1>3. SlabLen(registers) <= Regs
  BY <1>1, <1>2, FS_Subset DEF SlabLen
<1>4. Cardinality(Occupied(registers)) = Cardinality(0..(Regs - 1))
  BY <1>1, <1>2, <1>3, RegsAssumption DEF SlabLen
<1>5. Occupied(registers) = 0..(Regs - 1)
  BY <1>1, <1>2, <1>4, FS_Subset
<1>6. registers.free # <<>> =>
         NextKey(registers) \in 0..(Regs - 1) /\ NextKey(registers) \notin Occupied(registers)
  BY SlabNext, RegsAssumption DEF SlabInv
<1> QED BY <1>5, <1>6

LEMMA RegisterStep ==
    ASSUME Regs <= U16Max + 1, SlabInv, AllocateRegister
    PROVE  SlabInv' /\ Abstract!Next
<1> DEFINE i == NextKey(registers)
<1>1. /\ HasRoom /\ i \in 0..(Regs - 1) /\ i \notin Occupied(registers)
      /\ registers.free # <<>> /\ WellFormed(registers)
  BY NumbersFit, SlabNext DEF AllocateRegister, SlabInv
<1>2. AsU16(i) = i
  <2>1. i \in 0..U16Max
    BY <1>1, RegsAssumption, U16MaxAssumption
  <2> QED BY <2>1, SmallAsU16
<1>3. /\ registers' = Insert(registers, 0) /\ Give(Register(i))
      /\ UNCHANGED <<stackSlots, stackSize, dropped>>
  BY <1>2 DEF AllocateRegister, Give
<1>4. /\ WellFormed(registers') /\ Occupied(registers') = Occupied(registers) \cup {i}
      /\ registers'.size = registers.size
  BY <1>1, <1>3, InsertNumber
<1> HIDE DEF i
<1>5. Register(i) \in Abstract!Registers /\ Register(i) \notin Abstract!InUse
  BY <1>1, InUseIs DEF Abstract!Registers, Register
<1>6. /\ Register(i) \in Abstract!Location
      /\ \A t \in Occupied(slots) : slots.val[t] # Register(i)
  BY <1>5 DEF Abstract!Location, Abstract!InUse, Occupied
<1>7. /\ WellFormed(slots)' /\ (slots.size <= U16Max)'
      /\ slots'.val \in [Occupied(slots)' -> Abstract!Location]
      /\ values' = Occupied(slots)' /\ Abstract!DistinctLocations'
      /\ \A kind : Numbers(kind)' =
            IF kind = "Register" THEN Numbers(kind) \cup {i} ELSE Numbers(kind)
      /\ \E s \in Abstract!Slot \ Occupied(slots) :
            slots'.val = [t \in Occupied(slots) \cup {s} |->
                             IF t = s THEN Register(i) ELSE slots.val[t]]
      /\ peak' = Abstract!Larger(peak, SlabLen(slots) + 1)
  <2>1. \A kind : Numbers(kind)' =
            IF kind = Register(i).kind THEN Numbers(kind) \cup {Register(i).index} ELSE Numbers(kind)
    BY <1>1, <1>3, <1>6, GiveFacts
  <2>2. Register(i).kind = "Register" /\ Register(i).index = i
    BY LocationKinds
  <2>3. \A kind : Numbers(kind)' =
            IF kind = "Register" THEN Numbers(kind) \cup {i} ELSE Numbers(kind)
    BY <2>1, <2>2
  <2> QED BY <2>3, <1>1, <1>3, <1>6, GiveFacts
<1>8. SlabInv'
  <2>1. WellFormed(registers)' /\ Occupied(registers)' = Occupied(registers) \cup {i}
    BY <1>4 DEF WellFormed, Occupied
  <2>2. WellFormed(stackSlots)' /\ Occupied(stackSlots)' = Occupied(stackSlots)
    <3>1. WellFormed(stackSlots) /\ stackSlots' = stackSlots
      BY <1>3 DEF SlabInv
    <3>2. WellFormed(stackSlots)'
      BY <3>1
    <3> QED BY <3>1, <3>2 DEF Occupied
  <2>3. Numbers("Register")' = Occupied(registers)' /\ Numbers("Stack")' = Occupied(stackSlots)'
    BY <1>7, <2>1, <2>2 DEF SlabInv, SlabsMirror
  <2>4. peak' \in 0..U16Max
    BY <1>1, <1>7, LargerPeak, SlabFinite DEF SlabInv, HasRoom
  <2> QED BY <1>3, <1>4, <1>7, <2>1, <2>2, <2>3, <2>4 DEF SlabInv, SlabsMirror
<1>9. Register(i) \in Abstract!Candidates
  BY <1>5 DEF Abstract!Candidates, Abstract!FreeRegisters
<1>10. stackSize' = IF Register(i) = Stack(stackSize) THEN stackSize + 1 ELSE stackSize
  BY <1>3, LocationKinds
<1> QED BY <1>1, <1>7, <1>8, <1>9, <1>10, AbstractAllocation

(* Without a vacant register, the stack slab hands out a hole in the frame *)
(* if there is one, and otherwise the slot behind the frame.               *)
LEMMA StackStep ==
    ASSUME SlabInv, AllocateStack
    PROVE  SlabInv' /\ Abstract!Next
<1> DEFINE i == NextKey(stackSlots)
<1>1. /\ HasRoom /\ i \in 0..(U16Max - 1) /\ i \notin Occupied(stackSlots)
      /\ WellFormed(stackSlots) /\ stackSlots.size = stackSize /\ stackSize \in Nat
      /\ ~ RegisterFree /\ stackSize <= U16Max
  BY NumbersFit, SlabNext DEF AllocateStack, SlabInv
<1>2. AsU16(i + 1) = i + 1
  <2>1. i + 1 \in 0..U16Max
    BY <1>1, U16MaxAssumption
  <2> QED BY <2>1, SmallAsU16
<1>3. ~ (i > U16Max)
  BY <1>1, U16MaxAssumption
<1>4. /\ stackSlots' = Insert(stackSlots, 0) /\ Give(Stack(i))
      /\ stackSize' = Abstract!Larger(stackSize, i + 1)
      /\ UNCHANGED <<registers, dropped>>
  BY <1>2, <1>3 DEF AllocateStack, Give
<1>5. /\ WellFormed(stackSlots')
      /\ Occupied(stackSlots') = Occupied(stackSlots) \cup {i}
      /\ stackSlots'.size =
            IF stackSlots.free = <<>> THEN stackSlots.size + 1 ELSE stackSlots.size
  BY <1>1, <1>4, InsertNumber
<1>6. /\ stackSlots.free = <<>> => i = stackSize /\ Occupied(stackSlots) = 0..(stackSize - 1)
      /\ stackSlots.free # <<>> => i < stackSize
  BY <1>1, SlabNext
<1> HIDE DEF i
<1>7. /\ stackSize' = stackSlots'.size
      /\ stackSize' = IF i = stackSize THEN stackSize + 1 ELSE stackSize
      /\ i = stackSize <=> stackSlots.free = <<>>
  BY <1>1, <1>4, <1>5, <1>6 DEF Abstract!Larger
<1>8. stackSize' <= U16Max
  BY <1>1, <1>7, U16MaxAssumption
<1>9. Stack(i) \in Abstract!StackBelow(U16Max) /\ Stack(i) \notin Abstract!InUse
  BY <1>1, InUseIs DEF Abstract!StackBelow, Stack
<1>10. /\ Stack(i) \in Abstract!Location
       /\ \A t \in Occupied(slots) : slots.val[t] # Stack(i)
  BY <1>9 DEF Abstract!Location, Abstract!InUse, Occupied
<1>11. /\ WellFormed(slots)' /\ (slots.size <= U16Max)'
       /\ slots'.val \in [Occupied(slots)' -> Abstract!Location]
       /\ values' = Occupied(slots)' /\ Abstract!DistinctLocations'
       /\ \A kind : Numbers(kind)' =
             IF kind = "Stack" THEN Numbers(kind) \cup {i} ELSE Numbers(kind)
       /\ \E s \in Abstract!Slot \ Occupied(slots) :
             slots'.val = [t \in Occupied(slots) \cup {s} |->
                              IF t = s THEN Stack(i) ELSE slots.val[t]]
       /\ peak' = Abstract!Larger(peak, SlabLen(slots) + 1)
  <2>1. \A kind : Numbers(kind)' =
            IF kind = Stack(i).kind THEN Numbers(kind) \cup {Stack(i).index} ELSE Numbers(kind)
    BY <1>1, <1>4, <1>10, GiveFacts
  <2>2. Stack(i).kind = "Stack" /\ Stack(i).index = i
    BY LocationKinds
  <2>3. \A kind : Numbers(kind)' =
            IF kind = "Stack" THEN Numbers(kind) \cup {i} ELSE Numbers(kind)
    BY <2>1, <2>2
  <2> QED BY <2>3, <1>1, <1>4, <1>10, GiveFacts
<1>12. SlabInv'
  <2>1. WellFormed(stackSlots)' /\ Occupied(stackSlots)' = Occupied(stackSlots) \cup {i}
    BY <1>5 DEF WellFormed, Occupied
  <2>2. WellFormed(registers)' /\ Occupied(registers)' = Occupied(registers)
    <3>1. WellFormed(registers) /\ registers' = registers
      BY <1>4 DEF SlabInv
    <3>2. WellFormed(registers)'
      BY <3>1
    <3> QED BY <3>1, <3>2 DEF Occupied
  <2>3. Numbers("Register")' = Occupied(registers)' /\ Numbers("Stack")' = Occupied(stackSlots)'
    BY <1>11, <2>1, <2>2 DEF SlabInv, SlabsMirror
  <2>4. peak' \in 0..U16Max
    BY <1>1, <1>11, LargerPeak, SlabFinite DEF SlabInv, HasRoom
  <2> QED BY <1>4, <1>7, <1>8, <1>11, <2>1, <2>2, <2>3, <2>4 DEF SlabInv, SlabsMirror
<1>13. Abstract!FreeRegisters = {}
  <2>1. Occupied(registers) = 0..(Regs - 1)
    BY <1>1, RegistersUsedUp
  <2> QED BY <2>1, InUseIs DEF Abstract!FreeRegisters, Abstract!Registers, Register
<1>14. Stack(i) \in Abstract!Candidates
  <2>1. CASE stackSlots.free = <<>>
    <3>1. i = stackSize /\ Abstract!VacantStack = {}
      BY <2>1, <1>6, InUseIs DEF Abstract!VacantStack, Abstract!StackBelow, Stack
    <3> QED BY <1>13, <3>1 DEF Abstract!Candidates, Stack
  <2>2. CASE stackSlots.free # <<>>
    <3>1. i \in 0..(stackSize - 1)
      BY <1>1, <1>6, <2>2
    <3>2. Stack(i) \in Abstract!VacantStack
      BY <1>9, <3>1 DEF Abstract!VacantStack, Abstract!StackBelow, Stack
    <3> QED BY <1>13, <3>2 DEF Abstract!Candidates
  <2> QED BY <2>1, <2>2
<1>15. stackSize' = IF Stack(i) = Stack(stackSize) THEN stackSize + 1 ELSE stackSize
  BY <1>7, LocationKinds
<1> QED BY <1>1, <1>11, <1>12, <1>14, <1>15, AbstractAllocation

LEMMA DropIsAbstract ==
    ASSUME NEW v \in Occupied(slots), UNCHANGED <<stackSize, peak>>,
           slots'.val = [t \in Occupied(slots) \ {v} |-> slots.val[t]]
    PROVE  Abstract!Next
<1>1. {v} \in SUBSET DOMAIN slots.val
  BY DEF Occupied
<1>2. Abstract!DropAll({v})
  BY DEF Abstract!DropAll, Occupied
<1> QED BY <1>1, <1>2 DEF Abstract!Next, Abstract!Drop

LEMMA DropStep ==
    ASSUME SlabInv, NEW v \in values, Drop(v)
    PROVE  SlabInv' /\ Abstract!Next
<1> DEFINE l == slots.val[v]
<1>1. /\ WellFormed(slots) /\ v \in Occupied(slots) /\ values = Occupied(slots)
      /\ slots.val \in [Occupied(slots) -> Abstract!Location]
      /\ Abstract!DistinctLocations
      /\ Numbers("Register") = Occupied(registers)
      /\ Numbers("Stack") = Occupied(stackSlots)
  BY DEF SlabInv, SlabsMirror
<1>2. /\ slots' = RemoveKey(slots, v) /\ values' = values \ {v} /\ dropped' = TRUE
      /\ UNCHANGED <<stackSize, peak>>
  BY DEF Drop
<1>3. /\ WellFormed(slots') /\ slots'.size = slots.size
      /\ slots'.val = [t \in Occupied(slots) \ {v} |-> slots.val[t]]
  BY <1>1, <1>2, SlabRemove
<1>4. Occupied(slots)' = Occupied(slots) \ {v} /\ WellFormed(slots)'
  BY <1>3 DEF Occupied, WellFormed
<1>5. \A t \in Occupied(slots) \ {v} : ~ (slots.val[t].kind = l.kind /\ slots.val[t].index = l.index)
  <2>1. \A t \in Occupied(slots) :
          \/ slots.val[t].kind = "Register" /\ slots.val[t] = Register(slots.val[t].index)
          \/ slots.val[t].kind = "Stack" /\ slots.val[t] = Stack(slots.val[t].index)
    BY <1>1, LocationIs
  <2>2. \A t \in Occupied(slots) \ {v} : slots.val[t] # l
    BY <1>1 DEF Abstract!DistinctLocations, Occupied
  <2>3. \/ l.kind = "Register" /\ l = Register(l.index)
        \/ l.kind = "Stack" /\ l = Stack(l.index)
    BY <1>1, <2>1
  <2> HIDE DEF l
  <2>4. ASSUME NEW t \in Occupied(slots) \ {v},
               slots.val[t].kind = l.kind, slots.val[t].index = l.index
        PROVE  slots.val[t] = l
    BY <2>1, <2>3, <2>4
  <2> QED BY <2>2, <2>4
<1>6. \A kind : Numbers(kind)' =
         IF kind = l.kind THEN Numbers(kind) \ {l.index} ELSE Numbers(kind)
  BY <1>1, <1>3, <1>4, <1>5 DEF Numbers
<1>7. \/ l.kind = "Register" /\ l.index \in Occupied(registers)
      \/ l.kind = "Stack" /\ l.index \in Occupied(stackSlots)
  <2>1. l.kind = "Register" \/ l.kind = "Stack"
    BY <1>1, LocationIs
  <2> QED BY <1>1, <2>1 DEF Numbers
<1>8. slots'.val \in [Occupied(slots)' -> Abstract!Location]
  BY <1>1, <1>3, <1>4
<1>9. Abstract!DistinctLocations'
  BY <1>1, <1>3 DEF Abstract!DistinctLocations, Occupied
<1>10. CASE l.kind = "Register"
  <2>1. /\ registers' = RemoveKey(registers, l.index) /\ UNCHANGED stackSlots
        /\ l.index \in Occupied(registers)
    BY <1>7, <1>10 DEF Drop
  <2>2. /\ WellFormed(registers') /\ registers'.size = registers.size
        /\ registers'.val = [k \in Occupied(registers) \ {l.index} |-> registers.val[k]]
    BY <2>1, SlabRemove DEF SlabInv
  <2>3. WellFormed(registers)' /\ Occupied(registers)' = Occupied(registers) \ {l.index}
    BY <2>2 DEF WellFormed, Occupied
  <2>4. WellFormed(stackSlots)' /\ Occupied(stackSlots)' = Occupied(stackSlots)
    <3>1. WellFormed(stackSlots) /\ stackSlots' = stackSlots
      BY <2>1 DEF SlabInv
    <3>2. WellFormed(stackSlots)'
      BY <3>1
    <3> QED BY <3>1, <3>2 DEF Occupied
  <2>5. Numbers("Register")' = Occupied(registers)' /\ Numbers("Stack")' = Occupied(stackSlots)'
    BY <1>1, <1>6, <1>10, <2>3, <2>4
  <2> QED BY <1>1, <1>2, <1>3, <1>4, <1>8, <1>9, <2>1, <2>2, <2>3, <2>4, <2>5, DropIsAbstract
          DEF SlabInv, SlabsMirror
<1>11. CASE l.kind = "Stack"
  <2>1. /\ stackSlots' = RemoveKey(stackSlots, l.index) /\ UNCHANGED registers
        /\ l.index \in Occupied(stackSlots)
    BY <1>7, <1>11 DEF Drop
  <2>2. /\ WellFormed(stackSlots') /\ stackSlots'.size = stackSlots.size
        /\ stackSlots'.val = [k \in Occupied(stackSlots) \ {l.index} |-> stackSlots.val[k]]
    BY <2>1, SlabRemove DEF SlabInv
  <2>3. WellFormed(stackSlots)' /\ Occupied(stackSlots)' = Occupied(stackSlots) \ {l.index}
    BY <2>2 DEF WellFormed, Occupied
  <2>4. WellFormed(registers)' /\ Occupied(registers)' = Occupied(registers)
    <3>1. WellFormed(registers) /\ registers' = registers
      BY <2>1 DEF SlabInv
    <3>2. WellFormed(registers)'
      BY <3>1
    <3> QED BY <3>1, <3>2 DEF Occupied
  <2>5. Numbers("Register")' = Occupied(registers)' /\ Numbers("Stack")' = Occupied(stackSlots)'
    BY <1>1, <1>6, <1>11, <2>3, <2>4
  <2> QED BY <1>1, <1>2, <1>3, <1>4, <1>8, <1>9, <2>1, <2>2, <2>3, <2>4, <2>5, DropIsAbstract
          DEF SlabInv, SlabsMirror
<1> QED BY <1>7, <1>10, <1>11

-----------------------------------------------------------------------------

LEMMA PoolWellFormed ==
    WellFormed(RegisterPool) /\ Occupied(RegisterPool) = {} /\ RegisterPool.size = Regs
<1> DEFINE free == [i \in 1..Regs |-> i - 1]
<1>1. /\ RegisterPool.free = free /\ RegisterPool.size = Regs
      /\ Occupied(RegisterPool) = {}
  BY DEF RegisterPool, Occupied
<1>2. free \in Seq(0..(Regs - 1)) /\ Len(free) = Regs
  <2>1. \A i \in 1..Regs : i - 1 \in 0..(Regs - 1)
    BY RegsAssumption
  <2>2. free \in [1..Regs -> 0..(Regs - 1)]
    BY <2>1
  <2> QED BY <2>2, RegsAssumption, LenProperties
<1>3. \A i \in 1..Regs : free[i] = i - 1
  OBVIOUS
<1>4. \A i, j \in 1..Regs : free[i] = free[j] => i = j
  BY <1>3, RegsAssumption
<1>5. \A k \in 0..(Regs - 1) : \E i \in 1..Regs : free[i] = k
  <2> SUFFICES ASSUME NEW k \in 0..(Regs - 1) PROVE \E i \in 1..Regs : free[i] = k
    OBVIOUS
  <2>1. k + 1 \in 1..Regs /\ (k + 1) - 1 = k
    BY RegsAssumption
  <2> QED BY <1>3, <2>1
<1> HIDE DEF free
<1> QED BY <1>1, <1>2, <1>4, <1>5, RegsAssumption DEF WellFormed

LEMMA EmptyWellFormed ==
    /\ WellFormed(EmptySlab) /\ Occupied(EmptySlab) = {} /\ EmptySlab.size = 0
    /\ DOMAIN EmptySlab.val = {}
<1>1. /\ EmptySlab.free = <<>> /\ EmptySlab.size = 0 /\ DOMAIN EmptySlab.val = {}
  BY DEF EmptySlab
<1>2. Occupied(EmptySlab) = {}
  BY <1>1 DEF Occupied
<1>3. Len(EmptySlab.free) = 0 /\ EmptySlab.free \in Seq(0..(EmptySlab.size - 1))
  BY <1>1, EmptySeq
<1> QED BY <1>1, <1>2, <1>3 DEF WellFormed

LEMMA SlabInit == Init => SlabInv /\ Abstract!Init
<1> SUFFICES ASSUME Init PROVE SlabInv /\ Abstract!Init
  OBVIOUS
<1>1. /\ registers = RegisterPool /\ slots = EmptySlab /\ stackSlots = EmptySlab
      /\ stackSize = 0 /\ values = {} /\ peak = 0 /\ dropped = FALSE
  BY DEF Init
<1>2. Occupied(slots) = {} /\ DOMAIN slots.val = {} /\ slots.val = [k \in {} |-> 0]
  BY <1>1, EmptyWellFormed DEF EmptySlab
<1>3. Numbers("Register") = {} /\ Numbers("Stack") = {}
  BY <1>2 DEF Numbers
<1>4. SlabsMirror
  BY <1>1, <1>2, <1>3, EmptyWellFormed, PoolWellFormed
     DEF SlabsMirror, Abstract!DistinctLocations
<1>5. slots.val \in [Occupied(slots) -> Abstract!Location]
  BY <1>2
<1>6. SlabInv
  <2>1. WellFormed(slots) /\ WellFormed(registers) /\ WellFormed(stackSlots)
    BY <1>1, EmptyWellFormed, PoolWellFormed
  <2>2. registers.size = Regs /\ slots.size = 0 /\ stackSlots.size = 0
    BY <1>1, EmptyWellFormed, PoolWellFormed
  <2>3. slots.size <= U16Max /\ stackSize <= U16Max /\ peak \in 0..U16Max
    BY <1>1, <2>2, U16MaxAssumption
  <2> QED BY <1>1, <1>4, <1>5, <2>1, <2>2, <2>3 DEF SlabInv
<1>7. slots.val = [s \in {} |-> Abstract!Register(0)]
  BY <1>2
<1> QED BY <1>1, <1>6, <1>7 DEF Abstract!Init, Abstract!AllocatorInit

LEMMA SlabStep ==
    ASSUME Regs <= U16Max + 1, SlabInv, [Next]_vars
    PROVE  SlabInv' /\ [Abstract!Next]_(Abstract!allocVars)
<1>1. CASE AllocateRegister
  BY <1>1, RegisterStep
<1>2. CASE AllocateStack
  BY <1>2, StackStep
<1>3. CASE \E v \in values : Drop(v)
  BY <1>3, DropStep
<1>4. CASE UNCHANGED vars
  <2>1. UNCHANGED <<slots, registers, stackSlots, stackSize, values, peak, dropped>>
    BY <1>4 DEF vars
  <2>2. UNCHANGED Abstract!allocVars
    BY <2>1 DEF Abstract!allocVars
  <2>3. WellFormed(slots)' /\ WellFormed(registers)' /\ WellFormed(stackSlots)'
    <3>1. WellFormed(slots) /\ WellFormed(registers) /\ WellFormed(stackSlots)
      BY DEF SlabInv
    <3> QED BY <2>1, <3>1
  <2>4. /\ Occupied(slots)' = Occupied(slots) /\ Occupied(registers)' = Occupied(registers)
        /\ Occupied(stackSlots)' = Occupied(stackSlots)
    BY <2>1 DEF Occupied
  <2>5. Numbers("Register")' = Numbers("Register") /\ Numbers("Stack")' = Numbers("Stack")
    BY <2>1, <2>4 DEF Numbers
  <2>6. Abstract!DistinctLocations'
    BY <2>1 DEF SlabInv, SlabsMirror, Abstract!DistinctLocations
  <2>7. SlabsMirror'
    BY <2>1, <2>4, <2>5, <2>6 DEF SlabInv, SlabsMirror
  <2>8. (slots.val \in [Occupied(slots) -> Abstract!Location])'
    BY <2>1, <2>4 DEF SlabInv
  <2> QED BY <2>1, <2>2, <2>3, <2>7, <2>8 DEF SlabInv
<1> QED BY <1>1, <1>2, <1>3, <1>4 DEF Next

LEMMA SlabInvType == SlabInv => TypeOK /\ SlabsMirror
<1> SUFFICES ASSUME SlabInv PROVE TypeOK /\ SlabsMirror
  OBVIOUS
<1>1. values \subseteq 0..U16Max
  <2>1. slots.size \in Nat /\ values \subseteq 0..(slots.size - 1)
    BY SlabNext DEF SlabInv, SlabsMirror
  <2> QED BY <2>1, U16MaxAssumption DEF SlabInv
<1>2. stackSize \in 0..U16Max
  BY SlabNext, U16MaxAssumption DEF SlabInv
<1> QED BY <1>1, <1>2 DEF SlabInv, TypeOK

(* A Value that is live names an occupied slot, and the number slabs hold  *)
(* exactly the numbers in use, one value each: neither drop nor location   *)
(* of src/regs.rs can panic on it.  The registers must fit the u16 that    *)
(* numbers them.                                                           *)
THEOREM SlabsSafe ==
    Regs <= U16Max + 1 => (Spec => [](TypeOK /\ SlabsMirror))
<1> SUFFICES ASSUME Regs <= U16Max + 1 PROVE Spec => [](TypeOK /\ SlabsMirror)
  OBVIOUS
<1>1. SlabInv /\ [Next]_vars => SlabInv'
  BY SlabStep
<1>2. Init => SlabInv
  BY SlabInit
<1> QED BY <1>1, <1>2, SlabInvType, PTL DEF Spec

(* The allocator of src/regs.rs keeps the promise the managed builder is   *)
(* modelled with: every allocate takes a vacant register, else a vacant    *)
(* stack slot, else grows the frame by one; no free list ever hands out a  *)
(* location in use.                                                        *)
THEOREM SlabsImplement ==
    Regs <= U16Max + 1 => (Spec => ImplementsSpec)
<1> SUFFICES ASSUME Regs <= U16Max + 1 PROVE Spec => ImplementsSpec
  OBVIOUS
<1>1. Init => SlabInv /\ Abstract!Init
  BY SlabInit
<1>2. SlabInv /\ [Next]_vars => SlabInv' /\ [Abstract!Next]_(Abstract!allocVars)
  BY SlabStep
<1> QED BY <1>1, <1>2, PTL DEF Spec, ImplementsSpec, Abstract!Spec

-----------------------------------------------------------------------------

Filled == IF slots.size < Regs THEN slots.size ELSE Regs

(* What keeps the values in order until the first drop: no slab but the    *)
(* registers' has a vacant key, and the vacant registers are those the     *)
(* values have not reached, in order.                                      *)
OrderInv ==
    dropped \/ /\ slots.free = <<>> /\ stackSlots.free = <<>>
               /\ stackSlots.size = slots.size - Filled
               /\ Len(registers.free) = Regs - Filled
               /\ \A i \in 1..Len(registers.free) : registers.free[i] = Filled + i - 1
               /\ InOrderUntilDrop

LEMMA OrderInit == Init => OrderInv
<1> SUFFICES ASSUME Init PROVE OrderInv
  OBVIOUS
<1> DEFINE free == [i \in 1..Regs |-> i - 1]
<1>1. /\ registers.free = free /\ slots = EmptySlab /\ stackSlots = EmptySlab
  BY DEF Init, RegisterPool
<1>2. /\ slots.free = <<>> /\ slots.size = 0 /\ Occupied(slots) = {}
      /\ stackSlots.free = <<>> /\ stackSlots.size = 0
  BY <1>1, EmptyWellFormed DEF EmptySlab
<1>3. Filled = 0
  BY <1>2, RegsAssumption DEF Filled
<1>4. Len(free) = Regs
  <2>1. free \in [1..Regs -> Int]
    BY RegsAssumption
  <2> QED BY <2>1, RegsAssumption, LenProperties
<1>5. \A i \in 1..Regs : free[i] = 0 + i - 1
  BY RegsAssumption
<1> HIDE DEF free
<1>6. /\ Len(registers.free) = Regs - Filled
      /\ \A i \in 1..Len(registers.free) : registers.free[i] = Filled + i - 1
  BY <1>1, <1>3, <1>4, <1>5, RegsAssumption
<1> QED BY <1>2, <1>3, <1>6 DEF OrderInv, InOrderUntilDrop

(* While nothing is vacant among the slots, a location is entered at the   *)
(* end of the slots.                                                       *)
LEMMA GiveInOrder ==
    ASSUME SlabInv, HasRoom, NEW l, Give(l), slots.free = <<>>, InOrderUntilDrop, ~ dropped,
           l = IF slots.size < Regs THEN Register(slots.size)
                                    ELSE Stack(slots.size - Regs)
    PROVE  /\ slots'.free = <<>> /\ slots'.size = slots.size + 1
           /\ InOrderUntilDrop' /\ dropped' = dropped
<1>1. /\ WellFormed(slots) /\ slots.size \in Nat
  BY SlabNext DEF SlabInv
<1>2. NextKey(slots) = slots.size
  BY <1>1, SlabNext
<1>3. slots' = Insert(slots, l) /\ dropped' = dropped
  BY DEF Give
<1>4. /\ slots'.free = <<>> /\ slots'.size = slots.size + 1
      /\ slots'.val = [t \in Occupied(slots) \cup {slots.size} |->
                         IF t = slots.size THEN l ELSE slots.val[t]]
  BY <1>2, <1>3 DEF Insert
<1>5. InOrderUntilDrop'
  BY <1>4 DEF InOrderUntilDrop, Occupied
<1> QED BY <1>3, <1>4, <1>5

LEMMA OrderRegister ==
    ASSUME Regs <= U16Max + 1, SlabInv, OrderInv, AllocateRegister
    PROVE  OrderInv'
<1>1. CASE dropped
  BY <1>1 DEF AllocateRegister, Give, OrderInv
<1>2. CASE ~ dropped
  <2> DEFINE free == registers.free
  <2>1. /\ slots.free = <<>> /\ stackSlots.free = <<>> /\ InOrderUntilDrop
        /\ stackSlots.size = slots.size - Filled /\ Len(free) = Regs - Filled
        /\ \A i \in 1..Len(free) : free[i] = Filled + i - 1
    BY <1>2 DEF OrderInv
  <2>2. /\ HasRoom /\ free # <<>> /\ WellFormed(registers) /\ slots.size \in Nat
        /\ free \in Seq(0..(registers.size - 1))
    BY NumbersFit, SlabNext DEF AllocateRegister, SlabInv, WellFormed
  <2>3. Len(free) \in Nat \ {0} /\ NextKey(registers) = free[1]
    BY <2>2, EmptySeq, LenProperties DEF NextKey
  <2>4. Filled = slots.size /\ slots.size < Regs /\ NextKey(registers) = slots.size
    BY <2>1, <2>2, <2>3, RegsAssumption DEF Filled
  <2>5. AsU16(slots.size) = slots.size
    <3>1. slots.size \in 0..U16Max
      BY <2>2, <2>4, RegsAssumption, U16MaxAssumption
    <3> QED BY <3>1, SmallAsU16
  <2>6. /\ registers' = Insert(registers, 0) /\ Give(Register(slots.size))
        /\ stackSlots' = stackSlots
    BY <2>4, <2>5 DEF AllocateRegister
  <2>7. /\ slots'.free = <<>> /\ slots'.size = slots.size + 1
        /\ InOrderUntilDrop' /\ dropped' = dropped
    BY <1>2, <2>1, <2>2, <2>4, <2>6, GiveInOrder
  <2>8. /\ registers'.free = Tail(free) /\ Len(Tail(free)) = Len(free) - 1
        /\ \A i \in 1..Len(Tail(free)) : Tail(free)[i] = free[i + 1]
    <3>1. registers'.free = Tail(free)
      BY <2>2, <2>6 DEF Insert
    <3> DEFINE K == 0..(registers.size - 1)
    <3>2. free \in Seq(K)
      BY <2>2
    <3> HIDE DEF K, free
    <3> QED BY <3>1, <3>2, <2>2, HeadTailProperties DEF free
  <2>9. Filled' = slots.size + 1
    BY <2>2, <2>4, <2>7, RegsAssumption DEF Filled
  <2>10. /\ Len(registers'.free) = Regs - Filled'
         /\ \A i \in 1..Len(registers'.free) : registers'.free[i] = Filled' + i - 1
    <3> DEFINE rest == Tail(free)
               n == Len(rest)
    <3>1. n = Len(free) - 1 /\ n \in Nat /\ \A i \in 1..n : rest[i] = free[i + 1]
      BY <2>3, <2>8
    <3>2. \A i \in 1..n : rest[i] = Filled + (i + 1) - 1
      BY <2>1, <2>3, <3>1
    <3> HIDE DEF rest
    <3>3. registers'.free = rest
      BY <2>8 DEF rest
    <3> QED BY <2>1, <2>2, <2>4, <2>9, <3>1, <3>2, <3>3, RegsAssumption
  <2> QED BY <2>1, <2>2, <2>4, <2>6, <2>7, <2>9, <2>10 DEF OrderInv
<1> QED BY <1>1, <1>2

LEMMA OrderStack ==
    ASSUME SlabInv, OrderInv, AllocateStack
    PROVE  OrderInv'
<1>1. HasRoom /\ ~ RegisterFree /\ ~ (NextKey(stackSlots) > U16Max)
  BY NumbersFit, U16MaxAssumption DEF AllocateStack
<1>2. /\ stackSlots' = Insert(stackSlots, 0) /\ Give(Stack(NextKey(stackSlots)))
      /\ registers' = registers
  BY <1>1 DEF AllocateStack
<1>3. CASE dropped
  BY <1>2, <1>3 DEF Give, OrderInv
<1>4. CASE ~ dropped
  <2>1. /\ slots.free = <<>> /\ stackSlots.free = <<>> /\ InOrderUntilDrop
        /\ stackSlots.size = slots.size - Filled /\ Len(registers.free) = Regs - Filled
        /\ \A i \in 1..Len(registers.free) : registers.free[i] = Filled + i - 1
    BY <1>4 DEF OrderInv
  <2>2. Len(registers.free) = 0 /\ slots.size \in Nat
    BY <1>1, RegistersUsedUp, EmptySeq, SlabNext DEF SlabInv
  <2>3. Filled = Regs /\ ~ (slots.size < Regs)
    BY <2>1, <2>2, RegsAssumption DEF Filled
  <2>4. NextKey(stackSlots) = slots.size - Regs
    BY <2>1, <2>3 DEF NextKey
  <2>5. /\ slots'.free = <<>> /\ slots'.size = slots.size + 1
        /\ InOrderUntilDrop' /\ dropped' = dropped
    BY <1>1, <1>2, <1>4, <2>1, <2>3, <2>4, GiveInOrder
  <2>6. stackSlots'.free = <<>> /\ stackSlots'.size = stackSlots.size + 1
    BY <1>2, <2>1 DEF Insert
  <2>7. Filled' = Regs
    BY <2>2, <2>3, <2>5, RegsAssumption DEF Filled
  <2> QED BY <1>2, <2>1, <2>2, <2>3, <2>5, <2>6, <2>7, RegsAssumption DEF OrderInv
<1> QED BY <1>3, <1>4

LEMMA OrderStep ==
    ASSUME Regs <= U16Max + 1, SlabInv, OrderInv, [Next]_vars
    PROVE  OrderInv'
<1>1. CASE AllocateRegister
  BY <1>1, OrderRegister
<1>2. CASE AllocateStack
  BY <1>2, OrderStack
<1>3. CASE \E v \in values : Drop(v)
  BY <1>3 DEF Drop, OrderInv
<1>4. CASE UNCHANGED vars
  <2>1. UNCHANGED <<slots, registers, stackSlots, dropped>>
    BY <1>4 DEF vars
  <2> QED BY <2>1 DEF OrderInv, Filled, InOrderUntilDrop, Occupied
<1> QED BY <1>1, <1>2, <1>3, <1>4 DEF Next

(* Until the first drop, the i-th value allocated lives in register i, and *)
(* past the registers in consecutive stack slots: the parameters of an     *)
(* entry block are where the calling convention puts the arguments, for    *)
(* every number of registers the u16 can number.                           *)
THEOREM InOrder ==
    Regs <= U16Max + 1 => (Spec => []InOrderUntilDrop)
<1> SUFFICES ASSUME Regs <= U16Max + 1 PROVE Spec => []InOrderUntilDrop
  OBVIOUS
<1>1. Init => SlabInv /\ OrderInv
  BY SlabInit, OrderInit
<1>2. SlabInv /\ OrderInv /\ [Next]_vars => SlabInv' /\ OrderInv'
  BY SlabStep, OrderStep
<1>3. OrderInv => InOrderUntilDrop
  BY DEF OrderInv, InOrderUntilDrop
<1> QED BY <1>1, <1>2, <1>3, PTL DEF Spec

=============================================================================
