---------------------------- MODULE ManagedProofs ----------------------------
(***************************************************************************)
(* What the programs of the managed builder keep to, for any number of     *)
(* blocks, variables, registers, slots and stencils.  Building one is a    *)
(* behaviour of FunctionBuilder, so all that is proved there holds here.   *)
(* First frames and the ends of runs; then what variables are worth: all   *)
(* code finds a variable in one place, and while a run is in its scope     *)
(* nothing else is written there.                                          *)
(***************************************************************************)
EXTENDS ManagedProgram, FunctionBuilderProofs

LEMMA BuilderStep ==
    ASSUME [ManagedNext]_managedVars
    PROVE  [FBNext]_vars
<1>1. CASE NoCode
  BY <1>1 DEF NoCode, FBNext
<1>2. CASE BranchTo
  <2>1. PICK js \in UsedJumps :
          LET par == DeclareAll(parent, Self, js)
          IN  /\ MayBranch(par)
              /\ \/ Branch(js, par)
                 \/ \E next \in Created : EndBranch(js, par, next)
    BY <1>2 DEF BranchTo
  <2>2. Active /\ js \in Jumps
    BY <1>2 DEF BranchTo, UsedJumps
  <2> QED BY <2>1, <2>2 DEF BranchSome, FBNext
<1>3. CASE EmitWrite \/ RetOut \/ FinalizeAndCall
  BY <1>3 DEF EmitWrite, RetOut, FinalizeAndCall, FBNext
<1>4. CASE Execute \/ UNCHANGED managedVars
  BY <1>4 DEF Execute, managedVars
<1> QED BY <1>1, <1>2, <1>3, <1>4 DEF ManagedNext

(* The managed builder with its code, and the runs of its programs,        *)
(* implement the builder that only knows how a block ends.                 *)
THEOREM ManagedImplements == ManagedSpec => FBSpec
<1>1. ManagedInit => FBInit
  BY DEF ManagedInit
<1>2. [ManagedNext]_managedVars => [FBNext]_vars
  BY BuilderStep
<1> QED BY <1>1, <1>2, PTL DEF ManagedSpec, FBSpec

-----------------------------------------------------------------------------

(* Code is a sequence of stencils for each block.                          *)
JumpsTo(S) == UNION {[1..n -> S] : n \in 0..2}

WritesTo(S) == UNION {[H -> S] : H \in SUBSET Handle}

Stencils == [writes : WritesTo(Location), jumps : JumpsTo(Block \cup {NoBlock})]

CodeType == code \in [Block -> Seq(Stencils)]

(* What a call that emits stencil s does to the code.                      *)
LEMMA CodeStep ==
    ASSUME FBTypeOK, CodeType, Active, NEW s \in Stencils,
           code' = [code EXCEPT ![Self] = Append(@, s)]
    PROVE  /\ CodeType'
           /\ \A b \in Block \ {Self} : code'[b] = code[b]
           /\ Len(code'[Self]) = Len(code[Self]) + 1
           /\ \A i \in 1..Len(code[Self]) : code'[Self][i] = code[Self][i]
           /\ code'[Self][Len(code[Self]) + 1] = s
<1>1. Self \in Block
  BY SelfIsBlock
<1>2. /\ code[Self] \in Seq(Stencils)
      /\ code'[Self] = Append(code[Self], s)
      /\ \A b \in Block \ {Self} : code'[b] = code[b]
  BY <1>1 DEF CodeType
<1>3. /\ Append(code[Self], s) \in Seq(Stencils)
      /\ Len(Append(code[Self], s)) = Len(code[Self]) + 1
      /\ \A i \in 1..Len(code[Self]) : Append(code[Self], s)[i] = code[Self][i]
      /\ Append(code[Self], s)[Len(code[Self]) + 1] = s
  BY <1>2, AppendProperties
<1>4. CodeType'
  BY <1>1, <1>2, <1>3 DEF CodeType
<1> QED BY <1>2, <1>3, <1>4

(* The stencils a client emits.                                            *)
LEMMA WriteStencil ==
    ASSUME FBTypeOK, NEW h \in handles, h.slot \in DOMAIN loc
    PROVE  /\ Stencil([k \in {h} |-> LocationOf(k)], <<JumpNext>>) \in Stencils
           /\ Stencil([k \in {h} |-> LocationOf(k)], <<JumpNext>>).writes = [k \in {h} |-> loc[h.slot]]
           /\ Stencil([k \in {h} |-> LocationOf(k)], <<JumpNext>>).jumps = [i \in 1..1 |-> NoBlock]
<1> DEFINE w == [k \in {h} |-> loc[h.slot]]
           j == [i \in 1..1 |-> NoBlock]
<1>1. Stencil([k \in {h} |-> LocationOf(k)], <<JumpNext>>) = [writes |-> w, jumps |-> j]
  <2>1. [k \in {h} |-> LocationOf(k)] = w
    BY DEF LocationOf
  <2>2. [i \in DOMAIN <<JumpNext>> |-> IF <<JumpNext>>[i] = JumpNext
                                       THEN NoBlock ELSE <<JumpNext>>[i].to] = j
    OBVIOUS
  <2> QED BY <2>1, <2>2 DEF Stencil
<1>2. w \in [{h} -> Location] /\ h \in Handle
  BY DEF FBTypeOK, AllocatorTypeOK
<1>3. j \in [1..1 -> Block \cup {NoBlock}]
  OBVIOUS
<1>4. [writes |-> w, jumps |-> j] \in Stencils
  <2>1. w \in WritesTo(Location)
    BY <1>2, {h} \in SUBSET Handle DEF WritesTo
  <2>2. j \in JumpsTo(Block \cup {NoBlock})
    BY <1>3, 1 \in 0..2 DEF JumpsTo
  <2> QED BY <2>1, <2>2 DEF Stencils
<1> QED BY <1>1, <1>4

LEMMA JumpStencil ==
    ASSUME FBTypeOK, NEW js \in Jumps
    PROVE  /\ Stencil(NoWrites, js) \in Stencils
           /\ DOMAIN Stencil(NoWrites, js).writes = {}
           /\ \A i \in DOMAIN Stencil(NoWrites, js).jumps :
                 \/ Stencil(NoWrites, js).jumps[i] \in Created
                 \/ Stencil(NoWrites, js).jumps[i] = NoBlock /\ JumpNext \in JumpsOf(js)
<1> DEFINE j == [i \in DOMAIN js |-> IF js[i] = JumpNext THEN NoBlock ELSE js[i].to]
<1>1. PICK n \in 0..MaxJumps : js \in [1..n -> Jump]
  BY DEF Jumps
<1>0. n \in 0..2
  BY BoundsAssumption
<1>2. \A i \in 1..n : js[i] = JumpNext \/ js[i].to \in Created
  BY <1>1 DEF Jump, JumpChild, JumpSame, JumpParent
<1>3. js \in Seq(Jump) /\ Len(js) = n
  BY <1>0, <1>1
<1>4. j \in [1..n -> Block \cup {NoBlock}]
  BY <1>1, <1>2, CreatedBlocks
<1>5. NoWrites \in [{} -> Location]
  BY DEF NoWrites
<1>6. Stencil(NoWrites, js) = [writes |-> NoWrites, jumps |-> j]
  BY DEF Stencil
<1>7. [writes |-> NoWrites, jumps |-> j] \in Stencils
  <2>1. NoWrites \in WritesTo(Location)
    BY <1>5 DEF WritesTo
  <2>2. j \in JumpsTo(Block \cup {NoBlock})
    BY <1>0, <1>4 DEF JumpsTo
  <2> QED BY <2>1, <2>2 DEF Stencils
<1>8. \A i \in DOMAIN j : j[i] \in Created \/ (j[i] = NoBlock /\ JumpNext \in JumpsOf(js))
  BY <1>1, <1>2, <1>3 DEF JumpsOf
<1> QED BY <1>5, <1>6, <1>7, <1>8

-----------------------------------------------------------------------------

(* A call that leaves a stencil behind: it writes accepted variables at    *)
(* their locations, and its jumps lead to blocks that exist, or on if the  *)
(* block then falls.                                                       *)
Emits(s, t) ==
    /\ Active
    /\ code' = [code EXCEPT ![Self] = Append(@, s)]
    /\ tail' = [tail EXCEPT ![Self] = t]
    /\ \A h \in DOMAIN s.writes : /\ h \in handles /\ Accepted(h)
                                  /\ h.slot \in DOMAIN loc
                                  /\ s.writes[h] = loc[h.slot]
    /\ \A i \in DOMAIN s.jumps :
          s.jumps[i] \in Created \/ (s.jumps[i] = NoBlock /\ t = "falls")
    /\ UNCHANGED <<status, nblocks, stackSize, pc>>

LEMMA Emission ==
    ASSUME FBTypeOK, EmitWrite \/ BranchTo \/ RetOut
    PROVE  \E s \in Stencils, t \in {"falls", "leaves"} : Emits(s, t)
<1> USE DEF Put, runVars, allocVars, historyVars
<1>1. CASE EmitWrite
  <2>1. PICK h \in handles :
          /\ Accepted(h) /\ h.slot \in DOMAIN loc
          /\ Put(Stencil([k \in {h} |-> LocationOf(k)], <<JumpNext>>))
    BY <1>1 DEF EmitWrite
  <2> DEFINE s == Stencil([k \in {h} |-> LocationOf(k)], <<JumpNext>>)
  <2>2. /\ s \in Stencils /\ s.writes = [k \in {h} |-> loc[h.slot]]
        /\ s.jumps = [i \in 1..1 |-> NoBlock]
    BY <2>1, WriteStencil
  <2> HIDE DEF s
  <2>3. /\ \A k \in DOMAIN s.writes : k = h /\ s.writes[k] = loc[h.slot]
        /\ \A i \in DOMAIN s.jumps : s.jumps[i] = NoBlock
    BY <2>2
  <2>4. code' = [code EXCEPT ![Self] = Append(@, s)] /\ UNCHANGED pc
    BY <2>1 DEF s
  <2>5. Emits(s, "falls")
    BY <1>1, <2>1, <2>3, <2>4 DEF Emits, EmitWrite, Emit
  <2> QED BY <2>2, <2>5
<1>2. CASE BranchTo
  <2>1. PICK js \in UsedJumps :
          /\ LET par == DeclareAll(parent, Self, js)
             IN  \/ Branch(js, par)
                 \/ \E next \in Created : EndBranch(js, par, next)
          /\ Put(Stencil(NoWrites, js))
    BY <1>2 DEF BranchTo
  <2> DEFINE s == Stencil(NoWrites, js)
             t == IF JumpNext \in JumpsOf(js) THEN "falls" ELSE "leaves"
  <2>2. /\ s \in Stencils /\ DOMAIN s.writes = {}
        /\ \A i \in DOMAIN s.jumps :
              s.jumps[i] \in Created \/ (s.jumps[i] = NoBlock /\ t = "falls")
    BY JumpStencil DEF UsedJumps
  <2>3. code' = [code EXCEPT ![Self] = Append(@, s)] /\ UNCHANGED pc
    BY <2>1
  <2>4. Active /\ EmitJumps(js) /\ UNCHANGED <<status, nblocks, stackSize>>
    BY <1>2, <2>1 DEF BranchTo, Branch, EndBranch, SwitchToBlock, DropAll
  <2>5. tail' = [tail EXCEPT ![Self] = t]
    BY <2>4 DEF EmitJumps
  <2>6. t \in {"falls", "leaves"}
    OBVIOUS
  <2> HIDE DEF s, t
  <2>7. Emits(s, t)
    BY <2>2, <2>3, <2>4, <2>5 DEF Emits
  <2> QED BY <2>2, <2>6, <2>7
<1>3. CASE RetOut
  <2> DEFINE s == Stencil(NoWrites, <<>>)
  <2>1. <<>> \in Jumps
    <3>1. <<>> \in [1..0 -> Jump] /\ 0 \in 0..MaxJumps
      BY BoundsAssumption
    <3> QED BY <3>1 DEF Jumps
  <2>2. JumpsOf(<<>>) = {}
    BY DEF JumpsOf
  <2>3. /\ s \in Stencils /\ DOMAIN s.writes = {}
        /\ \A i \in DOMAIN s.jumps : s.jumps[i] \in Created
    BY <2>1, <2>2, JumpStencil
  <2>4. code' = [code EXCEPT ![Self] = Append(@, s)] /\ UNCHANGED pc
    BY <1>3 DEF RetOut
  <2> HIDE DEF s
  <2>5. Emits(s, "leaves")
    BY <1>3, <2>3, <2>4 DEF Emits, RetOut, Ret
  <2> QED BY <2>3, <2>5
<1> QED BY <1>1, <1>2, <1>3

(* Every stencil of the code was there before or is the one emitted.       *)
LEMMA CodeGrows ==
    ASSUME FBTypeOK, CodeType, NEW s \in Stencils, NEW t, Emits(s, t)
    PROVE  /\ CodeType'
           /\ Self \in Block
           /\ \A b \in Block : \A i \in 1..Len(code'[b]) :
                 \/ b = Self /\ code'[b][i] = s
                 \/ i \in 1..Len(code[b]) /\ code'[b][i] = code[b][i]
<1>1. Self \in Block /\ Len(code[Self]) \in Nat
  BY SelfIsBlock, LenProperties DEF Emits, CodeType
<1>2. /\ CodeType'
      /\ \A b \in Block \ {Self} : code'[b] = code[b]
      /\ Len(code'[Self]) = Len(code[Self]) + 1
      /\ \A i \in 1..Len(code[Self]) : code'[Self][i] = code[Self][i]
      /\ code'[Self][Len(code[Self]) + 1] = s
  BY CodeStep DEF Emits
<1>3. ASSUME NEW b \in Block, NEW i \in 1..Len(code'[b])
      PROVE  \/ b = Self /\ code'[b][i] = s
             \/ i \in 1..Len(code[b]) /\ code'[b][i] = code[b][i]
  <2>1. CASE b = Self /\ i = Len(code[Self]) + 1
    BY <1>2, <2>1
  <2>2. CASE b = Self /\ i # Len(code[Self]) + 1
    BY <1>1, <1>2, <2>2
  <2>3. CASE b # Self
    BY <1>2, <2>3
  <2> QED BY <2>1, <2>2, <2>3
<1> QED BY <1>1, <1>2, <1>3

(* The other steps: the code stays, and the frame does not shrink.         *)
LEMMA OtherStep ==
    ASSUME FBTypeOK,
           NoCode \/ FinalizeAndCall \/ Execute \/ UNCHANGED managedVars
    PROVE  /\ UNCHANGED code
           /\ stackSize \in Nat /\ stackSize' \in Nat /\ stackSize <= stackSize'
<1>1. stackSize \in Nat
  BY U16MaxAssumption DEF FBTypeOK, AllocatorTypeOK
<1>2. UNCHANGED code
  BY DEF NoCode, FinalizeAndCall, Execute, managedVars
<1>3. UNCHANGED stackSize \/ stackSize' = stackSize + 1
  <2>1. CASE NewVariable \/ NewParam
    <3>1. PICK h \in Fresh : Bind(h)
      BY <2>1 DEF NewVariable, NewParam
    <3>2. PICK l \in Candidates : AllocateAt(h.slot, l)
      BY <3>1 DEF Bind
    <3> QED BY <3>2 DEF AllocateAt
  <2>2. CASE \E b \in Created : OpenBlock(b)
    BY <2>2 DEF OpenBlock, SwitchToBlock, DropAll
  <2>3. CASE CreateBlock \/ FinalizeAndCall \/ Execute \/ UNCHANGED managedVars
    BY <2>3 DEF CreateBlock, FinalizeAndCall, Finalize, Execute, managedVars, vars, allocVars
  <2> QED BY <2>1, <2>2, <2>3 DEF NoCode
<1> QED BY <1>1, <1>2, <1>3

-----------------------------------------------------------------------------

(* The inductive invariant of the frame: at any time it holds all stack    *)
(* slots the code has ever used.                                           *)
FrameInv ==
    /\ CodeType
    /\ \A b \in Block : \A i \in 1..Len(code[b]) : \A h \in DOMAIN code[b][i].writes :
          code[b][i].writes[h] \in Registers \cup StackBelow(stackSize)

LEMMA FrameStep ==
    ASSUME OwnershipInv, FrameInv, [ManagedNext]_managedVars
    PROVE  FrameInv'
<1>0. FBTypeOK /\ InUse \subseteq Registers \cup StackBelow(stackSize)
  BY DEF OwnershipInv, AllocatorInv, StackInFrame, InUse
<1>1. CASE EmitWrite \/ BranchTo \/ RetOut
  <2>1. PICK s \in Stencils, t \in {"falls", "leaves"} : Emits(s, t)
    BY <1>0, <1>1, Emission
  <2>2. /\ CodeType'
        /\ \A b \in Block : \A i \in 1..Len(code'[b]) :
              \/ code'[b][i] = s
              \/ i \in 1..Len(code[b]) /\ code'[b][i] = code[b][i]
    BY <1>0, <2>1, CodeGrows DEF FrameInv
  <2>3. StackBelow(stackSize') = StackBelow(stackSize)
    BY <2>1 DEF Emits
  <2>4. \A h \in DOMAIN s.writes : s.writes[h] \in Registers \cup StackBelow(stackSize)
    BY <1>0, <2>1 DEF Emits, InUse
  <2> QED BY <2>2, <2>3, <2>4 DEF FrameInv
<1>2. CASE NoCode \/ FinalizeAndCall \/ Execute \/ UNCHANGED managedVars
  <2>1. UNCHANGED code /\ StackBelow(stackSize) \subseteq StackBelow(stackSize')
    BY <1>0, <1>2, OtherStep, StackMonotone
  <2> QED BY <2>1 DEF FrameInv, CodeType
<1> QED BY <1>1, <1>2 DEF ManagedNext

LEMMA FrameInit == ManagedInit => FrameInv
<1>1. \A b \in Block : [c \in Block |-> <<>>][b] = <<>> /\ Len(<<>>) = 0
  BY EmptySeq
<1>2. [c \in Block |-> <<>>] \in [Block -> Seq(Stencils)]
  BY EmptySeq
<1> QED BY <1>1, <1>2 DEF ManagedInit, FrameInv, CodeType

(* The number of stack slots handed out with a program is enough for every *)
(* stencil of it, those of scopes left long before included.               *)
THEOREM FramesSuffice == ManagedSpec => []FrameHoldsCode
<1>1. ManagedInit => OwnershipInv /\ FrameInv
  BY OwnershipInit, FrameInit DEF ManagedInit
<1>2. OwnershipInv /\ FrameInv /\ [ManagedNext]_managedVars
        => OwnershipInv' /\ FrameInv'
  BY BuilderStep, OwnershipStep, FrameStep
<1>3. FrameInv => FrameHoldsCode
  <2> SUFFICES ASSUME FrameInv, NEW b \in Block, NEW i \in DOMAIN code[b],
                      NEW h \in DOMAIN code[b][i].writes
               PROVE  code[b][i].writes[h] \in Registers \cup StackBelow(stackSize)
    BY DEF FrameHoldsCode, Writes
  <2>1. code[b] \in Seq(Stencils)
    BY DEF FrameInv, CodeType
  <2>2. i \in 1..Len(code[b])
    BY <2>1, LenProperties
  <2> QED BY <2>2 DEF FrameInv
<1> QED BY <1>1, <1>2, <1>3, PTL DEF ManagedSpec

-----------------------------------------------------------------------------

(* Jumps lead to blocks that exist or on, and the last stencil of a block  *)
(* that is left does not lead on.                                          *)
JumpsInv ==
    /\ \A b \in Block : \A i \in 1..Len(code[b]) : \A k \in DOMAIN code[b][i].jumps :
          code[b][i].jumps[k] \in Created \cup {NoBlock}
    /\ \A b \in Block : tail[b] = "leaves" =>
          /\ Len(code[b]) # 0
          /\ \A k \in DOMAIN code[b][Len(code[b])].jumps :
                code[b][Len(code[b])].jumps[k] # NoBlock

(* Only finished programs run.                                             *)
RunInv ==
    pc # Idle => /\ status = "program"
                 /\ pc.block \in Created
                 /\ pc = [block |-> pc.block, at |-> pc.at]
                 /\ pc.at \in 1..Len(code[pc.block])

LEMMA JumpsStep ==
    ASSUME OwnershipInv, FrameInv, JumpsInv, [ManagedNext]_managedVars
    PROVE  JumpsInv'
<1>0. FBTypeOK /\ tail \in [Block -> {"none", "falls", "leaves"}]
  BY DEF OwnershipInv, FBTypeOK
<1>1. CASE EmitWrite \/ BranchTo \/ RetOut
  <2>1. PICK s \in Stencils, t \in {"falls", "leaves"} : Emits(s, t)
    BY <1>0, <1>1, Emission
  <2>2. Self \in Block /\ Len(code[Self]) \in Nat
    BY <1>0, <2>1, SelfIsBlock, LenProperties DEF Emits, FrameInv, CodeType
  <2>3. /\ \A b \in Block \ {Self} : code'[b] = code[b]
        /\ Len(code'[Self]) = Len(code[Self]) + 1
        /\ \A i \in 1..Len(code[Self]) : code'[Self][i] = code[Self][i]
        /\ code'[Self][Len(code[Self]) + 1] = s
    BY <1>0, <2>1, CodeStep DEF Emits, FrameInv
  <2>4. \A b \in Block : \A i \in 1..Len(code'[b]) :
              \/ code'[b][i] = s
              \/ i \in 1..Len(code[b]) /\ code'[b][i] = code[b][i]
    BY <1>0, <2>1, CodeGrows DEF FrameInv
  <2>5. Created' = Created /\ \A k \in DOMAIN s.jumps : s.jumps[k] \in Created \cup {NoBlock}
    BY <2>1 DEF Emits, Created
  <2>6. \A b \in Block : \A i \in 1..Len(code'[b]) : \A k \in DOMAIN code'[b][i].jumps :
          code'[b][i].jumps[k] \in Created' \cup {NoBlock}
    BY <2>4, <2>5 DEF JumpsInv
  <2>7. ASSUME NEW b \in Block, tail'[b] = "leaves"
        PROVE  /\ Len(code'[b]) # 0
               /\ \A k \in DOMAIN code'[b][Len(code'[b])].jumps :
                     code'[b][Len(code'[b])].jumps[k] # NoBlock
    <3>1. CASE b = Self
      <4>1. t = "leaves"
        BY <1>0, <2>1, <2>2, <2>7, <3>1 DEF Emits
      <4>2. \A k \in DOMAIN s.jumps : s.jumps[k] # NoBlock
        BY <1>0, <2>1, <4>1, CreatedBlocks, NoBlockIsNoBlock DEF Emits
      <4> QED BY <2>2, <2>3, <3>1, <4>2
    <3>2. CASE b # Self
      <4>1. tail[b] = "leaves" /\ code'[b] = code[b]
        BY <1>0, <2>1, <2>3, <2>7, <3>2 DEF Emits
      <4> QED BY <4>1 DEF JumpsInv
    <3> QED BY <3>1, <3>2
  <2> QED BY <2>6, <2>7 DEF JumpsInv
<1>2. CASE NoCode \/ FinalizeAndCall \/ Execute \/ UNCHANGED managedVars
  <2>1. UNCHANGED code
    BY <1>0, <1>2, OtherStep
  <2>2. UNCHANGED tail /\ Created \subseteq Created'
    <3>1. CASE NoCode
      <4>1. nblocks \in Nat /\ UNCHANGED tail /\ (UNCHANGED nblocks \/ nblocks' = nblocks + 1)
        BY <1>0, <3>1 DEF NoCode, CreateBlock, OpenBlock, NewVariable, NewParam, Bind, FBTypeOK
      <4> QED BY <4>1 DEF Created
    <3>2. CASE FinalizeAndCall
      BY <3>2 DEF FinalizeAndCall, Finalize, blockVars, Created
    <3>3. CASE Execute \/ UNCHANGED managedVars
      BY <3>3 DEF Execute, managedVars, vars, blockVars, Created
    <3> QED BY <1>2, <3>1, <3>2, <3>3
  <2> QED BY <2>1, <2>2 DEF JumpsInv
<1> QED BY <1>1, <1>2 DEF ManagedNext

(* A program has code in every block.                                      *)
LEMMA ProgramHasCode ==
    ASSUME FBTypeOK, CodeType, JumpsInv,
           NEW b \in Created, tail[b] = "leaves"
    PROVE  b \in Block /\ code[b] \in Seq(Stencils) /\ 1 \in 1..Len(code[b])
<1>1. b \in Block
  BY CreatedBlocks
<1>2. code[b] \in Seq(Stencils) /\ Len(code[b]) \in Nat /\ Len(code[b]) # 0
  BY <1>1, LenProperties DEF CodeType, JumpsInv
<1> QED BY <1>1, <1>2

LEMMA RunStep ==
    ASSUME OwnershipInv, FrameInv, JumpsInv, EndInv, RunInv, EndInv',
           [ManagedNext]_managedVars
    PROVE  RunInv'
<1>0. FBTypeOK /\ CodeType
  BY DEF OwnershipInv, FrameInv
<1>1. CASE NoCode \/ EmitWrite \/ BranchTo \/ RetOut
  <2>1. status = "building"
    BY <1>1 DEF NoCode, EmitWrite, Emit, BranchTo, RetOut, CreateBlock, OpenBlock,
                NewVariable, NewParam, Active
  <2>2. UNCHANGED runVars
    BY <1>1 DEF NoCode, EmitWrite, BranchTo, RetOut, Put
  <2> QED BY <2>1, <2>2 DEF RunInv, runVars
<1>2. CASE FinalizeAndCall
  <2>1. status = "building" /\ UNCHANGED <<code, nblocks, tail>>
    BY <1>2 DEF FinalizeAndCall, Finalize, blockVars
  <2>2. CASE Complete
    <3>1. status' = "program" /\ pc' = [block |-> Entry, at |-> 1]
      BY <1>2, <2>2 DEF FinalizeAndCall, Finalize
    <3>2. Entry \in Created
      BY <1>0 DEF FBTypeOK, Created, Entry
    <3>3. tail[Entry] = "leaves"
      BY <2>1, <3>1, <3>2 DEF EndInv, NoRunOff, Created
    <3>4. 1 \in 1..Len(code[Entry])
      BY <1>0, <3>2, <3>3, ProgramHasCode
    <3> QED BY <2>1, <3>1, <3>2, <3>4 DEF RunInv, Created
  <2>3. CASE ~ Complete
    BY <1>2, <2>1, <2>3 DEF RunInv, FinalizeAndCall
  <2> QED BY <2>2, <2>3
<1>3. CASE Execute
  <2>1. /\ status = "program" /\ pc.block \in Created
        /\ pc.at \in 1..Len(code[pc.block])
        /\ pc = [block |-> pc.block, at |-> pc.at]
        /\ UNCHANGED <<code, status, nblocks>>
    BY <1>3 DEF Execute, RunInv, vars, blockVars
  <2>2. \A b \in Created : tail[b] = "leaves"
    BY <2>1 DEF EndInv, NoRunOff
  <2>3. /\ pc.block \in Block /\ code[pc.block] \in Seq(Stencils)
        /\ Len(code[pc.block]) \in Nat
    BY <1>0, <2>1, <2>2, ProgramHasCode, LenProperties
  <2> DEFINE t == code[pc.block][pc.at]
  <2>4. CASE pc' = Idle
    BY <2>4 DEF RunInv, Idle
  <2>5. CASE \E i \in DOMAIN t.jumps :
                t.jumps[i] = NoBlock /\ pc' = [pc EXCEPT !.at = @ + 1]
    <3>1. pc.at # Len(code[pc.block])
      BY <2>1, <2>2, <2>3, <2>5 DEF JumpsInv
    <3>2. pc.at + 1 \in 1..Len(code[pc.block])
      BY <2>1, <2>3, <3>1
    <3>3. pc' = [block |-> pc.block, at |-> pc.at + 1]
      BY <2>1, <2>5
    <3> QED BY <2>1, <3>2, <3>3 DEF RunInv, Created
  <2>6. CASE \E i \in DOMAIN t.jumps :
                t.jumps[i] # NoBlock /\ pc' = [block |-> t.jumps[i], at |-> 1]
    <3>1. PICK i \in DOMAIN t.jumps :
            t.jumps[i] # NoBlock /\ pc' = [block |-> t.jumps[i], at |-> 1]
      BY <2>6
    <3>2. t.jumps[i] \in Created
      BY <2>1, <2>3, <3>1 DEF JumpsInv
    <3>3. 1 \in 1..Len(code[t.jumps[i]])
      BY <1>0, <2>2, <3>2, ProgramHasCode
    <3> QED BY <2>1, <3>1, <3>2, <3>3 DEF RunInv, Created
  <2> QED BY <1>3, <2>4, <2>5, <2>6 DEF Execute, Enter
<1>4. CASE UNCHANGED managedVars
  BY <1>4 DEF managedVars, runVars, vars, blockVars, RunInv, Created
<1> QED BY <1>1, <1>2, <1>3, <1>4 DEF ManagedNext

(* If the client stops at the first error, a program never runs off the    *)
(* end of a block or into a block without code, along whichever of its     *)
(* jumps.                                                                  *)
THEOREM RunsSafe ==
    ContinueAfterError = FALSE => (ManagedSpec => []RunStaysInCode)
<1> SUFFICES ASSUME ContinueAfterError = FALSE
             PROVE  ManagedSpec => []RunStaysInCode
  OBVIOUS
<1> DEFINE Inv == OwnershipInv /\ FrameInv /\ EndInv /\ JumpsInv /\ RunInv
<1>1. ManagedInit => Inv
  <2> SUFFICES ASSUME ManagedInit PROVE Inv
    OBVIOUS
  <2>1. OwnershipInv /\ FrameInv
    BY OwnershipInit, FrameInit DEF ManagedInit
  <2>2. EndInv /\ RunInv
    BY DEF ManagedInit, FBInit, EndInv, NoRunOff, RunInv
  <2>3. \A b \in Block : Len(code[b]) = 0 /\ tail[b] = "none"
    BY EmptySeq DEF ManagedInit, FBInit
  <2>4. JumpsInv
    BY <2>3 DEF JumpsInv
  <2> QED BY <2>1, <2>2, <2>4
<1>2. Inv /\ [ManagedNext]_managedVars => Inv'
  <2> SUFFICES ASSUME Inv, [ManagedNext]_managedVars PROVE Inv'
    OBVIOUS
  <2>1. [FBNext]_vars /\ FBTypeOK
    BY BuilderStep DEF OwnershipInv
  <2>2. OwnershipInv' /\ EndInv'
    BY <2>1, OwnershipStep, EndStep
  <2>3. FrameInv' /\ JumpsInv' /\ RunInv'
    BY <2>2, FrameStep, JumpsStep, RunStep
  <2> QED BY <2>2, <2>3
<1>3. Inv => RunStaysInCode
  <2> SUFFICES ASSUME Inv, pc # Idle PROVE InCode
    BY DEF RunStaysInCode
  <2>1. pc.block \in Block /\ pc.at \in 1..Len(code[pc.block])
    BY CreatedBlocks DEF RunInv, OwnershipInv
  <2>2. code[pc.block] \in Seq(Stencils)
    BY <2>1 DEF FrameInv, CodeType
  <2> QED BY <2>1, <2>2, LenProperties DEF InCode
<1> QED BY <1>1, <1>2, <1>3, PTL DEF ManagedSpec

-----------------------------------------------------------------------------

(* A step changes no location of a variable that is live before and after. *)
LEMMA LocationsKept ==
    ASSUME FBTypeOK, [FBNext]_vars,
           NEW s \in DOMAIN loc, s \in DOMAIN loc'
    PROVE  loc'[s] = loc[s]
<1>1. CASE \E S : DropAll(S)
  BY <1>1 DEF DropAll
<1>2. CASE \E t, l : AllocateAt(t, l)
  BY <1>2 DEF AllocateAt
<1>3. CASE UNCHANGED loc
  BY <1>3
<1>4. (\E S : DropAll(S)) \/ (\E t, l : AllocateAt(t, l)) \/ UNCHANGED loc
  <2>1. CASE \E b, par : SwitchToBlock(b, par)
    BY <2>1 DEF SwitchToBlock
  <2>2. CASE NewVariable \/ NewParam
    BY <2>2 DEF NewVariable, NewParam, Bind
  <2>3. CASE BranchSome
    <3>1. CASE \E js, par, b : EndBranch(js, par, b)
      BY <2>1, <3>1 DEF EndBranch
    <3> QED BY <2>3, <3>1 DEF BranchSome, Branch, FailBranch, EndBranchNoNext,
               FailEndBranch, allocVars
  <2>4. CASE \E b \in Created : OpenBlock(b)
    BY <2>1, <2>4 DEF OpenBlock
  <2> QED BY <2>2, <2>3, <2>4 DEF FBNext, CreateBlock, CloseBlock, PanicOnHandle,
             Emit, Ret, FailRet, Finalize, vars, allocVars
<1> QED BY <1>1, <1>2, <1>3, <1>4

(* With a client that switches to a block at most once, a step opens at    *)
(* most the scope of a block it never switched to; or it binds a value.    *)
LEMMA OnceCases ==
    ASSUME SwitchOnce = TRUE, FBTypeOK, [FBNext]_vars
    PROVE  \/ \E b \in Block \ visited : \E par :
                 SwitchToBlock(b, par) /\ UNCHANGED handles
           \/ /\ UNCHANGED <<scopes, chain, visited>>
              /\ \/ Active /\ \E h \in Fresh : Bind(h)
                 \/ UNCHANGED <<variables, handles>>
<1> USE DEF blockVars, historyVars
<1>1. CASE \E b \in Created : OpenBlock(b)
  BY <1>1, CreatedBlocks DEF OpenBlock, MaySwitch
<1>2. CASE Active /\ \E h \in Fresh : Bind(h)
  BY <1>2 DEF Bind
<1>3. CASE BranchSome
  <2>1. CASE \E js, par : \E b \in Created : EndBranch(js, par, b)
    BY <2>1, CreatedBlocks DEF EndBranch, MaySwitch
  <2> QED BY <1>3, <2>1 DEF BranchSome, Branch, FailBranch, EndBranchNoNext,
             FailEndBranch
<1>4. CASE Quiet
  BY <1>4 DEF Quiet
<1> QED BY <1>1, <1>2, <1>3, <1>4, StepCases

(* So a variable that is accepted after the step was accepted before, and  *)
(* has kept its location; and the blocks that enclose another stay.        *)
LEMMA HandlesStay ==
    ASSUME SwitchOnce = TRUE, OwnershipInv, LifetimeInv, [FBNext]_vars,
           OwnershipInv', LifetimeInv'
    PROVE  /\ handles \subseteq handles'
           /\ visited \subseteq visited'
           /\ \A b \in visited : chain'[b] = chain[b]
           /\ \A h \in handles : InScope(h.scope)' =>
                 /\ InScope(h.scope)
                 /\ h.slot \in DOMAIN loc /\ h.slot \in DOMAIN loc'
                 /\ loc'[h.slot] = loc[h.slot]
<1>0. FBTypeOK /\ FBTypeOK'
  BY DEF OwnershipInv
<1>1. /\ handles \subseteq handles' /\ visited \subseteq visited'
      /\ \A b \in visited : chain'[b] = chain[b]
      /\ \A c \in visited : InScope(c)' => InScope(c)
  <2>1. CASE \E b \in Block \ visited : \E par : SwitchToBlock(b, par) /\ UNCHANGED handles
    <3>0. PICK b \in Block \ visited : \E par : SwitchToBlock(b, par) /\ UNCHANGED handles
      BY <2>1
    <3>1. PICK par : SwitchToBlock(b, par) /\ UNCHANGED handles
      BY <3>0
    <3>2. PICK kept \in Nat : KeepsScopes(b, par, kept)
      BY <1>0, <3>1, SwitchScopes
    <3>3. visited' = visited \cup {b}
      BY <1>0, <3>1, SwitchScopes
    <3>4. \A c \in visited : c \in Block /\ c # b
      BY <1>0, <3>1 DEF FBTypeOK
    <3>5. \A c \in visited : chain'[c] = chain[c]
      BY <1>0, <3>2, <3>4 DEF KeepsScopes, FBTypeOK
    <3>6. ASSUME NEW c \in visited, InScope(c)' PROVE InScope(c)
      <4>1. PICK i \in 1..kept : scopes[i] = c
        BY <3>2, <3>4, <3>6 DEF KeepsScopes
      <4>2. Len(scopes) \in Nat /\ kept <= Len(scopes)
        BY <1>0, <3>2, LenProperties DEF KeepsScopes, FBTypeOK
      <4>3. i \in 1..Len(scopes)
        BY <4>2
      <4> QED BY <4>1, <4>3 DEF InScope
    <3> QED BY <3>1, <3>3, <3>5, <3>6
  <2>2. CASE UNCHANGED <<scopes, chain, visited>> /\ handles \subseteq handles'
    BY <2>2 DEF InScope
  <2>3. CASE UNCHANGED <<scopes, chain, visited>> /\ Active /\ \E h \in Fresh : Bind(h)
    BY <2>2, <2>3 DEF Bind
  <2> QED BY <1>0, <2>1, <2>2, <2>3, OnceCases
<1>2. ASSUME NEW h \in handles, InScope(h.scope)'
      PROVE  /\ InScope(h.scope)
             /\ h.slot \in DOMAIN loc /\ h.slot \in DOMAIN loc'
             /\ loc'[h.slot] = loc[h.slot]
  <2>1. h.scope \in visited /\ h.scope \in Block
    BY <1>0 DEF LifetimeInv, FBTypeOK, Handle
  <2>2. InScope(h.scope)
    BY <1>1, <1>2, <2>1
  <2>3. h \in Owned
    BY <2>1, <2>2 DEF LifetimeInv, AcceptedHandlesLive, Accepted, Owned
  <2>4. h \in Owned'
    BY <1>1, <1>2, <2>1 DEF LifetimeInv, AcceptedHandlesLive, Accepted, Owned
  <2>5. h.slot \in DOMAIN loc /\ h.slot \in DOMAIN loc'
    BY <2>3, <2>4 DEF OwnershipInv, OwnedExactlyOnce
  <2> QED BY <1>0, <2>2, <2>5, LocationsKept
<1> QED BY <1>1, <1>2

-----------------------------------------------------------------------------

(* What a step of the managed builder does to the code, if anything.       *)
LEMMA CodeCases ==
    ASSUME FBTypeOK, CodeType, [ManagedNext]_managedVars
    PROVE  \/ UNCHANGED code
           \/ \E s \in Stencils, t \in {"falls", "leaves"} :
                 /\ Emits(s, t)
                 /\ Self \in Block
                 /\ \A b \in Block : \A i \in 1..Len(code'[b]) :
                       \/ b = Self /\ code'[b][i] = s
                       \/ i \in 1..Len(code[b]) /\ code'[b][i] = code[b][i]
<1>1. CASE EmitWrite \/ BranchTo \/ RetOut
  <2>1. PICK s \in Stencils, t \in {"falls", "leaves"} : Emits(s, t)
    BY <1>1, Emission
  <2>2. /\ Self \in Block
        /\ \A b \in Block : \A i \in 1..Len(code'[b]) :
              \/ b = Self /\ code'[b][i] = s
              \/ i \in 1..Len(code[b]) /\ code'[b][i] = code[b][i]
    BY <2>1, CodeGrows
  <2> QED BY <2>1, <2>2
<1>2. CASE NoCode \/ FinalizeAndCall \/ Execute \/ UNCHANGED managedVars
  BY <1>2, OtherStep
<1> QED BY <1>1, <1>2 DEF ManagedNext

(* Code names variables by the locations they have now, if they are still  *)
(* accepted.                                                               *)
WritesInv ==
    \A b \in Block : \A i \in 1..Len(code[b]) : \A h \in DOMAIN code[b][i].writes :
        /\ h \in handles
        /\ InScope(h.scope) => /\ h.slot \in DOMAIN loc
                               /\ code[b][i].writes[h] = loc[h.slot]

LEMMA WritesStep ==
    ASSUME SwitchOnce = TRUE, OwnershipInv, LifetimeInv, FrameInv, WritesInv,
           [ManagedNext]_managedVars, OwnershipInv', LifetimeInv'
    PROVE  WritesInv'
<1>1. /\ handles \subseteq handles'
      /\ \A h \in handles : InScope(h.scope)' =>
            /\ InScope(h.scope)
            /\ h.slot \in DOMAIN loc /\ h.slot \in DOMAIN loc'
            /\ loc'[h.slot] = loc[h.slot]
  BY BuilderStep, HandlesStay
<1>2. FBTypeOK /\ CodeType
  BY DEF OwnershipInv, FrameInv
<1>3. CASE UNCHANGED code
  BY <1>1, <1>3 DEF WritesInv
<1>4. CASE \E s \in Stencils, t \in {"falls", "leaves"} :
              /\ Emits(s, t)
              /\ \A b \in Block : \A i \in 1..Len(code'[b]) :
                    \/ b = Self /\ code'[b][i] = s
                    \/ i \in 1..Len(code[b]) /\ code'[b][i] = code[b][i]
  <2>1. PICK s \in Stencils, t \in {"falls", "leaves"} :
          /\ Emits(s, t)
          /\ \A b \in Block : \A i \in 1..Len(code'[b]) :
                \/ b = Self /\ code'[b][i] = s
                \/ i \in 1..Len(code[b]) /\ code'[b][i] = code[b][i]
    BY <1>4
  <2>2. \A h \in DOMAIN s.writes : h \in handles /\ s.writes[h] = loc[h.slot]
    BY <2>1 DEF Emits
  <2> SUFFICES ASSUME NEW b \in Block, NEW i \in 1..Len(code'[b]),
                      NEW h \in DOMAIN code'[b][i].writes
               PROVE  /\ h \in handles'
                      /\ InScope(h.scope)' => /\ h.slot \in DOMAIN loc'
                                              /\ code'[b][i].writes[h] = loc'[h.slot]
    BY DEF WritesInv
  <2>3. CASE code'[b][i] = s
    BY <1>1, <2>2, <2>3
  <2>4. CASE i \in 1..Len(code[b]) /\ code'[b][i] = code[b][i]
    BY <1>1, <2>4 DEF WritesInv
  <2> QED BY <2>1, <2>3, <2>4
<1> QED BY <1>2, <1>3, <1>4, CodeCases

LEMMA EmptyCode ==
    ASSUME ManagedInit
    PROVE  \A b \in Block : Len(code[b]) = 0
<1> QED BY EmptySeq DEF ManagedInit

(* With a client that switches to a block at most once, all stencils that  *)
(* name a variable name the location it has now, as long as it is in       *)
(* scope: the allocator never moves a live variable, and a variable whose  *)
(* scope was left never comes back.                                        *)
THEOREM LocationsSafe ==
    SwitchOnce = TRUE => (ManagedSpec => []LocationsStay)
<1> SUFFICES ASSUME SwitchOnce = TRUE PROVE ManagedSpec => []LocationsStay
  OBVIOUS
<1> DEFINE Inv == OwnershipInv /\ LifetimeInv /\ FrameInv /\ WritesInv
<1>1. ManagedInit => Inv
  <2>1. ManagedInit => WritesInv
    BY EmptyCode DEF WritesInv
  <2> QED BY <2>1, OwnershipInit, LifetimeInit, FrameInit DEF ManagedInit
<1>2. Inv /\ [ManagedNext]_managedVars => Inv'
  <2> SUFFICES ASSUME Inv, [ManagedNext]_managedVars PROVE Inv'
    OBVIOUS
  <2>1. [FBNext]_vars /\ FBTypeOK
    BY BuilderStep DEF OwnershipInv
  <2>2. OwnershipInv' /\ LifetimeInv' /\ FrameInv'
    BY <2>1, OwnershipStep, LifetimeStep, FrameStep
  <2> QED BY <2>2, WritesStep
<1>3. Inv => LocationsStay
  <2> SUFFICES ASSUME Inv, NEW b \in Block, NEW i \in DOMAIN code[b],
                      NEW h \in DOMAIN code[b][i].writes, InScope(h.scope)
               PROVE  h.slot \in DOMAIN loc /\ code[b][i].writes[h] = loc[h.slot]
    BY DEF LocationsStay, Writes
  <2>1. code[b] \in Seq(Stencils)
    BY DEF FrameInv, CodeType
  <2>2. i \in 1..Len(code[b])
    BY <2>1, LenProperties
  <2> QED BY <2>2 DEF WritesInv
<1> QED BY <1>1, <1>2, <1>3, PTL DEF ManagedSpec

-----------------------------------------------------------------------------

(* Location l is variable h's: code writes h there, or h is live there.    *)
Names(h, l) ==
    \/ \E b \in Block : \E i \in 1..Len(code[b]) :
          h \in DOMAIN code[b][i].writes /\ code[b][i].writes[h] = l
    \/ h \in Owned /\ l = loc[h.slot]

(* Code is in blocks that were switched to and writes variables of blocks  *)
(* that enclose it, and no location is two variables' of the blocks that   *)
(* enclose one block.                                                      *)
PlacesInv ==
    /\ \A b \in Block : \A i \in 1..Len(code[b]) :
          /\ b \in visited
          /\ \A h \in DOMAIN code[b][i].writes : h.scope \in chain[b]
    /\ \A b \in visited : \A h, k \in handles : \A l :
          h.scope \in chain[b] /\ k.scope \in chain[b] /\ Names(h, l) /\ Names(k, l)
            => h = k

StaticInv == OwnershipInv /\ LifetimeInv /\ NestInv /\ RootInv /\ FrameInv /\ WritesInv

(* A variable in scope has one location only, where it is live.            *)
LEMMA NamesInScope ==
    ASSUME OwnershipInv, LifetimeInv, WritesInv,
           NEW h \in handles, InScope(h.scope), NEW l, Names(h, l)
    PROVE  h \in Owned /\ h.slot \in DOMAIN loc /\ l = loc[h.slot]
<1>1. h.scope \in Block
  BY DEF OwnershipInv, FBTypeOK, Handle
<1>2. h \in Owned
  BY <1>1 DEF LifetimeInv, AcceptedHandlesLive, Accepted, Owned
<1>3. h.slot \in DOMAIN loc
  BY <1>2 DEF OwnershipInv, OwnedExactlyOnce
<1>4. l = loc[h.slot]
  BY DEF Names, WritesInv
<1> QED BY <1>2, <1>3, <1>4

LEMMA NamesDisjoint ==
    StaticInv =>
      \A h, k \in handles : \A l :
          InScope(h.scope) /\ InScope(k.scope) /\ Names(h, l) /\ Names(k, l) => h = k
<1> SUFFICES ASSUME StaticInv, NEW h \in handles, NEW k \in handles, NEW l,
                    InScope(h.scope), InScope(k.scope), Names(h, l), Names(k, l)
             PROVE  h = k
  OBVIOUS
<1>1. /\ h \in Owned /\ h.slot \in DOMAIN loc /\ l = loc[h.slot]
      /\ k \in Owned /\ k.slot \in DOMAIN loc /\ l = loc[k.slot]
  BY NamesInScope DEF StaticInv
<1>2. h.slot = k.slot
  BY <1>1 DEF StaticInv, OwnershipInv, AllocatorInv, DistinctLocations
<1> QED BY <1>1, <1>2 DEF StaticInv, OwnershipInv, OwnedExactlyOnce

LEMMA NamesDisjointNext ==
    StaticInv' =>
      \A h, k \in handles' : \A l :
          InScope(h.scope)' /\ InScope(k.scope)' /\ Names(h, l)' /\ Names(k, l)' => h = k
<1>1. (StaticInv =>
         \A h, k \in handles : \A l :
             InScope(h.scope) /\ InScope(k.scope) /\ Names(h, l) /\ Names(k, l) => h = k)'
  BY NamesDisjoint, PTL
<1> QED BY <1>1

(* No step gives a variable that exists another location.                  *)
LEMMA NamesKept ==
    ASSUME SwitchOnce = TRUE, StaticInv, [ManagedNext]_managedVars, StaticInv',
           NEW h \in handles, NEW l, Names(h, l)'
    PROVE  Names(h, l)
<1>1. FBTypeOK /\ CodeType /\ [FBNext]_vars /\ h.scope \in Block /\ h.scope \in visited
  BY BuilderStep DEF StaticInv, OwnershipInv, FrameInv, FBTypeOK, Handle, LifetimeInv
<1>2. CASE \E b \in Block : \E i \in 1..Len(code'[b]) :
              h \in DOMAIN code'[b][i].writes /\ code'[b][i].writes[h] = l
  <2>0. PICK b \in Block : \E i \in 1..Len(code'[b]) :
          h \in DOMAIN code'[b][i].writes /\ code'[b][i].writes[h] = l
    BY <1>2
  <2>1. PICK i \in 1..Len(code'[b]) :
          h \in DOMAIN code'[b][i].writes /\ code'[b][i].writes[h] = l
    BY <2>0
  <2>2. CASE \E s, t : Emits(s, t) /\ code'[b][i] = s
    <3>1. Accepted(h) /\ l = loc[h.slot]
      BY <2>1, <2>2 DEF Emits
    <3>2. h \in Owned
      BY <1>1, <3>1 DEF StaticInv, LifetimeInv, AcceptedHandlesLive, Owned
    <3> QED BY <3>1, <3>2 DEF Names
  <2>3. CASE i \in 1..Len(code[b]) /\ code'[b][i] = code[b][i]
    BY <2>1, <2>3 DEF Names
  <2>4. CASE UNCHANGED code
    BY <2>1, <2>4 DEF Names
  <2> QED BY <1>1, <2>1, <2>2, <2>3, <2>4, CodeCases
<1>3. CASE h \in Owned' /\ l = loc'[h.slot]
  <2>1. h \in Owned
    <3>1. CASE \E b \in Block \ visited : \E par : SwitchToBlock(b, par)
      <4>0. PICK b \in Block \ visited : \E par : SwitchToBlock(b, par)
        BY <3>1
      <4>1. PICK par : SwitchToBlock(b, par)
        BY <4>0
      <4>2. PICK kept \in Nat : KeepsScopes(b, par, kept)
        BY <1>1, <4>1, SwitchScopes
      <4>3. \A c \in Block : variables'[c] \subseteq variables[c]
        BY <4>2 DEF KeepsScopes
      <4> QED BY <1>3, <4>3 DEF Owned
    <3>2. CASE Active /\ \E m \in Fresh : Bind(m)
      <4>1. PICK m \in Fresh : Bind(m)
        BY <3>2
      <4>2. h # m
        <5>1. m.serial = born /\ born \in Nat
          BY <1>1, BoundsAssumption DEF Fresh, FBTypeOK
        <5>2. h.serial < born /\ h.serial \in Nat
          BY <1>1, BoundsAssumption
             DEF StaticInv, OwnershipInv, HandlesKnown, FBTypeOK, Handle
        <5> QED BY <5>1, <5>2
      <4>3. \A c \in Block : variables'[c] \subseteq variables[c] \cup {m}
        BY <1>1, <4>1 DEF Bind, FBTypeOK
      <4> QED BY <1>3, <4>2, <4>3 DEF Owned
    <3>3. CASE UNCHANGED variables
      BY <1>3, <3>3 DEF Owned
    <3> QED BY <1>1, <3>1, <3>2, <3>3, OnceCases
  <2>2. h.slot \in DOMAIN loc /\ h.slot \in DOMAIN loc'
    BY <1>3, <2>1 DEF StaticInv, OwnershipInv, OwnedExactlyOnce
  <2>3. l = loc[h.slot]
    BY <1>1, <1>3, <2>2, LocationsKept
  <2> QED BY <2>1, <2>3 DEF Names
<1> QED BY <1>2, <1>3 DEF Names

LEMMA PlacesStep ==
    ASSUME MaxNest <= 1, SwitchOnce = TRUE,
           StaticInv, PlacesInv, [ManagedNext]_managedVars, StaticInv'
    PROVE  PlacesInv'
<1>1. FBTypeOK /\ CodeType /\ [FBNext]_vars
  BY BuilderStep DEF StaticInv, OwnershipInv, FrameInv
<1>2. /\ visited \subseteq visited'
      /\ \A b \in visited : chain'[b] = chain[b]
  BY <1>1, HandlesStay DEF StaticInv
<1>3. ASSUME NEW b \in Block, NEW i \in 1..Len(code'[b])
      PROVE  /\ b \in visited'
             /\ \A h \in DOMAIN code'[b][i].writes : h.scope \in chain'[b]
  <2>1. CASE \E s, t : Emits(s, t) /\ b = Self /\ code'[b][i] = s
    <3>1. PICK s, t : Emits(s, t) /\ b = Self /\ code'[b][i] = s
      BY <2>1
    <3>2. Active /\ Self \in visited
      BY <1>1, <3>1, SelfVisited DEF Emits, StaticInv
    <3>3. \A h \in DOMAIN s.writes : InScope(h.scope) /\ h.scope \in Block
      BY <3>1 DEF Emits, Accepted, StaticInv, OwnershipInv, FBTypeOK, Handle
    <3>4. \A h \in DOMAIN s.writes : h.scope \in chain[Self]
      BY <3>2, <3>3 DEF StaticInv, NestInv, Active
    <3> QED BY <1>2, <3>1, <3>2, <3>4
  <2>2. CASE i \in 1..Len(code[b]) /\ code'[b][i] = code[b][i]
    BY <1>2, <2>2 DEF PlacesInv
  <2>3. CASE UNCHANGED code
    BY <1>2, <2>3 DEF PlacesInv
  <2> QED BY <1>1, <2>1, <2>2, <2>3, CodeCases
<1>4. ASSUME NEW b \in visited', NEW h \in handles', NEW k \in handles', NEW l,
             h.scope \in chain'[b], k.scope \in chain'[b],
             Names(h, l)', Names(k, l)'
      PROVE  h = k
  <2>1. CASE cursor' # <<>> /\ b = Self'
    <3>1. h.scope \in Block /\ k.scope \in Block
      BY DEF StaticInv, OwnershipInv, FBTypeOK, Handle
    <3>2. InScope(h.scope)' /\ InScope(k.scope)'
      BY <1>4, <2>1, <3>1 DEF StaticInv, NestInv
    <3> QED BY <1>4, <3>2, NamesDisjointNext
  <2>2. CASE ~ (cursor' # <<>> /\ b = Self')
    <3>1. b \in visited
      <4>1. CASE Stays
        BY <4>1 DEF Stays
      <4>2. CASE \E c, par : Switches(c, par)
        <5>1. PICK c, par : Switches(c, par)
          BY <4>2
        <5>2. visited' = visited \cup {c}
          BY <1>1, <5>1, SwitchScopes DEF Switches
        <5> QED BY <2>2, <5>1, <5>2 DEF Switches
      <4> QED BY <1>1, <4>1, <4>2, NestCases DEF StaticInv
    <3>2. chain'[b] = chain[b]
      BY <1>2, <3>1
    <3>3. \A m \in handles' : m.scope \in chain'[b] => m \in handles
      <4>1. CASE \E m \in Fresh : Active /\ Bind(m)
        <5>1. PICK m \in Fresh : Active /\ Bind(m)
          BY <4>1
        <5>2. /\ handles' = handles \cup {m} /\ m.scope = Self
              /\ cursor' = cursor /\ cursor # <<>> /\ Self' = Self
          BY <5>1 DEF Bind, Fresh, Active, Self
        <5>3. Self \in chain[b] => b = Self
          BY <3>1, <5>2 DEF StaticInv, RootInv
        <5> QED BY <2>2, <3>2, <5>2, <5>3
      <4>2. CASE UNCHANGED handles
        BY <4>2
      <4> QED BY <1>1, <4>1, <4>2, OnceCases
    <3>4. h \in handles /\ k \in handles
      BY <1>4, <3>3
    <3>5. Names(h, l) /\ Names(k, l)
      BY <1>4, <3>4, NamesKept
    <3> QED BY <1>4, <3>1, <3>2, <3>4, <3>5 DEF PlacesInv
  <2> QED BY <2>1, <2>2
<1>5. \A b \in visited' : \A h, k \in handles' : \A l :
        h.scope \in chain'[b] /\ k.scope \in chain'[b] /\ Names(h, l)' /\ Names(k, l)'
          => h = k
  BY <1>4
<1> QED BY <1>3, <1>5 DEF PlacesInv

-----------------------------------------------------------------------------

(* What has a value is a variable of an enclosing block, at a location of  *)
(* its own, and the memory has its value there.                            *)
Holds(values, mem) ==
    \A h \in DOMAIN values : values[h] \in DOMAIN mem /\ mem[values[h]] = h

Placed(values, b) ==
    \A h \in DOMAIN values :
        h \in handles /\ h.scope \in chain[b] /\ Names(h, values[h])

ValuesInv ==
    /\ pc = [block |-> pc.block, at |-> pc.at] /\ pc.block \in Block
    /\ status = "building" => pc = Idle /\ DOMAIN written = {}
    /\ pc # Idle => Placed(written, pc.block)
    /\ Holds(written, memory)

(* The inverse of a function that gives each variable its own location.    *)
LEMMA InverseHolds ==
    ASSUME NEW values,
           \A h, k \in DOMAIN values : values[h] = values[k] => h = k
    PROVE  /\ DOMAIN AntiFunction(values) = {values[h] : h \in DOMAIN values}
           /\ Holds(values, AntiFunction(values))
<1>1. Range(values) = {values[h] : h \in DOMAIN values}
  BY DEF Range
<1>2. AntiFunction(values) =
        [l \in Range(values) |->
           CHOOSE s \in DOMAIN values : l \in Range(values) => values[s] = l]
  BY DEF AntiFunction, Inverse
<1>3. ASSUME NEW h \in DOMAIN values
      PROVE  AntiFunction(values)[values[h]] = h
  <2>1. values[h] \in Range(values)
    BY <1>1
  <2> DEFINE found == CHOOSE s \in DOMAIN values :
                         values[h] \in Range(values) => values[s] = values[h]
  <2>2. found \in DOMAIN values /\ (values[h] \in Range(values) => values[found] = values[h])
    OBVIOUS
  <2>3. AntiFunction(values)[values[h]] = found
    BY <1>2, <2>1
  <2> HIDE DEF found
  <2> QED BY <2>1, <2>2, <2>3
<1> QED BY <1>1, <1>2, <1>3 DEF Holds

(* A stencil of block b runs: what it writes and what had a value are in   *)
(* different places.                                                       *)
LEMMA WriteHolds ==
    ASSUME PlacesInv, WritesInv, NEW b \in Block, NEW i \in 1..Len(code[b]),
           NEW values, Placed(values, b), NEW mem, Holds(values, mem)
    PROVE  /\ Placed(Over(code[b][i].writes, values), b)
           /\ Holds(Over(code[b][i].writes, values),
                    Over(AntiFunction(code[b][i].writes), mem))
<1> DEFINE w == code[b][i].writes
           all == Over(w, values)
           mem2 == Over(AntiFunction(w), mem)
<1>1. \A h \in DOMAIN w : h \in handles /\ h.scope \in chain[b] /\ Names(h, w[h])
  BY DEF PlacesInv, WritesInv, Names
<1>2. b \in visited
  BY DEF PlacesInv
<1> HIDE DEF w
<1>3. /\ DOMAIN all = DOMAIN w \cup DOMAIN values
      /\ \A h \in DOMAIN w : all[h] = w[h]
      /\ \A h \in DOMAIN values \ DOMAIN w : all[h] = values[h]
  BY DEF Over
<1>4. Placed(all, b)
  BY <1>1, <1>3 DEF Placed
<1>5. \A h, k \in DOMAIN all : all[h] = all[k] => h = k
  BY <1>2, <1>4 DEF Placed, PlacesInv
<1>6. \A h, k \in DOMAIN w : w[h] = w[k] => h = k
  BY <1>3, <1>5
<1>7. /\ DOMAIN AntiFunction(w) = {w[h] : h \in DOMAIN w}
      /\ \A h \in DOMAIN w : AntiFunction(w)[w[h]] = h
  BY <1>6, InverseHolds DEF Holds
<1>8. /\ DOMAIN mem2 = DOMAIN AntiFunction(w) \cup DOMAIN mem
      /\ \A l \in DOMAIN AntiFunction(w) : mem2[l] = AntiFunction(w)[l]
      /\ \A l \in DOMAIN mem \ DOMAIN AntiFunction(w) : mem2[l] = mem[l]
  BY DEF Over
<1> HIDE DEF all, mem2
<1>9. ASSUME NEW h \in DOMAIN all PROVE all[h] \in DOMAIN mem2 /\ mem2[all[h]] = h
  <2>1. CASE h \in DOMAIN w
    BY <1>3, <1>7, <1>8, <2>1
  <2>2. CASE h \notin DOMAIN w
    <3>1. h \in DOMAIN values /\ all[h] = values[h]
      BY <1>3, <2>2
    <3>2. values[h] \in DOMAIN mem /\ mem[values[h]] = h
      BY <3>1 DEF Holds
    <3>3. values[h] \notin DOMAIN AntiFunction(w)
      BY <1>3, <1>5, <1>7, <2>2, <3>1
    <3> QED BY <1>8, <3>1, <3>2, <3>3
  <2> QED BY <2>1, <2>2
<1>10. Holds(all, mem2)
  BY <1>9 DEF Holds
<1> QED BY <1>4, <1>10 DEF all, mem2, w

(* The arguments of a call are in the places of the parameters, which are  *)
(* variables of the entry, live until the end.                             *)
LEMMA ArgumentsHold ==
    ASSUME StaticInv, ParamsInv,
           NEW values, values = [h \in {p \in params : p.slot \in DOMAIN loc} |-> LocationOf(h)]
    PROVE  Placed(values, Entry) /\ Holds(values, AntiFunction(values))
<1>1. ASSUME NEW h \in DOMAIN values
      PROVE  /\ h \in handles /\ InScope(h.scope) /\ h.scope \in chain[Entry]
             /\ Names(h, values[h])
  <2>1. h \in handles /\ h.scope = Entry /\ h.slot \in DOMAIN loc /\ values[h] = loc[h.slot]
    BY DEF ParamsInv, ParamsInEntry, StaticInv, OwnershipInv, FBTypeOK, LocationOf
  <2>2. Entry \in visited
    BY <2>1 DEF StaticInv, LifetimeInv
  <2>3. Len(scopes) \in Nat \ {0} /\ scopes[1] = Entry
    BY <2>2, LenProperties DEF StaticInv, RootInv, OwnershipInv, FBTypeOK
  <2>4. InScope(Entry) /\ Entry \in chain[Entry]
    BY <2>2, <2>3 DEF StaticInv, RootInv, InScope
  <2>5. h \in Owned
    BY <2>1, <2>4, EntryIsBlock
       DEF StaticInv, LifetimeInv, AcceptedHandlesLive, Accepted, Owned
  <2> QED BY <2>1, <2>4, <2>5 DEF Names
<1>2. \A h, k \in DOMAIN values : values[h] = values[k] => h = k
  BY <1>1, NamesDisjoint
<1> QED BY <1>1, <1>2, InverseHolds DEF Placed

LEMMA ValuesStep ==
    ASSUME StaticInv, ParamsInv, JumpsInv, PlacesInv, ValuesInv,
           [ManagedNext]_managedVars
    PROVE  ValuesInv'
<1>0. FBTypeOK /\ CodeType
  BY DEF StaticInv, OwnershipInv, FrameInv
<1>1. CASE NoCode \/ EmitWrite \/ BranchTo \/ RetOut
  <2>1. status = "building"
    BY <1>1 DEF NoCode, EmitWrite, Emit, BranchTo, RetOut, CreateBlock, OpenBlock,
                NewVariable, NewParam, Active
  <2>2. UNCHANGED runVars
    BY <1>1 DEF NoCode, EmitWrite, BranchTo, RetOut, Put
  <2> QED BY <2>1, <2>2 DEF ValuesInv, Holds, runVars
<1>2. CASE FinalizeAndCall \/ Execute \/ UNCHANGED managedVars
  <2>1. UNCHANGED <<loc, variables, handles, chain, code>>
    BY <1>2 DEF FinalizeAndCall, Finalize, Execute, managedVars, vars, allocVars,
                blockVars, historyVars
  <2>2. CASE FinalizeAndCall
    <3>1. /\ written' = [h \in {p \in params : p.slot \in DOMAIN loc} |-> LocationOf(h)]
          /\ memory' = AntiFunction(written')
          /\ pc' = [block |-> Entry, at |-> 1] \/ UNCHANGED pc
          /\ status = "building" /\ status' # "building"
      BY <2>2 DEF FinalizeAndCall, Finalize
    <3>2. Placed(written', Entry) /\ Holds(written', memory')
      BY <3>1, ArgumentsHold
    <3>3. pc' = [block |-> pc'.block, at |-> pc'.at] /\ pc'.block \in Block
      BY <3>1, EntryIsBlock DEF ValuesInv
    <3>4. pc' # Idle => pc'.block = Entry
      BY <3>1 DEF ValuesInv
    <3>5. pc' # Idle => Placed(written, pc.block)'
      BY <2>1, <3>2, <3>4 DEF Placed, Names, Owned
    <3> QED BY <3>1, <3>2, <3>3, <3>5 DEF ValuesInv, Holds
  <2>3. CASE Execute
    <3> DEFINE b == pc.block
               i == pc.at
               values == Over(code[b][i].writes, written)
    <3>1. /\ b \in Block /\ code[b] \in Seq(Stencils) /\ i \in 1..Len(code[b])
          /\ pc # Idle /\ pc = [block |-> b, at |-> i]
      <4>1. b \in Block /\ i \in DOMAIN code[b]
        BY <2>3 DEF Execute, InCode, ValuesInv
      <4> QED BY <1>0, <2>3, <4>1, LenProperties DEF Execute, ValuesInv, CodeType
    <3>2. /\ Placed(values, b)
          /\ Holds(values, Over(AntiFunction(code[b][i].writes), memory))
      BY <3>1, WriteHolds DEF ValuesInv, StaticInv
    <3>3. memory' = Over(AntiFunction(code[b][i].writes), memory)
      BY <2>3 DEF Execute
    <3>4. status # "building" /\ UNCHANGED status
      BY <2>3, <3>1 DEF Execute, ValuesInv, vars
    <3>5. \/ pc' = Idle /\ written' = values
          \/ pc' = [block |-> b, at |-> i + 1] /\ written' = values
          \/ \E to \in Block : Enter(to, values)
      <4>1. CASE pc' = Idle /\ written' = values
        BY <4>1
      <4>2. CASE \E k \in DOMAIN code[b][i].jumps :
                    IF code[b][i].jumps[k] = NoBlock
                    THEN pc' = [pc EXCEPT !.at = @ + 1] /\ written' = values
                    ELSE Enter(code[b][i].jumps[k], values)
        <5>1. PICK k \in DOMAIN code[b][i].jumps :
                IF code[b][i].jumps[k] = NoBlock
                THEN pc' = [pc EXCEPT !.at = @ + 1] /\ written' = values
                ELSE Enter(code[b][i].jumps[k], values)
          BY <4>2
        <5>2. code[b][i].jumps[k] \in Block \cup {NoBlock}
          BY <1>0, <3>1, CreatedBlocks DEF JumpsInv
        <5>3. [pc EXCEPT !.at = @ + 1] = [block |-> b, at |-> i + 1]
          BY <3>1
        <5> HIDE DEF values
        <5> QED BY <5>1, <5>2, <5>3
      <4> QED BY <2>3, <4>1, <4>2 DEF Execute
    <3> HIDE DEF values
    <3>6. /\ pc' = [block |-> pc'.block, at |-> pc'.at] /\ pc'.block \in Block
          /\ pc' # Idle => Placed(written', pc'.block)
          /\ Holds(written', memory')
      <4>1. CASE pc' = Idle /\ written' = values
        BY <3>2, <3>3, <4>1, EntryIsBlock DEF Idle
      <4>2. CASE pc' = [block |-> b, at |-> i + 1] /\ written' = values
        BY <3>1, <3>2, <3>3, <4>2
      <4>3. CASE \E to \in Block : Enter(to, values)
        <5>1. PICK to \in Block : Enter(to, values)
          BY <4>3
        <5>2. /\ pc' = [block |-> to, at |-> 1]
              /\ written' = [h \in {k \in DOMAIN values : k.scope \in chain[to]} |-> values[h]]
          BY <5>1 DEF Enter
        <5>3. \A h \in DOMAIN written' : /\ h \in DOMAIN values /\ h.scope \in chain[to]
                                         /\ written'[h] = values[h]
          BY <5>2
        <5>4. Placed(written', to) /\ Holds(written', memory')
          BY <3>2, <3>3, <5>3 DEF Placed, Holds
        <5> QED BY <5>2, <5>4
      <4> QED BY <3>5, <4>1, <4>2, <4>3
    <3>7. pc' # Idle => Placed(written, pc.block)'
      BY <2>1, <3>6 DEF Placed, Names, Owned
    <3> QED BY <3>4, <3>6, <3>7 DEF ValuesInv, Holds
  <2>4. CASE UNCHANGED managedVars
    <3>1. UNCHANGED <<pc, memory, written, status>>
      BY <2>4 DEF managedVars, runVars, vars
    <3> QED BY <2>1, <3>1 DEF ValuesInv, Placed, Holds, Names, Owned
  <2> QED BY <1>2, <2>2, <2>3, <2>4
<1> QED BY <1>1, <1>2 DEF ManagedNext

(* With one builder alive at a time and no block switched to twice: while  *)
(* a run of the finished program is in the scope of a variable, along      *)
(* whichever jumps, the variable's value is where it was written, although *)
(* registers and stack slots go from one variable to the next.             *)
THEOREM ValuesSafe ==
    MaxNest <= 1 /\ SwitchOnce = TRUE => (ManagedSpec => []VariablesKeepValues)
<1> SUFFICES ASSUME MaxNest <= 1, SwitchOnce = TRUE
             PROVE  ManagedSpec => []VariablesKeepValues
  OBVIOUS
<1> DEFINE Inv == StaticInv /\ ParamsInv /\ JumpsInv /\ PlacesInv /\ ValuesInv
<1>1. ManagedInit => Inv
  <2> SUFFICES ASSUME ManagedInit PROVE Inv
    OBVIOUS
  <2>1. FBInit /\ \A b \in Block : Len(code[b]) = 0
    BY EmptyCode DEF ManagedInit
  <2>2. StaticInv /\ ParamsInv
    BY <2>1, OwnershipInit, LifetimeInit, NestInit, RootInit, FrameInit, ParamsInit
       DEF StaticInv, WritesInv
  <2>3. JumpsInv
    BY <2>1 DEF FBInit, JumpsInv
  <2>4. PlacesInv
    BY <2>1 DEF FBInit, PlacesInv
  <2>5. ValuesInv
    <3>1. DOMAIN written = {}
      BY DEF ManagedInit
    <3> QED BY <3>1, EntryIsBlock DEF ManagedInit, ValuesInv, Idle, Holds
  <2> QED BY <2>2, <2>3, <2>4, <2>5
<1>2. Inv /\ [ManagedNext]_managedVars => Inv'
  <2> SUFFICES ASSUME Inv, [ManagedNext]_managedVars PROVE Inv'
    OBVIOUS
  <2>1. [FBNext]_vars /\ FBTypeOK
    BY BuilderStep DEF StaticInv, OwnershipInv
  <2>2. OwnershipInv' /\ LifetimeInv' /\ NestInv' /\ RootInv' /\ ParamsInv'
    BY <2>1, OwnershipStep, LifetimeStep, NestStep, RootStep, ParamsStep DEF StaticInv
  <2>3. FrameInv' /\ JumpsInv' /\ WritesInv'
    BY <2>2, FrameStep, JumpsStep, WritesStep DEF StaticInv
  <2>4. StaticInv'
    BY <2>2, <2>3 DEF StaticInv
  <2> QED BY <2>2, <2>3, <2>4, PlacesStep, ValuesStep
<1>3. Inv => VariablesKeepValues
  BY DEF ValuesInv, Holds, VariablesKeepValues
<1> QED BY <1>1, <1>2, <1>3, PTL DEF ManagedSpec

=============================================================================
