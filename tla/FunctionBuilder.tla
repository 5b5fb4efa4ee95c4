--------------------------- MODULE FunctionBuilder ---------------------------
(***************************************************************************)
(* The managed builder of src/managed.rs: a function is a vector of blocks *)
(* of code; a PatchBlockBuilder appends to one of them, allocates          *)
(* variables that belong to it, and branches to others.  Branching to a    *)
(* block fixes the parent in whose scope it will be, and switching to a    *)
(* block leaves every scope that does not enclose it, dropping the         *)
(* variables of those scopes.                                              *)
(*                                                                         *)
(* A call that returns an error and changes nothing is a stuttering step   *)
(* and has no action.  What a block's code looks like is left to module    *)
(* PatchBlock: here a block only knows how its last stencil leaves it.     *)
(* The allocator is the contract that module Allocator implements.         *)
(***************************************************************************)
EXTENDS AllocatorSpec, Sequences

CONSTANTS
    NoBlock,     \* Option::None where a BlockId may be
    MaxBlocks,   \* bound: blocks of the function, the entry included
    MaxScopes,   \* bound: length of current_scopes
    MaxNest,     \* bound: PatchBlockBuilders alive at once, one inside the
                 \* other through PatchBlockBuilder::builder
    MaxVars,     \* bound: variables ever created
    MaxJumps,    \* bound: jumps of a stencil
    \* How the client uses the interface:
    SwitchOnce,          \* it switches to a block at most once
    OneParent,           \* its branches agree on the parent of a block
    ContinueAfterError   \* it goes on building after a call has failed

ASSUME BoundsAssumption ==
    /\ MaxBlocks \in Nat \ {0}
    /\ MaxScopes \in Nat
    /\ MaxNest \in Nat
    /\ MaxVars \in Nat
    /\ MaxJumps \in 0..2
ASSUME NoBlockAssumption == NoBlock \notin Int
ASSUME ClientAssumption ==
    /\ SwitchOnce \in BOOLEAN
    /\ OneParent \in BOOLEAN
    /\ ContinueAfterError \in BOOLEAN

VARIABLES
    nblocks,    \* blocks.len()
    parent,     \* BlockScope.parent of every block
    variables,  \* BlockScope.variables of every block, a set of handles
    ended,      \* PatchBlock.ended of every block
    tail,       \* how the last stencil of a block ends: "none" there is no
                \* code, "falls" it jumps to the stencil after it (the block's
                \* next_relocations is not empty), "leaves" it does not
    scopes,     \* current_scopes
    cursor,     \* ids of the PatchBlockBuilders alive, innermost last
    status,     \* "building", or how the PatchFunctionBuilder ended
    handles,    \* history: every Value the client was given
    params,     \* history: those new_param gave
    born,       \* history: how many there are
    visited,    \* history: blocks switched to
    targeted,   \* history: blocks some emitted stencil jumps to
    chain,      \* history: block -> its enclosing scopes, itself included
    common      \* history: block -> the scopes that enclose every emitted
                \* jump to it

blockVars   == <<nblocks, parent, variables, ended, tail>>
historyVars == <<handles, params, born, visited, targeted, chain, common>>
vars == <<allocVars, blockVars, scopes, cursor, status, historyVars>>

-----------------------------------------------------------------------------

Block   == 0..(MaxBlocks - 1)
Created == 0..(nblocks - 1)
Entry   == 0

(* A Value: its slot, the block that owns it, and, to tell it from an      *)
(* earlier value of the same slot and block, its serial number.            *)
Handle == [slot : Slot, scope : Block, serial : 0..MaxVars]

InScope(b) == \E i \in 1..Len(scopes) : scopes[i] = b

Owned == UNION {variables[b] : b \in Block}

Self == cursor[Len(cursor)]

Active == status = "building" /\ cursor # <<>>

(* enum JumpScope *)
JumpNext         == [kind |-> "Next"]
JumpChild(b)     == [kind |-> "Child", to |-> b]
JumpSame(b)      == [kind |-> "Same", to |-> b]
JumpParent(b, p) == [kind |-> "Parent", to |-> b, parent |-> p]

Jump == {JumpNext}
        \cup {JumpChild(b) : b \in Created}
        \cup {JumpSame(b) : b \in Created}
        \cup {JumpParent(b, p) : b, p \in Created}

(* The jumps argument of branch and end_branch.                            *)
Jumps == UNION {[1..n -> Jump] : n \in 0..MaxJumps}

JumpsOf(js) == {js[i] : i \in 1..Len(js)}

Targets(js) == {j.to : j \in JumpsOf(js) \ {JumpNext}}

-----------------------------------------------------------------------------

FBInit ==
    /\ AllocatorInit
    /\ nblocks = 1
    /\ parent = [b \in Block |-> NoBlock]
    /\ variables = [b \in Block |-> {}]
    /\ ended = [b \in Block |-> FALSE]
    /\ tail = [b \in Block |-> "none"]
    /\ scopes = <<>>
    /\ cursor = <<>>
    /\ status = "building"
    /\ handles = {} /\ params = {} /\ born = 0
    /\ visited = {}
    /\ targeted = {}
    /\ chain = [b \in Block |-> {}]
    /\ common = [b \in Block |-> Block]

(* PatchFunctionBuilder::create_block, called on the builder itself or     *)
(* through PatchBlockBuilder::builder.                                     *)
CreateBlock ==
    /\ status = "building"
    /\ nblocks < MaxBlocks
    /\ nblocks' = nblocks + 1
    /\ UNCHANGED <<allocVars, parent, variables, ended, tail, scopes, cursor,
                   status, historyVars>>

(* The condition under which switch_to_block succeeds, given the parents   *)
(* of the blocks.                                                          *)
CanSwitch(b, par) ==
    /\ b \in Created
    /\ b # Entry => InScope(par[b])

(* The client chooses to switch to b.                                      *)
MaySwitch(b) ==
    /\ SwitchOnce => b \notin visited
    /\ Len(scopes) < MaxScopes

(* How many of current_scopes enclose b: all of them for the entry, else   *)
(* those up to the first occurrence of b's parent.                         *)
Enclosing(b, par, kept) ==
    IF b = Entry
    THEN kept = Len(scopes)
    ELSE /\ scopes[kept] = par[b]
         /\ \A i \in 1..(kept - 1) : scopes[i] # par[b]

(* Operators named Faulty... are what a bug would make of the definition   *)
(* that follows them.  Switching: to a block no branch leads to; without   *)
(* leaving the scopes whose variables are dropped; without dropping the    *)
(* variables of the scopes left; dropping them, but not taking them from   *)
(* their blocks.                                                           *)
FaultySwitchAnywhere(b, par) ==
    /\ b \in Created
    /\ scopes' = Append(scopes, b)
    /\ chain' = [chain EXCEPT ![b] = {scopes[i] : i \in 1..Len(scopes)} \cup {b}]
    /\ visited' = visited \cup {b}
    /\ UNCHANGED <<variables, allocVars>>

FaultySwitch(b, par, leave, drop, take) ==
    /\ CanSwitch(b, par)
    /\ \E kept \in (IF b = Entry THEN {Len(scopes)} ELSE 1..Len(scopes)) :
          /\ Enclosing(b, par, kept)
          /\ LET left == {scopes[i] : i \in (kept + 1)..Len(scopes)}
             IN  /\ variables' = [c \in Block |->
                                    IF take /\ c \in left THEN {} ELSE variables[c]]
                 /\ IF drop
                    THEN DropAll({h.slot : h \in UNION {variables[c] : c \in left}})
                    ELSE UNCHANGED allocVars
          /\ scopes' = Append(IF leave THEN SubSeq(scopes, 1, kept) ELSE scopes, b)
          /\ chain' = [chain EXCEPT
                         ![b] = {scopes[i] : i \in 1..kept} \cup {b}]
    /\ visited' = visited \cup {b}

FaultySwitchParent(b, par) ==
    /\ CanSwitch(b, par)
    /\ \E kept \in (IF b = Entry THEN {Len(scopes)} ELSE 1..Len(scopes)) :
          /\ Enclosing(b, par, kept)
          /\ LET left == {scopes[i] : i \in Larger(kept, 1)..Len(scopes)}
             IN  /\ variables' = [c \in Block |->
                                    IF c \in left THEN {} ELSE variables[c]]
                 /\ DropAll({h.slot : h \in UNION {variables[c] : c \in left}})
          /\ scopes' = Append(SubSeq(scopes, 1, kept), b)
          /\ chain' = [chain EXCEPT
                         ![b] = {scopes[i] : i \in 1..kept} \cup {b}]
    /\ visited' = visited \cup {b}

FaultySwitchStays(b, par)  == FaultySwitch(b, par, FALSE, TRUE, TRUE)
FaultySwitchLeaks(b, par)  == FaultySwitch(b, par, TRUE, FALSE, FALSE)
FaultySwitchRepeat(b, par) == FaultySwitch(b, par, TRUE, TRUE, FALSE)

(* PatchFunctionBuilder::switch_to_block: the scopes that do not enclose   *)
(* the block are left, and their variables dropped.                        *)
SwitchToBlock(b, par) ==
    /\ CanSwitch(b, par)
    /\ \E kept \in (IF b = Entry THEN {Len(scopes)} ELSE 1..Len(scopes)) :
          /\ Enclosing(b, par, kept)
          /\ LET left == {scopes[i] : i \in (kept + 1)..Len(scopes)}
             IN  /\ variables' = [c \in Block |->
                                    IF c \in left THEN {} ELSE variables[c]]
                 /\ DropAll({h.slot : h \in UNION {variables[c] : c \in left}})
          /\ scopes' = Append(SubSeq(scopes, 1, kept), b)
          /\ chain' = [chain EXCEPT
                         ![b] = {scopes[i] : i \in 1..kept} \cup {b}]
    /\ visited' = visited \cup {b}

(* PatchFunctionBuilder::switch_to_block or switch_to_entry by the client. *)
OpenBlock(b) ==
    /\ status = "building"
    /\ Len(cursor) < MaxNest
    /\ MaySwitch(b)
    /\ SwitchToBlock(b, parent)
    /\ cursor' = Append(cursor, b)
    /\ UNCHANGED <<nblocks, parent, ended, tail, status,
                   handles, params, born, targeted, common>>

Pop == cursor' = SubSeq(cursor, 1, Len(cursor) - 1)

(* The client lets go of a PatchBlockBuilder, be it by a ret whose operand *)
(* is refused.                                                             *)
CloseBlock ==
    /\ Active
    /\ Pop
    /\ UNCHANGED <<allocVars, blockVars, scopes, status, historyVars>>

-----------------------------------------------------------------------------

(* The tail of new_variable: the value joins the variables of its block.   *)
(* The allocator refuses when every slot is live.                          *)
Bind(h) ==
    /\ h = [slot |-> h.slot, scope |-> Self, serial |-> born]
    /\ \E l \in Candidates : AllocateAt(h.slot, l)
    /\ variables' = [variables EXCEPT ![Self] = @ \cup {h}]
    /\ handles' = handles \cup {h}
    /\ born' = born + 1
    /\ UNCHANGED <<nblocks, parent, ended, tail, scopes, cursor, status,
                   visited, targeted, chain, common>>

Fresh == [slot : Slot \ DOMAIN loc, scope : {Self}, serial : {born}]

(* PatchBlockBuilder::new_variable *)
NewVariable ==
    /\ Active
    /\ born < MaxVars
    /\ \E h \in Fresh : Bind(h)
    /\ UNCHANGED params

FaultyParamAnywhere ==
    /\ Active
    /\ born < MaxVars
    /\ \E h \in Fresh : Bind(h) /\ params' = params \cup {h}

(* PatchBlockBuilder::new_param *)
NewParam ==
    /\ Active
    /\ born < MaxVars
    /\ parent[Self] = NoBlock
    /\ \E h \in Fresh : Bind(h) /\ params' = params \cup {h}

-----------------------------------------------------------------------------

(* fn locations, which every emission starts with: a handle is accepted    *)
(* when its scope is among current_scopes.  Handles decide between an      *)
(* error, the emission, and a panic, when the slab has no such slot.       *)
Accepted(h) == InScope(h.scope)

PanicOnHandle ==
    /\ Active
    /\ \E h \in handles : Accepted(h) /\ h.slot \notin DOMAIN loc
    /\ status' = "panicked"
    /\ UNCHANGED <<allocVars, blockVars, scopes, cursor, historyVars>>

(* PatchBlockBuilder::emit *)
Emit ==
    /\ Active
    /\ ~ ended[Self]
    /\ tail' = [tail EXCEPT ![Self] = "falls"]
    /\ UNCHANGED <<allocVars, nblocks, parent, variables, ended, scopes, cursor,
                   status, historyVars>>

(* The parents after one more jump of a stencil in block b, in branch_prep.*)
Declare(par, b, j) ==
    CASE j.kind = "Next"   -> par
      [] j.kind = "Child"  -> [par EXCEPT ![j.to] = b]
      [] j.kind = "Same"   -> [par EXCEPT ![j.to] =
                                 IF par[b] = NoBlock THEN Entry ELSE par[b]]
      [] j.kind = "Parent" -> [par EXCEPT ![j.to] = j.parent]

DeclareAll(par, b, js) ==
    CASE Len(js) = 0 -> par
      [] Len(js) = 1 -> Declare(par, b, js[1])
      [] Len(js) = 2 -> Declare(Declare(par, b, js[1]), b, js[2])

FaultyParentUnchecked(js) == TRUE

(* branch_prep refuses a parent that is not among current_scopes.          *)
ParentsInScope(js) ==
    \A j \in JumpsOf(js) : j.kind = "Parent" => InScope(j.parent)

(* The client chooses to branch: it does not move a block to another parent. *)
MayBranch(par) ==
    OneParent => \A b \in Block : parent[b] # NoBlock => par[b] = parent[b]

(* PatchBlock::branch, when a stencil is found.                            *)
EmitJumps(js) ==
    /\ ParentsInScope(js)
    /\ tail' = [tail EXCEPT ![Self] =
                  IF JumpNext \in JumpsOf(js) THEN "falls" ELSE "leaves"]
    /\ targeted' = targeted \cup Targets(js)
    /\ common' = [b \in Block |-> IF b \in Targets(js)
                                  THEN common[b] \cap chain[Self]
                                  ELSE common[b]]

(* PatchBlockBuilder::branch; par is what branch_prep makes of parent.     *)
Branch(js, par) ==
    /\ parent' = par
    /\ EmitJumps(js)
    /\ UNCHANGED <<allocVars, nblocks, variables, ended, scopes, cursor, status,
                   handles, params, born, visited, chain>>

(* A branch that fails, for a parent out of scope or because no stencil of *)
(* the family fits the operands: the parents stay declared.                *)
FailBranch(par) ==
    /\ ContinueAfterError
    /\ parent' = par
    /\ UNCHANGED <<allocVars, nblocks, variables, ended, tail, scopes, cursor,
                   status, historyVars>>

End == ended' = [ended EXCEPT ![Self] = TRUE]

(* PatchBlockBuilder::end_branch: the builder goes on in the next block.   *)
EndBranch(js, par, next) ==
    /\ parent' = par
    /\ EmitJumps(js)
    /\ End
    /\ MaySwitch(next)
    /\ SwitchToBlock(next, par)
    /\ cursor' = [cursor EXCEPT ![Len(cursor)] = next]
    /\ UNCHANGED <<nblocks, status, handles, params, born>>

(* The jump is emitted and the block ended, but the next block is refused: *)
(* the builder stays in the ended block.                                   *)
EndBranchNoNext(js, par) ==
    /\ ContinueAfterError
    /\ \E next \in Created : ~ CanSwitch(next, par)
    /\ parent' = par
    /\ EmitJumps(js)
    /\ End
    /\ UNCHANGED <<allocVars, nblocks, variables, scopes, cursor, status,
                   handles, params, born, visited, chain>>

(* No stencil fits: PatchBlock::end_branch has already ended the block.    *)
FailEndBranch(js, par) ==
    /\ ContinueAfterError
    /\ ParentsInScope(js)
    /\ parent' = par
    /\ End
    /\ UNCHANGED <<allocVars, nblocks, variables, tail, scopes, cursor, status,
                   historyVars>>

(* PatchBlockBuilder::ret, which consumes the PatchBlockBuilder.           *)
Ret ==
    /\ Active
    /\ End
    /\ tail' = [tail EXCEPT ![Self] = "leaves"]
    /\ Pop
    /\ UNCHANGED <<allocVars, nblocks, parent, variables, scopes, status,
                   historyVars>>

(* No stencil fits: PatchBlock::ret has already ended the block.           *)
FailRet ==
    /\ Active
    /\ ContinueAfterError
    /\ End
    /\ Pop
    /\ UNCHANGED <<allocVars, nblocks, parent, variables, tail, scopes, status,
                   historyVars>>

-----------------------------------------------------------------------------

FaultyLooseEnds == \A b \in Created : ended[b]

(* PatchFunctionBuilder::finalize_into: every block must be ended, and its *)
(* last stencil must not jump to a stencil after it.                       *)
Complete == \A b \in Created : ended[b] /\ tail[b] # "falls"

Finalize ==
    /\ status = "building"
    /\ cursor = <<>>
    /\ status' = IF Complete THEN "program" ELSE "refused"
    /\ UNCHANGED <<allocVars, blockVars, scopes, cursor, historyVars>>

BranchSome ==
    /\ Active
    /\ \E js \in Jumps :
          LET par == DeclareAll(parent, Self, js)
          IN  /\ MayBranch(par)
              /\ \/ Branch(js, par)
                 \/ FailBranch(par)
                 \/ \E next \in Created : EndBranch(js, par, next)
                 \/ EndBranchNoNext(js, par)
                 \/ FailEndBranch(js, par)

FBNext ==
    \/ CreateBlock
    \/ \E b \in Created : OpenBlock(b)
    \/ CloseBlock
    \/ NewVariable
    \/ NewParam
    \/ PanicOnHandle
    \/ Emit
    \/ BranchSome
    \/ Ret
    \/ FailRet
    \/ Finalize

FBSpec == FBInit /\ [][FBNext]_vars

-----------------------------------------------------------------------------

FBTypeOK ==
    /\ AllocatorTypeOK
    /\ nblocks \in 1..MaxBlocks
    /\ parent \in [Block -> Block \cup {NoBlock}]
    /\ variables \in [Block -> SUBSET Handle]
    /\ ended \in [Block -> BOOLEAN]
    /\ tail \in [Block -> {"none", "falls", "leaves"}]
    /\ scopes \in Seq(Block)
    /\ cursor \in Seq(Block)
    /\ status \in {"building", "program", "refused", "panicked"}
    /\ handles \subseteq Handle /\ params \subseteq handles
    /\ born \in 0..MaxVars
    /\ visited \subseteq Block /\ targeted \subseteq Block
    /\ chain \in [Block -> SUBSET Block]
    /\ common \in [Block -> SUBSET Block]

(* Every live slot belongs to exactly one variable of exactly one block,   *)
(* and every variable has its slot, whatever the client calls in whatever  *)
(* order: leaving a scope never drops a slot twice (a panic in the slab,   *)
(* or the loss of another variable's location) and never leaks one.        *)
OwnedExactlyOnce ==
    /\ DOMAIN loc = {h.slot : h \in Owned}
    /\ \A h, k \in Owned : h.slot = k.slot => h = k
    /\ \A b \in Block : \A h \in variables[b] : h.scope = b

(* A handle that emission accepts names its own live variable, so it is    *)
(* neither a panic nor the location of another variable.                   *)
AcceptedHandlesLive ==
    \A h \in handles : Accepted(h) => h \in variables[h.scope]

(* The slots of a block are given back once its scope is left: a variable  *)
(* lives exactly as long as its scope.                                     *)
LeftScopesEmpty ==
    \A b \in Block : variables[b] # {} => InScope(b)

(* A variable visible in a block is visible at every emitted branch to it: *)
(* no path enters the block past the creation of a scope it relies on.     *)
ScopesDominate ==
    \A i \in 1..Len(scopes) :
        scopes[i] # Entry => chain[scopes[i]] \ {scopes[i]} \subseteq common[scopes[i]]

(* Code is emitted only into blocks some emitted stencil jumps to          *)
(* (PatchError::BlockOutOfScope).                                          *)
CodeIsTargeted ==
    \A b \in Block \ {Entry} : tail[b] # "none" => b \in targeted

(* Parameters are variables of the entry block: those of other blocks have *)
(* no argument registers (PatchError::InvalidParams).                      *)
ParamsInEntry == \A h \in params : h.scope = Entry

(* A finished program never runs off the end of a block into whatever      *)
(* bytes follow it: each block has code, and the code ends in a stencil    *)
(* that returns or jumps elsewhere (PatchError::NotEnded, InvalidEnd).     *)
NoRunOff ==
    status = "program" => \A b \in Created : tail[b] = "leaves"

(* While a block is being built, only variables of the blocks that enclose *)
(* it are accepted: its code runs after theirs.                            *)
AcceptedEncloses ==
    Active => \A b \in Block : InScope(b) => b \in chain[Self]

=============================================================================
