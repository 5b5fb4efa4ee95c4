--------------------------- MODULE ManagedProgram ---------------------------
(***************************************************************************)
(* The programs the managed builder makes, and their runs: module          *)
(* FunctionBuilder with the stencils of each block, which name registers   *)
(* and stack slots where the client named variables (fn locations of       *)
(* src/managed.rs), and then a run of the finished program on these.  That *)
(* the image runs the stencils as they were emitted is module Program's    *)
(* ImageRuns.                                                              *)
(*                                                                         *)
(* The allocator gives a register or stack slot to one variable after      *)
(* another, as the BUILDER enters and leaves scopes; the program reaches   *)
(* blocks in the order of its jumps, loops included.                       *)
(***************************************************************************)
EXTENDS FunctionBuilder, Functions

CONSTANT MaxStencils   \* bound: stencils of the function

ASSUME StencilsAssumption == MaxStencils \in Nat

VARIABLES
    code,     \* the stencils of every block: what each writes, variable ->
              \* location, and its jumps, to a block or to the next stencil,
              \* NoBlock
    pc,       \* the stencil to run next, [block, at]; at = 0 when none is
    memory,   \* location -> the variable that was written there last
    written   \* history: variable with a value, in whose scope the run is
              \* -> the location it was written to

runVars     == <<pc, memory, written>>
managedVars == <<vars, code, runVars>>

Idle == [block |-> Entry, at |-> 0]

ManagedInit ==
    /\ FBInit
    /\ code = [b \in Block |-> <<>>]
    /\ pc = Idle
    /\ memory = <<>>
    /\ written = <<>>

-----------------------------------------------------------------------------

(* fn locations, for an accepted variable.                                 *)
LocationOf(h) == loc[h.slot]

NoWrites == [h \in {} |-> Register(0)]

Stencil(writes, js) ==
    [writes |-> writes,
     jumps  |-> [i \in DOMAIN js |-> IF js[i] = JumpNext THEN NoBlock ELSE js[i].to]]

NStencils == FoldFunction(LAMBDA t, n : Len(t) + n, 0, code)

(* A stencil is emitted if there is room for it and then for ending every  *)
(* block: the others belong to functions too long to finish.               *)
Room(open) == NStencils + Cardinality(open) < MaxStencils

Open == {b \in Created : ~ ended[b]}

Put(stencil) ==
    /\ code' = [code EXCEPT ![Self] = Append(@, stencil)]
    /\ UNCHANGED runVars

(* What the stencils emitted so far write.                                 *)
Writes == UNION {{code[b][i].writes : i \in DOMAIN code[b]} : b \in Block}

(* The client gives a variable a value before it goes on.                  *)
AllWritten == \A h \in handles \ params : \E w \in Writes : h \in DOMAIN w

(* PatchBlockBuilder::emit of a stencil that writes a variable.            *)
EmitWrite ==
    /\ Room(Open)
    /\ Emit
    /\ \E h \in handles :
          /\ Accepted(h) /\ h.slot \in DOMAIN loc
          /\ Put(Stencil([k \in {h} |-> LocationOf(k)], <<JumpNext>>))

(* The jumps this client asks for: one, or two to different places, whose  *)
(* order makes no difference; a run may take either.                       *)
Position(j) == IF j = JumpNext THEN MaxBlocks ELSE j.to

UsedJumps ==
    {js \in Jumps \ {<<>>} :
        /\ Len(js) = 2 => Position(js[1]) < Position(js[2])
        /\ Entry \notin Targets(js)}

(* PatchBlockBuilder::branch and end_branch, which write nothing here.     *)
BranchTo ==
    /\ Active
    /\ AllWritten
    /\ \E js \in UsedJumps :
          LET par == DeclareAll(parent, Self, js)
          IN  /\ MayBranch(par)
              /\ \/ Room(Open) /\ Branch(js, par)
                 \/ /\ Room(Open \ {Self})
                    /\ \E next \in Created : EndBranch(js, par, next)
              /\ Put(Stencil(NoWrites, js))

(* PatchBlockBuilder::ret                                                  *)
RetOut == Active /\ Room(Open \ {Self}) /\ Ret /\ Put(Stencil(NoWrites, <<>>))

(* The calls that leave no stencil behind.  The client creates its blocks  *)
(* first, and lets go of a block only by ret and end_branch: no other way  *)
(* leads to a program.  Of the free slots, which are alike, the first is   *)
(* taken.                                                                  *)
NoCode ==
    /\ \/ CreateBlock /\ visited = {}
       \/ \E b \in Created : OpenBlock(b)
       \/ NewVariable
       \/ NewParam
    /\ AllWritten
    /\ \A h \in handles' \ handles, s \in Slot \ DOMAIN loc : h.slot <= s
    /\ UNCHANGED <<code, runVars>>

(* PatchFunctionBuilder::finalize; the program is then called, with its    *)
(* arguments at the locations of the parameters.                           *)
FinalizeAndCall ==
    /\ Finalize
    /\ pc' = IF Complete THEN [block |-> Entry, at |-> 1] ELSE pc
    /\ written' = [h \in {p \in params : p.slot \in DOMAIN loc} |-> LocationOf(h)]
    /\ memory' = AntiFunction(written')
    /\ UNCHANGED code

-----------------------------------------------------------------------------

InCode == pc.at \in DOMAIN code[pc.block]

(* The run enters block b: the scopes that do not enclose it are left, and *)
(* with them the variables.                                                *)
Enter(b, values) ==
    /\ pc' = [block |-> b, at |-> 1]
    /\ written' = [h \in {k \in DOMAIN values : k.scope \in chain[b]} |-> values[h]]

(* f where it is defined, else g.                                          *)
Over(f, g) == [x \in DOMAIN f \cup DOMAIN g |-> IF x \in DOMAIN f THEN f[x] ELSE g[x]]

(* One stencil runs, and one of its jumps is taken; without one it returns.*)
Execute ==
    /\ pc # Idle /\ InCode
    /\ LET t == code[pc.block][pc.at]
           values == Over(t.writes, written)
       IN  /\ memory' = Over(AntiFunction(t.writes), memory)
           /\ \/ t.jumps = <<>> /\ pc' = Idle /\ written' = values
              \/ \E i \in DOMAIN t.jumps :
                    IF t.jumps[i] = NoBlock
                    THEN pc' = [pc EXCEPT !.at = @ + 1] /\ written' = values
                    ELSE Enter(t.jumps[i], values)
    /\ UNCHANGED <<vars, code>>

ManagedNext ==
    \/ NoCode
    \/ EmitWrite
    \/ BranchTo
    \/ RetOut
    \/ FinalizeAndCall
    \/ Execute

ManagedSpec == ManagedInit /\ [][ManagedNext]_managedVars

-----------------------------------------------------------------------------

(* A variable keeps its value while the run is in its scope: no stencil on *)
(* any path of the program writes another variable to its location, though *)
(* locations are used again and again (PatchError::VariableOutOfScope).    *)
VariablesKeepValues ==
    \A h \in DOMAIN written : memory[written[h]] = h

(* All code that names a variable finds it at the same location, so that   *)
(* what one stencil writes is what a later one reads.                      *)
LocationsStay ==
    \A w \in Writes : \A h \in DOMAIN w :
        InScope(h.scope) => h.slot \in DOMAIN loc /\ w[h] = loc[h.slot]

(* The frame that is announced with the program holds every stack slot its *)
(* code uses, though many are vacant when it is finalized.                 *)
FrameHoldsCode ==
    status = "program" =>
        \A w \in Writes : \A h \in DOMAIN w : w[h] \in Registers \cup StackBelow(stackSize)

(* A run never leaves the code of a block behind its last stencil, and is  *)
(* never sent to a block without code.                                     *)
RunStaysInCode == pc # Idle => InCode

=============================================================================
