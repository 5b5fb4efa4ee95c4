------------------------------- MODULE BfCode -------------------------------
(***************************************************************************)
(* The compiler of the brainfuck example (examples/bf) and a run of the    *)
(* code it makes (examples/bf-stencils): the visits of a parsed program    *)
(* are laid out in blocks, loops as two of them, and the stencils of the   *)
(* blocks run on a tape.  By default the tape is padded and bounds are     *)
(* checked now and then; in the saturating mode it is exact, and moves     *)
(* stop at its ends.  The blocks are those of the managed builder (module  *)
(* FunctionBuilder); here they hold stencils.                              *)
(*                                                                         *)
(* The program is any that the parser can have made (Shaped); module Bf    *)
(* has the parser itself.                                                  *)
(*                                                                         *)
(* Operators named Faulty... are what a bug would make of the definition   *)
(* that follows them; the properties are run against them, to see that     *)
(* they notice.                                                            *)
(***************************************************************************)
EXTENDS Integers, SequencesExt

CONSTANTS
    MaxPrinted,    \* bound: the bytes a run prints
    TapeSize,      \* CompileOptions.tape_size
    CheckAfter,    \* 1024 in the source: how far to move without a check
    Padding,       \* 4096 in the source: bytes before and after the tape
    CellSize       \* 256 in the source: a cell counts modulo it

ASSUME BfAssumption ==
    /\ MaxPrinted \in Nat
    /\ TapeSize \in Nat \ {0}
    /\ CheckAfter \in Nat \ {0} /\ CellSize \in Nat \ {0}
    /\ Padding \in Nat /\ 2 * CheckAfter <= Padding + 1

VARIABLES
    saturating,    \* CompileOptions.saturating
    phase,         \* "parse", "compile", "run", "returned", "panicked"
    visits,        \* what visit has still to call the compiler with
    blocks,        \* the code of each block; blocks[1] is the entry
    current,       \* the block that is filled
    free,          \* the slice `blocks` of compile: block ids not yet used
    loopStack,     \* loop_stack: start and tail of the open loops
    pc,            \* run: the block and the stencil to execute
    index,         \* run: the parameter `index`
    tape,          \* run: the bytes, by their distance from the base pointer
    stdin,         \* run: the bytes input has still to return
    printed,       \* run: the bytes printed
    given          \* history: the tape and the input a run has started with

compiling == <<visits, blocks, current, free, loopStack>>
running == <<pc, index, tape, stdin, printed, given>>
codeVars == <<saturating, phase, compiling, running>>

-----------------------------------------------------------------------------
(* An operation is IncDec(n), LeftRight(n), In, Out, SetZero or AddTo(n).  *)

From(s, i) == SubSeq(s, i, Len(s))

Abs(n) == IF n < 0 THEN -n ELSE n

IncDec(n) == [op |-> "IncDec", n |-> n]
LeftRight(n) == [op |-> "LeftRight", n |-> n]
SetZero == [op |-> "SetZero", n |-> 0]
In == [op |-> "In", n |-> 0]
Out == [op |-> "Out", n |-> 0]
AddTo(n) == [op |-> "AddTo", n |-> n]

(* What BF::visit calls its argument with, one after the other.            *)
Operation == [op : {"IncDec", "LeftRight", "SetZero", "In", "Out", "AddTo"}, n : Int]
Visit == [kind : {"Leaf"}, ops : Seq(Operation)] \cup [kind : {"IntoLoop", "OutOfLoop"}]

(* The loops that are open after the first i visits.                       *)
OpenLoops(v, i) ==
    Cardinality({j \in 1..i : v[j].kind = "IntoLoop"})
      - Cardinality({j \in 1..i : v[j].kind = "OutOfLoop"})

(* What the parser makes of a program, as the compiler relies on it: loops *)
(* nest, no leaf follows a leaf, and nothing but the ends of loops comes   *)
(* after an AddTo, which reaches less far than the compiler lets pass      *)
(* without a check.                                                        *)
Shaped(v) ==
    /\ v \in Seq(Visit)
    /\ \A i \in 1..Len(v) : OpenLoops(v, i) >= 0
    /\ OpenLoops(v, Len(v)) = 0
    /\ \A i \in 2..Len(v) : v[i].kind = "Leaf" => v[i - 1].kind # "Leaf"
    /\ \A i \in 1..Len(v) : v[i].kind = "Leaf" =>
          \A j \in 1..Len(v[i].ops) : v[i].ops[j].op = "AddTo" =>
             /\ Abs(v[i].ops[j].n) \in 1..(CheckAfter - 1)
             /\ j = Len(v[i].ops)
             /\ \A k \in (i + 1)..Len(v) : v[k].kind = "OutOfLoop"

-----------------------------------------------------------------------------
(* The compiler.  A stencil jumps to blocks, or to the one behind it.      *)

Behind == 0
Stencil(op, n) == [op |-> op, n |-> n]
If(zero, other) == [op |-> "If", zero |-> zero, other |-> other]
Jump(block) == [op |-> "Jump", block |-> block]
Check == [op |-> "Check"]
Ret(n) == [op |-> "Ret", n |-> n]

FaultyEmitOp(done, op) ==
    LET moved == done.movement + (IF op.op \in {"LeftRight", "AddTo"} THEN op.n ELSE 0)
        stencils == done.stencils
                      \o (IF op.n = 0 /\ op.op \in {"IncDec", "LeftRight"} THEN <<>>
                          ELSE <<Stencil(op.op, op.n)>>)
    IN  IF moved > CheckAfter
        THEN [movement |-> 0, stencils |-> Append(stencils, Check)]
        ELSE [movement |-> moved, stencils |-> stencils]

(* What one operation of a leaf emits, and the movement since the last     *)
(* check.                                                                  *)
EmitOp(done, op) ==
    LET moved == done.movement + (IF op.op \in {"LeftRight", "AddTo"} THEN op.n ELSE 0)
        stencils == done.stencils
                      \o (IF op.n = 0 /\ op.op \in {"IncDec", "LeftRight"} THEN <<>>
                          ELSE <<Stencil(op.op, op.n)>>)
    IN  IF Abs(moved) > CheckAfter /\ ~ saturating
        THEN [movement |-> 0, stencils |-> Append(stencils, Check)]
        ELSE [movement |-> moved, stencils |-> stencils]

CodeInit ==
    /\ saturating \in BOOLEAN
    /\ phase = "parse"
    /\ visits = <<>> /\ blocks = <<>> /\ current = 1 /\ free = <<>> /\ loopStack = <<>>
    /\ pc = <<1, 1>> /\ index = 0 /\ tape = <<>>
    /\ stdin = <<>> /\ printed = <<>> /\ given = <<>>

(* compile, from its first visit to its second: two blocks for each loop,  *)
(* and the one for panics.                                                 *)
CreateBlocks(v) ==
    /\ phase = "parse"
    /\ phase' = "compile"
    /\ visits' = v
    /\ LET loops == Cardinality({i \in DOMAIN v : v[i].kind # "Leaf"})
       IN  /\ blocks' = [b \in 1..(loops + 2) |-> <<>>]
           /\ free' = [i \in 1..loops |-> i + 1]
    /\ UNCHANGED <<saturating, current, loopStack, running>>

Panic == Len(blocks)

Visiting(kind) ==
    /\ phase = "compile" /\ visits # <<>>
    /\ Head(visits).kind = kind
    /\ visits' = Tail(visits)
    /\ UNCHANGED <<saturating, phase, running>>

VisitLeaf ==
    /\ Visiting("Leaf")
    /\ blocks' = [blocks EXCEPT ![current] =
          @ \o FoldLeft(EmitOp, [movement |-> 0, stencils |-> <<>>], Head(visits).ops).stencils]
    /\ UNCHANGED <<current, free, loopStack>>

FaultyIntoLoop ==
    /\ Visiting("IntoLoop")
    /\ LET next == free[1]
           tail == free[2]
       IN  /\ blocks' = [blocks EXCEPT ![current] = Append(@, Jump(next)),
                                       ![next] = <<If(tail, Behind)>>]
           /\ current' = next
           /\ loopStack' = Append(loopStack, [start |-> next, tail |-> tail])
           /\ free' = From(Front(free), 2)

FaultyLoopUntested ==
    /\ Visiting("IntoLoop")
    /\ LET next == Head(free)
           tail == Last(free)
       IN  /\ blocks' = [blocks EXCEPT ![current] = Append(@, Jump(next))]
           /\ current' = next
           /\ loopStack' = Append(loopStack, [start |-> next, tail |-> tail])
           /\ free' = Front(Tail(free))

IntoLoop ==
    /\ Visiting("IntoLoop")
    /\ LET next == Head(free)
           tail == Last(free)
       IN  /\ blocks' = [blocks EXCEPT ![current] = Append(@, Jump(next)),
                                       ![next] = <<If(tail, Behind)>>]
           /\ current' = next
           /\ loopStack' = Append(loopStack, [start |-> next, tail |-> tail])
           /\ free' = Front(Tail(free))

OutOfLoop ==
    /\ Visiting("OutOfLoop")
    /\ LET loop == Last(loopStack)
       IN  /\ blocks' = [blocks EXCEPT ![current] = Append(@, If(loop.tail, loop.start))]
           /\ current' = loop.tail
    /\ loopStack' = Front(loopStack)
    /\ UNCHANGED free

-----------------------------------------------------------------------------
(* The tape and moves on it.                                               *)

Cells == IF saturating THEN 0..(TapeSize - 1) ELSE (-Padding)..(TapeSize + Padding - 1)

Filled(v) == [p \in Cells |-> IF p \in 0..(TapeSize - 1) THEN v ELSE 0]

InTape(i) == i \in 0..(TapeSize - 1)

FaultyAdded(t, i, n) == [t EXCEPT ![i] = @ + n]

Added(t, i, n) == [t EXCEPT ![i] = (@ + n) % CellSize]

(* left1_sat, leftn_sat, right1_sat, rightn_sat, with the limit            *)
(* tape_size - 1, and their namesakes.                                     *)
Moved(i, n) ==
    IF ~ saturating THEN i + n
    ELSE IF n < 0 THEN Max({i + n, 0}) ELSE Min({i + n, TapeSize - 1})

(* input, which reads a 0 where there is no more.                          *)
Input(in) == IF in = <<>> THEN 0 ELSE Head(in)
Rest(in) == IF in = <<>> THEN <<>> ELSE Tail(in)

(* compile to its end, and compile_and_run, or a caller with data of its   *)
(* own (test_run), calls what it returned, on cells that hold fill.        *)
Finish(fill, in) ==
    /\ phase = "compile" /\ visits = <<>>
    /\ phase' = "run"
    /\ blocks' = [blocks EXCEPT ![current] = @ \o <<Check, Ret(0)>>, ![Panic] = <<Ret(-1)>>]
    /\ tape' = Filled(fill)
    /\ stdin' = in
    /\ given' = <<Filled(fill), in>>
    /\ UNCHANGED <<saturating, visits, current, free, loopStack, pc, index, printed>>

-----------------------------------------------------------------------------
(* A run of the stencils of examples/bf-stencils.                          *)

AtStencil == blocks[pc[1]][pc[2]]

To(block) == pc' = IF block = Behind THEN <<pc[1], pc[2] + 1>> ELSE <<block, 1>>

(* The cells a stencil reads or writes.                                    *)
Accessed ==
    CASE AtStencil.op \in {"IncDec", "SetZero", "In", "Out"} -> {index}
      [] AtStencil.op = "AddTo" -> {index, index + AtStencil.n}
      [] AtStencil.op = "If" -> IF saturating \/ InTape(index) THEN {index} ELSE {}
      [] OTHER -> {}

(* A stencil about to run, whose accesses stay in the memory there is.     *)
Runs(op) ==
    /\ phase = "run" /\ AtStencil.op = op
    /\ Accessed \subseteq Cells
    /\ UNCHANGED <<saturating, compiling, given>>

Straight(op) == Runs(op) /\ To(Behind) /\ UNCHANGED phase

(* add1, addn, sub1, subn                                                  *)
RunIncDec ==
    /\ Straight("IncDec")
    /\ tape' = Added(tape, index, AtStencil.n)
    /\ UNCHANGED <<index, stdin, printed>>

RunLeftRight ==
    /\ Straight("LeftRight")
    /\ index' = Moved(index, AtStencil.n)
    /\ UNCHANGED <<tape, stdin, printed>>

RunSetZero ==
    /\ Straight("SetZero")
    /\ tape' = [tape EXCEPT ![index] = 0]
    /\ UNCHANGED <<index, stdin, printed>>

RunAddTo ==
    /\ Straight("AddTo")
    /\ tape' = Added([tape EXCEPT ![index] = 0], index + AtStencil.n, tape[index])
    /\ UNCHANGED <<index, stdin, printed>>

RunPrint ==
    /\ Straight("Out") /\ Len(printed) < MaxPrinted
    /\ printed' = Append(printed, tape[index])
    /\ UNCHANGED <<index, tape, stdin>>

RunRead ==
    /\ Straight("In")
    /\ tape' = [tape EXCEPT ![index] = Input(stdin)]
    /\ stdin' = Rest(stdin)
    /\ UNCHANGED <<index, printed>>

RunJump ==
    /\ Runs("Jump")
    /\ To(AtStencil.block)
    /\ UNCHANGED <<phase, index, tape, stdin, printed>>

RunCheck ==
    /\ Runs("Check")
    /\ To(IF InTape(index) THEN Behind ELSE Panic)
    /\ UNCHANGED <<phase, index, tape, stdin, printed>>

(* if_zero, and if_zero_unchecked in the saturating mode                   *)
RunIf ==
    /\ Runs("If")
    /\ To(IF ~ saturating /\ ~ InTape(index) THEN Panic
          ELSE IF tape[index] = 0 THEN AtStencil.zero ELSE AtStencil.other)
    /\ UNCHANGED <<phase, index, tape, stdin, printed>>

RunRet ==
    /\ Runs("Ret")
    /\ phase' = IF AtStencil.n = 0 THEN "returned" ELSE "panicked"
    /\ UNCHANGED running

Compile == VisitLeaf \/ IntoLoop \/ OutOfLoop
Run ==
    \/ RunIncDec \/ RunLeftRight \/ RunSetZero \/ RunAddTo \/ RunPrint \/ RunRead
    \/ RunJump \/ RunCheck \/ RunIf \/ RunRet

(* Any program is compiled, and run on any bytes.                          *)
Cell == 0..(CellSize - 1)

CodeNext ==
    \/ \E v : Shaped(v) /\ CreateBlocks(v)
    \/ Compile
    \/ \E fill \in Cell, in \in Seq(Cell) : Finish(fill, in)
    \/ Run

CodeSpec == CodeInit /\ [][CodeNext]_codeVars

-----------------------------------------------------------------------------

(* The type of the state: the bytes of the padded tape stay bytes.         *)
BfTypeOK ==
    /\ phase \in {"parse", "compile", "run", "returned", "panicked"}
    /\ phase # "parse" => current \in 1..(Len(blocks) - 1)
    /\ Len(printed) <= MaxPrinted
    /\ phase \in {"run", "returned", "panicked"} => tape \in [Cells -> Cell]

(* By default bounds are only checked in loops and after long movements,   *)
(* but no stencil touches a byte outside of the padded tape (README.md,    *)
(* "with a bit of extra allocation outside the bounds"); in the saturating *)
(* mode they are never checked, and no stencil but AddTo leaves the tape.  *)
InPaddedTape ==
    phase = "run" /\ ~ (saturating /\ AtStencil.op = "AddTo") => Accessed \subseteq Cells

(* The second visit uses up exactly the blocks that the first has made,    *)
(* leaves no loop open, and every block ends, in its last stencil only.    *)
Ends == {"Jump", "Ret"}
BlocksUsedUp ==
    /\ phase = "compile" /\ visits # <<>> /\ Head(visits).kind = "IntoLoop" => Len(free) >= 2
    /\ phase = "run" =>
          /\ free = <<>> /\ loopStack = <<>>
          /\ \A b \in DOMAIN blocks :
                LET s == blocks[b]
                IN  /\ s # <<>>
                    /\ Last(s).op \in Ends \/ (Last(s).op = "If" /\ Last(s).other # Behind)
                    /\ \A i \in 1..(Len(s) - 1) : s[i].op \notin Ends

=============================================================================
