------------------------------ MODULE MCProgram ------------------------------
(***************************************************************************)
(* A small stencil library for module Program.  Each family stands for a   *)
(* shape of code that extraction meets: with and without a last jump to    *)
(* the next stencil, with a delayed place before that jump or behind it,   *)
(* with one jump or two in either layout, and with a variant missing.      *)
(***************************************************************************)
EXTENDS Program

Target(at, id)  == [at |-> at, kind |-> "Target", id |-> id]
HoleAt(at)      == [at |-> at, kind |-> "Hole", id |-> 1]
StackAt(at)     == [at |-> at, kind |-> "Stack", id |-> 1]
CallAt(at, sym) == [at |-> at, kind |-> "Runtime", id |-> sym]

Stencil(code, places) == [code |-> code, places |-> places]

Family(narrow, wide, holes, jumps) ==
    [narrow |-> narrow, wide |-> wide, HOLES |-> holes, JUMPS |-> jumps]

(* library.empty itself, and a move to a stack variable                    *)
Nop  == Family(Stencil(Empty, <<Target(1, 1)>>), Missing, 0, 1)
Move == Family(Stencil(<<Op, Place(0)>> \o Empty, <<StackAt(1), Target(3, 1)>>),
               Missing, 0, 1)

(* an immediate, inline or out of memory                                   *)
Imm == Family(Stencil(<<Op, Place(0)>> \o Empty, <<HoleAt(1), Target(3, 1)>>),
              Stencil(<<OpRef, Place(0)>> \o Empty, <<HoleAt(1), Target(3, 1)>>),
              1, 1)
(* an immediate whose wide stencil is missing; one read after the jump,    *)
(* without a narrow stencil: select then looks at the relocations that     *)
(* the family's pool starts with, here those of the wide one               *)
NarrowImm == Family(Stencil(<<Op, Place(0)>> \o Empty, <<HoleAt(1), Target(3, 1)>>),
                    Missing, 1, 1)
ImmLast == Family(Stencil(<<>>, <<Target(1, 1), HoleAt(3)>>),
                  Stencil(<<Jcc, Place(0), OpRef, Place(0), RetOp>>,
                          <<Target(1, 1), HoleAt(3)>>),
                  1, 1)

(* runtime calls                                                           *)
Call(sym) == Family(Stencil(<<Op, Place(0)>> \o Empty, <<CallAt(1, sym), Target(3, 1)>>),
                    Missing, 0, 1)
TailCall(sym) == Family(Stencil(<<Jcc, Place(0)>> \o Empty, <<Target(1, 1), CallAt(3, sym)>>),
                        Missing, 0, 1)

(* two jumps, either last                                                  *)
If     == Family(Stencil(<<Jcc, Place(0)>> \o Empty, <<Target(1, 1), Target(3, 2)>>),
                 Missing, 0, 2)
Unless == Family(Stencil(<<Jcc, Place(0)>> \o Empty, <<Target(1, 2), Target(3, 1)>>),
                 Missing, 0, 2)

Return == Family(Stencil(<<RetOp>>, <<>>), Missing, 0, 0)

Shapes == {Nop, Move, Imm, NarrowImm, ImmLast, Call(1), TailCall(2), If, Unless, Return}

(* One block of any stencils; two, which jump to each other; one whose     *)
(* library has no long jump; and one full of constants.                    *)
Client(n, families, holes, long_jump) ==
    [blocks |-> n, families |-> families, holes |-> holes, long_jump |-> long_jump]

OneAndTwoBlocks ==
    {Client(1, Shapes, {1, 5}, TRUE),
     Client(2, {Imm, If, Call(1), Return}, {5}, TRUE),
     Client(1, {Imm, Call(1), Return}, {5}, FALSE)}
ManyConstants   == {Client(1, {Imm, Return}, {5, 6}, TRUE)}

(* The second block exists for one of the clients only.                   *)
JumpTargets == {Next, Block(1), Block(2)}

Addresses == <<100, 200>>

=============================================================================
