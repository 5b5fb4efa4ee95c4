------------------------------ MODULE MCLibrary ------------------------------
(***************************************************************************)
(* Libraries for module StencilLibrary: what setup_stencils! writes in any *)
(* library, and families with each number of inputs, outputs, holes and    *)
(* targets that a definition tells apart, with the places compilers leave. *)
(***************************************************************************)
EXTENDS StencilLibrary

Fam(ins, outs, holes, kind, targets, regs) ==
    [ins |-> ins, outs |-> outs, holes |-> holes, kind |-> kind, targets |-> targets,
     regs |-> regs]

Place(encoding, relative, addend) ==
    [encoding |-> encoding, relative |-> relative, size |-> NarrowBits, addend |-> addend]

Zero == Place("Generic", FALSE, 0)
Sign == Place("X86Signed", FALSE, 0)
Sum  == Place("X86Signed", FALSE, 1)
Far  == Place("Generic", TRUE, 0)

(* A library whose functions all have the same places for their holes, and *)
(* one where that depends on the placement.                                *)
Lib(families, places, calls) ==
    [families |-> families,
     narrow   |-> [n \in DOMAIN families |-> [c \in Placements(families[n]) |-> places]],
     calls    |-> calls]

Mixed(name, fam, places, calls) ==
    [families |-> name :> fam, narrow |-> name :> places, calls |-> calls]

Move == "__move" :> Fam(1, 1, 0, "next", 0, 2)
Jump == "__long_jump" :> Fam(0, 1, 1, "trampoline", 0, 2)
Nop  == "__empty" :> Fam(0, 0, 0, "next", 0, 2)

Base == Nop @@ Move @@ Jump @@ ("if_" :> Fam(1, 0, 0, "targets", 2, 2))

MCLibraries ==
    (* what every library has, next to it a branch                         *)
    {Lib(Base, <<Zero>>, {<<"free">>, <<"free", "alloc">>, <<"alloc", "puts">>})}
    \cup {Lib(Base, <<place>>, {}) : place \in {Sign, Sum, Far}}
    \cup
    (* an operation with two results and a hole                            *)
    {Lib("op" :> Fam(1, 2, 1, "next", 0, 2), <<place>>, {<<"puts">>, <<"alloc">>}) : place \in {Zero, Sum}}
    \cup
    (* two holes, each with a place of its own, and a return of two values *)
    {Lib(("op" :> Fam(1, 0, 2, "next", 0, 2)) @@ ("ret" :> Fam(1, 2, 0, "returns", 0, 2)),
         <<Sign, place>>, {<<"alloc">>}) : place \in {Zero, Sum, Far}}
    \cup
    (* a hole whose place is zero-extended in one of two functions and     *)
    (* sign-extended in the other                                          *)
    {Mixed("op", Fam(1, 0, 1, "next", 0, 2), (<<0>> :> <<pair[1]>>) @@ (<<1>> :> <<pair[2]>>),
           {<<"puts">>, <<"alloc">>}) : pair \in {<<Zero, Sign>>, <<Sign, Zero>>, <<Sign, Sum>>}}
    \cup
    (* two inputs, or two outputs, in one of two registers; both in one;   *)
    (* families that disagree about the registers                          *)
    {Lib("use" :> Fam(2, 0, 0, "next", 0, 3), <<>>, {<<"puts">>}),
     Lib("make" :> Fam(0, 2, 0, "next", 0, 3), <<>>, {<<"puts">>}),
     Lib("add" :> Fam(2, 1, 0, "next", 0, 2), <<>>, {<<"alloc">>}),
     Lib(Nop @@ ("ret" :> Fam(1, 1, 0, "returns", 0, 3)), <<>>, {<<"puts">>})}

=============================================================================
