-------------------------------- MODULE Slab --------------------------------
(***************************************************************************)
(* The slab::Slab of the slab crate, as far as src/regs.rs uses it: a      *)
(* vector of entries, the vacant ones threaded on a LIFO free list, with   *)
(* the next key to be handed out at its head.  A slab is a record          *)
(*   val   occupied key -> value                                           *)
(*   free  the vacant keys, next one first                                 *)
(*   size  entries in the vector, occupied or vacant                       *)
(***************************************************************************)
EXTENDS Integers, Sequences, FiniteSets

EmptySlab == [val |-> [k \in {} |-> 0], free |-> <<>>, size |-> 0]

Occupied(slab) == DOMAIN slab.val

SlabLen(slab) == Cardinality(Occupied(slab))

NextKey(slab) == IF slab.free = <<>> THEN slab.size ELSE Head(slab.free)

Insert(slab, v) ==
    LET key == NextKey(slab)
    IN  [val  |-> [k \in Occupied(slab) \cup {key} |->
                      IF k = key THEN v ELSE slab.val[k]],
         free |-> IF slab.free = <<>> THEN <<>> ELSE Tail(slab.free),
         size |-> IF slab.free = <<>> THEN slab.size + 1 ELSE slab.size]

(* Slab::remove of an occupied key; it panics on any other.                *)
RemoveKey(slab, key) ==
    [val  |-> [k \in Occupied(slab) \ {key} |-> slab.val[k]],
     free |-> <<key>> \o slab.free,
     size |-> slab.size]

(* The vacant keys are listed once each, and with the occupied ones they   *)
(* fill the vector.                                                        *)
WellFormed(slab) ==
    /\ slab.size \in Nat
    /\ slab.free \in Seq(0..(slab.size - 1))
    /\ \A i, j \in 1..Len(slab.free) : slab.free[i] = slab.free[j] => i = j
    /\ Occupied(slab) = (0..(slab.size - 1)) \
                            {slab.free[i] : i \in 1..Len(slab.free)}

=============================================================================
