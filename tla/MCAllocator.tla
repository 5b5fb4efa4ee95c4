---------------------------- MODULE MCAllocator ----------------------------
(***************************************************************************)
(* TLC instances of Allocator.  The assumption checks the closed form of   *)
(* the register pool against the loop of Allocator::new it stands for.     *)
(***************************************************************************)
EXTENDS Allocator, SequencesExt

Filled == FoldLeft(LAMBDA slab, i : Insert(slab, 0), EmptySlab, [i \in 1..Regs |-> i])

ASSUME RegisterPoolIsLoop ==
    RegisterPool = FoldLeft(RemoveKey, Filled, Reverse([i \in 1..Regs |-> i - 1]))

=============================================================================
