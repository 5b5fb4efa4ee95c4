---------------------------- MODULE ProgramProofs ----------------------------
(***************************************************************************)
(* What the patch blocks and the layout of a program keep, for every       *)
(* stencil library, every function that is built with it and every order   *)
(* of emissions: the places that wait for their relocation stay places of  *)
(* the code, and finalizing a block writes its own region of the map only. *)
(* The folds of module PatchBlock are reasoned about with FoldInduction.   *)
(***************************************************************************)
EXTENDS Program, SequenceTheorems, TLAPS

AnyCell == Cell \X Int

(* A map or a piece of code that is patched: what is not the place of a    *)
(* patch is as before.                                                     *)
PatchOp(ctx, code, r) == Patch(code, r, r.to)

PatchInv(ctx, patches, n, code) ==
    /\ code \in [DOMAIN ctx -> AnyCell]
    /\ \A i \in DOMAIN ctx :
          \/ code[i] = ctx[i]
          \/ code[i][1] = "place" /\ \E k \in 1..n : i = patches[k].at + 1

Patching == INSTANCE FoldTheorems WITH Op <- PatchOp, Inv <- PatchInv

(* A map that is written to.                                               *)
WriteOp(ctx, image, w) == Write(image, w.start, w.cells)

PieceOf(w) == (w.start + 1)..(w.start + Len(w.cells))

WriteInv(ctx, pieces, n, image) ==
    /\ image \in [DOMAIN ctx -> AnyCell]
    /\ \A i \in DOMAIN ctx :
          image[i] = ctx[i] \/ \E k \in 1..n : i \in PieceOf(pieces[k])

Writing == INSTANCE FoldTheorems WITH Op <- WriteOp, Inv <- WriteInv

(* The runtime functions of a block.                                       *)
SymbolOp(ctx, syms, r) == AddSymbol(syms, r)

SymbolInv(ctx, relocs, n, syms) ==
    /\ syms \in Seq(DOMAIN SymbolAddr)
    /\ \A k \in 1..n :
          relocs[k].target[1] = "Runtime" => relocs[k].target[2] \in Range(syms)
    /\ syms # <<>> => \E k \in 1..n : relocs[k].target[1] = "Runtime"

Symbols == INSTANCE FoldTheorems WITH Op <- SymbolOp, Inv <- SymbolInv

(* What delayed relocations are of: a place of the code, which leads to a  *)
(* block, a constant, a runtime function, or the next stencil.             *)
Jump == {Next} \cup {Block(b) : b \in Nat}

DelayedTo ==
    {Block(b) : b \in Nat} \cup {Constant(i) : i \in Nat}
      \cup {Runtime(s) : s \in DOMAIN SymbolAddr}

Reloc     == [at : Nat, target : DelayedTo]
NextReloc == [at : Nat, target : {Next}]

BlockRec ==
    [code : Seq(CodeCell), relocs : Seq(Reloc), consts : Seq(Nat), nexts : Seq(NextReloc),
     ended : BOOLEAN, long_jump : BOOLEAN]

PlacesIn(rs, code) ==
    \A i \in DOMAIN rs : rs[i].at < Len(code) /\ code[rs[i].at + 1][1] = "place"

InOrder(rs) == \A i, j \in DOMAIN rs : i < j => rs[i].at < rs[j].at

BlockInv(blk) ==
    /\ blk \in BlockRec
    /\ PlacesIn(blk.relocs, blk.code) /\ PlacesIn(blk.nexts, blk.code)
    /\ InOrder(blk.relocs) /\ InOrder(blk.nexts)

(* A place is a jump of the stencil, or a call of a runtime function, that *)
(* leads to the target given.                                              *)
Wants(p, args, target) ==
    \/ p.kind = "Target" /\ args.jumps[p.id] = target
    \/ p.kind = "Runtime" /\ target = Runtime(p.id)

(* A block while the first n places of a stencil are added to it; ctx has  *)
(* the emission, and the block with the code of the stencil as it is.      *)
AddOp(ctx, blk, p) == AddPlace(blk, p, ctx.e)

AddInv(ctx, places, n, blk) ==
    LET e == ctx.e
        done == IF n = 0 THEN e.from ELSE e.from + places[n].at + 1
    IN  /\ BlockInv(blk) /\ blk.ended = ctx.base.ended /\ blk.long_jump = ctx.base.long_jump
        /\ Len(blk.code) = Len(ctx.base.code)
        /\ \A i \in DOMAIN blk.code :
              blk.code[i] = ctx.base.code[i] \/ blk.code[i][1] = "place"
        /\ \A r \in Range(blk.relocs) \cup Range(blk.nexts) : r.at < done
        /\ \A r \in Range(ctx.base.relocs) : r \in Range(blk.relocs)
        /\ \A r \in Range(blk.relocs) :
              \/ r \in Range(ctx.base.relocs) \/ r.target[1] = "Constant"
              \/ \E k \in 1..n : Wants(places[k], e.args, r.target)
        /\ \A k \in 1..n : \A to :
              Wants(places[k], e.args, to) /\ to # Next =>
                \E r \in Range(blk.relocs) : r.target = to
        /\ blk.nexts # <<>> <=> \E k \in 1..n : Wants(places[k], e.args, Next)

Adding == INSTANCE FoldTheorems WITH Op <- AddOp, Inv <- AddInv

(* A sum of lengths.                                                       *)
SumOp(ctx, n, l) == n + l

SumInv(ctx, lens, n, sum) == sum \in Nat

Summing == INSTANCE FoldTheorems WITH Op <- SumOp, Inv <- SumInv

-----------------------------------------------------------------------------

LEMMA PatchAllIs ==
    ASSUME NEW code, NEW patches
    PROVE  PatchAll(code, patches) = Patching!Fold(code, code, patches)
<1> QED BY Zenon DEF PatchAll, FoldLeft, MapThenFoldSet, Max, PatchOp,
             Patching!Fold, Patching!Folded, Patching!Solves, Patching!Largest

LEMMA WriteAllIs ==
    ASSUME NEW old, NEW pieces
    PROVE  WriteAll(old, pieces) = Writing!Fold(old, old, pieces)
<1> QED BY Zenon DEF WriteAll, FoldLeft, MapThenFoldSet, Max, WriteOp,
             Writing!Fold, Writing!Folded, Writing!Solves, Writing!Largest

LEMMA SymbolsIs ==
    ASSUME NEW blk
    PROVE  RuntimeTrampolineSymbols(blk) = Symbols!Fold(0, <<>>, blk.relocs)
<1> QED BY Zenon DEF RuntimeTrampolineSymbols, FoldLeft, MapThenFoldSet, Max, SymbolOp,
             Symbols!Fold, Symbols!Folded, Symbols!Solves, Symbols!Largest

LEMMA TotalIs ==
    ASSUME NEW lens
    PROVE  Total(lens) = Summing!Fold(0, 0, lens)
<1> QED BY Zenon DEF Total, FoldLeft, MapThenFoldSet, Max, SumOp,
             Summing!Fold, Summing!Folded, Summing!Solves, Summing!Largest

LEMMA AddPlacesIs ==
    ASSUME NEW blk, NEW places, NEW ctx
    PROVE  AddPlaces(blk, places, ctx.e) = Adding!Fold(ctx, blk, places)
<1> QED BY Zenon DEF AddPlaces, FoldLeft, MapThenFoldSet, Max, AddOp,
             Adding!Fold, Adding!Folded, Adding!Solves, Adding!Largest

LEMMA PatchAllKeeps ==
    ASSUME NEW code, code \in [DOMAIN code -> AnyCell],
           NEW N \in Nat, NEW patches, DOMAIN patches = 1..N,
           \A k \in 1..N : patches[k].at \in Int /\ patches[k].to \in Int
    PROVE  /\ PatchAll(code, patches) \in [DOMAIN code -> AnyCell]
           /\ \A i \in DOMAIN code :
                 \/ PatchAll(code, patches)[i] = code[i]
                 \/ /\ PatchAll(code, patches)[i][1] = "place"
                    /\ \E k \in 1..N : i = patches[k].at + 1
<1>1. PatchInv(code, patches, 0, code)
  BY DEF PatchInv
<1>2. ASSUME NEW n \in 1..N, NEW c, PatchInv(code, patches, n - 1, c)
      PROVE  PatchInv(code, patches, n, PatchOp(code, c, patches[n]))
  <2> DEFINE at == patches[n].at + 1
             cell == Place(patches[n].to - patches[n].at - 1)
             new == [c EXCEPT ![at] = cell]
  <2>1. PatchOp(code, c, patches[n]) = new
    BY DEF PatchOp, Patch
  <2>2. cell \in AnyCell /\ cell[1] = "place"
    BY DEF Place, AnyCell, Cell
  <2>3. /\ c \in [DOMAIN code -> AnyCell]
        /\ \A i \in DOMAIN code :
              \/ c[i] = code[i]
              \/ c[i][1] = "place" /\ \E k \in 1..(n - 1) : i = patches[k].at + 1
    BY <1>2 DEF PatchInv
  <2> HIDE DEF cell
  <2>4. new \in [DOMAIN code -> AnyCell]
    BY <2>2, <2>3
  <2>5. \A i \in DOMAIN code : new[i] = IF i = at THEN cell ELSE c[i]
    BY <2>3
  <2>6. n \in 1..n /\ \A k \in 1..(n - 1) : k \in 1..n
    OBVIOUS
  <2> HIDE DEF new
  <2>7. \A i \in DOMAIN code :
            \/ new[i] = code[i]
            \/ new[i][1] = "place" /\ \E k \in 1..n : i = patches[k].at + 1
    BY <2>2, <2>3, <2>5, <2>6
  <2> QED BY <2>1, <2>4, <2>7 DEF PatchInv
<1>3. PatchInv(code, patches, N, PatchAll(code, patches))
  BY <1>1, <1>2, PatchAllIs, Patching!FoldInduction
<1> QED BY <1>3 DEF PatchInv

LEMMA WriteAllKeeps ==
    ASSUME NEW old, old \in [DOMAIN old -> AnyCell], DOMAIN old \subseteq Int,
           NEW N \in Nat, NEW pieces, DOMAIN pieces = 1..N,
           \A k \in 1..N : pieces[k].start \in Int /\ pieces[k].cells \in Seq(AnyCell)
    PROVE  /\ WriteAll(old, pieces) \in [DOMAIN old -> AnyCell]
           /\ \A i \in DOMAIN old :
                 \/ WriteAll(old, pieces)[i] = old[i]
                 \/ \E k \in 1..N : i \in PieceOf(pieces[k])
<1>1. WriteInv(old, pieces, 0, old)
  BY DEF WriteInv
<1>2. ASSUME NEW n \in 1..N, NEW m, WriteInv(old, pieces, n - 1, m)
      PROVE  WriteInv(old, pieces, n, WriteOp(old, m, pieces[n]))
  <2> DEFINE w == pieces[n]
             new == Write(m, w.start, w.cells)
  <2>1. /\ m \in [DOMAIN old -> AnyCell]
        /\ \A i \in DOMAIN old :
              m[i] = old[i] \/ \E k \in 1..(n - 1) : i \in PieceOf(pieces[k])
    BY <1>2 DEF WriteInv
  <2>2. w.start \in Int /\ w.cells \in Seq(AnyCell) /\ Len(w.cells) \in Nat
    OBVIOUS
  <2>3. new = [i \in DOMAIN old |-> IF i \in PieceOf(w) THEN w.cells[i - w.start] ELSE m[i]]
    BY <2>1 DEF Write, PieceOf
  <2>4. \A i \in PieceOf(w) : w.cells[i - w.start] \in AnyCell
    <3> SUFFICES ASSUME NEW i \in PieceOf(w) PROVE w.cells[i - w.start] \in AnyCell
      OBVIOUS
    <3> HIDE DEF w
    <3>1. i - w.start \in 1..Len(w.cells)
      BY <2>2 DEF PieceOf
    <3> QED BY <2>2, <3>1
  <2>5. n \in 1..n /\ \A k \in 1..(n - 1) : k \in 1..n
    OBVIOUS
  <2> HIDE DEF new
  <2>6. new \in [DOMAIN old -> AnyCell]
    BY <2>1, <2>3, <2>4
  <2>7. \A i \in DOMAIN old :
            new[i] = old[i] \/ \E k \in 1..n : i \in PieceOf(pieces[k])
    BY <2>1, <2>3, <2>5
  <2> QED BY <2>6, <2>7 DEF WriteInv, WriteOp, new
<1>3. WriteInv(old, pieces, N, WriteAll(old, pieces))
  BY <1>1, <1>2, WriteAllIs, Writing!FoldInduction
<1> QED BY <1>3 DEF WriteInv

LEMMA TotalNat ==
    ASSUME NEW lens \in Seq(Nat)
    PROVE  Total(lens) \in Nat
<1>1. Len(lens) \in Nat /\ DOMAIN lens = 1..Len(lens)
  OBVIOUS
<1>2. SumInv(0, lens, 0, 0)
  BY DEF SumInv
<1>3. ASSUME NEW n \in 1..Len(lens), NEW v, SumInv(0, lens, n - 1, v)
      PROVE  SumInv(0, lens, n, SumOp(0, v, lens[n]))
  BY <1>3 DEF SumInv, SumOp
<1>4. SumInv(0, lens, Len(lens), Total(lens))
  BY <1>1, <1>2, <1>3, TotalIs, Summing!FoldInduction
<1> QED BY <1>4 DEF SumInv

-----------------------------------------------------------------------------

(* The delayed relocations of a stencil are entered in the order of its    *)
(* places.                                                                 *)
LEMMA AppendIs ==
    ASSUME NEW S, NEW rs \in Seq(S), NEW r \in S
    PROVE  /\ Append(rs, r) \in Seq(S) /\ Len(Append(rs, r)) = Len(rs) + 1
           /\ DOMAIN Append(rs, r) = 1..(Len(rs) + 1)
           /\ DOMAIN rs = 1..Len(rs) /\ Len(rs) \in Nat
           /\ \A i \in 1..Len(rs) : Append(rs, r)[i] = rs[i]
           /\ Append(rs, r)[Len(rs) + 1] = r
           /\ Range(Append(rs, r)) = Range(rs) \cup {r}
<1>1. /\ Append(rs, r) \in Seq(S) /\ Len(Append(rs, r)) = Len(rs) + 1
      /\ \A i \in 1..Len(rs) : Append(rs, r)[i] = rs[i]
      /\ Append(rs, r)[Len(rs) + 1] = r
      /\ DOMAIN rs = 1..Len(rs) /\ Len(rs) \in Nat
  OBVIOUS
<1> DEFINE new == Append(rs, r)
<1> HIDE DEF new
<1>2. DOMAIN new = 1..(Len(rs) + 1)
  BY <1>1 DEF new
<1>3. \A i \in 1..(Len(rs) + 1) : i \in 1..Len(rs) \/ i = Len(rs) + 1
  BY <1>1
<1>4. \A i \in 1..Len(rs) : i \in 1..(Len(rs) + 1)
  BY <1>1
<1>5. Len(rs) + 1 \in 1..(Len(rs) + 1)
  BY <1>1
<1>6. \A x : x \in Range(new) <=> x \in Range(rs) \cup {r}
  <2>1. ASSUME NEW x \in Range(new) PROVE x \in Range(rs) \cup {r}
    <3>1. PICK i \in 1..(Len(rs) + 1) : x = new[i]
      BY <1>2 DEF Range
    <3> QED BY <1>1, <1>3, <3>1 DEF Range, new
  <2>2. ASSUME NEW x \in Range(rs) \cup {r} PROVE x \in Range(new)
    BY <1>1, <1>2, <1>4, <1>5, <2>2 DEF Range, new
  <2> QED BY <2>1, <2>2
<1> QED BY <1>1, <1>2, <1>6 DEF new

LEMMA AppendInOrder ==
    ASSUME NEW S, \A q \in S : q.at \in Nat,
           NEW rs \in Seq(S), NEW r \in S, NEW code,
           InOrder(rs), PlacesIn(rs, code), \A q \in Range(rs) : q.at < r.at,
           r.at < Len(code), code[r.at + 1][1] = "place"
    PROVE  InOrder(Append(rs, r)) /\ PlacesIn(Append(rs, r), code)
<1> DEFINE new == Append(rs, r)
<1>1. /\ DOMAIN new = 1..(Len(rs) + 1) /\ DOMAIN rs = 1..Len(rs) /\ Len(rs) \in Nat
      /\ \A i \in 1..Len(rs) : new[i] = rs[i]
      /\ new[Len(rs) + 1] = r
  BY AppendIs
<1> HIDE DEF new
<1>2. \A i \in 1..Len(rs) : new[i].at < r.at
  BY <1>1 DEF Range
<1>3. \A i \in 1..(Len(rs) + 1) : i \in 1..Len(rs) \/ i = Len(rs) + 1
  BY <1>1
<1>4. InOrder(new)
  <2> SUFFICES ASSUME NEW i \in 1..(Len(rs) + 1), NEW j \in 1..(Len(rs) + 1), i < j
               PROVE  new[i].at < new[j].at
    BY <1>1 DEF InOrder
  <2>1. i \in 1..Len(rs)
    BY <1>1
  <2>2. CASE j \in 1..Len(rs)
    BY <1>1, <2>1, <2>2 DEF InOrder
  <2>3. CASE j = Len(rs) + 1
    BY <1>1, <1>2, <2>1, <2>3
  <2> QED BY <1>3, <2>2, <2>3
<1>5. PlacesIn(new, code)
  BY <1>1, <1>3 DEF PlacesIn
<1> QED BY <1>4, <1>5 DEF new

PlaceRec == [at : Nat, kind : {"Hole", "Stack", "Runtime", "Target"}, id : Nat]

(* What is known of an emission, which StencilOK and the operands give.    *)
Emission(ctx, places) ==
    LET e == ctx.e
        base == ctx.base
    IN  /\ e.from \in Nat /\ e.wide \in BOOLEAN
        /\ e.args.hole \in Nat /\ e.args.stack \in Nat
        /\ base \in BlockRec
        /\ places \in Seq(PlaceRec)
        /\ \A i, j \in DOMAIN places : i < j => places[i].at < places[j].at
        /\ \A i \in DOMAIN places :
              LET p == places[i]
              IN  /\ e.from + p.at < Len(base.code)
                  /\ base.code[e.from + p.at + 1][1] = "place"
                  /\ p.kind = "Target" => e.args.jumps[p.id] \in Jump
                  /\ p.kind = "Runtime" => p.id \in DOMAIN SymbolAddr

LEMMA ModNat ==
    ASSUME NEW a \in Nat, NEW b \in Nat \ {0}
    PROVE  a % b \in Nat
<1> QED OBVIOUS

LEMMA InBlock ==
    ASSUME NEW blk \in BlockRec
    PROVE  /\ blk.code \in Seq(CodeCell) /\ blk.consts \in Seq(Nat) /\ blk.ended \in BOOLEAN
           /\ blk.relocs \in Seq(Reloc) /\ blk.nexts \in Seq(NextReloc)
           /\ DOMAIN blk.code = 1..Len(blk.code) /\ Len(blk.code) \in Nat
           /\ DOMAIN blk.relocs = 1..Len(blk.relocs) /\ Len(blk.relocs) \in Nat
           /\ DOMAIN blk.nexts = 1..Len(blk.nexts) /\ Len(blk.nexts) \in Nat
           /\ \A i \in DOMAIN blk.relocs : blk.relocs[i] \in Reloc
           /\ \A i \in DOMAIN blk.nexts : blk.nexts[i] \in NextReloc
           /\ \A r \in Range(blk.relocs) : r \in Reloc
           /\ \A r \in Range(blk.nexts) : r \in NextReloc
           /\ \A r \in Range(blk.relocs) \cup Range(blk.nexts) : r.at \in Nat
<1>1. /\ blk.code \in Seq(CodeCell) /\ blk.consts \in Seq(Nat) /\ blk.ended \in BOOLEAN
      /\ blk.relocs \in Seq(Reloc) /\ blk.nexts \in Seq(NextReloc)
  BY DEF BlockRec
<1>2. /\ DOMAIN blk.code = 1..Len(blk.code) /\ Len(blk.code) \in Nat
      /\ DOMAIN blk.relocs = 1..Len(blk.relocs) /\ Len(blk.relocs) \in Nat
      /\ DOMAIN blk.nexts = 1..Len(blk.nexts) /\ Len(blk.nexts) \in Nat
  BY <1>1
<1>3. /\ \A i \in DOMAIN blk.relocs : blk.relocs[i] \in Reloc
      /\ \A i \in DOMAIN blk.nexts : blk.nexts[i] \in NextReloc
  BY <1>1, <1>2
<1>4. /\ \A r \in Range(blk.relocs) : r \in Reloc
      /\ \A r \in Range(blk.nexts) : r \in NextReloc
  BY <1>3 DEF Range
<1>5. /\ \A r \in Reloc : r.at \in Nat
      /\ \A r \in NextReloc : r.at \in Nat
  BY DEF Reloc, NextReloc
<1> QED BY <1>1, <1>2, <1>3, <1>4, <1>5

LEMMA AddPlaceStep ==
    ASSUME NEW ctx, NEW places, Emission(ctx, places),
           NEW n \in DOMAIN places, NEW blk, AddInv(ctx, places, n - 1, blk)
    PROVE  AddInv(ctx, places, n, AddPlace(blk, places[n], ctx.e))
<1> DEFINE e == ctx.e
           p == places[n]
           at == e.from + p.at
           jump == e.args.jumps[p.id]
           new == AddPlace(blk, p, e)
<1>0. /\ places \in Seq(PlaceRec) /\ e.from \in Nat /\ e.wide \in BOOLEAN
      /\ e.args.hole \in Nat /\ e.args.stack \in Nat
  BY DEF Emission
<1>1. /\ n \in Nat \ {0} /\ n - 1 \in Nat /\ DOMAIN places = 1..Len(places)
      /\ p.at \in Nat /\ p.kind \in {"Hole", "Stack", "Runtime", "Target"}
      /\ \A i \in DOMAIN places : places[i].at \in Nat
      /\ e.from \in Nat /\ at \in Nat /\ e.wide \in BOOLEAN
      /\ e.args.hole \in Nat /\ e.args.stack \in Nat
  <2>1. DOMAIN places = 1..Len(places) /\ \A i \in DOMAIN places : places[i] \in PlaceRec
    BY <1>0
  <2>2. \A i \in DOMAIN places :
            /\ places[i].at \in Nat
            /\ places[i].kind \in {"Hole", "Stack", "Runtime", "Target"}
    BY <2>1 DEF PlaceRec
  <2>3. Len(places) \in Nat
    BY <1>0
  <2>4. n \in Nat \ {0} /\ n - 1 \in Nat
    BY <2>1, <2>3
  <2>5. p.at \in Nat /\ p.kind \in {"Hole", "Stack", "Runtime", "Target"}
    BY <2>2
  <2> HIDE DEF p
  <2> QED BY <1>0, <2>1, <2>2, <2>4, <2>5
<1>2. /\ at < Len(ctx.base.code) /\ ctx.base.code[at + 1][1] = "place"
      /\ p.kind = "Target" => jump \in Jump
      /\ p.kind = "Runtime" => p.id \in DOMAIN SymbolAddr
  BY DEF Emission
<1>3. /\ BlockInv(blk) /\ blk.ended = ctx.base.ended /\ blk.long_jump = ctx.base.long_jump
      /\ Len(blk.code) = Len(ctx.base.code)
      /\ \A i \in DOMAIN blk.code :
            blk.code[i] = ctx.base.code[i] \/ blk.code[i][1] = "place"
      /\ \A r \in Range(ctx.base.relocs) : r \in Range(blk.relocs)
      /\ \A r \in Range(blk.relocs) :
            \/ r \in Range(ctx.base.relocs) \/ r.target[1] = "Constant"
            \/ \E k \in 1..(n - 1) : Wants(places[k], e.args, r.target)
      /\ \A k \in 1..(n - 1) : \A to :
            Wants(places[k], e.args, to) /\ to # Next =>
              \E r \in Range(blk.relocs) : r.target = to
      /\ blk.nexts # <<>> <=> \E k \in 1..(n - 1) : Wants(places[k], e.args, Next)
  BY DEF AddInv
<1>4. blk \in BlockRec /\ DOMAIN blk.code = 1..Len(blk.code) /\ Len(blk.code) \in Nat
  BY <1>3 DEF BlockInv, BlockRec
<1>5. \A r \in Range(blk.relocs) \cup Range(blk.nexts) : r.at \in Nat /\ r.at < at
  <2>1. \A r \in Range(blk.relocs) \cup Range(blk.nexts) :
            r.at < IF n - 1 = 0 THEN e.from ELSE e.from + places[n - 1].at + 1
    BY DEF AddInv
  <2>2. \A r \in Range(blk.relocs) \cup Range(blk.nexts) : r.at \in Nat
    BY <1>4, InBlock
  <2>3. CASE n = 1
    BY <1>1, <2>1, <2>2, <2>3
  <2>4. CASE n # 1
    <3>1. n - 1 \in DOMAIN places /\ n - 1 < n
      BY <1>1, <2>4
    <3>2. places[n - 1].at < p.at /\ places[n - 1].at \in Nat /\ p.at \in Nat
      <4>1. \A i, j \in DOMAIN places : i < j => places[i].at < places[j].at
        BY DEF Emission
      <4> HIDE DEF p
      <4>2. \A i \in DOMAIN places : i < n => places[i].at < p.at
        BY <4>1 DEF p
      <4> QED BY <1>1, <3>1, <4>2
    <3>3. \A r \in Range(blk.relocs) \cup Range(blk.nexts) : r.at < e.from + places[n - 1].at + 1
      BY <1>1, <2>1, <2>4
    <3> QED BY <1>1, <2>2, <3>2, <3>3
  <2> QED BY <2>3, <2>4
<1>6. at + 1 \in DOMAIN blk.code /\ blk.code[at + 1][1] = "place"
  <2> HIDE DEF at
  <2>1. at + 1 \in 1..Len(blk.code)
    BY <1>1, <1>2, <1>3, <1>4
  <2> QED BY <1>2, <1>3, <1>4, <2>1
<1>7. \A k \in 1..n : k \in 1..(n - 1) \/ k = n
  BY <1>1
<1>8. n \in 1..n /\ \A k \in 1..(n - 1) : k \in 1..n
  BY <1>1
<1> HIDE DEF at, jump, new, p, e
<1>9. ASSUME NEW t \in DelayedTo, NEW consts \in Seq(Nat),
             new = [code |-> blk.code, relocs |-> Append(blk.relocs, Delayed(at, t)),
                    consts |-> consts, nexts |-> blk.nexts, ended |-> blk.ended,
                    long_jump |-> blk.long_jump],
             t[1] = "Constant" \/ Wants(p, e.args, t),
             \A to : Wants(p, e.args, to) => t = to,
             ~ Wants(p, e.args, Next)
      PROVE  AddInv(ctx, places, n, new)
  <2> DEFINE r0 == Delayed(at, t)
  <2>1. r0 \in Reloc /\ r0.at = at /\ r0.target = t
    BY <1>1 DEF Delayed, Reloc
  <2> HIDE DEF r0
  <2>2. new.code = blk.code /\ new.nexts = blk.nexts /\ new.ended = blk.ended
        /\ new.long_jump = blk.long_jump
        /\ new.relocs = Append(blk.relocs, r0)
    BY <1>9 DEF r0
  <2>3. blk.relocs \in Seq(Reloc)
    BY <1>4 DEF BlockRec
  <2>4. new.relocs \in Seq(Reloc) /\ Range(new.relocs) = Range(blk.relocs) \cup {r0}
    BY <2>1, <2>2, <2>3, AppendIs
  <2>5. new \in BlockRec
    BY <1>4, <1>9, <2>4, <2>2 DEF BlockRec
  <2>6. InOrder(new.relocs) /\ PlacesIn(new.relocs, new.code)
    <3>1. \A q \in Reloc : q.at \in Nat
      BY DEF Reloc
    <3>2. InOrder(blk.relocs) /\ PlacesIn(blk.relocs, blk.code)
      BY <1>3 DEF BlockInv
    <3>3. r0.at < Len(blk.code) /\ blk.code[r0.at + 1][1] = "place"
      BY <1>2, <1>3, <1>6, <2>1
    <3>4. \A q \in Range(blk.relocs) : q.at < r0.at
      BY <1>5, <2>1
    <3>5. InOrder(Append(blk.relocs, r0)) /\ PlacesIn(Append(blk.relocs, r0), blk.code)
      BY <2>1, <2>3, <3>1, <3>2, <3>3, <3>4, AppendInOrder
    <3> QED BY <2>2, <3>5
  <2>7. BlockInv(new)
    BY <1>3, <2>2, <2>5, <2>6 DEF BlockInv
  <2>8. \A r \in Range(new.relocs) \cup Range(new.nexts) : r.at < at + 1
    BY <1>1, <1>5, <2>1, <2>2, <2>4
  <2>9. \A r \in Range(new.relocs) :
            \/ r \in Range(ctx.base.relocs) \/ r.target[1] = "Constant"
            \/ \E k \in 1..n : Wants(places[k], e.args, r.target)
    BY <1>3, <1>8, <1>9, <2>1, <2>4 DEF p
  <2>10. \A k \in 1..n : \A to :
            Wants(places[k], e.args, to) /\ to # Next =>
              \E r \in Range(new.relocs) : r.target = to
    BY <1>3, <1>7, <1>9, <2>1, <2>4 DEF p
  <2>11. new.nexts # <<>> <=> \E k \in 1..n : Wants(places[k], e.args, Next)
    BY <1>3, <1>7, <1>8, <1>9, <2>2 DEF p
  <2>12. \A r \in Range(ctx.base.relocs) : r \in Range(new.relocs)
    BY <1>3, <2>4
  <2> QED BY <1>1, <1>3, <2>2, <2>7, <2>8, <2>9, <2>10, <2>11, <2>12 DEF AddInv, at, p, e
<1>10. ASSUME NEW v \in Nat,
              new = [code |-> [blk.code EXCEPT ![at + 1] = Place(v)], relocs |-> blk.relocs,
                     consts |-> blk.consts, nexts |-> blk.nexts, ended |-> blk.ended,
                     long_jump |-> blk.long_jump],
              p.kind \notin {"Target", "Runtime"}
       PROVE  AddInv(ctx, places, n, new)
  <2>1. Place(v) \in CodeCell /\ Place(v)[1] = "place"
    BY DEF Place, CodeCell, Cell
  <2>2. new.nexts = blk.nexts /\ new.ended = blk.ended /\ new.relocs = blk.relocs
        /\ new.long_jump = blk.long_jump
        /\ new.code = [blk.code EXCEPT ![at + 1] = Place(v)]
    BY <1>10
  <2>3. blk.code \in Seq(CodeCell)
    BY <1>4 DEF BlockRec
  <2> HIDE DEF at
  <2>4. new.code \in Seq(CodeCell) /\ Len(new.code) = Len(blk.code)
        /\ \A i \in DOMAIN blk.code : new.code[i] = IF i = at + 1 THEN Place(v) ELSE blk.code[i]
    BY <1>6, <2>1, <2>2, <2>3
  <2>5. new \in BlockRec
    BY <1>4, <1>10, <2>4, <2>2 DEF BlockRec
  <2>6. DOMAIN new.code = DOMAIN blk.code
    BY <2>2
  <2>7. ASSUME NEW rs, PlacesIn(rs, blk.code), \A i \in DOMAIN rs : rs[i].at \in Nat
        PROVE  PlacesIn(rs, new.code)
    <3> SUFFICES ASSUME NEW i \in DOMAIN rs
                 PROVE  rs[i].at < Len(new.code) /\ new.code[rs[i].at + 1][1] = "place"
      BY DEF PlacesIn
    <3>1. rs[i].at < Len(blk.code) /\ blk.code[rs[i].at + 1][1] = "place" /\ rs[i].at \in Nat
      BY <2>7 DEF PlacesIn
    <3>2. rs[i].at + 1 \in DOMAIN blk.code
      BY <1>4, <3>1
    <3> QED BY <2>1, <2>4, <3>1, <3>2
  <2>8. /\ \A i \in DOMAIN blk.relocs : blk.relocs[i].at \in Nat
        /\ \A i \in DOMAIN blk.nexts : blk.nexts[i].at \in Nat
    <3>1. \A r \in Reloc \cup NextReloc : r.at \in Nat
      BY DEF Reloc, NextReloc
    <3> QED BY <1>4, <3>1, InBlock
  <2>9. PlacesIn(blk.relocs, new.code) /\ PlacesIn(blk.nexts, new.code)
    BY <1>3, <2>7, <2>8 DEF BlockInv
  <2>10. BlockInv(new)
    BY <1>3, <2>2, <2>5, <2>9 DEF BlockInv
  <2>11. \A r \in Range(new.relocs) \cup Range(new.nexts) : r.at < at + 1
    BY <1>1, <1>5, <2>2
  <2>12. \A i \in DOMAIN new.code : new.code[i] = ctx.base.code[i] \/ new.code[i][1] = "place"
    BY <1>3, <2>1, <2>4, <2>6
  <2>13. \A t : ~ Wants(p, e.args, t)
    BY <1>10 DEF Wants
  <2>14. \A r \in Range(new.relocs) :
            \/ r \in Range(ctx.base.relocs) \/ r.target[1] = "Constant"
            \/ \E k \in 1..n : Wants(places[k], e.args, r.target)
    BY <1>3, <1>8, <2>2
  <2>15. \A k \in 1..n : \A to :
            Wants(places[k], e.args, to) /\ to # Next =>
              \E r \in Range(new.relocs) : r.target = to
    BY <1>3, <1>7, <2>2, <2>13 DEF p
  <2>16. new.nexts # <<>> <=> \E k \in 1..n : Wants(places[k], e.args, Next)
    BY <1>3, <1>7, <1>8, <2>2, <2>13 DEF p
  <2> QED BY <1>1, <1>3, <2>2, <2>4, <2>10, <2>11, <2>12, <2>14, <2>15, <2>16 DEF AddInv, at, p, e
<1>11. ASSUME new = [code |-> blk.code, relocs |-> blk.relocs, consts |-> blk.consts,
                     nexts |-> Append(blk.nexts, Delayed(at, Next)), ended |-> blk.ended,
                     long_jump |-> blk.long_jump],
              p.kind = "Target", e.args.jumps[p.id] = Next
       PROVE  AddInv(ctx, places, n, new)
  <2> DEFINE r0 == Delayed(at, Next)
  <2>1. r0 \in NextReloc /\ r0.at = at /\ r0.target = Next
    BY <1>1 DEF Delayed, NextReloc
  <2> HIDE DEF r0
  <2>2. new.code = blk.code /\ new.relocs = blk.relocs /\ new.ended = blk.ended
        /\ new.long_jump = blk.long_jump
        /\ new.nexts = Append(blk.nexts, r0)
    BY <1>11 DEF r0
  <2>3. blk.nexts \in Seq(NextReloc)
    BY <1>4 DEF BlockRec
  <2>4. /\ new.nexts \in Seq(NextReloc) /\ Range(new.nexts) = Range(blk.nexts) \cup {r0}
        /\ new.nexts # <<>>
    <3> DEFINE old == blk.nexts
    <3> HIDE DEF old
    <3>1. new.nexts = Append(old, r0) /\ old \in Seq(NextReloc) /\ r0 \in NextReloc
      BY <2>1, <2>2, <2>3 DEF old
    <3> QED BY <3>1, AppendIs DEF old
  <2>5. new \in BlockRec
    BY <1>4, <1>11, <2>4, <2>2 DEF BlockRec
  <2>6. InOrder(new.nexts) /\ PlacesIn(new.nexts, new.code)
    <3>1. \A q \in NextReloc : q.at \in Nat
      BY DEF NextReloc
    <3>2. InOrder(blk.nexts) /\ PlacesIn(blk.nexts, blk.code)
      BY <1>3 DEF BlockInv
    <3>3. r0.at < Len(blk.code) /\ blk.code[r0.at + 1][1] = "place"
      BY <1>2, <1>3, <1>6, <2>1
    <3>4. \A q \in Range(blk.nexts) : q.at < r0.at
      BY <1>5, <2>1
    <3>5. InOrder(Append(blk.nexts, r0)) /\ PlacesIn(Append(blk.nexts, r0), blk.code)
      BY <2>1, <2>3, <3>1, <3>2, <3>3, <3>4, AppendInOrder
    <3> QED BY <2>2, <3>5
  <2>7. BlockInv(new)
    BY <1>3, <2>2, <2>5, <2>6 DEF BlockInv
  <2>8. \A r \in Range(new.relocs) \cup Range(new.nexts) : r.at < at + 1
    BY <1>1, <1>5, <2>1, <2>2, <2>4
  <2>9. Wants(p, e.args, Next)
    BY <1>11 DEF Wants
  <2>10. \A to : to # Next => ~ Wants(p, e.args, to)
    BY <1>11 DEF Wants
  <2>11. \A r \in Range(new.relocs) :
            \/ r \in Range(ctx.base.relocs) \/ r.target[1] = "Constant"
            \/ \E k \in 1..n : Wants(places[k], e.args, r.target)
    BY <1>3, <1>8, <2>2
  <2>12. \A k \in 1..n : \A to :
            Wants(places[k], e.args, to) /\ to # Next =>
              \E r \in Range(new.relocs) : r.target = to
    BY <1>3, <1>7, <2>2, <2>10 DEF p
  <2>13. new.nexts # <<>> <=> \E k \in 1..n : Wants(places[k], e.args, Next)
    BY <1>8, <2>4, <2>9 DEF p
  <2> QED BY <1>1, <1>3, <2>2, <2>7, <2>8, <2>11, <2>12, <2>13 DEF AddInv, at, p, e
<1>12. blk = [code |-> blk.code, relocs |-> blk.relocs, consts |-> blk.consts,
              nexts |-> blk.nexts, ended |-> blk.ended, long_jump |-> blk.long_jump]
  BY <1>4 DEF BlockRec
<1>13. blk.consts \in Seq(Nat) /\ Len(blk.consts) \in Nat
  BY <1>4 DEF BlockRec
<1>14. CASE p.kind = "Hole" /\ e.wide
  <2> DEFINE i == Len(blk.consts) % ConstMod
  <2>1. i \in Nat
    <3>1. ConstMod \in Nat \ {0}
      BY CellAssumption
    <3> QED BY <1>13, <3>1, ModNat
  <2> HIDE DEF i
  <2>2. Constant(i) \in DelayedTo /\ Constant(i)[1] = "Constant"
    BY <2>1 DEF DelayedTo, Constant
  <2>3. new = [code |-> blk.code, relocs |-> Append(blk.relocs, Delayed(at, Constant(i))),
               consts |-> Append(blk.consts, e.args.hole), nexts |-> blk.nexts,
               ended |-> blk.ended, long_jump |-> blk.long_jump]
    BY <1>12, <1>14 DEF new, AddPlace, at, i, e, p
  <2>4. Append(blk.consts, e.args.hole) \in Seq(Nat)
    BY <1>1, <1>13 DEF e
  <2>5. \A t : ~ Wants(p, e.args, t)
    BY <1>14 DEF Wants
  <2> QED BY <1>9, <2>2, <2>3, <2>4, <2>5 DEF new, e, p
<1>15. CASE p.kind = "Hole" /\ ~ e.wide
  <2>1. new = [code |-> [blk.code EXCEPT ![at + 1] = Place(e.args.hole)],
               relocs |-> blk.relocs, consts |-> blk.consts, nexts |-> blk.nexts,
               ended |-> blk.ended, long_jump |-> blk.long_jump]
    BY <1>12, <1>15 DEF new, AddPlace, at, e, p
  <2> QED BY <1>1, <1>10, <1>15, <2>1 DEF new, e, p
<1>16. CASE p.kind = "Stack"
  <2>1. new = [code |-> [blk.code EXCEPT ![at + 1] = Place(e.args.stack)],
               relocs |-> blk.relocs, consts |-> blk.consts, nexts |-> blk.nexts,
               ended |-> blk.ended, long_jump |-> blk.long_jump]
    BY <1>12, <1>16 DEF new, AddPlace, at, e, p
  <2> QED BY <1>1, <1>10, <1>16, <2>1 DEF new, e, p
<1>17. CASE p.kind = "Runtime"
  <2>1. new = [code |-> blk.code, relocs |-> Append(blk.relocs, Delayed(at, Runtime(p.id))),
               consts |-> blk.consts, nexts |-> blk.nexts, ended |-> blk.ended,
               long_jump |-> blk.long_jump]
    BY <1>12, <1>17 DEF new, AddPlace, at, e, p
  <2>2. Runtime(p.id) \in DelayedTo /\ Runtime(p.id) # Next
    BY <1>2, <1>17 DEF DelayedTo, Runtime, Next, p
  <2> DEFINE t == Runtime(p.id)
  <2>3. /\ Wants(p, e.args, t) /\ \A to : Wants(p, e.args, to) => t = to
        /\ ~ Wants(p, e.args, Next)
    BY <1>17, <2>2 DEF Wants
  <2> HIDE DEF t
  <2>4. /\ t \in DelayedTo
        /\ new = [code |-> blk.code, relocs |-> Append(blk.relocs, Delayed(at, t)),
                  consts |-> blk.consts, nexts |-> blk.nexts, ended |-> blk.ended,
                  long_jump |-> blk.long_jump]
    BY <2>1, <2>2 DEF t
  <2> QED BY <1>9, <1>13, <2>3, <2>4 DEF new, e, p
<1>18. CASE p.kind = "Target" /\ jump = Next
  <2>1. new = [code |-> blk.code, relocs |-> blk.relocs, consts |-> blk.consts,
               nexts |-> Append(blk.nexts, Delayed(at, Next)), ended |-> blk.ended,
               long_jump |-> blk.long_jump]
    BY <1>12, <1>18 DEF new, AddPlace, at, jump, e, p
  <2> QED BY <1>11, <1>18, <2>1 DEF new, e, p, jump
<1>19. CASE p.kind = "Target" /\ jump # Next
  <2>1. new = [code |-> blk.code, relocs |-> Append(blk.relocs, Delayed(at, jump)),
               consts |-> blk.consts, nexts |-> blk.nexts, ended |-> blk.ended,
               long_jump |-> blk.long_jump]
    BY <1>12, <1>19 DEF new, AddPlace, at, jump, e, p
  <2>2. jump \in DelayedTo
    BY <1>2, <1>19 DEF Jump, DelayedTo, jump, p, e
  <2>3. Wants(p, e.args, jump) /\ \A t : Wants(p, e.args, t) => t = jump
    BY <1>19 DEF Wants, jump
  <2> QED BY <1>9, <1>13, <1>19, <2>1, <2>2, <2>3 DEF new, e, p
<1>20. p.kind \in {"Hole", "Stack", "Runtime", "Target"}
  BY <1>1 DEF p
<1> QED BY <1>1, <1>14, <1>15, <1>16, <1>17, <1>18, <1>19, <1>20 DEF new, p, e

LEMMA AddPlacesKeep ==
    ASSUME NEW base, NEW places, NEW e,
           Emission([e |-> e, base |-> base], places), BlockInv(base), base.nexts = <<>>,
           \A r \in Range(base.relocs) : r.at < e.from
    PROVE  AddInv([e |-> e, base |-> base], places, Len(places), AddPlaces(base, places, e))
<1> DEFINE ctx == [e |-> e, base |-> base]
<1>1. ctx.e = e /\ ctx.base = base
  OBVIOUS
<1>2. places \in Seq(PlaceRec) /\ Emission(ctx, places)
  BY DEF Emission
<1> HIDE DEF ctx
<1>3. DOMAIN places = 1..Len(places) /\ Len(places) \in Nat
  BY <1>2
<1>4. AddInv(ctx, places, 0, base)
  <2>1. \A k \in 1..0 : FALSE
    OBVIOUS
  <2>2. Range(base.nexts) = {}
    BY DEF Range
  <2> QED BY <1>1, <2>1, <2>2 DEF AddInv
<1>5. ASSUME NEW n \in 1..Len(places), NEW v, AddInv(ctx, places, n - 1, v)
      PROVE  AddInv(ctx, places, n, AddOp(ctx, v, places[n]))
  BY <1>2, <1>3, <1>5, AddPlaceStep DEF AddOp
<1>6. AddInv(ctx, places, Len(places), Adding!Fold(ctx, base, places))
  BY <1>3, <1>4, <1>5, Adding!FoldInduction
<1>7. AddPlaces(base, places, e) = Adding!Fold(ctx, base, places)
  BY <1>1, AddPlacesIs
<1> QED BY <1>6, <1>7 DEF ctx

-----------------------------------------------------------------------------

(* The code that ends with the jump of an empty stencil.                   *)
LEMMA EndsWithEmpty ==
    ASSUME NEW S, NEW code \in Seq(S), EndsWith(code, Empty)
    PROVE  Len(code) >= 2 /\ code[Len(code) - 1] = Jmp
<1> DEFINE rc == Reverse(code)
           re == Reverse(Empty)
<1>1. Len(Empty) = 2 /\ Empty[1] = Jmp
  BY DEF Empty
<1>2. re = [i \in 1..2 |-> Empty[(2 - i) + 1]]
  BY <1>1 DEF Reverse
<1>3. Len(re) = 2 /\ re[2] = Jmp
  BY <1>1, <1>2
<1>4. rc = [i \in 1..Len(code) |-> code[(Len(code) - i) + 1]] /\ Len(code) \in Nat
  BY DEF Reverse
<1>5. Len(rc) = Len(code)
  BY <1>4
<1>6. Len(re) <= Len(rc) /\ SubSeq(re, 1, Len(re)) = SubSeq(rc, 1, Len(re))
  BY DEF EndsWith, IsSuffix, IsPrefix
<1>7. Len(code) >= 2
  BY <1>3, <1>5, <1>6
<1>8. rc[2] = code[Len(code) - 1]
  BY <1>4, <1>7
<1> HIDE DEF rc, re
<1>9. SubSeq(re, 1, 2) = SubSeq(rc, 1, 2)
  BY <1>3, <1>6
<1>10. SubSeq(re, 1, 2)[2] = re[2] /\ SubSeq(rc, 1, 2)[2] = rc[2]
  OBVIOUS
<1> QED BY <1>3, <1>7, <1>8, <1>9, <1>10

(* Patched code is code of the same length; what was not a place is as     *)
(* before and what was one still is.                                       *)
LEMMA PatchCode ==
    ASSUME NEW code \in Seq(CodeCell), NEW N \in Nat, NEW patches, DOMAIN patches = 1..N,
           \A k \in 1..N : patches[k].at \in Int /\ patches[k].to \in Int
    PROVE  /\ PatchAll(code, patches) \in Seq(CodeCell)
           /\ Len(PatchAll(code, patches)) = Len(code)
           /\ \A i \in 1..Len(code) :
                 \/ PatchAll(code, patches)[i] = code[i]
                 \/ PatchAll(code, patches)[i][1] = "place"
<1> DEFINE new == PatchAll(code, patches)
<1>1. CodeCell \subseteq AnyCell
  BY DEF CodeCell, AnyCell
<1>2. DOMAIN code = 1..Len(code) /\ Len(code) \in Nat /\ code \in [1..Len(code) -> CodeCell]
  OBVIOUS
<1>3. code \in [DOMAIN code -> AnyCell]
  BY <1>1, <1>2
<1>4. /\ new \in [1..Len(code) -> AnyCell]
      /\ \A i \in 1..Len(code) : new[i] = code[i] \/ new[i][1] = "place"
  BY <1>2, <1>3, PatchAllKeeps
<1> HIDE DEF new
<1>5. \A c \in AnyCell : c[1] = "place" => c \in CodeCell
  BY DEF AnyCell, CodeCell, Cell
<1>6. new \in [1..Len(code) -> CodeCell]
  BY <1>2, <1>4, <1>5
<1>7. new \in Seq(CodeCell) /\ Len(new) = Len(code)
  BY <1>2, <1>6
<1> QED BY <1>4, <1>7 DEF new

LEMMA PrunedKeeps ==
    ASSUME NEW blk, BlockInv(blk), blk.nexts # <<>>
    PROVE  LET kept == Pruned(blk)
           IN  /\ kept \in Seq(CodeCell)
               /\ PlacesIn(blk.relocs, kept) /\ PlacesIn(Front(blk.nexts), kept)
<1> DEFINE N == Len(blk.code)
           n == Len(blk.nexts)
           last == Last(blk.nexts)
           front == Front(blk.nexts)
           patched == Patch(blk.code, last, N)
           kept == Pruned(blk)
<1>1. /\ blk \in BlockRec /\ PlacesIn(blk.relocs, blk.code) /\ PlacesIn(blk.nexts, blk.code)
      /\ InOrder(blk.relocs) /\ InOrder(blk.nexts)
  BY DEF BlockInv
<1>2. /\ blk.code \in Seq(CodeCell) /\ DOMAIN blk.code = 1..N /\ N \in Nat
      /\ blk.relocs \in Seq(Reloc) /\ blk.nexts \in Seq(NextReloc)
      /\ DOMAIN blk.relocs = 1..Len(blk.relocs) /\ Len(blk.relocs) \in Nat
      /\ DOMAIN blk.nexts = 1..n /\ n \in Nat
      /\ \A i \in DOMAIN blk.relocs : blk.relocs[i] \in Reloc
      /\ \A i \in DOMAIN blk.nexts : blk.nexts[i] \in NextReloc
  BY <1>1, InBlock
<1>3. \A r \in Reloc \cup NextReloc : r.at \in Nat
  BY DEF Reloc, NextReloc
<1>4. n \in 1..n /\ last = blk.nexts[n]
  BY <1>2 DEF Last
<1>5. last.at \in Nat /\ last.at < N /\ last.at + 1 \in 1..N
  <2>1. n \in DOMAIN blk.nexts
    BY <1>2, <1>4
  <2>2. last.at \in Nat /\ last.at < N
    BY <1>1, <1>2, <1>3, <1>4, <2>1 DEF PlacesIn
  <2> HIDE DEF last
  <2> QED BY <1>2, <2>2
<1>6. /\ DOMAIN front = 1..(n - 1)
      /\ \A i \in 1..(n - 1) : front[i] = blk.nexts[i] /\ front[i].at < last.at
  <2>1. /\ DOMAIN front = 1..(n - 1)
        /\ \A i \in 1..(n - 1) : front[i] = blk.nexts[i]
    BY <1>2, <1>4 DEF Front
  <2>2. \A i \in 1..(n - 1) : i \in DOMAIN blk.nexts /\ i < n
    BY <1>2, <1>4
  <2> HIDE DEF front, last, n
  <2>3. \A i \in 1..(n - 1) : blk.nexts[i].at < last.at
    BY <1>1, <1>2, <1>4, <2>2 DEF InOrder
  <2> QED BY <2>1, <2>3
<1> HIDE DEF front, last
<1>7. /\ patched \in Seq(CodeCell) /\ Len(patched) = N
      /\ \A i \in 1..N : patched[i] = blk.code[i] \/ patched[i][1] = "place"
  <2> DEFINE cell == Place(N - last.at - 1)
  <2>1. cell \in CodeCell /\ cell[1] = "place"
    BY <1>2, <1>5 DEF Place, CodeCell, Cell
  <2>2. patched = [blk.code EXCEPT ![last.at + 1] = cell]
    BY DEF Patch
  <2> HIDE DEF cell
  <2> QED BY <1>2, <1>5, <2>1, <2>2
<1> HIDE DEF patched
<1>8. ASSUME NEW rs, \A i \in DOMAIN rs : rs[i].at \in Nat, PlacesIn(rs, blk.code)
      PROVE  PlacesIn(rs, patched)
  <2> SUFFICES ASSUME NEW i \in DOMAIN rs
               PROVE  rs[i].at < N /\ patched[rs[i].at + 1][1] = "place"
    BY <1>7 DEF PlacesIn
  <2>1. rs[i].at \in Nat /\ rs[i].at < N /\ blk.code[rs[i].at + 1][1] = "place"
    BY <1>8 DEF PlacesIn
  <2>2. rs[i].at + 1 \in 1..N
    BY <1>2, <2>1
  <2> QED BY <1>7, <2>1, <2>2
<1>9. /\ \A i \in DOMAIN blk.relocs : blk.relocs[i].at \in Nat
      /\ \A i \in DOMAIN front : front[i].at \in Nat
  <2>1. \A i \in DOMAIN blk.relocs : blk.relocs[i].at \in Nat
    BY <1>2, <1>3
  <2>2. \A i \in DOMAIN blk.nexts : blk.nexts[i].at \in Nat
    BY <1>2, <1>3
  <2>3. \A i \in 1..(n - 1) : i \in 1..n
    BY <1>2
  <2> QED BY <1>2, <1>6, <2>1, <2>2, <2>3
<1>10. PlacesIn(blk.relocs, patched) /\ PlacesIn(front, patched)
  <2>1. PlacesIn(front, blk.code)
    BY <1>1, <1>2, <1>4, <1>6 DEF PlacesIn
  <2> QED BY <1>1, <1>8, <1>9, <2>1
<1>11. CASE ~ Prunable(blk)
  <2>1. kept = patched
    BY <1>11 DEF Pruned, patched, last
  <2> QED BY <1>7, <1>10, <2>1 DEF front
<1>12. CASE Prunable(blk)
  <2>1. EndsWith(patched, Empty) /\ last.at > LastRelocAt(blk)
    BY <1>12 DEF Prunable, patched, last
  <2>2. N >= 2 /\ patched[N - 1] = Jmp
    BY <1>7, <2>1, EndsWithEmpty
  <2>3. Len(Empty) = 2
    BY DEF Empty
  <2>4. kept = SubSeq(patched, 1, N - 2)
    BY <1>7, <1>12, <2>3 DEF Pruned, patched, last
  <2>5. /\ kept \in Seq(CodeCell) /\ Len(kept) = N - 2
        /\ \A i \in 1..(N - 2) : kept[i] = patched[i]
    BY <1>7, <2>2, <2>4
  <2>6. ASSUME NEW rs, PlacesIn(rs, patched),
               \A i \in DOMAIN rs : rs[i].at \in Nat /\ rs[i].at < last.at
        PROVE  PlacesIn(rs, kept)
    <3> SUFFICES ASSUME NEW i \in DOMAIN rs
                 PROVE  rs[i].at < N - 2 /\ kept[rs[i].at + 1][1] = "place"
      BY <2>5 DEF PlacesIn
    <3>1. rs[i].at \in Nat /\ rs[i].at < last.at /\ patched[rs[i].at + 1][1] = "place"
      BY <2>6 DEF PlacesIn
    <3>2. rs[i].at + 1 # N - 1
      BY <2>2, <3>1 DEF Jmp
    <3>3. rs[i].at < N - 2
      BY <1>2, <1>5, <3>1, <3>2
    <3>4. rs[i].at + 1 \in 1..(N - 2)
      BY <1>2, <3>1, <3>3
    <3> QED BY <2>5, <3>1, <3>3, <3>4
  <2>7. \A i \in DOMAIN blk.relocs : blk.relocs[i].at < last.at
    <3> SUFFICES ASSUME NEW i \in DOMAIN blk.relocs PROVE blk.relocs[i].at < last.at
      OBVIOUS
    <3> DEFINE k == Len(blk.relocs)
    <3>1. k \in Nat /\ i \in 1..k /\ k \in DOMAIN blk.relocs /\ blk.relocs # <<>>
      BY <1>2
    <3>2. LastRelocAt(blk) = blk.relocs[k].at
      BY <3>1 DEF LastRelocAt, Last
    <3>3. blk.relocs[i].at \in Nat /\ blk.relocs[k].at \in Nat
      BY <1>9, <3>1
    <3> HIDE DEF k
    <3>4. i = k \/ blk.relocs[i].at < blk.relocs[k].at
      BY <1>1, <3>1 DEF InOrder
    <3> QED BY <1>5, <2>1, <3>2, <3>3, <3>4
  <2>8. PlacesIn(blk.relocs, kept)
    BY <1>9, <1>10, <2>6, <2>7
  <2>9. PlacesIn(front, kept)
    BY <1>6, <1>9, <1>10, <2>6
  <2> QED BY <2>5, <2>8, <2>9 DEF front
<1> QED BY <1>11, <1>12

(* Settling drops no place that waits for a relocation.                    *)
LEMMA SettleKeeps ==
    ASSUME NEW blk, BlockInv(blk)
    PROVE  /\ BlockInv(Settle(blk)) /\ Settle(blk).nexts = <<>>
           /\ Settle(blk).relocs = blk.relocs
           /\ Settle(blk).long_jump = blk.long_jump
           /\ \A r \in Range(Settle(blk).relocs) : r.at < Len(Settle(blk).code)
<1>1. blk \in BlockRec
  BY DEF BlockInv
<1>2. /\ BlockInv(Settle(blk)) /\ Settle(blk).nexts = <<>> /\ Settle(blk).relocs = blk.relocs
      /\ Settle(blk).long_jump = blk.long_jump
  <2>1. CASE blk.nexts = <<>>
    BY <2>1 DEF Settle
  <2>2. CASE blk.nexts # <<>>
    <3> DEFINE kept == Pruned(blk)
               front == Front(blk.nexts)
               patches == LeadingTo(front, Len(kept))
               code == PatchAll(kept, patches)
    <3>1. /\ kept \in Seq(CodeCell) /\ Len(kept) \in Nat
          /\ PlacesIn(blk.relocs, kept)
      BY <2>2, PrunedKeeps
    <3> HIDE DEF kept
    <3>2. front \in Seq(NextReloc) /\ DOMAIN front = 1..Len(front) /\ Len(front) \in Nat
      <4>1. blk.nexts \in Seq(NextReloc) /\ Len(blk.nexts) \in Nat \ {0}
        BY <1>1, <2>2, InBlock, EmptySeq
      <4> QED BY <4>1 DEF Front
    <3> HIDE DEF front
    <3>3. \A i \in DOMAIN front : front[i].at \in Nat
      <4>1. \A i \in DOMAIN front : front[i] \in NextReloc
        BY <3>2
      <4> QED BY <4>1 DEF NextReloc
    <3>4. /\ DOMAIN patches = 1..Len(front)
          /\ \A k \in 1..Len(front) : patches[k].at \in Int /\ patches[k].to \in Int
      BY <3>1, <3>2, <3>3 DEF LeadingTo
    <3> HIDE DEF patches
    <3>5. /\ code \in Seq(CodeCell) /\ Len(code) = Len(kept)
          /\ \A i \in 1..Len(kept) : code[i] = kept[i] \/ code[i][1] = "place"
      BY <3>1, <3>2, <3>4, PatchCode
    <3> HIDE DEF code
    <3>6. Settle(blk) = [code |-> code, relocs |-> blk.relocs, consts |-> blk.consts,
                         nexts |-> <<>>, ended |-> blk.ended, long_jump |-> blk.long_jump]
      BY <1>1, <2>2 DEF Settle, BlockRec, code, patches, kept, front
    <3>7. Settle(blk) \in BlockRec
      <4>1. <<>> \in Seq(NextReloc)
        OBVIOUS
      <4> QED BY <1>1, <3>5, <3>6, <4>1 DEF BlockRec
    <3>8. PlacesIn(blk.relocs, code)
      <4> SUFFICES ASSUME NEW i \in DOMAIN blk.relocs
                   PROVE  /\ blk.relocs[i].at < Len(code)
                          /\ code[blk.relocs[i].at + 1][1] = "place"
        BY DEF PlacesIn
      <4>1. /\ blk.relocs[i].at < Len(kept)
            /\ kept[blk.relocs[i].at + 1][1] = "place"
        BY <3>1 DEF PlacesIn
      <4>2. blk.relocs[i].at \in Nat
        BY <1>1, InBlock DEF Reloc
      <4>3. blk.relocs[i].at + 1 \in 1..Len(kept)
        BY <3>1, <4>1, <4>2
      <4> QED BY <3>5, <4>1, <4>3
    <3>9. PlacesIn(<<>>, code) /\ InOrder(<<>>)
      BY DEF PlacesIn, InOrder
    <3>10. InOrder(blk.relocs)
      BY DEF BlockInv
    <3> QED BY <3>6, <3>7, <3>8, <3>9, <3>10 DEF BlockInv
  <2> QED BY <2>1, <2>2
<1>3. \A r \in Range(Settle(blk).relocs) : r.at < Len(Settle(blk).code)
  BY <1>2 DEF BlockInv, PlacesIn, Range
<1> QED BY <1>2, <1>3

-----------------------------------------------------------------------------

LEMMA BelowSum ==
    ASSUME NEW m \in Nat, NEW n \in Nat, NEW k \in Nat
    PROVE  (k < m => k < m + n) /\ (k < n => m + k < m + n)
<1> QED OBVIOUS

LEMMA ConcatParts ==
    ASSUME NEW S, NEW s \in Seq(S), NEW t \in Seq(S)
    PROVE  /\ s \o t \in Seq(S) /\ Len(s \o t) = Len(s) + Len(t)
           /\ Len(s) \in Nat /\ Len(t) \in Nat
           /\ DOMAIN s = 1..Len(s) /\ DOMAIN t = 1..Len(t)
           /\ DOMAIN (s \o t) = 1..(Len(s) + Len(t))
           /\ \A i \in 1..Len(s) : (s \o t)[i] = s[i]
           /\ \A i \in 1..Len(t) : (s \o t)[Len(s) + i] = t[i]
<1> DEFINE st == s \o t
           m == Len(s)
           n == Len(t)
<1>1. /\ st \in Seq(S) /\ Len(st) = m + n
      /\ \A i \in 1..(m + n) : st[i] = IF i <= m THEN s[i] ELSE t[i - m]
  BY ConcatProperties
<1>2. m \in Nat /\ n \in Nat /\ DOMAIN s = 1..m /\ DOMAIN t = 1..n
  OBVIOUS
<1>3. DOMAIN st = 1..(m + n)
  BY <1>1
<1> HIDE DEF st, m, n
<1>4. \A i \in 1..m : st[i] = s[i]
  BY <1>1, <1>2
<1>5. \A i \in 1..n : st[m + i] = t[i]
  BY <1>1, <1>2
<1> QED BY <1>1, <1>2, <1>3, <1>4, <1>5 DEF st, m, n

(* An emission: what emit_one asks of copy_and_patch, and the settled      *)
(* block with the code of the stencil behind it.                           *)
Asked(blk, family, args) ==
    [from |-> Len(Settle(blk).code), wide |-> Wide(family, args.hole), args |-> args]

Extended(blk, family, args) ==
    [Settle(blk) EXCEPT !.code = @ \o Select(family, args.hole).code]

Emittable(family, args) ==
    /\ family.JUMPS \in Nat
    /\ StencilOK(family.narrow, family.JUMPS) /\ StencilOK(family.wide, family.JUMPS)
    /\ args.hole \in Nat /\ args.stack \in Nat /\ args.jumps \in [1..family.JUMPS -> Jump]
    /\ Found(family, args.hole)

(* What is known of an emission's base, and of the stencil's copy in it.    *)
EmissionFacts(blk, family, args) ==
    LET st == Select(family, args.hole)
        settled == Settle(blk)
        base == Extended(blk, family, args)
        e == Asked(blk, family, args)
    IN  /\ EmitOne(blk, family, args) = AddPlaces(base, st.places, e)
        /\ BlockInv(settled) /\ BlockInv(base)
        /\ Emission([e |-> e, base |-> base], st.places)
        /\ \A r \in Range(base.relocs) : r.at < e.from
        /\ Len(settled.code) \in Nat /\ Len(st.code) \in Nat
        /\ Len(base.code) = Len(settled.code) + Len(st.code)
        /\ \A i \in 1..Len(settled.code) : base.code[i] = settled.code[i]
        /\ \A i \in 1..Len(st.code) : base.code[Len(settled.code) + i] = st.code[i]

LEMMA EmissionIs ==
    ASSUME NEW blk, BlockInv(blk), NEW family, NEW args, Emittable(family, args)
    PROVE  EmissionFacts(blk, family, args)
<1> DEFINE st == Select(family, args.hole)
           settled == Settle(blk)
           code == settled.code \o st.code
           base == [settled EXCEPT !.code = code]
           e == [from |-> Len(settled.code), wide |-> Wide(family, args.hole), args |-> args]
           ctx == [e |-> e, base |-> base]
           new == EmitOne(blk, family, args)
<1>0. /\ family.JUMPS \in Nat
      /\ StencilOK(family.narrow, family.JUMPS) /\ StencilOK(family.wide, family.JUMPS)
      /\ args.hole \in Nat /\ args.stack \in Nat /\ args.jumps \in [1..family.JUMPS -> Jump]
      /\ Found(family, args.hole)
  BY DEF Emittable
<1>1. StencilOK(st, family.JUMPS) /\ st.code # <<>>
  BY <1>0 DEF Select, Found
<1>2. new = AddPlaces(base, st.places, e)
  BY DEF EmitOne, CopyAndPatch
<1>3. /\ BlockInv(settled) /\ settled.nexts = <<>> /\ settled.relocs = blk.relocs
      /\ \A r \in Range(settled.relocs) : r.at < Len(settled.code)
  BY SettleKeeps
<1> HIDE DEF settled, st, new
<1>4. /\ st.code \in Seq(CodeCell) /\ st.places \in Seq(PlaceRec)
      /\ \A i, j \in DOMAIN st.places : i < j => st.places[i].at < st.places[j].at
      /\ \A i \in DOMAIN st.places :
            LET p == st.places[i]
            IN  /\ p.at < Len(st.code) /\ st.code[p.at + 1][1] = "place"
                /\ p.kind = "Target" => p.id \in 1..family.JUMPS
                /\ p.kind = "Runtime" => p.id \in DOMAIN SymbolAddr
  BY <1>1 DEF StencilOK, PlaceRec
<1>5. settled \in BlockRec
  BY <1>3 DEF BlockInv
<1>6. /\ settled.code \in Seq(CodeCell) /\ Len(settled.code) \in Nat
      /\ DOMAIN settled.code = 1..Len(settled.code)
      /\ \A i \in DOMAIN settled.relocs : settled.relocs[i].at \in Nat
  BY <1>5, InBlock DEF Reloc
<1>7. /\ code \in Seq(CodeCell) /\ Len(code) = Len(settled.code) + Len(st.code)
      /\ \A i \in 1..Len(settled.code) : code[i] = settled.code[i]
      /\ \A i \in 1..Len(st.code) : code[Len(settled.code) + i] = st.code[i]
      /\ Len(st.code) \in Nat
  <2>1. settled.code \in Seq(CodeCell) /\ st.code \in Seq(CodeCell)
    BY <1>4, <1>6
  <2> DEFINE a == settled.code
             b == st.code
  <2> HIDE DEF base, ctx, e, code, a, b
  <2>2. a \in Seq(CodeCell) /\ b \in Seq(CodeCell)
    BY <2>1 DEF a, b
  <2>3. /\ a \o b \in Seq(CodeCell) /\ Len(a \o b) = Len(a) + Len(b) /\ Len(b) \in Nat
        /\ \A i \in 1..Len(a) : (a \o b)[i] = a[i]
        /\ \A i \in 1..Len(b) : (a \o b)[Len(a) + i] = b[i]
    BY <2>2, ConcatParts
  <2>4. code = a \o b
    BY DEF a, b, code
  <2> QED BY <2>3, <2>4 DEF a, b
<1> HIDE DEF code
<1>71. /\ Len(code) = Len(settled.code) + Len(st.code)
       /\ Len(settled.code) \in Nat /\ Len(st.code) \in Nat
  BY <1>6, <1>7
<1>8. base = [code |-> code, relocs |-> settled.relocs, consts |-> settled.consts,
              nexts |-> settled.nexts, ended |-> settled.ended,
              long_jump |-> settled.long_jump]
  <2>1. settled = [code |-> settled.code, relocs |-> settled.relocs,
                   consts |-> settled.consts, nexts |-> settled.nexts,
                   ended |-> settled.ended, long_jump |-> settled.long_jump]
    BY <1>5 DEF BlockRec
  <2> QED BY <2>1
<1>9. base \in BlockRec
  BY <1>5, <1>7, <1>8 DEF BlockRec
<1>10. /\ base.nexts = <<>> /\ base.relocs = blk.relocs /\ base.code = code
       /\ \A r \in Range(base.relocs) : r.at < e.from
  BY <1>3, <1>8
<1> HIDE DEF base
<1>11. BlockInv(base)
  <2>1. PlacesIn(settled.relocs, code)
    <3> SUFFICES ASSUME NEW i \in DOMAIN settled.relocs
                 PROVE  /\ settled.relocs[i].at < Len(code)
                        /\ code[settled.relocs[i].at + 1][1] = "place"
      BY DEF PlacesIn
    <3>1. /\ settled.relocs[i].at < Len(settled.code) /\ settled.relocs[i].at \in Nat
          /\ settled.code[settled.relocs[i].at + 1][1] = "place"
      BY <1>3, <1>6 DEF BlockInv, PlacesIn
    <3>2. settled.relocs[i].at + 1 \in 1..Len(settled.code)
      BY <1>6, <3>1
    <3>3. code[settled.relocs[i].at + 1] = settled.code[settled.relocs[i].at + 1]
      BY <1>7, <3>2
    <3>4. settled.relocs[i].at < Len(code)
      BY <1>71, <3>1, BelowSum
    <3> QED BY <3>1, <3>3, <3>4
  <2>2. PlacesIn(<<>>, code) /\ InOrder(<<>>)
    BY DEF PlacesIn, InOrder
  <2>3. InOrder(settled.relocs)
    BY <1>3 DEF BlockInv
  <2> QED BY <1>3, <1>9, <1>10, <2>1, <2>2, <2>3 DEF BlockInv
<1>12. Emission(ctx, st.places)
  <2>1. /\ e.from \in Nat /\ e.wide \in BOOLEAN
        /\ e.args.hole \in Nat /\ e.args.stack \in Nat
    BY <1>0, <1>6 DEF Wide
  <2>2. ASSUME NEW i \in DOMAIN st.places
        PROVE  LET p == st.places[i]
               IN  /\ e.from + p.at < Len(base.code)
                   /\ base.code[e.from + p.at + 1][1] = "place"
                   /\ p.kind = "Target" => e.args.jumps[p.id] \in Jump
                   /\ p.kind = "Runtime" => p.id \in DOMAIN SymbolAddr
    <3> DEFINE p == st.places[i]
    <3>1. /\ p.at < Len(st.code) /\ st.code[p.at + 1][1] = "place"
          /\ p.kind = "Target" => p.id \in 1..family.JUMPS
          /\ p.kind = "Runtime" => p.id \in DOMAIN SymbolAddr
      BY <1>4
    <3>2. p.at \in Nat
      <4>1. p \in PlaceRec
        BY <1>4
      <4> QED BY <4>1 DEF PlaceRec
    <3> HIDE DEF p
    <3>3. p.at + 1 \in 1..Len(st.code)
      BY <1>7, <3>1, <3>2
    <3>4. code[Len(settled.code) + (p.at + 1)] = st.code[p.at + 1]
      BY <1>7, <3>3
    <3>5. Len(settled.code) + (p.at + 1) = e.from + p.at + 1
      BY <1>6, <3>2
    <3>6. code[e.from + p.at + 1][1] = "place"
      BY <3>1, <3>4, <3>5
    <3>7. e.from + p.at < Len(code)
      <4>1. e.from = Len(settled.code)
        OBVIOUS
      <4> HIDE DEF e
      <4> QED BY <1>71, <3>1, <3>2, <4>1, BelowSum
    <3>8. p.kind = "Target" => e.args.jumps[p.id] \in Jump
      BY <1>0, <3>1
    <3> QED BY <1>10, <3>1, <3>6, <3>7, <3>8 DEF p
  <2> HIDE DEF e
  <2>3. ctx.e = e /\ ctx.base = base
    OBVIOUS
  <2> QED BY <1>4, <1>9, <2>1, <2>2, <2>3 DEF Emission
<1>13. base = Extended(blk, family, args) /\ e = Asked(blk, family, args)
  BY DEF Extended, Asked, settled, base, e, code, st
<1>14. new = AddPlaces(base, st.places, e)
  BY <1>2
<1> HIDE DEF e
<1> QED BY <1>3, <1>6, <1>7, <1>10, <1>11, <1>12, <1>13, <1>14 DEF EmissionFacts, new, settled, st, ctx

(* emit_one keeps a block in order, and enters one relocation for every    *)
(* jump of the stencil.                                                    *)
LEMMA EmitKeeps ==
    ASSUME NEW blk, BlockInv(blk), NEW family, NEW args, Emittable(family, args)
    PROVE  LET new == EmitOne(blk, family, args)
               places == Select(family, args.hole).places
           IN  /\ BlockInv(new) /\ new.long_jump = blk.long_jump
               /\ \A r \in Range(blk.relocs) : r \in Range(new.relocs)
               /\ \A r \in Range(new.relocs) :
                     \/ r \in Range(blk.relocs) \/ r.target[1] = "Constant"
                     \/ \E p \in Range(places) : Wants(p, args, r.target)
               /\ \A p \in Range(places) : \A to :
                     Wants(p, args, to) /\ to # Next =>
                       \E r \in Range(new.relocs) : r.target = to
               /\ new.nexts # <<>> <=> \E p \in Range(places) : Wants(p, args, Next)
<1> DEFINE st == Select(family, args.hole)
           base == Extended(blk, family, args)
           e == Asked(blk, family, args)
           ctx == [e |-> e, base |-> base]
           new == EmitOne(blk, family, args)
<1>0. base.nexts = <<>> /\ base.relocs = blk.relocs /\ base.long_jump = blk.long_jump
  <2>1. /\ Settle(blk).nexts = <<>> /\ Settle(blk).relocs = blk.relocs
        /\ Settle(blk).long_jump = blk.long_jump
    BY SettleKeeps
  <2> QED BY <2>1 DEF Extended
<1>1. /\ new = AddPlaces(base, st.places, e) /\ BlockInv(base)
      /\ Emission(ctx, st.places) /\ \A r \in Range(base.relocs) : r.at < e.from
  <2>1. EmissionFacts(blk, family, args)
    BY EmissionIs
  <2> QED BY <2>1 DEF EmissionFacts
<1>2. e.args = args
  BY DEF Asked
<1>3. st.places \in Seq(PlaceRec)
  BY <1>1 DEF Emission
<1> HIDE DEF new, base, e, st
<1>13. AddInv(ctx, st.places, Len(st.places), new)
  BY <1>0, <1>1, AddPlacesKeep
<1>14. ctx.e.args = args /\ ctx.base.relocs = blk.relocs /\ ctx.base.long_jump = blk.long_jump
  BY <1>0, <1>2
<1>15. DOMAIN st.places = 1..Len(st.places)
  BY <1>3
<1> HIDE DEF ctx
<1>16. /\ BlockInv(new) /\ new.long_jump = blk.long_jump
       /\ \A r \in Range(blk.relocs) : r \in Range(new.relocs)
       /\ \A r \in Range(new.relocs) :
             \/ r \in Range(blk.relocs) \/ r.target[1] = "Constant"
             \/ \E k \in DOMAIN st.places : Wants(st.places[k], args, r.target)
       /\ \A k \in DOMAIN st.places : \A to :
             Wants(st.places[k], args, to) /\ to # Next =>
               \E r \in Range(new.relocs) : r.target = to
       /\ new.nexts # <<>> <=> \E k \in DOMAIN st.places : Wants(st.places[k], args, Next)
  BY <1>13, <1>14, <1>15 DEF AddInv
<1>17. \A t : (\E k \in DOMAIN st.places : Wants(st.places[k], args, t))
                <=> \E p \in Range(st.places) : Wants(p, args, t)
  BY DEF Range
<1>18. \A p \in Range(st.places) : \A to :
          Wants(p, args, to) /\ to # Next => \E r \in Range(new.relocs) : r.target = to
  BY <1>16 DEF Range
<1> QED BY <1>16, <1>17, <1>18 DEF new, st

-----------------------------------------------------------------------------

(* Every runtime function of a block has its trampoline.                   *)
LEMMA SymbolsFound ==
    ASSUME NEW blk \in BlockRec
    PROVE  LET syms == RuntimeTrampolineSymbols(blk)
           IN  /\ syms \in Seq(DOMAIN SymbolAddr)
               /\ \A r \in Range(blk.relocs) :
                     r.target[1] = "Runtime" => r.target[2] \in Range(syms)
               /\ syms # <<>> => \E r \in Range(blk.relocs) : r.target[1] = "Runtime"
<1> DEFINE relocs == blk.relocs
<1>1. /\ DOMAIN relocs = 1..Len(relocs) /\ Len(relocs) \in Nat
      /\ \A i \in DOMAIN relocs : relocs[i] \in Reloc
  BY InBlock
<1> HIDE DEF relocs
<1>2. \A r \in Reloc : r.target[1] = "Runtime" => r.target[2] \in DOMAIN SymbolAddr
  BY DEF Reloc, DelayedTo, Block, Constant, Runtime
<1>3. SymbolInv(0, relocs, 0, <<>>)
  <2>1. \A k \in 1..0 : FALSE
    OBVIOUS
  <2> QED BY <2>1 DEF SymbolInv
<1>4. ASSUME NEW n \in 1..Len(relocs), NEW v, SymbolInv(0, relocs, n - 1, v)
      PROVE  SymbolInv(0, relocs, n, SymbolOp(0, v, relocs[n]))
  <2> DEFINE new == SymbolOp(0, v, relocs[n])
             s == relocs[n].target[2]
  <2>1. v \in Seq(DOMAIN SymbolAddr)
    BY <1>4 DEF SymbolInv
  <2>2. \A k \in 1..n : k \in 1..(n - 1) \/ k = n
    BY <1>1
  <2>3. CASE relocs[n].target[1] = "Runtime" /\ s \notin Range(v)
    <3>1. new = Append(v, s) /\ s \in DOMAIN SymbolAddr
      BY <1>1, <1>2, <2>3 DEF SymbolOp, AddSymbol
    <3> HIDE DEF new, s
    <3>2. new \in Seq(DOMAIN SymbolAddr) /\ Range(new) = Range(v) \cup {s}
      BY <2>1, <3>1, AppendIs
    <3>3. \A k \in 1..n : relocs[k].target[1] = "Runtime" => relocs[k].target[2] \in Range(new)
      BY <1>4, <2>2, <3>2 DEF SymbolInv, s
    <3>4. n \in 1..n
      BY <1>1
    <3> QED BY <2>3, <3>2, <3>3, <3>4 DEF SymbolInv, new
  <2>4. CASE ~ (relocs[n].target[1] = "Runtime" /\ s \notin Range(v))
    <3>1. new = v
      BY <2>4 DEF SymbolOp, AddSymbol
    <3>2. \A k \in 1..n : relocs[k].target[1] = "Runtime" => relocs[k].target[2] \in Range(v)
      BY <1>4, <2>2, <2>4 DEF SymbolInv
    <3> HIDE DEF new
    <3>4. v # <<>> => \E k \in 1..n : relocs[k].target[1] = "Runtime"
      <4>1. \A k \in 1..(n - 1) : k \in 1..n
        BY <1>1
      <4> QED BY <1>4, <4>1 DEF SymbolInv
    <3>3. SymbolInv(0, relocs, n, new)
      BY <2>1, <3>1, <3>2, <3>4 DEF SymbolInv
    <3> QED BY <3>3 DEF new
  <2> QED BY <2>3, <2>4
<1>5. SymbolInv(0, relocs, Len(relocs), Symbols!Fold(0, <<>>, relocs))
  BY <1>1, <1>3, <1>4, Symbols!FoldInduction
<1>6. SymbolInv(0, relocs, Len(relocs), RuntimeTrampolineSymbols(blk))
  BY <1>5, SymbolsIs DEF relocs
<1> QED BY <1>1, <1>6 DEF SymbolInv, Range, relocs

LEMMA MulMono ==
    ASSUME NEW a \in Nat, NEW b \in Nat, NEW w \in Nat, a <= b
    PROVE  a * w \in Nat /\ b * w \in Nat /\ a * w <= b * w
<1> QED OBVIOUS

LEMMA MulSucc ==
    ASSUME NEW a \in Nat, NEW w \in Nat
    PROVE  (a + 1) * w = a * w + w
<1> QED OBVIOUS

LEMMA AlignsUp ==
    ASSUME NEW n \in Nat
    PROVE  AlignUp(n) \in Nat /\ n <= AlignUp(n)
<1> DEFINE w == WordCells
<1>1. w \in Nat \ {0}
  BY CellAssumption
<1> HIDE DEF w
<1>2. ((n + w - 1) \div w) * w \in Nat /\ n <= ((n + w - 1) \div w) * w
  BY <1>1
<1> QED BY <1>2 DEF AlignUp, w

(* How long a finalized block is: its code, its trampolines, and the words *)
(* behind both.                                                            *)
CodeEnd(blk) == Len(blk.code) + 2 * Len(RuntimeTrampolineSymbols(blk))

LEMMA FinalLenIs ==
    ASSUME NEW blk \in BlockRec
    PROVE  LET syms == RuntimeTrampolineSymbols(blk)
               words == Len(blk.consts) + Len(syms)
           IN  /\ Len(syms) \in Nat /\ Len(blk.consts) \in Nat /\ Len(blk.code) \in Nat
               /\ CodeEnd(blk) \in Nat /\ FinalLen(blk) \in Nat
               /\ HasLongJump(blk) =>
                     /\ FinalLen(blk) = IF words = 0 THEN CodeEnd(blk)
                                        ELSE AlignUp(CodeEnd(blk)) + words * WordCells
                     /\ CodeEnd(blk) <= FinalLen(blk)
<1> DEFINE syms == RuntimeTrampolineSymbols(blk)
           m == Len(syms)
           n == Len(blk.code)
           k == Len(blk.consts)
           l == LongJumpLen(blk)
           code == n + m * l
<1>1. m \in Nat /\ n \in Nat /\ k \in Nat
  <2>1. syms \in Seq(DOMAIN SymbolAddr) /\ blk.code \in Seq(CodeCell) /\ blk.consts \in Seq(Nat)
    BY SymbolsFound, InBlock
  <2> QED BY <2>1
<1>2. /\ l \in {0, 2}
      /\ HasLongJump(blk) => m = 0 \/ l = 2
  BY DEF LongJumpLen, LongJump, HasLongJump
<1>3. /\ code \in Nat /\ CodeEnd(blk) \in Nat
      /\ HasLongJump(blk) => code = CodeEnd(blk)
  <2>1. CodeEnd(blk) = n + 2 * m
    BY DEF CodeEnd
  <2> HIDE DEF n, m, l
  <2> DEFINE x == m * l
  <2>2. l = 0 => x = 0
    BY <1>1
  <2>3. l = 2 => x = 2 * m
    BY <1>1
  <2>4. code = n + x
    OBVIOUS
  <2> HIDE DEF x, code
  <2> QED BY <1>1, <1>2, <2>1, <2>2, <2>3, <2>4
<1>4. FinalLen(blk) = IF k + m = 0 THEN code ELSE AlignUp(code) + (k + m) * WordCells
  BY DEF FinalLen
<1> HIDE DEF m, k, n, l, code
<1>5. AlignUp(code) \in Nat /\ code <= AlignUp(code)
  BY <1>3, AlignsUp
<1>6. (k + m) * WordCells \in Nat
  <2>1. WordCells \in Nat /\ k + m \in Nat
    BY <1>1, CellAssumption
  <2> QED BY <2>1, MulMono
<1>7. FinalLen(blk) \in Nat /\ code <= FinalLen(blk)
  BY <1>3, <1>4, <1>5, <1>6
<1> QED BY <1>1, <1>3, <1>4, <1>7 DEF m, n, k

LEMMA MadeSeq ==
    ASSUME NEW S, NEW n \in Nat, NEW f, f = [i \in 1..n |-> f[i]],
           \A i \in 1..n : f[i] \in S
    PROVE  f \in Seq(S)
<1>1. f \in [1..n -> S]
  OBVIOUS
<1> QED BY <1>1

LEMMA WordsAre ==
    ASSUME NEW v \in Nat
    PROVE  WordAt(v) \in Seq(AnyCell) /\ Len(WordAt(v)) = WordCells
<1> DEFINE rest == [i \in 1..(WordCells - 1) |-> Pad]
<1>1. WordCells \in Nat \ {0}
  BY CellAssumption
<1>2. Pad \in AnyCell /\ Word(v) \in AnyCell
  BY DEF Pad, Word, AnyCell, Cell
<1>3. rest \in Seq(AnyCell) /\ Len(rest) = WordCells - 1
  BY <1>1, <1>2
<1>4. <<Word(v)>> \in Seq(AnyCell) /\ Len(<<Word(v)>>) = 1
  BY <1>2
<1> HIDE DEF rest
<1>5. WordAt(v) = <<Word(v)>> \o rest
  BY DEF WordAt, rest
<1>6. WordAt(v) \in Seq(AnyCell) /\ Len(WordAt(v)) = 1 + (WordCells - 1)
  BY <1>3, <1>4, <1>5, ConcatParts
<1> QED BY <1>1, <1>6

(* Finalizing a block writes cells of the block's own region.              *)
LEMMA FinalizeKeeps ==
    ASSUME NEW blk, BlockInv(blk), NEW image \in Seq(AnyCell), NEW offset \in Nat,
           NEW ids, NEW offs \in [ids -> Nat],
           \A r \in Range(blk.relocs) : r.target[1] = "Block" => r.target[2] \in ids,
           HasLongJump(blk)
    PROVE  LET new == FinalizeInto(blk, image, offset, offs)
           IN  /\ new \in Seq(AnyCell) /\ DOMAIN new = DOMAIN image
               /\ \A i \in DOMAIN image :
                     new[i] # image[i] => i \in (offset + 1)..(offset + FinalLen(blk))
<1> DEFINE syms == RuntimeTrampolineSymbols(blk)
           m == Len(syms)
           n == Len(blk.code)
           trampolineAt(i) == Len(blk.code) + (i - 1) * Len(LongJump.code)
           codeEnd == trampolineAt(m + 1)
           runtime == [i \in 1..m |-> SymbolAddr[syms[i]]]
           words == blk.consts \o runtime
           constantBase == IF words = <<>> THEN codeEnd ELSE AlignUp(codeEnd)
           constantAt(i) == offset + constantBase + i * WordCells
           trampolineRelocs ==
             [i \in 1..m |->
                Delayed(trampolineAt(i) + LongJump.places[1].at,
                        Constant((Len(blk.consts) + i - 1) % ConstMod))]
           targetOf(r) ==
             CASE r.target[1] = "Block"    -> offs[r.target[2]]
               [] r.target[1] = "Constant" -> constantAt(r.target[2])
               [] r.target[1] = "Runtime"  ->
                    offset + trampolineAt(CHOOSE i \in DOMAIN syms : syms[i] = r.target[2])
           piece1 == <<[start |-> offset, cells |-> blk.code]>>
           piece2 == [i \in 1..m |->
                        [start |-> offset + trampolineAt(i), cells |-> LongJump.code]]
           piece3 == [i \in 1..Len(words) |->
                        [start |-> constantAt(i - 1), cells |-> WordAt(words[i])]]
           pieces == piece1 \o piece2 \o piece3
           relocs == blk.relocs \o trampolineRelocs
           patches == [k \in 1..Len(relocs) |->
                         [at |-> offset + relocs[k].at, to |-> targetOf(relocs[k])]]
           end == offset + FinalLen(blk)
           written == WriteAll(image, pieces)
           new == FinalizeInto(blk, image, offset, offs)
<1>1. new = PatchAll(written, patches)
  BY DEF FinalizeInto
<1>2. /\ blk \in BlockRec /\ PlacesIn(blk.relocs, blk.code)
      /\ blk.code \in Seq(CodeCell) /\ blk.consts \in Seq(Nat) /\ blk.relocs \in Seq(Reloc)
  BY InBlock DEF BlockInv
<1>3. /\ syms \in Seq(DOMAIN SymbolAddr) /\ DOMAIN syms = 1..m
      /\ \A i \in 1..m : syms[i] \in DOMAIN SymbolAddr
      /\ \A r \in Range(blk.relocs) : r.target[1] = "Runtime" => r.target[2] \in Range(syms)
  <2>1. /\ syms \in Seq(DOMAIN SymbolAddr)
        /\ \A r \in Range(blk.relocs) : r.target[1] = "Runtime" => r.target[2] \in Range(syms)
    BY <1>2, SymbolsFound
  <2> HIDE DEF syms
  <2> QED BY <2>1, LenProperties, ElementOfSeq
<1>4. /\ m \in Nat /\ n \in Nat /\ Len(blk.consts) \in Nat
      /\ CodeEnd(blk) \in Nat /\ FinalLen(blk) \in Nat /\ CodeEnd(blk) <= FinalLen(blk)
      /\ FinalLen(blk) = IF Len(blk.consts) + m = 0 THEN CodeEnd(blk)
                         ELSE AlignUp(CodeEnd(blk)) + (Len(blk.consts) + m) * WordCells
  BY <1>2, FinalLenIs
<1>5. WordCells \in Nat \ {0} /\ ConstMod \in Nat \ {0}
  BY CellAssumption
<1>6. LongJump.code \in Seq(AnyCell) /\ Len(LongJump.code) = 2 /\ LongJump.places[1].at = 1
  BY DEF LongJump, JmpInd, Place, AnyCell, Cell
<1> HIDE DEF n, m, new
<1>7. CodeEnd(blk) = n + 2 * m
  BY DEF CodeEnd, n, m
<1>8. \A i \in Int : trampolineAt(i) = n + (i - 1) * 2 /\ trampolineAt(i) \in Int
  BY <1>4, <1>6 DEF n
<1> HIDE DEF trampolineAt
<1>9. codeEnd = CodeEnd(blk)
  BY <1>4, <1>7, <1>8
<1>10. \A i \in 1..m : /\ trampolineAt(i) \in Int /\ n <= trampolineAt(i)
                       /\ trampolineAt(i) + 2 <= CodeEnd(blk)
  <2> SUFFICES ASSUME NEW i \in 1..m
               PROVE  /\ trampolineAt(i) \in Int /\ n <= trampolineAt(i)
                      /\ trampolineAt(i) + 2 <= CodeEnd(blk)
    OBVIOUS
  <2> DEFINE t == trampolineAt(i)
             c == CodeEnd(blk)
  <2>1. m \in Nat /\ n \in Nat
    BY <1>4
  <2>2. i \in Int /\ 1 <= i /\ i <= m
    BY <2>1
  <2>3. t = n + (i - 1) * 2 /\ t \in Int
    BY <1>8, <2>2
  <2>4. c = n + 2 * m
    BY <1>7
  <2> HIDE DEF t, c
  <2>5. n <= t /\ t + 2 <= c
    BY <2>1, <2>2, <2>3, <2>4
  <2> QED BY <2>3, <2>5 DEF t, c
<1> HIDE DEF syms
<1>11. \A s \in DOMAIN SymbolAddr : SymbolAddr[s] \in Nat
  <2>1. SymbolAddr \in Seq(Nat)
    BY ProgramAssumption
  <2> QED BY <2>1
<1>12. runtime \in Seq(Nat) /\ Len(runtime) = m
  <2>1. \A i \in 1..m : SymbolAddr[syms[i]] \in Nat
    BY <1>3, <1>11
  <2> QED BY <1>4, <2>1
<1> HIDE DEF runtime
<1>13. /\ words \in Seq(Nat) /\ Len(words) = Len(blk.consts) + m /\ Len(words) \in Nat
       /\ words = <<>> <=> Len(words) = 0
       /\ \A i \in 1..Len(words) : words[i] \in Nat
  <2>1. words \in Seq(Nat) /\ Len(words) = Len(blk.consts) + m
    <3> DEFINE a == blk.consts
    <3>1. a \in Seq(Nat) /\ words = a \o runtime
      BY <1>2
    <3> HIDE DEF a, words
    <3>2. a \o runtime \in Seq(Nat) /\ Len(a \o runtime) = Len(a) + Len(runtime)
      BY <1>12, <3>1, ConcatParts
    <3> QED BY <1>12, <3>1, <3>2 DEF a
  <2> HIDE DEF words
  <2>2. Len(words) \in Nat /\ \A i \in 1..Len(words) : words[i] \in Nat
    BY <2>1
  <2>3. words = <<>> <=> Len(words) = 0
    BY <2>1, EmptySeq
  <2> QED BY <2>1, <2>2, <2>3
<1> HIDE DEF words, codeEnd
<1>14. /\ constantBase \in Nat /\ CodeEnd(blk) <= constantBase
       /\ FinalLen(blk) = constantBase + Len(words) * WordCells
  <2>1. AlignUp(CodeEnd(blk)) \in Nat /\ CodeEnd(blk) <= AlignUp(CodeEnd(blk))
    BY <1>4, AlignsUp
  <2>2. CASE words = <<>>
    <3>1. Len(words) * WordCells = 0
      BY <1>5, <1>13, <2>2
    <3> QED BY <1>4, <1>9, <1>13, <2>2, <3>1
  <2>3. CASE words # <<>>
    BY <1>4, <1>9, <1>13, <2>1, <2>3
  <2> QED BY <2>2, <2>3
<1> HIDE DEF constantBase
<1> DEFINE Piece == {w \in [start : Int, cells : Seq(AnyCell)] :
                          offset <= w.start /\ w.start + Len(w.cells) <= end}
<1>15. end \in Nat /\ offset + CodeEnd(blk) <= end
  BY <1>4
<1> HIDE DEF end
<1>16. piece1 \in Seq(Piece)
  <2>1. [start |-> offset, cells |-> blk.code] \in Piece
    <3>1. CodeCell \subseteq AnyCell
      BY DEF CodeCell, AnyCell
    <3>2. blk.code \in Seq(AnyCell)
      BY <1>2, <3>1, SeqMonotonic
    <3>3. offset + n <= end
      BY <1>4, <1>7, <1>15
    <3> QED BY <3>2, <3>3 DEF n
  <2> HIDE DEF Piece
  <2> QED BY <2>1
<1>17. piece2 \in Seq(Piece)
  <2>1. ASSUME NEW i \in 1..m
        PROVE  [start |-> offset + trampolineAt(i), cells |-> LongJump.code] \in Piece
    <3>1. trampolineAt(i) \in Int /\ n <= trampolineAt(i) /\ trampolineAt(i) + 2 <= CodeEnd(blk)
      BY <1>10
    <3>2. /\ offset + trampolineAt(i) \in Int /\ offset <= offset + trampolineAt(i)
          /\ offset + trampolineAt(i) + 2 <= end
      <4> DEFINE t == trampolineAt(i)
                 c == CodeEnd(blk)
      <4>1. t \in Int /\ n \in Nat /\ n <= t /\ t + 2 <= c /\ c \in Nat
        BY <1>4, <3>1
      <4>2. end \in Nat /\ offset + c <= end
        BY <1>15
      <4> HIDE DEF t, c
      <4>3. offset + t \in Int /\ offset <= offset + t /\ offset + t + 2 <= end
        BY <4>1, <4>2
      <4> QED BY <4>3 DEF t
    <3> QED BY <1>6, <3>2
  <2> HIDE DEF Piece
  <2>2. \A i \in 1..m : piece2[i] \in Piece
    BY <2>1
  <2>3. piece2 = [i \in 1..m |-> piece2[i]]
    OBVIOUS
  <2> HIDE DEF piece2
  <2> QED BY <1>4, <2>2, <2>3, MadeSeq
<1>18. \A i \in Nat : constantAt(i) \in Nat
  <2> SUFFICES ASSUME NEW i \in Nat PROVE constantAt(i) \in Nat
    OBVIOUS
  <2>1. i * WordCells \in Nat
    BY <1>5, MulMono
  <2> QED BY <1>14, <2>1
<1>19. piece3 \in Seq(Piece)
  <2>1. ASSUME NEW i \in 1..Len(words)
        PROVE  [start |-> constantAt(i - 1), cells |-> WordAt(words[i])] \in Piece
    <3>1. WordAt(words[i]) \in Seq(AnyCell) /\ Len(WordAt(words[i])) = WordCells
      BY <1>13, WordsAre
    <3>2. i \in Nat /\ i - 1 \in Nat /\ i <= Len(words) /\ i = (i - 1) + 1
      BY <1>13
    <3>3. i * WordCells = (i - 1) * WordCells + WordCells
      BY <1>5, <3>2, MulSucc
    <3>4. /\ i * WordCells <= Len(words) * WordCells
          /\ i * WordCells \in Nat /\ Len(words) * WordCells \in Nat
      BY <1>5, <1>13, <3>2, MulMono
    <3>5. (i - 1) * WordCells \in Nat
      BY <1>5, <3>2, MulMono
    <3>6. /\ constantAt(i - 1) \in Int /\ offset <= constantAt(i - 1)
          /\ constantAt(i - 1) + WordCells <= end
      <4> DEFINE x == (i - 1) * WordCells
                 y == i * WordCells
                 z == Len(words) * WordCells
      <4>1. constantAt(i - 1) = offset + constantBase + x
        OBVIOUS
      <4>2. /\ x \in Nat /\ y \in Nat /\ z \in Nat /\ y = x + WordCells /\ y <= z
            /\ FinalLen(blk) = constantBase + z
        BY <1>14, <3>3, <3>4, <3>5
      <4> HIDE DEF x, y, z, constantAt
      <4> QED BY <1>5, <1>14, <4>1, <4>2 DEF end
    <3> HIDE DEF constantAt
    <3> QED BY <3>1, <3>6
  <2> HIDE DEF Piece, constantAt
  <2>2. \A i \in 1..Len(words) : piece3[i] \in Piece
    BY <2>1
  <2>3. piece3 = [i \in 1..Len(words) |-> piece3[i]]
    OBVIOUS
  <2> HIDE DEF piece3
  <2> QED BY <1>13, <2>2, <2>3, MadeSeq
<1> HIDE DEF piece1, piece2, piece3
<1>20. pieces \in Seq(Piece)
  <2> HIDE DEF Piece
  <2>1. piece1 \o piece2 \in Seq(Piece)
    BY <1>16, <1>17, ConcatProperties
  <2> QED BY <1>19, <2>1, ConcatProperties
<1> HIDE DEF pieces
<1>21. /\ DOMAIN pieces = 1..Len(pieces) /\ Len(pieces) \in Nat
       /\ \A k \in 1..Len(pieces) : pieces[k] \in Piece
  BY <1>20
<1>22. DOMAIN image = 1..Len(image) /\ Len(image) \in Nat /\ image \in [DOMAIN image -> AnyCell]
  OBVIOUS
<1>23. /\ written \in [DOMAIN image -> AnyCell]
       /\ \A i \in DOMAIN image :
             written[i] = image[i] \/ \E k \in 1..Len(pieces) : i \in PieceOf(pieces[k])
  <2>1. \A k \in 1..Len(pieces) : pieces[k].start \in Int /\ pieces[k].cells \in Seq(AnyCell)
    BY <1>21
  <2>2. DOMAIN image \subseteq Int
    BY <1>22
  <2> QED BY <1>21, <1>22, <2>1, <2>2, WriteAllKeeps
<1>24. \A k \in 1..Len(pieces) : PieceOf(pieces[k]) \subseteq (offset + 1)..end
  <2> SUFFICES ASSUME NEW k \in 1..Len(pieces), NEW i \in PieceOf(pieces[k])
               PROVE  i \in (offset + 1)..end
    OBVIOUS
  <2> DEFINE w == pieces[k]
  <2>1. w.start \in Int /\ w.cells \in Seq(AnyCell) /\ offset <= w.start /\ w.start + Len(w.cells) <= end
    BY <1>21
  <2>2. i \in (w.start + 1)..(w.start + Len(w.cells))
    BY DEF PieceOf
  <2>3. Len(w.cells) \in Nat
    BY <2>1
  <2> HIDE DEF w
  <2> QED BY <1>15, <2>1, <2>2, <2>3
<1> HIDE DEF written
<1> DEFINE Fine == {r \in Reloc : /\ r.at < CodeEnd(blk)
                                  /\ r.target[1] = "Block" => r.target[2] \in ids
                                  /\ r.target[1] = "Runtime" => r.target[2] \in Range(syms)}
<1>25. blk.relocs \in Seq(Fine)
  <2>1. ASSUME NEW i \in DOMAIN blk.relocs
        PROVE  blk.relocs[i] \in Fine
    <3>1. blk.relocs[i] \in Reloc /\ blk.relocs[i] \in Range(blk.relocs)
      BY <1>2, InBlock DEF Range
    <3>2. blk.relocs[i].at < n /\ blk.relocs[i].at \in Nat
      BY <1>2, <3>1 DEF PlacesIn, Reloc, n
    <3>3. blk.relocs[i].at < CodeEnd(blk)
      BY <1>4, <1>7, <3>2
    <3> QED BY <1>3, <3>1, <3>3
  <2> HIDE DEF Fine
  <2> DEFINE rs == blk.relocs
  <2>2. Len(rs) \in Nat /\ DOMAIN rs = 1..Len(rs) /\ rs = [i \in 1..Len(rs) |-> rs[i]]
    <3>1. rs \in Seq(Reloc)
      BY <1>2
    <3> HIDE DEF rs
    <3> QED BY <3>1
  <2>3. \A i \in 1..Len(rs) : rs[i] \in Fine
    BY <2>1, <2>2
  <2> HIDE DEF rs
  <2>4. rs \in Seq(Fine)
    BY <2>2, <2>3, MadeSeq
  <2> QED BY <2>4 DEF rs
<1>26. trampolineRelocs \in Seq(Fine)
  <2>1. ASSUME NEW i \in 1..m
        PROVE  trampolineRelocs[i] \in Fine
    <3> DEFINE j == (Len(blk.consts) + i - 1) % ConstMod
               at == trampolineAt(i) + LongJump.places[1].at
    <3>1. j \in Nat
      <4>1. Len(blk.consts) + i - 1 \in Nat
        BY <1>4
      <4> QED BY <1>5, <4>1, ModNat
    <3>2. at = trampolineAt(i) + 1
      BY <1>6
    <3>3. at \in Nat /\ at < CodeEnd(blk)
      <4>1. trampolineAt(i) \in Int /\ n <= trampolineAt(i) /\ trampolineAt(i) + 2 <= CodeEnd(blk)
        BY <1>10
      <4> HIDE DEF at
      <4> QED BY <1>4, <3>2, <4>1
    <3>4. trampolineRelocs[i] = Delayed(at, Constant(j))
      OBVIOUS
    <3> HIDE DEF at, j
    <3>5. Delayed(at, Constant(j)) \in Reloc /\ Delayed(at, Constant(j)).at = at
          /\ Delayed(at, Constant(j)).target[1] = "Constant"
      BY <3>1, <3>3 DEF Delayed, Reloc, DelayedTo, Constant
    <3> QED BY <3>3, <3>4, <3>5
  <2>2. trampolineRelocs = [i \in 1..m |-> trampolineRelocs[i]]
    OBVIOUS
  <2> HIDE DEF Fine, trampolineRelocs
  <2> QED BY <1>4, <2>1, <2>2, MadeSeq
<1> HIDE DEF trampolineRelocs
<1>27. relocs \in Seq(Fine)
  <2> HIDE DEF Fine
  <2> QED BY <1>25, <1>26, ConcatProperties
<1> HIDE DEF relocs
<1>28. /\ DOMAIN relocs = 1..Len(relocs) /\ Len(relocs) \in Nat
       /\ \A k \in 1..Len(relocs) : relocs[k] \in Fine
  <2> HIDE DEF Fine
  <2> QED BY <1>27
<1>29. ASSUME NEW r \in Fine PROVE targetOf(r) \in Int
  <2>1. r.target \in DelayedTo
    BY DEF Reloc
  <2>2. CASE r.target[1] = "Block"
    <3>1. targetOf(r) = offs[r.target[2]]
      BY <2>2
    <3> QED BY <2>2, <3>1
  <2>3. CASE r.target[1] = "Constant"
    <3>1. targetOf(r) = constantAt(r.target[2])
      BY <2>3
    <3>2. r.target[2] \in Nat
      BY <2>1, <2>3 DEF DelayedTo, Block, Constant, Runtime
    <3> HIDE DEF constantAt, targetOf, Fine
    <3>3. constantAt(r.target[2]) \in Nat
      BY <1>18, <3>2
    <3>4. constantAt(r.target[2]) \in Int
      BY <3>3
    <3> QED BY <3>1, <3>4, Zenon
  <2>4. CASE r.target[1] = "Runtime"
    <3> DEFINE i == CHOOSE i \in DOMAIN syms : syms[i] = r.target[2]
    <3>1. i \in 1..m
      BY <1>3, <2>4 DEF Range
    <3>2. targetOf(r) = offset + trampolineAt(i)
      BY <2>4
    <3> HIDE DEF i, targetOf, constantAt
    <3>3. trampolineAt(i) \in Int
      BY <1>4, <1>8, <3>1
    <3> QED BY <3>2, <3>3
  <2>5. r.target[1] \in {"Block", "Constant", "Runtime"}
    BY <2>1 DEF DelayedTo, Block, Constant, Runtime
  <2> QED BY <2>2, <2>3, <2>4, <2>5
<1> HIDE DEF targetOf
<1>30. /\ DOMAIN patches = 1..Len(relocs)
       /\ \A k \in 1..Len(relocs) :
             /\ patches[k].at \in Int /\ patches[k].to \in Int
             /\ patches[k].at + 1 \in (offset + 1)..end
  <2>1. ASSUME NEW k \in 1..Len(relocs)
        PROVE  /\ patches[k].at \in Int /\ patches[k].to \in Int
               /\ patches[k].at + 1 \in (offset + 1)..end
    <3>1. relocs[k] \in Fine
      BY <1>28
    <3>2. relocs[k].at \in Nat /\ relocs[k].at < CodeEnd(blk)
      BY <3>1 DEF Reloc
    <3>3. targetOf(relocs[k]) \in Int
      BY <1>29, <3>1
    <3>4. patches[k].at = offset + relocs[k].at /\ patches[k].to = targetOf(relocs[k])
      OBVIOUS
    <3> DEFINE x == relocs[k].at
               c == CodeEnd(blk)
               to == targetOf(relocs[k])
    <3>5. /\ x \in Nat /\ x < c /\ c \in Nat /\ end \in Nat /\ offset + c <= end
          /\ patches[k].at = offset + x /\ patches[k].to = to /\ to \in Int
      BY <1>4, <1>15, <3>2, <3>3, <3>4
    <3> HIDE DEF patches, Fine, x, c, to
    <3>6. offset + x \in Int /\ offset + x + 1 \in (offset + 1)..end
      BY <3>5
    <3> QED BY <3>5, <3>6
  <2> QED BY <2>1
<1> HIDE DEF patches
<1>31. /\ new \in [DOMAIN image -> AnyCell]
       /\ \A i \in DOMAIN image :
             new[i] = written[i] \/ \E k \in 1..Len(relocs) : i = patches[k].at + 1
  <2>1. DOMAIN written = DOMAIN image /\ written \in [DOMAIN written -> AnyCell]
    BY <1>23
  <2>2. /\ Len(relocs) \in Nat /\ DOMAIN patches = 1..Len(relocs)
        /\ \A k \in 1..Len(relocs) : patches[k].at \in Int /\ patches[k].to \in Int
    BY <1>28, <1>30
  <2> DEFINE N == Len(relocs)
  <2> HIDE DEF Fine, N
  <2>3. /\ N \in Nat /\ DOMAIN patches = 1..N
        /\ \A k \in 1..N : patches[k].at \in Int /\ patches[k].to \in Int
    BY <2>2 DEF N
  <2>4. /\ PatchAll(written, patches) \in [DOMAIN written -> AnyCell]
        /\ \A i \in DOMAIN written :
              \/ PatchAll(written, patches)[i] = written[i]
              \/ /\ PatchAll(written, patches)[i][1] = "place"
                 /\ \E k \in 1..N : i = patches[k].at + 1
    BY <2>1, <2>3, PatchAllKeeps
  <2> QED BY <1>1, <2>1, <2>4 DEF N
<1>32. \A i \in DOMAIN image : new[i] # image[i] => i \in (offset + 1)..end
  BY <1>23, <1>24, <1>30, <1>31
<1>33. new \in Seq(AnyCell) /\ DOMAIN new = DOMAIN image
  BY <1>22, <1>31
<1> QED BY <1>32, <1>33 DEF new, end

-----------------------------------------------------------------------------

(* The stencils of a block, each with the operands it was emitted with.    *)
Entry(c) ==
    {t \in [start   : Nat,
            stencil : {f.narrow : f \in c.families} \cup {f.wide : f \in c.families},
            wide    : BOOLEAN,
            args    : UNION {Args(f) : f \in c.families}] :
        \A p \in Range(t.stencil.places) :
            p.kind = "Target" => t.args.jumps[p.id] \in Jump}

(* A block ends with jumps to the next stencil when its last stencil runs  *)
(* off the end, and its relocations are, but for its constants, the other  *)
(* jumps and the calls of its stencils.                                    *)
JumpsKept(blk, stencils) ==
    /\ blk.nexts # <<>> <=>
          /\ stencils # <<>>
          /\ \E p \in Range(Last(stencils).stencil.places) : Wants(p, Last(stencils).args, Next)
    /\ \A r \in Range(blk.relocs) :
          r.target[1] # "Constant" =>
            \E t \in Range(stencils) : \E p \in Range(t.stencil.places) :
                Wants(p, t.args, r.target)
    /\ \A t \in Range(stencils) : \A p \in Range(t.stencil.places) : \A to :
          Wants(p, t.args, to) /\ to # Next => \E r \in Range(blk.relocs) : r.target = to

BlocksInv ==
    /\ client \in Clients
    /\ DOMAIN blocks = BlockIds
    /\ trace \in [BlockIds -> Seq(Entry(client))]
    /\ \A b \in BlockIds : /\ BlockInv(blocks[b]) /\ JumpsKept(blocks[b], trace[b])
                           /\ blocks[b].long_jump = client.long_jump

(* The map is made when every block has ended, and the blocks that are in  *)
(* it were fit for it.                                                     *)
PhaseInv ==
    /\ phase \in {"building", "placing", "done", "NotEnded", "InvalidEnd",
                  "StencilNotFound", "UnresolvedBlockTarget"}
    /\ placed \in 0..NBlocks
    /\ phase \in {"building", "NotEnded"} => map = <<>> /\ placed = 0
    /\ phase \notin {"building", "NotEnded"} =>
          /\ offsets \in [BlockIds -> Nat] /\ map \in Seq(AnyCell)
          /\ \A b \in BlockIds : blocks[b].ended
          /\ \A b \in 1..placed : /\ blocks[b].nexts = <<>> /\ HasLongJump(blocks[b])
                                  /\ Resolved(blocks[b])
    /\ phase = "InvalidEnd" => \E b \in BlockIds : blocks[b].nexts # <<>>
    /\ phase = "StencilNotFound" => \E b \in BlockIds : ~ HasLongJump(blocks[b])
    /\ phase = "UnresolvedBlockTarget" => \E b \in BlockIds : ~ Resolved(blocks[b])
    /\ phase = "done" => placed = NBlocks

ProgramInv == BlocksInv /\ PhaseInv

LEMMA ProgramStart == ProgramInit => ProgramInv
<1> SUFFICES ASSUME ProgramInit PROVE ProgramInv
  OBVIOUS
<1> DEFINE new == NewBlock(client.long_jump)
<1>1. client \in Clients /\ blocks = [b \in BlockIds |-> new]
      /\ phase = "building" /\ map = <<>> /\ placed = 0
      /\ trace = [b \in BlockIds |-> <<>>]
  BY DEF ProgramInit
<1>2. NBlocks \in Nat /\ client.long_jump \in BOOLEAN
  BY <1>1, ProgramAssumption DEF NBlocks
<1>3. /\ new.code = <<>> /\ new.relocs = <<>> /\ new.nexts = <<>>
      /\ new \in BlockRec /\ new.long_jump = client.long_jump
  BY <1>2 DEF NewBlock, BlockRec
<1> HIDE DEF new
<1>4. BlockInv(new)
  BY <1>3 DEF BlockInv, PlacesIn, InOrder
<1>5. Range(<<>>) = {}
  BY DEF Range
<1>6. JumpsKept(new, <<>>)
  BY <1>3, <1>5 DEF JumpsKept
<1>7. <<>> \in Seq(Entry(client))
  OBVIOUS
<1>8. BlocksInv
  BY <1>1, <1>3, <1>4, <1>6, <1>7 DEF BlocksInv
<1>9. PhaseInv
  BY <1>1, <1>2 DEF PhaseInv
<1> QED BY <1>8, <1>9 DEF ProgramInv

(* What a client asks for can be emitted when the library has a stencil.   *)
LEMMA ClientEmits ==
    ASSUME client \in Clients, NEW family \in Families, NEW args \in Args(family),
           Found(family, args.hole)
    PROVE  Emittable(family, args)
<1>1. /\ family.JUMPS \in Nat /\ Holes \subseteq Nat
      /\ StencilOK(family.narrow, family.JUMPS) /\ StencilOK(family.wide, family.JUMPS)
  BY ProgramAssumption DEF Families, Holes
<1>2. args.hole \in Nat /\ args.stack \in Nat /\ args.jumps \in [1..family.JUMPS -> Jump]
  <2>1. args.hole \in Nat
    <3>1. args.hole \in IF family.HOLES = 0 THEN {0} ELSE Holes
      BY DEF Args
    <3> DEFINE h == args.hole
    <3>2. h = 0 \/ h \in Holes
      BY <3>1
    <3>3. \A x \in Holes : x \in Nat
      BY <1>1
    <3> HIDE DEF h
    <3>4. h \in Nat
      BY <3>2, <3>3
    <3> QED BY <3>4 DEF h
  <2>2. args.stack \in Nat
    BY ProgramAssumption DEF Args
  <2>3. Targets \subseteq Jump
    BY ProgramAssumption DEF Jump
  <2>4. args.jumps \in [1..family.JUMPS -> Targets]
    BY DEF Args
  <2> QED BY <2>1, <2>2, <2>3, <2>4
<1> QED BY <1>1, <1>2 DEF Emittable

(* Every emission keeps the blocks in order.                               *)
LEMMA AddStep ==
    ASSUME ProgramInv, NEW b \in BlockIds, NEW family \in Families,
           NEW args \in Args(family), NEW ended \in BOOLEAN,
           Add(b, family, args, ended)
    PROVE  BlocksInv'
<1> DEFINE blk == blocks[b]
           new == EmitOne(blk, family, args)
           st == Select(family, args.hole)
           t == [start |-> Len(Settle(blk).code), stencil |-> st,
                 wide |-> Wide(family, args.hole), args |-> args]
           newTrace == Append(trace[b], t)
<1>1. /\ client \in Clients /\ DOMAIN blocks = BlockIds
      /\ trace \in [BlockIds -> Seq(Entry(client))]
      /\ \A c \in BlockIds : /\ BlockInv(blocks[c]) /\ JumpsKept(blocks[c], trace[c])
                             /\ blocks[c].long_jump = client.long_jump
  BY DEF ProgramInv, BlocksInv
<1>2. /\ Found(family, args.hole) /\ client' = client
      /\ blocks' = [blocks EXCEPT ![b] = [new EXCEPT !.ended = ended]]
      /\ trace' = [trace EXCEPT ![b] = newTrace]
  BY DEF Add
<1>3. Emittable(family, args)
  BY <1>1, <1>2, ClientEmits
<1>4. /\ StencilOK(family.narrow, family.JUMPS) /\ StencilOK(family.wide, family.JUMPS)
      /\ args.jumps \in [1..family.JUMPS -> Jump]
  BY <1>3 DEF Emittable
<1>5. /\ BlockInv(new) /\ new.long_jump = blk.long_jump
      /\ \A r \in Range(blk.relocs) : r \in Range(new.relocs)
      /\ \A r \in Range(new.relocs) :
            \/ r \in Range(blk.relocs) \/ r.target[1] = "Constant"
            \/ \E p \in Range(st.places) : Wants(p, args, r.target)
      /\ \A p \in Range(st.places) : \A to :
            Wants(p, args, to) /\ to # Next => \E r \in Range(new.relocs) : r.target = to
      /\ new.nexts # <<>> <=> \E p \in Range(st.places) : Wants(p, args, Next)
  BY <1>1, <1>3, EmitKeeps
<1>6. BlockInv(blk) /\ JumpsKept(blk, trace[b]) /\ blk.long_jump = client.long_jump
  BY <1>1
<1> HIDE DEF new, blk
<1>7. t \in Entry(client)
  <2>1. Len(Settle(blk).code) \in Nat
    <3>1. Settle(blk) \in BlockRec
      BY <1>6, SettleKeeps DEF BlockInv
    <3> QED BY <3>1, InBlock
  <2>2. st \in {family.narrow, family.wide} /\ st.code # <<>>
    BY <1>2 DEF Select, Found
  <2>3. StencilOK(st, family.JUMPS)
    BY <1>4, <2>2
  <2>4. \A p \in Range(st.places) : p.kind = "Target" => args.jumps[p.id] \in Jump
    <3>1. \A i \in DOMAIN st.places :
             st.places[i].kind = "Target" => st.places[i].id \in 1..family.JUMPS
      BY <2>2, <2>3 DEF StencilOK
    <3> QED BY <1>4, <3>1 DEF Range
  <2>5. Wide(family, args.hole) \in BOOLEAN
    BY DEF Wide
  <2>6. /\ st \in {f.narrow : f \in client.families} \cup {f.wide : f \in client.families}
        /\ args \in UNION {Args(f) : f \in client.families}
    BY <2>2 DEF Families
  <2> HIDE DEF st
  <2> QED BY <2>1, <2>4, <2>5, <2>6 DEF Entry
<1> HIDE DEF st
<1>8. t.stencil = st /\ t.args = args
  OBVIOUS
<1> HIDE DEF t
<1>9. trace[b] \in Seq(Entry(client))
  BY <1>1
<1>10. /\ newTrace \in Seq(Entry(client)) /\ newTrace # <<>> /\ Last(newTrace) = t
       /\ Range(newTrace) = Range(trace[b]) \cup {t}
  <2>1. /\ newTrace \in Seq(Entry(client)) /\ Len(newTrace) = Len(trace[b]) + 1
        /\ newTrace[Len(trace[b]) + 1] = t /\ Range(newTrace) = Range(trace[b]) \cup {t}
    BY <1>7, <1>9, AppendIs
  <2>2. Len(trace[b]) \in Nat
    BY <1>9
  <2>3. Len(<<>>) = 0
    OBVIOUS
  <2> HIDE DEF newTrace
  <2>4. newTrace # <<>>
    BY <2>1, <2>2, <2>3
  <2> QED BY <2>1, <2>4 DEF Last
<1> HIDE DEF newTrace
<1> DEFINE full == [new EXCEPT !.ended = ended]
<1>11. /\ full.code = new.code /\ full.relocs = new.relocs /\ full.nexts = new.nexts
       /\ full.long_jump = client.long_jump
       /\ full \in BlockRec
  BY <1>5, <1>6 DEF BlockInv, BlockRec
<1> HIDE DEF full
<1>12. BlockInv(full)
  BY <1>5, <1>11 DEF BlockInv
<1>13. JumpsKept(full, newTrace)
  <2>1. full.nexts # <<>> <=>
           /\ newTrace # <<>>
           /\ \E p \in Range(Last(newTrace).stencil.places) : Wants(p, Last(newTrace).args, Next)
    BY <1>5, <1>8, <1>10, <1>11
  <2>2. \A r \in Range(full.relocs) :
           r.target[1] # "Constant" =>
             \E x \in Range(newTrace) : \E p \in Range(x.stencil.places) :
                 Wants(p, x.args, r.target)
    <3> SUFFICES ASSUME NEW r \in Range(full.relocs), r.target[1] # "Constant"
                 PROVE  \E x \in Range(newTrace) : \E p \in Range(x.stencil.places) :
                            Wants(p, x.args, r.target)
      OBVIOUS
    <3>1. CASE r \in Range(blk.relocs)
      BY <1>6, <1>10, <3>1 DEF JumpsKept
    <3>2. CASE \E p \in Range(st.places) : Wants(p, args, r.target)
      BY <1>8, <1>10, <3>2
    <3> QED BY <1>5, <1>11, <3>1, <3>2
  <2>3. \A x \in Range(newTrace) : \A p \in Range(x.stencil.places) : \A to :
           Wants(p, x.args, to) /\ to # Next => \E r \in Range(full.relocs) : r.target = to
    <3> SUFFICES ASSUME NEW x \in Range(newTrace), NEW p \in Range(x.stencil.places),
                        NEW to, Wants(p, x.args, to), to # Next
                 PROVE  \E r \in Range(full.relocs) : r.target = to
      OBVIOUS
    <3>1. CASE x \in Range(trace[b])
      BY <1>5, <1>6, <1>11, <3>1 DEF JumpsKept
    <3>2. CASE x = t
      BY <1>5, <1>8, <1>11, <3>2
    <3> QED BY <1>10, <3>1, <3>2
  <2> QED BY <2>1, <2>2, <2>3 DEF JumpsKept
<1>14. BlockIds' = BlockIds
  BY <1>2 DEF BlockIds, NBlocks
<1>15. blocks' = [blocks EXCEPT ![b] = full]
  BY <1>2 DEF full
<1>16. /\ DOMAIN blocks' = BlockIds
       /\ \A c \in BlockIds : blocks'[c] = IF c = b THEN full ELSE blocks[c]
  BY <1>1, <1>15
<1>17. /\ trace' \in [BlockIds -> Seq(Entry(client))]
       /\ \A c \in BlockIds : trace'[c] = IF c = b THEN newTrace ELSE trace[c]
  BY <1>1, <1>2, <1>10
<1>18. \A c \in BlockIds : /\ BlockInv(blocks'[c]) /\ JumpsKept(blocks'[c], trace'[c])
                           /\ blocks'[c].long_jump = client.long_jump
  BY <1>1, <1>11, <1>12, <1>13, <1>16, <1>17
<1>19. Entry(client)' = Entry(client)
  BY <1>2 DEF Entry, Args, Holes
<1> QED BY <1>1, <1>2, <1>14, <1>16, <1>17, <1>18, <1>19 DEF BlocksInv

(* The invariant while the blocks are built, where the rest of the state   *)
(* stays as it is.                                                         *)
LEMMA BuildStep ==
    ASSUME ProgramInv, NEW b \in BlockIds, Emit(b) \/ Branch(b) \/ EndBranch(b) \/ Ret(b)
    PROVE  ProgramInv'
<1>1. /\ phase = "building"
      /\ \E family \in Families : \E args \in Args(family) : \E ended \in BOOLEAN :
            Add(b, family, args, ended)
  <2>1. blocks[b].ended \in BOOLEAN
    <3>1. blocks[b] \in BlockRec
      BY DEF ProgramInv, BlocksInv, BlockInv
    <3> QED BY <3>1, InBlock
  <2> QED BY <2>1 DEF Emit, Branch, EndBranch, Ret
<1>2. BlocksInv'
  BY <1>1, AddStep
<1>3. /\ phase' = phase /\ offsets' = offsets /\ map' = map /\ placed' = placed
      /\ client' = client
  BY <1>1 DEF Add
<1>4. map = <<>> /\ placed = 0 /\ placed \in 0..NBlocks
  BY <1>1 DEF ProgramInv, PhaseInv
<1>5. PhaseInv'
  BY <1>1, <1>3, <1>4 DEF PhaseInv, NBlocks
<1> QED BY <1>2, <1>5 DEF ProgramInv

LEMMA FailEndStep ==
    ASSUME ProgramInv, NEW b \in BlockIds, FailEnd(b)
    PROVE  ProgramInv'
<1> DEFINE new == [blocks[b] EXCEPT !.ended = TRUE]
<1>1. /\ phase = "building" /\ blocks' = [blocks EXCEPT ![b] = new]
      /\ client' = client /\ phase' = phase /\ offsets' = offsets /\ map' = map
      /\ placed' = placed /\ trace' = trace
  BY DEF FailEnd
<1>2. /\ client \in Clients /\ DOMAIN blocks = BlockIds
      /\ trace \in [BlockIds -> Seq(Entry(client))]
      /\ \A c \in BlockIds : /\ BlockInv(blocks[c]) /\ JumpsKept(blocks[c], trace[c])
                             /\ blocks[c].long_jump = client.long_jump
  BY DEF ProgramInv, BlocksInv
<1>3. /\ new \in BlockRec /\ new.code = blocks[b].code /\ new.relocs = blocks[b].relocs
      /\ new.nexts = blocks[b].nexts /\ new.long_jump = blocks[b].long_jump
  BY <1>2 DEF BlockInv, BlockRec
<1> HIDE DEF new
<1>4. BlockInv(new) /\ JumpsKept(new, trace[b])
  <2>1. BlockInv(blocks[b]) /\ JumpsKept(blocks[b], trace[b])
    BY <1>2
  <2>2. BlockInv(new)
    BY <1>3, <2>1 DEF BlockInv
  <2> DEFINE old == blocks[b]
             ts == trace[b]
  <2> HIDE DEF old, ts
  <2>3. JumpsKept(old, ts) /\ new.relocs = old.relocs /\ new.nexts = old.nexts
    BY <1>3, <2>1 DEF old, ts
  <2>4. JumpsKept(new, ts)
    BY <2>3, Zenon DEF JumpsKept
  <2> QED BY <2>2, <2>4 DEF ts
<1>5. /\ DOMAIN blocks' = BlockIds
      /\ \A c \in BlockIds : blocks'[c] = IF c = b THEN new ELSE blocks[c]
  BY <1>1, <1>2
<1>6. \A c \in BlockIds : /\ BlockInv(blocks'[c]) /\ JumpsKept(blocks'[c], trace[c])
                          /\ blocks'[c].long_jump = client.long_jump
  BY <1>2, <1>3, <1>4, <1>5
<1>7. BlockIds' = BlockIds /\ NBlocks' = NBlocks
  BY <1>1 DEF BlockIds, NBlocks
<1>8. Entry(client)' = Entry(client)
  BY <1>1 DEF Entry, Args, Holes
<1>9. BlocksInv'
  BY <1>1, <1>2, <1>5, <1>6, <1>7, <1>8 DEF BlocksInv
<1>10. PhaseInv'
  BY <1>1, <1>7 DEF PhaseInv, ProgramInv
<1> QED BY <1>9, <1>10 DEF ProgramInv

(* What leaves the blocks alone.                                           *)
LEMMA SameBlocks ==
    ASSUME BlocksInv, UNCHANGED <<client, blocks, trace>>
    PROVE  BlocksInv' /\ BlockIds' = BlockIds /\ NBlocks' = NBlocks
<1>1. BlockIds' = BlockIds /\ NBlocks' = NBlocks
  BY DEF BlockIds, NBlocks
<1>2. Entry(client)' = Entry(client)
  BY DEF Entry, Args, Holes
<1> QED BY <1>1, <1>2 DEF BlocksInv

(* The layout: every block starts at a natural number.                     *)
LEMMA OffsetsNat ==
    ASSUME ProgramInv
    PROVE  OffsetsOf(Lens) \in [BlockIds -> Nat] /\ Total(Lens) \in Nat
<1>1. NBlocks \in Nat
  BY ProgramAssumption DEF ProgramInv, BlocksInv, NBlocks
<1>2. \A b \in BlockIds : FinalLen(blocks[b]) \in Nat
  BY FinalLenIs DEF ProgramInv, BlocksInv, BlockInv
<1>3. Lens \in Seq(Nat) /\ Len(Lens) = NBlocks
  BY <1>1, <1>2 DEF Lens, BlockIds
<1>4. \A b \in BlockIds : SubSeq(Lens, 1, b - 1) \in Seq(Nat)
  <2> SUFFICES ASSUME NEW b \in BlockIds PROVE SubSeq(Lens, 1, b - 1) \in Seq(Nat)
    OBVIOUS
  <2>1. b - 1 \in Int /\ \A i \in 1..(b - 1) : i \in 1..Len(Lens)
    BY <1>1, <1>3 DEF BlockIds
  <2>2. \A i \in 1..(b - 1) : Lens[i] \in Nat
    BY <1>3, <2>1
  <2> QED BY <2>1, <2>2, SubSeqProperties
<1>5. \A b \in BlockIds : Total(SubSeq(Lens, 1, b - 1)) \in Nat
  BY <1>4, TotalNat
<1>6. Total(Lens) \in Nat
  BY <1>3, TotalNat
<1> QED BY <1>5, <1>6 DEF OffsetsOf

LEMMA MeasureStep ==
    ASSUME ProgramInv, Measure
    PROVE  ProgramInv'
<1>1. /\ UNCHANGED <<client, blocks, trace>> /\ placed' = placed /\ phase = "building"
  BY DEF Measure
<1>2. BlocksInv' /\ BlockIds' = BlockIds /\ NBlocks' = NBlocks
  BY <1>1, SameBlocks DEF ProgramInv
<1>3. map = <<>> /\ placed = 0 /\ placed \in 0..NBlocks
  BY <1>1 DEF ProgramInv, PhaseInv
<1>4. CASE \A b \in BlockIds : blocks[b].ended
  <2>1. /\ phase' = "placing" /\ offsets' = OffsetsOf(Lens)
        /\ map' = [i \in 1..Total(Lens) |-> Pad]
    BY <1>4 DEF Measure
  <2>2. Pad \in AnyCell
    BY DEF Pad, AnyCell, Cell
  <2>3. Total(Lens) \in Nat /\ OffsetsOf(Lens) \in [BlockIds -> Nat]
    BY OffsetsNat
  <2>4. map' \in Seq(AnyCell)
    BY <2>1, <2>2, <2>3
  <2>5. \A b \in 1..0 : FALSE
    OBVIOUS
  <2>6. PhaseInv'
    BY <1>1, <1>2, <1>3, <1>4, <2>1, <2>3, <2>4, <2>5 DEF PhaseInv
  <2> QED BY <1>2, <2>6 DEF ProgramInv
<1>5. CASE ~ \A b \in BlockIds : blocks[b].ended
  <2>1. phase' = "NotEnded" /\ map' = map
    BY <1>5 DEF Measure
  <2>2. PhaseInv'
    BY <1>1, <1>2, <1>3, <2>1 DEF PhaseInv
  <2> QED BY <1>2, <2>2 DEF ProgramInv
<1> QED BY <1>4, <1>5

(* What a block that is put into the map changes.                          *)
LEMMA Placing ==
    ASSUME ProgramInv, phase = "placing", placed < NBlocks,
           blocks[placed + 1].nexts = <<>>, HasLongJump(blocks[placed + 1]),
           Resolved(blocks[placed + 1])
    PROVE  LET b == placed + 1
               new == FinalizeInto(blocks[b], map, offsets[b], offsets)
           IN  /\ b \in BlockIds /\ new \in Seq(AnyCell) /\ DOMAIN new = DOMAIN map
               /\ \A i \in DOMAIN map : new[i] # map[i] => i \in RegionOf(b)
<1> DEFINE b == placed + 1
<1>1. NBlocks \in Nat /\ placed \in 0..NBlocks
  BY ProgramAssumption DEF ProgramInv, PhaseInv, BlocksInv, NBlocks
<1>2. b \in BlockIds
  BY <1>1 DEF BlockIds
<1>3. /\ BlockInv(blocks[b]) /\ map \in Seq(AnyCell) /\ offsets \in [BlockIds -> Nat]
  BY <1>2 DEF ProgramInv, BlocksInv, PhaseInv
<1> HIDE DEF b
<1>4. offsets[b] \in Nat
  BY <1>2, <1>3
<1>5. \A r \in Range(blocks[b].relocs) : r.target[1] = "Block" => r.target[2] \in BlockIds
  BY DEF Resolved, b
<1>51. HasLongJump(blocks[b])
  BY DEF b
<1>6. LET new == FinalizeInto(blocks[b], map, offsets[b], offsets)
      IN  /\ new \in Seq(AnyCell) /\ DOMAIN new = DOMAIN map
          /\ \A i \in DOMAIN map :
                new[i] # map[i] => i \in (offsets[b] + 1)..(offsets[b] + FinalLen(blocks[b]))
  BY <1>3, <1>4, <1>5, <1>51, FinalizeKeeps
<1> QED BY <1>2, <1>6 DEF RegionOf, b

LEMMA FinalizeStep ==
    ASSUME ProgramInv, FinalizeBlock
    PROVE  ProgramInv'
<1> DEFINE b == placed + 1
           blk == blocks[b]
<1>1. /\ UNCHANGED <<client, blocks, trace>> /\ offsets' = offsets
      /\ phase = "placing" /\ placed < NBlocks
  BY DEF FinalizeBlock
<1>2. BlocksInv' /\ BlockIds' = BlockIds /\ NBlocks' = NBlocks
  BY <1>1, SameBlocks DEF ProgramInv
<1>3. NBlocks \in Nat /\ placed \in 0..NBlocks
  BY ProgramAssumption DEF ProgramInv, PhaseInv, BlocksInv, NBlocks
<1>4. b \in BlockIds
  BY <1>1, <1>3 DEF BlockIds
<1>5. /\ offsets \in [BlockIds -> Nat] /\ map \in Seq(AnyCell)
      /\ \A c \in BlockIds : blocks[c].ended
      /\ \A c \in 1..placed : /\ blocks[c].nexts = <<>> /\ HasLongJump(blocks[c])
                              /\ Resolved(blocks[c])
  BY <1>1 DEF ProgramInv, PhaseInv
<1>6. \A c : /\ Resolved(blocks[c])' <=> Resolved(blocks[c])
             /\ HasLongJump(blocks[c])' <=> HasLongJump(blocks[c])
  BY <1>1, <1>2 DEF Resolved
<1>7. CASE blk.nexts # <<>>
  <2>1. phase' = "InvalidEnd" /\ map' = map /\ placed' = placed
    BY <1>7 DEF FinalizeBlock
  <2>2. PhaseInv'
    BY <1>1, <1>2, <1>3, <1>4, <1>5, <1>6, <1>7, <2>1 DEF PhaseInv
  <2> QED BY <1>2, <2>2 DEF ProgramInv
<1>71. CASE blk.nexts = <<>> /\ ~ HasLongJump(blk)
  <2>1. phase' = "StencilNotFound" /\ map' = map /\ placed' = placed
    BY <1>71 DEF FinalizeBlock
  <2>2. PhaseInv'
    BY <1>1, <1>2, <1>3, <1>4, <1>5, <1>6, <1>71, <2>1 DEF PhaseInv
  <2> QED BY <1>2, <2>2 DEF ProgramInv
<1>8. CASE blk.nexts = <<>> /\ HasLongJump(blk) /\ ~ Resolved(blk)
  <2>1. phase' = "UnresolvedBlockTarget" /\ map' = map /\ placed' = placed
    BY <1>8 DEF FinalizeBlock
  <2>2. PhaseInv'
    BY <1>1, <1>2, <1>3, <1>4, <1>5, <1>6, <1>8, <2>1 DEF PhaseInv
  <2> QED BY <1>2, <2>2 DEF ProgramInv
<1>9. CASE blk.nexts = <<>> /\ HasLongJump(blk) /\ Resolved(blk)
  <2>1. /\ map' = FinalizeInto(blk, map, offsets[b], offsets) /\ placed' = placed + 1
        /\ phase' = phase
    BY <1>9 DEF FinalizeBlock
  <2>2. map' \in Seq(AnyCell)
    BY <1>1, <1>9, <2>1, Placing
  <2>3. \A c \in 1..(placed + 1) : c \in 1..placed \/ c = placed + 1
    BY <1>3
  <2>4. placed' \in 0..NBlocks
    BY <1>1, <1>3, <2>1
  <2>5. \A c \in 1..(placed + 1) : /\ blocks[c].nexts = <<>> /\ HasLongJump(blocks[c])
                                   /\ Resolved(blocks[c])
    BY <1>5, <1>9, <2>3
  <2>6. PhaseInv'
    BY <1>1, <1>2, <1>5, <1>6, <2>1, <2>2, <2>4, <2>5 DEF PhaseInv
  <2> QED BY <1>2, <2>6 DEF ProgramInv
<1> QED BY <1>7, <1>71, <1>8, <1>9

LEMMA ProgramStep == ProgramInv /\ [ProgramNext]_vars => ProgramInv'
<1> SUFFICES ASSUME ProgramInv, [ProgramNext]_vars PROVE ProgramInv'
  OBVIOUS
<1>1. CASE \E b \in BlockIds : Emit(b) \/ Branch(b) \/ EndBranch(b) \/ Ret(b)
  BY <1>1, BuildStep
<1>2. CASE \E b \in BlockIds : FailEnd(b)
  BY <1>2, FailEndStep
<1>3. CASE Measure
  BY <1>3, MeasureStep
<1>4. CASE FinalizeBlock
  BY <1>4, FinalizeStep
<1>5. CASE HandOut
  <2>1. /\ UNCHANGED <<client, blocks, trace, offsets, map, placed>>
        /\ phase = "placing" /\ placed = NBlocks /\ phase' = "done"
    BY <1>5 DEF HandOut
  <2>2. BlocksInv' /\ BlockIds' = BlockIds /\ NBlocks' = NBlocks
    BY <2>1, SameBlocks DEF ProgramInv
  <2>3. \A c : /\ Resolved(blocks[c])' <=> Resolved(blocks[c])
               /\ HasLongJump(blocks[c])' <=> HasLongJump(blocks[c])
    BY <2>1, <2>2 DEF Resolved
  <2>4. PhaseInv'
    BY <2>1, <2>2, <2>3 DEF PhaseInv, ProgramInv
  <2> QED BY <2>2, <2>4 DEF ProgramInv
<1>6. CASE UNCHANGED vars
  <2>1. UNCHANGED <<client, blocks, trace, offsets, map, placed, phase>>
    BY <1>6 DEF vars
  <2>2. BlocksInv' /\ BlockIds' = BlockIds /\ NBlocks' = NBlocks
    BY <2>1, SameBlocks DEF ProgramInv
  <2>3. \A c : /\ Resolved(blocks[c])' <=> Resolved(blocks[c])
               /\ HasLongJump(blocks[c])' <=> HasLongJump(blocks[c])
    BY <2>1, <2>2 DEF Resolved
  <2>4. PhaseInv'
    BY <2>1, <2>2, <2>3 DEF PhaseInv, ProgramInv
  <2> QED BY <2>2, <2>4 DEF ProgramInv
<1> QED BY <1>1, <1>2, <1>3, <1>4, <1>5, <1>6 DEF ProgramNext

LEMMA ProgramSafe == ProgramSpec => []ProgramInv
<1>1. ProgramInit => ProgramInv
  BY ProgramStart
<1>2. ProgramInv /\ [ProgramNext]_vars => ProgramInv'
  BY ProgramStep
<1> QED BY <1>1, <1>2, PTL DEF ProgramSpec

-----------------------------------------------------------------------------

LEMMA RangeOfConcat ==
    ASSUME NEW S, NEW s \in Seq(S), NEW t \in Seq(S)
    PROVE  \A x \in Range(s \o t) : x \in Range(s) \cup Range(t)
<1> DEFINE st == s \o t
           m == Len(s)
           n == Len(t)
<1>1. /\ m \in Nat /\ n \in Nat /\ DOMAIN s = 1..m /\ DOMAIN t = 1..n /\ DOMAIN st = 1..(m + n)
      /\ \A i \in 1..m : st[i] = s[i]
      /\ \A i \in 1..n : st[m + i] = t[i]
  BY ConcatParts
<1> HIDE DEF st, m, n
<1> SUFFICES ASSUME NEW x \in Range(st) PROVE x \in Range(s) \cup Range(t)
  BY DEF st
<1>2. PICK i \in 1..(m + n) : x = st[i]
  BY <1>1 DEF Range
<1>3. CASE i <= m
  <2>1. i \in 1..m
    BY <1>1, <1>3
  <2> QED BY <1>1, <1>2, <2>1 DEF Range
<1>4. CASE ~ (i <= m)
  <2>1. i - m \in 1..n /\ m + (i - m) = i
    BY <1>1, <1>4
  <2>2. st[m + (i - m)] = t[i - m]
    BY <1>1, <2>1
  <2> QED BY <1>1, <1>2, <2>1, <2>2 DEF Range
<1> QED BY <1>3, <1>4

(* The relocations a block waits for, those to the next stencil included.  *)
LEMMA Waiting ==
    ASSUME NEW blk, BlockInv(blk), NEW r \in Range(blk.relocs \o blk.nexts)
    PROVE  /\ r.at \in Nat /\ r.at < Len(blk.code) /\ blk.code[r.at + 1][1] = "place"
<1>1. /\ blk \in BlockRec /\ PlacesIn(blk.relocs, blk.code) /\ PlacesIn(blk.nexts, blk.code)
  BY DEF BlockInv
<1>2. /\ blk.relocs \in Seq(Reloc) /\ blk.nexts \in Seq(NextReloc)
      /\ \A q \in Range(blk.relocs) \cup Range(blk.nexts) : q.at \in Nat
  BY <1>1, InBlock
<1>3. blk.relocs \in Seq(Reloc \cup NextReloc) /\ blk.nexts \in Seq(Reloc \cup NextReloc)
  BY <1>2, SeqMonotonic
<1>4. r \in Range(blk.relocs) \cup Range(blk.nexts)
  BY <1>3, RangeOfConcat
<1> QED BY <1>1, <1>2, <1>4 DEF PlacesIn, Range

(* Every state of every program has the type that ProgramTypeOK says, and  *)
(* a map is only made when every block has ended.                          *)
THEOREM ProgramTypes == ProgramSpec => []ProgramTypeOK
<1>1. ProgramInv => ProgramTypeOK
  <2> SUFFICES ASSUME ProgramInv PROVE ProgramTypeOK
    OBVIOUS
  <2>1. ASSUME NEW b \in BlockIds
        PROVE  /\ \A c \in Range(blocks[b].code) : c[1] \in Cell \ {"word", "pad"}
               /\ \A r \in Range(blocks[b].relocs \o blocks[b].nexts) : r.at \in Nat
               /\ blocks[b].ended \in BOOLEAN
    <3>1. BlockInv(blocks[b])
      BY DEF ProgramInv, BlocksInv
    <3>2. /\ blocks[b].code \in Seq(CodeCell) /\ blocks[b].ended \in BOOLEAN
          /\ DOMAIN blocks[b].code = 1..Len(blocks[b].code)
      BY <3>1, InBlock DEF BlockInv
    <3>3. \A i \in DOMAIN blocks[b].code : blocks[b].code[i] \in CodeCell
      BY <3>2
    <3>4. \A c \in CodeCell : c[1] \in Cell \ {"word", "pad"}
      BY DEF CodeCell
    <3>5. \A c \in Range(blocks[b].code) : c[1] \in Cell \ {"word", "pad"}
      BY <3>3, <3>4 DEF Range
    <3> QED BY <3>1, <3>2, <3>5, Waiting
  <2>2. map # <<>> => \A b \in BlockIds : blocks[b].ended
    BY DEF ProgramInv, PhaseInv
  <2>3. \A c \in Range(map) : c[1] \in Cell
    <3>1. map \in Seq(AnyCell)
      <4>1. <<>> \in Seq(AnyCell)
        OBVIOUS
      <4> QED BY <4>1 DEF ProgramInv, PhaseInv
    <3>2. \A i \in DOMAIN map : map[i] \in AnyCell
      BY <3>1
    <3>3. \A c \in AnyCell : c[1] \in Cell
      BY DEF AnyCell
    <3> QED BY <3>2, <3>3 DEF Range
  <2> QED BY <2>1, <2>2, <2>3 DEF ProgramTypeOK, ProgramInv, PhaseInv
<1> QED BY <1>1, ProgramSafe, PTL

(* Whatever is emitted, pruned and moved, in any order: what waits for its *)
(* relocation is a place of the code, and the relocations are in the order *)
(* of their offsets.                                                       *)
THEOREM DelayedStay == ProgramSpec => []DelayedInCode
<1>1. ProgramInv => DelayedInCode
  <2> SUFFICES ASSUME ProgramInv, NEW b \in BlockIds
               PROVE  LET blk == blocks[b]
                          isPlaceOf(r) == /\ r.at < Len(blk.code)
                                          /\ blk.code[r.at + 1][1] = "place"
                          increasing(rs) == \A i, j \in DOMAIN rs : i < j => rs[i].at < rs[j].at
                      IN  /\ \A r \in Range(blk.relocs \o blk.nexts) : isPlaceOf(r)
                          /\ increasing(blk.relocs) /\ increasing(blk.nexts)
    BY DEF DelayedInCode
  <2>1. BlockInv(blocks[b])
    BY DEF ProgramInv, BlocksInv
  <2> QED BY <2>1, Waiting DEF BlockInv, InOrder
<1> QED BY <1>1, ProgramSafe, PTL

(* The jumps a stencil was emitted with.                                   *)
LEMMA JumpsOf ==
    ASSUME NEW stencils \in Seq(Entry(client)), NEW t \in Range(stencils),
           NEW p \in Range(t.stencil.places), p.kind = "Target"
    PROVE  t.args.jumps[p.id] \in Jump
<1>1. \A i \in DOMAIN stencils : stencils[i] \in Entry(client)
  OBVIOUS
<1>2. t \in Entry(client)
  BY <1>1 DEF Range
<1> QED BY <1>2 DEF Entry

(* finalize_into refuses the functions it must and no others.              *)
THEOREM RefusedRightly == ProgramSpec => []RefusedForCause
<1>1. ProgramInv => RefusedForCause
  <2> SUFFICES ASSUME ProgramInv PROVE RefusedForCause
    OBVIOUS
  <2>1. \A b \in BlockIds : /\ BlockInv(blocks[b]) /\ JumpsKept(blocks[b], trace[b])
                            /\ trace[b] \in Seq(Entry(client))
                            /\ blocks[b].long_jump = client.long_jump
    BY DEF ProgramInv, BlocksInv
  <2>2. \A b \in BlockIds : blocks[b].nexts # <<>> <=> RunsOff(b)
    BY <2>1 DEF JumpsKept, RunsOff, Wants, Next, Runtime
  <2>3. ASSUME NEW b \in BlockIds, ~ Resolved(blocks[b])
        PROVE  JumpsNowhere(b)
    <3>1. PICK r \in Range(blocks[b].relocs) :
                 r.target[1] = "Block" /\ r.target[2] \notin BlockIds
      BY <2>3 DEF Resolved
    <3>2. PICK t \in Range(trace[b]) : \E p \in Range(t.stencil.places) :
                 Wants(p, t.args, r.target)
      BY <2>1, <3>1 DEF JumpsKept
    <3>3. PICK p \in Range(t.stencil.places) : Wants(p, t.args, r.target)
      BY <3>2
    <3>4. r.target # Next /\ r.target # Runtime(p.id)
      BY <3>1 DEF Next, Runtime
    <3> QED BY <3>1, <3>3, <3>4 DEF JumpsNowhere, Wants
  <2>4. ASSUME NEW b \in BlockIds, Resolved(blocks[b])
        PROVE  ~ JumpsNowhere(b)
    <3> SUFFICES ASSUME NEW t \in Range(trace[b]), NEW p \in Range(t.stencil.places),
                        p.kind = "Target", t.args.jumps[p.id] # Next,
                        t.args.jumps[p.id][2] \notin BlockIds
                 PROVE  FALSE
      BY DEF JumpsNowhere
    <3> DEFINE jump == t.args.jumps[p.id]
    <3>2. jump \in Jump
      BY <2>1, JumpsOf
    <3>3. PICK n \in Nat : jump = Block(n)
      BY <3>2 DEF Jump
    <3>4. PICK r \in Range(blocks[b].relocs) : r.target = Block(n)
      <4>1. Wants(p, t.args, Block(n)) /\ Block(n) # Next
        BY <3>3 DEF Wants, Block, Next
      <4>2. \A to : Wants(p, t.args, to) /\ to # Next =>
                     \E r \in Range(blocks[b].relocs) : r.target = to
        BY <2>1 DEF JumpsKept
      <4> DEFINE to == Block(n)
      <4> HIDE DEF to
      <4>3. \E r \in Range(blocks[b].relocs) : r.target = to
        BY <4>1, <4>2 DEF to
      <4> QED BY <4>3 DEF to
    <3>5. r.target[1] = "Block" /\ r.target[2] = jump[2]
      BY <3>3, <3>4 DEF Block
    <3> QED BY <2>4, <3>4, <3>5 DEF Resolved
  <2>5. phase = "done" => \A b \in BlockIds : /\ blocks[b].nexts = <<>> /\ Resolved(blocks[b])
                                              /\ HasLongJump(blocks[b])
    BY DEF ProgramInv, PhaseInv, BlockIds
  <2>6. /\ phase = "InvalidEnd" => \E b \in BlockIds : blocks[b].nexts # <<>>
        /\ phase = "UnresolvedBlockTarget" => \E b \in BlockIds : ~ Resolved(blocks[b])
        /\ phase = "StencilNotFound" => \E b \in BlockIds : ~ HasLongJump(blocks[b])
    BY DEF ProgramInv, PhaseInv
  <2>7. ASSUME NEW b \in BlockIds
        PROVE  HasLongJump(blocks[b]) <=> ~ CallsTooFar(b)
    <3> DEFINE blk == blocks[b]
               syms == RuntimeTrampolineSymbols(blk)
    <3>1. /\ blk \in BlockRec /\ JumpsKept(blk, trace[b]) /\ blk.long_jump = client.long_jump
      BY <2>1 DEF BlockInv
    <3>2. /\ \A r \in Range(blk.relocs) : r.target[1] = "Runtime" => r.target[2] \in Range(syms)
          /\ syms # <<>> => \E r \in Range(blk.relocs) : r.target[1] = "Runtime"
      BY <3>1, SymbolsFound
    <3>3. HasLongJump(blk) <=> client.long_jump \/ syms = <<>>
      BY <3>1 DEF HasLongJump
    <3> HIDE DEF blk, syms
    <3>4. ASSUME NEW r \in Range(blk.relocs), r.target[1] = "Runtime"
          PROVE  \E t \in Range(trace[b]) : \E p \in Range(t.stencil.places) : p.kind = "Runtime"
      <4>1. PICK t \in Range(trace[b]) : \E p \in Range(t.stencil.places) :
                   Wants(p, t.args, r.target)
        BY <3>1, <3>4 DEF JumpsKept
      <4>2. PICK p \in Range(t.stencil.places) : Wants(p, t.args, r.target)
        BY <4>1
      <4>3. p.kind = "Target" => t.args.jumps[p.id] \in Jump
        BY <2>1, JumpsOf
      <4>4. r.target \notin Jump
        BY <3>4 DEF Jump, Next, Block
      <4> QED BY <4>2, <4>3, <4>4 DEF Wants
    <3>5. ASSUME NEW t \in Range(trace[b]), NEW p \in Range(t.stencil.places),
                 p.kind = "Runtime"
          PROVE  syms # <<>>
      <4>1. Wants(p, t.args, Runtime(p.id)) /\ Runtime(p.id) # Next
        BY <3>5 DEF Wants, Runtime, Next
      <4>2. PICK r \in Range(blk.relocs) : r.target = Runtime(p.id)
        BY <3>1, <4>1 DEF JumpsKept
      <4>3. r.target[2] \in Range(syms)
        BY <3>2, <4>2 DEF Runtime
      <4> QED BY <4>3 DEF Range
    <3>6. CallsTooFar(b) <=> /\ ~ client.long_jump
                             /\ \E t \in Range(trace[b]) :
                                  \E p \in Range(t.stencil.places) : p.kind = "Runtime"
      BY DEF CallsTooFar
    <3> QED BY <3>2, <3>3, <3>4, <3>5, <3>6 DEF blk
  <2> QED BY <2>2, <2>3, <2>4, <2>5, <2>6, <2>7 DEF RefusedForCause
<1> QED BY <1>1, ProgramSafe, PTL

(* Putting a block into the map changes cells of the block's own region.   *)
THEOREM OwnRegion == ProgramSpec => OwnRegionOnly
<1>1. ProgramInv /\ [ProgramNext]_vars =>
         [placed' = placed + 1 =>
            \A i \in DOMAIN map : map'[i] # map[i] => i \in RegionOf(placed + 1)]_vars
  <2> SUFFICES ASSUME ProgramInv, ProgramNext, placed' = placed + 1,
                      NEW i \in DOMAIN map, map'[i] # map[i]
               PROVE  i \in RegionOf(placed + 1)
    OBVIOUS
  <2>1. placed \in Nat /\ placed # placed + 1
    <3>1. NBlocks \in Nat /\ placed \in 0..NBlocks
      BY ProgramAssumption DEF ProgramInv, PhaseInv, BlocksInv, NBlocks
    <3> QED BY <3>1
  <2>2. FinalizeBlock
    BY <2>1 DEF ProgramNext, Emit, Branch, EndBranch, Ret, Add, FailEnd, Measure, HandOut
  <2>3. /\ phase = "placing" /\ placed < NBlocks
        /\ blocks[placed + 1].nexts = <<>> /\ Resolved(blocks[placed + 1])
        /\ HasLongJump(blocks[placed + 1])
        /\ map' = FinalizeInto(blocks[placed + 1], map, offsets[placed + 1], offsets)
    BY <2>1, <2>2 DEF FinalizeBlock
  <2> QED BY <2>3, Placing
<1> QED BY <1>1, ProgramSafe, PTL DEF ProgramSpec, OwnRegionOnly

=============================================================================
