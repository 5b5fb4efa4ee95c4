----------------------------- MODULE ImageProofs -----------------------------
(***************************************************************************)
(* What a finished image does, for every stencil library, every function   *)
(* built with it, and every order of emissions: each stencil is in it with *)
(* its operands, and its jumps and calls lead where they should.           *)
(***************************************************************************)
EXTENDS ProgramProofs

(* A sum of lengths, and what it is after the first n of them.             *)
PrefixInv(ctx, lens, n, sum) ==
    sum = ctx[n] /\ sum \in Nat /\ \A m \in 0..n : ctx[m] \in Nat /\ ctx[m] <= sum

SummingUp == INSTANCE FoldTheorems WITH Op <- SumOp, Inv <- PrefixInv

LEMMA TotalIsSum ==
    ASSUME NEW lens, NEW ctx
    PROVE  Total(lens) = SummingUp!Fold(ctx, 0, lens)
<1> QED BY Zenon DEF Total, FoldLeft, MapThenFoldSet, Max, SumOp,
             SummingUp!Fold, SummingUp!Folded, SummingUp!Solves, SummingUp!Largest

(* The lengths up to each block add up to ever larger sums.                *)
LEMMA SumsGrow ==
    ASSUME NEW lens \in Seq(Nat)
    PROVE  \E sums :
             /\ \A n \in 0..Len(lens) :
                   sums[n] = Total(SubSeq(lens, 1, n)) /\ sums[n] \in Nat
             /\ \A n \in 1..Len(lens) : sums[n] = sums[n - 1] + lens[n]
             /\ \A n \in 0..Len(lens) : \A m \in 0..n : sums[m] <= sums[n]
<1> DEFINE N == Len(lens)
           sums == [n \in 0..N |-> SummingUp!Prefix(0, 0, lens, n)]
<1>1. N \in Nat /\ DOMAIN lens = 1..N /\ \A i \in 1..N : lens[i] \in Nat
  OBVIOUS
<1> HIDE DEF N
<1>2. sums[0] = 0 /\ \A n \in 1..N : sums[n] = sums[n - 1] + lens[n]
  <2>1. SummingUp!Stepwise(0, 0, lens, N)
    BY <1>1, SummingUp!FoldSteps
  <2>2. /\ SummingUp!Prefix(0, 0, lens, 0) = 0
        /\ \A n \in 1..N :
             SummingUp!Prefix(0, 0, lens, n) = SummingUp!Prefix(0, 0, lens, n - 1) + lens[n]
    BY <2>1 DEF SummingUp!Stepwise, SumOp
  <2>3. 0 \in 0..N /\ \A n \in 1..N : n \in 0..N /\ n - 1 \in 0..N
    BY <1>1
  <2> QED BY <2>2, <2>3
<1> HIDE DEF sums
<1>3. ASSUME NEW n \in 0..N
      PROVE  PrefixInv(sums, SubSeq(lens, 1, n), n, Total(SubSeq(lens, 1, n)))
  <2> DEFINE seq == SubSeq(lens, 1, n)
  <2>1. n \in Nat /\ DOMAIN seq = 1..n /\ \A i \in 1..n : seq[i] = lens[i] /\ i \in 1..N
    BY <1>1
  <2> HIDE DEF seq
  <2>2. PrefixInv(sums, seq, 0, 0)
    BY <1>2 DEF PrefixInv
  <2>3. ASSUME NEW i \in 1..n, NEW v, PrefixInv(sums, seq, i - 1, v)
        PROVE  PrefixInv(sums, seq, i, SumOp(sums, v, seq[i]))
    <3>1. seq[i] = lens[i] /\ lens[i] \in Nat /\ sums[i] = sums[i - 1] + lens[i]
      BY <1>1, <1>2, <2>1
    <3>2. v = sums[i - 1] /\ v \in Nat /\ \A m \in 0..(i - 1) : sums[m] \in Nat /\ sums[m] <= v
      BY <2>3 DEF PrefixInv
    <3>3. SumOp(sums, v, seq[i]) = sums[i] /\ sums[i] \in Nat /\ v <= sums[i]
      BY <3>1, <3>2 DEF SumOp
    <3>4. \A m \in 0..i : m \in 0..(i - 1) \/ m = i
      BY <2>1
    <3>5. \A m \in 0..i : sums[m] \in Nat /\ sums[m] <= sums[i]
      BY <3>2, <3>3, <3>4
    <3> QED BY <3>3, <3>5 DEF PrefixInv
  <2>4. PrefixInv(sums, seq, n, SummingUp!Fold(sums, 0, seq))
    BY <2>1, <2>2, <2>3, SummingUp!FoldInduction
  <2> QED BY <2>4, TotalIsSum DEF seq
<1>4. \A n \in 0..N : sums[n] = Total(SubSeq(lens, 1, n)) /\ sums[n] \in Nat
  BY <1>3 DEF PrefixInv
<1>5. \A n \in 0..N : \A m \in 0..n : sums[m] <= sums[n]
  BY <1>3, <1>4 DEF PrefixInv
<1> QED BY <1>2, <1>4, <1>5 DEF N

(* A map is as long as the blocks together, and they lie in it one behind  *)
(* the other.                                                              *)
LayoutInv ==
    phase \notin {"building", "NotEnded"} =>
        offsets = OffsetsOf(Lens) /\ Len(map) = Total(Lens)

LEMMA RegionsApart ==
    ASSUME ProgramInv, LayoutInv, phase \notin {"building", "NotEnded"}
    PROVE  /\ \A b \in BlockIds :
                 /\ offsets[b] \in Nat /\ FinalLen(blocks[b]) \in Nat
                 /\ offsets[b] + FinalLen(blocks[b]) <= Len(map)
           /\ \A b, c \in BlockIds : b # c => RegionOf(b) \cap RegionOf(c) = {}
<1>1. NBlocks \in Nat
  BY ProgramAssumption DEF ProgramInv, BlocksInv, NBlocks
<1>2. \A b \in BlockIds : FinalLen(blocks[b]) \in Nat
  BY FinalLenIs DEF ProgramInv, BlocksInv, BlockInv
<1>3. Lens \in Seq(Nat) /\ Len(Lens) = NBlocks
  BY <1>1, <1>2 DEF Lens, BlockIds
<1>4. PICK sums :
         /\ \A n \in 0..NBlocks : sums[n] = Total(SubSeq(Lens, 1, n)) /\ sums[n] \in Nat
         /\ \A n \in 1..NBlocks : sums[n] = sums[n - 1] + Lens[n]
         /\ \A n \in 0..NBlocks : \A m \in 0..n : sums[m] <= sums[n]
  BY <1>3, SumsGrow
<1>5. \A b \in BlockIds :
         /\ b \in 1..NBlocks /\ b - 1 \in 0..NBlocks /\ b \in 0..NBlocks
         /\ offsets[b] = sums[b - 1] /\ Lens[b] = FinalLen(blocks[b])
  <2> SUFFICES ASSUME NEW b \in BlockIds
               PROVE  /\ b \in 1..NBlocks /\ b - 1 \in 0..NBlocks /\ b \in 0..NBlocks
                      /\ offsets[b] = sums[b - 1] /\ Lens[b] = FinalLen(blocks[b])
    OBVIOUS
  <2>1. b \in 1..NBlocks /\ b - 1 \in 0..NBlocks /\ b \in 0..NBlocks
    BY <1>1 DEF BlockIds
  <2>2. offsets[b] = Total(SubSeq(Lens, 1, b - 1))
    BY DEF LayoutInv, OffsetsOf
  <2> QED BY <1>4, <2>1, <2>2 DEF Lens
<1>6. Len(map) = sums[NBlocks]
  <2>1. SubSeq(Lens, 1, NBlocks) = Lens
    BY <1>1, <1>3
  <2>2. NBlocks \in 0..NBlocks /\ Len(map) = Total(Lens)
    BY <1>1 DEF LayoutInv
  <2>3. sums[NBlocks] = Total(SubSeq(Lens, 1, NBlocks))
    BY <1>4, <2>2
  <2> QED BY <2>1, <2>2, <2>3
<1>7. \A b \in BlockIds :
         /\ offsets[b] \in Nat /\ offsets[b] + FinalLen(blocks[b]) = sums[b]
         /\ sums[b] \in Nat /\ sums[b] <= Len(map)
  <2> SUFFICES ASSUME NEW b \in BlockIds
               PROVE  /\ offsets[b] \in Nat /\ offsets[b] + FinalLen(blocks[b]) = sums[b]
                      /\ sums[b] \in Nat /\ sums[b] <= Len(map)
    OBVIOUS
  <2>1. b \in 0..NBlocks /\ NBlocks \in 0..NBlocks
    BY <1>1, <1>5
  <2> QED BY <1>4, <1>5, <1>6, <2>1
<1>8. ASSUME NEW b \in BlockIds, NEW c \in BlockIds, b < c
      PROVE  RegionOf(b) \cap RegionOf(c) = {}
  <2>1. b \in 0..(c - 1)
    BY <1>1, <1>8 DEF BlockIds
  <2>2. sums[b] <= offsets[c]
    BY <1>4, <1>5, <2>1
  <2>3. /\ RegionOf(b) = (offsets[b] + 1)..sums[b]
        /\ RegionOf(c) = (offsets[c] + 1)..sums[c]
    BY <1>7 DEF RegionOf
  <2> QED BY <1>7, <2>2, <2>3
<1>9. \A b, c \in BlockIds : b # c => b < c \/ c < b
  BY <1>1 DEF BlockIds
<1> QED BY <1>2, <1>7, <1>8, <1>9

-----------------------------------------------------------------------------

(* Patching, exactly: when no two patches are of one place, each leads to  *)
(* its own offset.                                                         *)
EachPatched(ctx, patches, n, code) ==
    /\ DOMAIN code = DOMAIN ctx
    /\ \A i \in DOMAIN ctx : (\A k \in 1..n : i # patches[k].at + 1) => code[i] = ctx[i]
    /\ \A k \in 1..n :
          patches[k].at + 1 \in DOMAIN ctx =>
            code[patches[k].at + 1] = Place(patches[k].to - patches[k].at - 1)

PatchingEach == INSTANCE FoldTheorems WITH Op <- PatchOp, Inv <- EachPatched

LEMMA PatchAllIsEach ==
    ASSUME NEW code, NEW patches
    PROVE  PatchAll(code, patches) = PatchingEach!Fold(code, code, patches)
<1> QED BY Zenon DEF PatchAll, FoldLeft, MapThenFoldSet, Max, PatchOp,
             PatchingEach!Fold, PatchingEach!Folded, PatchingEach!Solves,
             PatchingEach!Largest

LEMMA PatchAllExact ==
    ASSUME NEW code, NEW N \in Nat, NEW patches, DOMAIN patches = 1..N,
           \A k \in 1..N : patches[k].at \in Int,
           \A j, k \in 1..N : j # k => patches[j].at # patches[k].at
    PROVE  EachPatched(code, patches, N, PatchAll(code, patches))
<1>1. EachPatched(code, patches, 0, code)
  <2>1. \A k \in 1..0 : FALSE
    OBVIOUS
  <2> QED BY <2>1 DEF EachPatched
<1>2. ASSUME NEW n \in 1..N, NEW c, EachPatched(code, patches, n - 1, c)
      PROVE  EachPatched(code, patches, n, PatchOp(code, c, patches[n]))
  <2> DEFINE at == patches[n].at + 1
             cell == Place(patches[n].to - patches[n].at - 1)
             new == [c EXCEPT ![at] = cell]
  <2>1. PatchOp(code, c, patches[n]) = new
    BY DEF PatchOp, Patch
  <2>2. /\ DOMAIN c = DOMAIN code
        /\ \A i \in DOMAIN code : (\A k \in 1..(n - 1) : i # patches[k].at + 1) => c[i] = code[i]
        /\ \A k \in 1..(n - 1) :
              patches[k].at + 1 \in DOMAIN code =>
                c[patches[k].at + 1] = Place(patches[k].to - patches[k].at - 1)
    BY <1>2 DEF EachPatched
  <2>3. /\ DOMAIN new = DOMAIN code
        /\ \A i \in DOMAIN code : new[i] = IF i = at THEN cell ELSE c[i]
    BY <2>2
  <2>4. \A k \in 1..n : k \in 1..(n - 1) \/ k = n
    OBVIOUS
  <2>5. n \in 1..n /\ \A k \in 1..(n - 1) : k \in 1..n /\ k \in 1..N /\ k # n
    OBVIOUS
  <2>6. \A k \in 1..(n - 1) : patches[k].at + 1 # at
    BY <2>5
  <2> HIDE DEF new
  <2>7. \A i \in DOMAIN code : (\A k \in 1..n : i # patches[k].at + 1) => new[i] = code[i]
    BY <2>2, <2>3, <2>5
  <2>8. ASSUME NEW k \in 1..n, patches[k].at + 1 \in DOMAIN code
        PROVE  new[patches[k].at + 1] = Place(patches[k].to - patches[k].at - 1)
    <3>1. CASE k = n
      BY <2>3, <2>8, <3>1
    <3>2. CASE k \in 1..(n - 1)
      <4> HIDE DEF at, cell
      <4> QED BY <2>2, <2>3, <2>6, <2>8, <3>2
    <3> QED BY <2>4, <3>1, <3>2
  <2> QED BY <2>1, <2>3, <2>7, <2>8 DEF EachPatched
<1> QED BY <1>1, <1>2, PatchAllIsEach, PatchingEach!FoldInduction

(* Writing, exactly: pieces that do not overlap are all there.             *)
EachWritten(ctx, pieces, n, image) ==
    /\ DOMAIN image = DOMAIN ctx
    /\ \A k \in 1..n : \A i \in PieceOf(pieces[k]) \cap DOMAIN ctx :
          image[i] = pieces[k].cells[i - pieces[k].start]

WritingEach == INSTANCE FoldTheorems WITH Op <- WriteOp, Inv <- EachWritten

LEMMA WriteAllIsEach ==
    ASSUME NEW old, NEW pieces
    PROVE  WriteAll(old, pieces) = WritingEach!Fold(old, old, pieces)
<1> QED BY Zenon DEF WriteAll, FoldLeft, MapThenFoldSet, Max, WriteOp,
             WritingEach!Fold, WritingEach!Folded, WritingEach!Solves, WritingEach!Largest

LEMMA WriteAllExact ==
    ASSUME NEW old, NEW N \in Nat, NEW pieces, DOMAIN pieces = 1..N,
           \A j, k \in 1..N : j # k => PieceOf(pieces[j]) \cap PieceOf(pieces[k]) = {}
    PROVE  EachWritten(old, pieces, N, WriteAll(old, pieces))
<1>1. EachWritten(old, pieces, 0, old)
  <2>1. \A k \in 1..0 : FALSE
    OBVIOUS
  <2> QED BY <2>1 DEF EachWritten
<1>2. ASSUME NEW n \in 1..N, NEW image, EachWritten(old, pieces, n - 1, image)
      PROVE  EachWritten(old, pieces, n, WriteOp(old, image, pieces[n]))
  <2> DEFINE w == pieces[n]
             new == WriteOp(old, image, w)
  <2>1. /\ DOMAIN image = DOMAIN old
        /\ \A k \in 1..(n - 1) : \A i \in PieceOf(pieces[k]) \cap DOMAIN old :
              image[i] = pieces[k].cells[i - pieces[k].start]
    BY <1>2 DEF EachWritten
  <2>2. new = [i \in DOMAIN old |-> IF i \in PieceOf(w) THEN w.cells[i - w.start] ELSE image[i]]
    BY <2>1 DEF WriteOp, Write, PieceOf
  <2>3. \A k \in 1..n : k = n \/ (k \in 1..(n - 1) /\ k \in 1..N /\ k # n)
    OBVIOUS
  <2> HIDE DEF new
  <2>4. ASSUME NEW k \in 1..n, NEW i \in PieceOf(pieces[k]) \cap DOMAIN old
        PROVE  new[i] = pieces[k].cells[i - pieces[k].start]
    <3>1. CASE k = n
      BY <2>2, <3>1
    <3>2. CASE k \in 1..(n - 1) /\ k \in 1..N /\ k # n
      <4>1. i \notin PieceOf(w)
        BY <3>2
      <4> QED BY <2>1, <2>2, <3>2, <4>1
    <3> QED BY <2>3, <3>1, <3>2
  <2>5. DOMAIN new = DOMAIN old
    BY <2>2
  <2> QED BY <2>4, <2>5 DEF EachWritten, new
<1> QED BY <1>1, <1>2, WriteAllIsEach, WritingEach!FoldInduction

-----------------------------------------------------------------------------

(* What finalize_into writes and patches, part by part.                    *)
Syms(blk) == RuntimeTrampolineSymbols(blk)

TrampolineAt(blk, i) == Len(blk.code) + (i - 1) * Len(LongJump.code)

Words(blk) == blk.consts \o [i \in 1..Len(Syms(blk)) |-> SymbolAddr[Syms(blk)[i]]]

ConstantAt(blk, offset, i) ==
    offset + (IF Words(blk) = <<>> THEN TrampolineAt(blk, Len(Syms(blk)) + 1)
              ELSE AlignUp(TrampolineAt(blk, Len(Syms(blk)) + 1))) + i * WordCells

TargetOf(blk, offset, offs, r) ==
    CASE r.target[1] = "Block"    -> offs[r.target[2]]
      [] r.target[1] = "Constant" -> ConstantAt(blk, offset, r.target[2])
      [] r.target[1] = "Runtime"  ->
           offset + TrampolineAt(blk, CHOOSE i \in DOMAIN Syms(blk) : Syms(blk)[i] = r.target[2])

Pieces(blk, offset) ==
    <<[start |-> offset, cells |-> blk.code]>>
      \o [i \in 1..Len(Syms(blk)) |->
            [start |-> offset + TrampolineAt(blk, i), cells |-> LongJump.code]]
      \o [i \in 1..Len(Words(blk)) |->
            [start |-> ConstantAt(blk, offset, i - 1), cells |-> WordAt(Words(blk)[i])]]

Relocs(blk) ==
    blk.relocs \o [i \in 1..Len(Syms(blk)) |->
                     Delayed(TrampolineAt(blk, i) + LongJump.places[1].at,
                             Constant((Len(blk.consts) + i - 1) % ConstMod))]

Patches(blk, offset, offs) ==
    [k \in 1..Len(Relocs(blk)) |->
       [at |-> offset + Relocs(blk)[k].at,
        to |-> TargetOf(blk, offset, offs, Relocs(blk)[k])]]

LEMMA FinalizeIs ==
    ASSUME NEW blk, NEW image, NEW offset, NEW offs
    PROVE  FinalizeInto(blk, image, offset, offs)
             = PatchAll(WriteAll(image, Pieces(blk, offset)), Patches(blk, offset, offs))
<1> QED BY Zenon DEF FinalizeInto, Pieces, Patches, Relocs, TargetOf, ConstantAt, Words,
             TrampolineAt, Syms

(* Where the parts of a finalized block are.                               *)
LEMMA PartsAt ==
    ASSUME NEW blk \in BlockRec, HasLongJump(blk), NEW offset \in Nat
    PROVE  LET m == Len(Syms(blk))
               n == Len(blk.code)
               w == Len(Words(blk))
           IN  /\ m \in Nat /\ n \in Nat /\ w \in Nat /\ Len(blk.consts) \in Nat
               /\ w = Len(blk.consts) + m
               /\ Words(blk) \in Seq(Nat)
               /\ \A i \in 1..Len(blk.consts) : Words(blk)[i] = blk.consts[i]
               /\ \A i \in 1..m : /\ Words(blk)[Len(blk.consts) + i] = SymbolAddr[Syms(blk)[i]]
                                  /\ TrampolineAt(blk, i) = n + 2 * (i - 1)
               /\ CodeEnd(blk) = n + 2 * m /\ FinalLen(blk) \in Nat
               /\ CodeEnd(blk) <= FinalLen(blk)
               /\ \A i \in Nat : /\ ConstantAt(blk, offset, i) \in Nat
                                 /\ offset + CodeEnd(blk) <= ConstantAt(blk, offset, i)
                                 /\ ConstantAt(blk, offset, i + 1)
                                      = ConstantAt(blk, offset, i) + WordCells
               /\ \A i, j \in Nat : i <= j => ConstantAt(blk, offset, i)
                                                <= ConstantAt(blk, offset, j)
               /\ w # 0 => ConstantAt(blk, offset, w) = offset + FinalLen(blk)
<1> DEFINE m == Len(Syms(blk))
           n == Len(blk.code)
           k == Len(blk.consts)
           w == Len(Words(blk))
           runtime == [i \in 1..m |-> SymbolAddr[Syms(blk)[i]]]
           end == CodeEnd(blk)
<1>1. /\ m \in Nat /\ n \in Nat /\ k \in Nat /\ end \in Nat
      /\ FinalLen(blk) \in Nat /\ end <= FinalLen(blk)
      /\ FinalLen(blk) = IF k + m = 0 THEN end ELSE AlignUp(end) + (k + m) * WordCells
  BY FinalLenIs DEF Syms
<1>2. /\ Syms(blk) \in Seq(DOMAIN SymbolAddr) /\ blk.consts \in Seq(Nat)
      /\ SymbolAddr \in Seq(Nat) /\ WordCells \in Nat \ {0}
  BY SymbolsFound, InBlock, ProgramAssumption, CellAssumption DEF Syms
<1>3. Len(LongJump.code) = 2
  BY DEF LongJump
<1>4. end = n + 2 * m
  BY DEF CodeEnd, Syms
<1>5. \A i \in 1..m : SymbolAddr[Syms(blk)[i]] \in Nat
  <2>1. \A s \in DOMAIN SymbolAddr : SymbolAddr[s] \in Nat
    BY <1>2
  <2>2. \A i \in 1..m : Syms(blk)[i] \in DOMAIN SymbolAddr
    BY <1>2
  <2> QED BY <2>1, <2>2
<1>6. runtime \in Seq(Nat) /\ Len(runtime) = m
  BY <1>1, <1>5
<1>7. /\ Words(blk) \in Seq(Nat) /\ w = k + m
      /\ \A i \in 1..k : Words(blk)[i] = blk.consts[i]
      /\ \A i \in 1..m : Words(blk)[k + i] = SymbolAddr[Syms(blk)[i]]
  <2> HIDE DEF runtime
  <2> DEFINE a == blk.consts
             ws == Words(blk)
  <2>1. ws = a \o runtime /\ a \in Seq(Nat)
    BY <1>2 DEF Words, runtime
  <2> HIDE DEF a, ws
  <2>2. /\ a \o runtime \in Seq(Nat)
        /\ Len(a \o runtime) = Len(a) + Len(runtime)
        /\ \A i \in 1..Len(a) : (a \o runtime)[i] = a[i]
        /\ \A i \in 1..Len(runtime) : (a \o runtime)[Len(a) + i] = runtime[i]
    <3> DEFINE S == Nat
               b == runtime
    <3>1. a \in Seq(S) /\ b \in Seq(S)
      BY <1>6, <2>1
    <3> HIDE DEF S, b
    <3>2. /\ a \o b \in Seq(S) /\ Len(a \o b) = Len(a) + Len(b)
          /\ \A i \in 1..Len(a) : (a \o b)[i] = a[i]
          /\ \A i \in 1..Len(b) : (a \o b)[Len(a) + i] = b[i]
      BY <3>1, ConcatParts
    <3> QED BY <3>2 DEF S, b
  <2>3. /\ ws \in Seq(Nat) /\ Len(ws) = Len(a) + m
        /\ \A i \in 1..Len(a) : ws[i] = a[i]
        /\ \A i \in 1..m : ws[Len(a) + i] = runtime[i]
    BY <1>6, <2>1, <2>2
  <2> QED BY <2>3 DEF runtime, a, ws
<1>8. \A i \in Int : TrampolineAt(blk, i) = n + 2 * (i - 1)
  <2> SUFFICES ASSUME NEW i \in Int PROVE TrampolineAt(blk, i) = n + 2 * (i - 1)
    OBVIOUS
  <2>1. TrampolineAt(blk, i) = n + (i - 1) * 2
    BY <1>3 DEF TrampolineAt
  <2> HIDE DEF n
  <2> QED BY <1>1, <2>1
<1>9. TrampolineAt(blk, m + 1) = end
  <2> HIDE DEF m, n, end
  <2> QED BY <1>1, <1>4, <1>8
<1> DEFINE base == IF Words(blk) = <<>> THEN end ELSE AlignUp(end)
<1>10. \A i \in Nat : ConstantAt(blk, offset, i) = offset + base + i * WordCells
  BY <1>9 DEF ConstantAt
<1>11. base \in Nat /\ end <= base
  BY <1>1, AlignsUp
<1>12. w # 0 => FinalLen(blk) = base + w * WordCells
  <2>1. w # 0 => Words(blk) # <<>>
    BY <1>7
  <2> QED BY <1>1, <1>7, <2>1
<1> HIDE DEF base, end, m, n, k, w
<1>13. \A i \in Nat : i * WordCells \in Nat /\ (i + 1) * WordCells = i * WordCells + WordCells
  BY <1>2, MulMono, MulSucc
<1>14. \A i, j \in Nat : i <= j => i * WordCells <= j * WordCells
  BY <1>2, MulMono
<1>15. \A i \in Nat : /\ ConstantAt(blk, offset, i) \in Nat
                      /\ offset + end <= ConstantAt(blk, offset, i)
                      /\ ConstantAt(blk, offset, i + 1) = ConstantAt(blk, offset, i) + WordCells
  <2> SUFFICES ASSUME NEW i \in Nat
               PROVE  /\ ConstantAt(blk, offset, i) \in Nat
                      /\ offset + end <= ConstantAt(blk, offset, i)
                      /\ ConstantAt(blk, offset, i + 1)
                           = ConstantAt(blk, offset, i) + WordCells
    OBVIOUS
  <2> DEFINE x == i * WordCells
             y == (i + 1) * WordCells
  <2>1. x \in Nat /\ y = x + WordCells
    BY <1>13
  <2>2. ConstantAt(blk, offset, i) = offset + base + x
        /\ ConstantAt(blk, offset, i + 1) = offset + base + y
    BY <1>10
  <2> HIDE DEF x, y
  <2> QED BY <1>1, <1>2, <1>11, <2>1, <2>2
<1>16. ASSUME NEW i \in Nat, NEW j \in Nat, i <= j
       PROVE  ConstantAt(blk, offset, i) <= ConstantAt(blk, offset, j)
  <2> DEFINE x == i * WordCells
             y == j * WordCells
  <2>1. x \in Nat /\ y \in Nat /\ x <= y
    BY <1>13, <1>14, <1>16
  <2>2. ConstantAt(blk, offset, i) = offset + base + x
        /\ ConstantAt(blk, offset, j) = offset + base + y
    BY <1>10
  <2> HIDE DEF x, y
  <2> QED BY <1>11, <2>1, <2>2
<1>17. w # 0 => ConstantAt(blk, offset, w) = offset + FinalLen(blk)
  <2>1. w \in Nat
    BY <1>1, <1>7
  <2> DEFINE x == w * WordCells
  <2>2. x \in Nat /\ ConstantAt(blk, offset, w) = offset + base + x
        /\ (w # 0 => FinalLen(blk) = base + x)
    BY <1>10, <1>12, <1>13, <2>1
  <2> HIDE DEF x
  <2> QED BY <1>11, <2>2
<1>18. w \in Nat /\ \A i \in 1..m : TrampolineAt(blk, i) = n + 2 * (i - 1)
  BY <1>1, <1>7, <1>8
<1> QED BY <1>1, <1>4, <1>7, <1>15, <1>16, <1>17, <1>18, Zenon DEF end, m, n, k, w

LEMMA ElementsOf ==
    ASSUME NEW S, NEW s \in Seq(S)
    PROVE  Len(s) \in Nat /\ DOMAIN s = 1..Len(s) /\ \A i \in 1..Len(s) : s[i] \in S
<1> QED OBVIOUS

PieceRec == [start : Int, cells : Seq(AnyCell)]

LEMMA PiecesAre ==
    ASSUME NEW blk \in BlockRec, HasLongJump(blk), NEW offset \in Nat
    PROVE  LET m == Len(Syms(blk))
               w == Len(Words(blk))
               pieces == Pieces(blk, offset)
           IN  /\ pieces \in Seq(PieceRec) /\ Len(pieces) = 1 + m + w
               /\ pieces[1] = [start |-> offset, cells |-> blk.code]
               /\ \A i \in 1..m :
                     pieces[1 + i] = [start |-> offset + TrampolineAt(blk, i),
                                      cells |-> LongJump.code]
               /\ \A i \in 1..w :
                     pieces[1 + m + i] = [start |-> ConstantAt(blk, offset, i - 1),
                                          cells |-> WordAt(Words(blk)[i])]
<1> DEFINE m == Len(Syms(blk))
           w == Len(Words(blk))
           p1 == <<[start |-> offset, cells |-> blk.code]>>
           p2 == [i \in 1..m |-> [start |-> offset + TrampolineAt(blk, i),
                                  cells |-> LongJump.code]]
           p3 == [i \in 1..w |-> [start |-> ConstantAt(blk, offset, i - 1),
                                  cells |-> WordAt(Words(blk)[i])]]
<1>1. /\ m \in Nat /\ w \in Nat /\ Words(blk) \in Seq(Nat) /\ Len(blk.code) \in Nat
      /\ \A i \in 1..m : TrampolineAt(blk, i) = Len(blk.code) + 2 * (i - 1)
      /\ \A i \in Nat : ConstantAt(blk, offset, i) \in Nat
  BY PartsAt, Zenon
<1>13. \A i \in 1..w : Words(blk)[i] \in Nat
  BY <1>1, ElementsOf, Zenon
<1>2. blk.code \in Seq(AnyCell) /\ LongJump.code \in Seq(AnyCell)
  <2>1. CodeCell \subseteq AnyCell
    BY DEF CodeCell, AnyCell
  <2>2. blk.code \in Seq(CodeCell)
    BY InBlock
  <2>3. LongJump.code \in Seq(AnyCell)
    BY DEF LongJump, JmpInd, Place, AnyCell, Cell
  <2> QED BY <2>1, <2>2, <2>3, SeqMonotonic
<1>3. p1 \in Seq(PieceRec) /\ Len(p1) = 1 /\ p1[1] = [start |-> offset, cells |-> blk.code]
  <2>1. [start |-> offset, cells |-> blk.code] \in PieceRec
    BY <1>2 DEF PieceRec
  <2> QED BY <2>1
<1> HIDE DEF m, w
<1>14. \A i \in 1..w : i - 1 \in Nat
  BY <1>1
<1>15. \A i \in 1..m : i \in Int
  BY <1>1
<1>4. p2 \in Seq(PieceRec) /\ Len(p2) = m
  <2>1. ASSUME NEW i \in 1..m PROVE p2[i] \in PieceRec
    <3>1. offset + TrampolineAt(blk, i) \in Int
      <4> DEFINE t == TrampolineAt(blk, i)
                 n == Len(blk.code)
      <4>1. t = n + 2 * (i - 1) /\ n \in Nat /\ i \in Int
        BY <1>1, <1>15
      <4> HIDE DEF t, n
      <4>2. offset + t \in Int
        BY <4>1
      <4> QED BY <4>2 DEF t
    <3> QED BY <1>2, <3>1 DEF PieceRec
  <2>2. p2 = [i \in 1..m |-> p2[i]] /\ DOMAIN p2 = 1..m
    OBVIOUS
  <2> HIDE DEF p2
  <2>3. p2 \in Seq(PieceRec)
    BY <1>1, <2>1, <2>2, MadeSeq
  <2> QED BY <1>1, <2>2, <2>3
<1>5. p3 \in Seq(PieceRec) /\ Len(p3) = w
  <2>1. ASSUME NEW i \in 1..w PROVE p3[i] \in PieceRec
    <3>1. i - 1 \in Nat /\ Words(blk)[i] \in Nat
      BY <1>13, <1>14
    <3>2. ConstantAt(blk, offset, i - 1) \in Int /\ WordAt(Words(blk)[i]) \in Seq(AnyCell)
      <4>1. ConstantAt(blk, offset, i - 1) \in Nat
        BY <1>1, <3>1, Zenon
      <4>2. WordAt(Words(blk)[i]) \in Seq(AnyCell)
        BY <3>1, WordsAre
      <4> QED BY <4>1, <4>2
    <3> QED BY <3>2 DEF PieceRec
  <2>2. p3 = [i \in 1..w |-> p3[i]] /\ DOMAIN p3 = 1..w
    OBVIOUS
  <2> HIDE DEF p3
  <2>3. p3 \in Seq(PieceRec)
    BY <1>1, <2>1, <2>2, MadeSeq
  <2> QED BY <1>1, <2>2, <2>3
<1> DEFINE p12 == p1 \o p2
<1> HIDE DEF p1, p2, p3
<1>6. /\ p12 \in Seq(PieceRec) /\ Len(p12) = 1 + m /\ p12[1] = p1[1]
      /\ \A i \in 1..m : p12[1 + i] = p2[i]
  <2>1. /\ p1 \o p2 \in Seq(PieceRec) /\ Len(p1 \o p2) = Len(p1) + Len(p2)
        /\ \A i \in 1..Len(p1) : (p1 \o p2)[i] = p1[i]
        /\ \A i \in 1..Len(p2) : (p1 \o p2)[Len(p1) + i] = p2[i]
    <3> DEFINE S == PieceRec
    <3>1. p1 \in Seq(S) /\ p2 \in Seq(S)
      BY <1>3, <1>4
    <3> HIDE DEF S
    <3>2. /\ p1 \o p2 \in Seq(S) /\ Len(p1 \o p2) = Len(p1) + Len(p2)
          /\ \A i \in 1..Len(p1) : (p1 \o p2)[i] = p1[i]
          /\ \A i \in 1..Len(p2) : (p1 \o p2)[Len(p1) + i] = p2[i]
      BY <3>1, ConcatParts
    <3> QED BY <3>2 DEF S
  <2>2. 1 \in 1..Len(p1)
    BY <1>3
  <2> QED BY <1>3, <1>4, <2>1, <2>2
<1> HIDE DEF p12
<1>7. /\ p12 \o p3 \in Seq(PieceRec) /\ Len(p12 \o p3) = 1 + m + w
      /\ \A i \in 1..(1 + m) : (p12 \o p3)[i] = p12[i]
      /\ \A i \in 1..w : (p12 \o p3)[1 + m + i] = p3[i]
  <2> DEFINE all == p12 \o p3
  <2>1. /\ all \in Seq(PieceRec) /\ Len(all) = Len(p12) + Len(p3)
        /\ \A i \in 1..Len(p12) : all[i] = p12[i]
        /\ \A i \in 1..Len(p3) : all[Len(p12) + i] = p3[i]
    <3>1. p12 \in Seq(PieceRec) /\ p3 \in Seq(PieceRec)
      BY <1>5, <1>6
    <3> HIDE DEF all
    <3>2. ASSUME NEW S, NEW s \in Seq(S), NEW t \in Seq(S)
          PROVE  /\ s \o t \in Seq(S) /\ Len(s \o t) = Len(s) + Len(t)
                 /\ \A i \in 1..Len(s) : (s \o t)[i] = s[i]
                 /\ \A i \in 1..Len(t) : (s \o t)[Len(s) + i] = t[i]
      BY ConcatParts
    <3> QED BY <3>1, <3>2 DEF all
  <2> HIDE DEF all
  <2>2. Len(p12) = 1 + m /\ Len(p3) = w
    BY <1>5, <1>6
  <2>3. all \in Seq(PieceRec) /\ Len(all) = 1 + m + w
    BY <2>1, <2>2
  <2>4. \A i \in 1..(1 + m) : all[i] = p12[i]
    BY <2>1, <2>2, Zenon
  <2>5. \A i \in 1..w : all[1 + m + i] = p3[i]
    BY <2>1, <2>2, Zenon
  <2> QED BY <2>3, <2>4, <2>5 DEF all
<1>8. Pieces(blk, offset) = p12 \o p3
  BY DEF Pieces, p12, p1, p2, p3, m, w
<1>9. 1 \in 1..(1 + m) /\ \A i \in 1..m : 1 + i \in 1..(1 + m)
  BY <1>1
<1>10. /\ (p12 \o p3)[1] = p1[1]
       /\ \A i \in 1..m : (p12 \o p3)[1 + i] = p2[i]
  BY <1>6, <1>7, <1>9
<1>11. p1[1] = [start |-> offset, cells |-> blk.code]
  BY DEF p1
<1>12. /\ \A i \in 1..m : p2[i] = [start |-> offset + TrampolineAt(blk, i),
                                   cells |-> LongJump.code]
       /\ \A i \in 1..w : p3[i] = [start |-> ConstantAt(blk, offset, i - 1),
                                   cells |-> WordAt(Words(blk)[i])]
  BY DEF p2, p3
<1>20. /\ p12 \o p3 \in Seq(PieceRec) /\ Len(p12 \o p3) = 1 + m + w
       /\ \A i \in 1..w : (p12 \o p3)[1 + m + i] = p3[i]
  BY <1>7
<1> HIDE DEF p12, p1, p2, p3
<1> QED BY <1>8, <1>10, <1>11, <1>12, <1>20 DEF m, w

(* No part of a finalized block overlaps another, and all are in the       *)
(* region of the block.                                                    *)
LEMMA PiecesApart ==
    ASSUME NEW blk \in BlockRec, HasLongJump(blk), NEW offset \in Nat
    PROVE  LET pieces == Pieces(blk, offset)
           IN  /\ \A k \in 1..Len(pieces) :
                     PieceOf(pieces[k]) \subseteq (offset + 1)..(offset + FinalLen(blk))
               /\ \A j, k \in 1..Len(pieces) :
                     j # k => PieceOf(pieces[j]) \cap PieceOf(pieces[k]) = {}
<1> DEFINE m == Len(Syms(blk))
           n == Len(blk.code)
           w == Len(Words(blk))
           pieces == Pieces(blk, offset)
           end == CodeEnd(blk)
           const(i) == ConstantAt(blk, offset, i)
           from(k) == pieces[k].start
           to(k) == pieces[k].start + Len(pieces[k].cells)
<1>1. /\ m \in Nat /\ n \in Nat /\ w \in Nat /\ end = n + 2 * m
      /\ FinalLen(blk) \in Nat /\ end <= FinalLen(blk)
      /\ \A i \in 1..m : TrampolineAt(blk, i) = n + 2 * (i - 1)
      /\ \A i \in Nat : const(i) \in Nat /\ offset + end <= const(i)
                        /\ const(i + 1) = const(i) + WordCells
      /\ \A i, j \in Nat : i <= j => const(i) <= const(j)
      /\ w # 0 => const(w) = offset + FinalLen(blk)
      /\ Words(blk) \in Seq(Nat)
  BY PartsAt, Zenon
<1>23. \A i \in 1..w : Words(blk)[i] \in Nat
  BY <1>1, ElementsOf, Zenon
<1>2. WordCells \in Nat \ {0} /\ Len(LongJump.code) = 2
  BY CellAssumption DEF LongJump
<1>3. /\ pieces \in Seq(PieceRec) /\ Len(pieces) = 1 + m + w
      /\ from(1) = offset /\ to(1) = offset + n
      /\ \A i \in 1..m : /\ from(1 + i) = offset + TrampolineAt(blk, i)
                         /\ to(1 + i) = offset + TrampolineAt(blk, i) + 2
      /\ \A i \in 1..w : /\ from(1 + m + i) = const(i - 1)
                         /\ to(1 + m + i) = const(i - 1) + WordCells
  <2>1. \A i \in 1..w : Len(WordAt(Words(blk)[i])) = WordCells
    BY <1>23, WordsAre
  <2>2. /\ pieces \in Seq(PieceRec) /\ Len(pieces) = 1 + m + w
        /\ pieces[1] = [start |-> offset, cells |-> blk.code]
        /\ \A i \in 1..m :
              pieces[1 + i] = [start |-> offset + TrampolineAt(blk, i),
                               cells |-> LongJump.code]
        /\ \A i \in 1..w :
              pieces[1 + m + i] = [start |-> const(i - 1), cells |-> WordAt(Words(blk)[i])]
    BY PiecesAre, Zenon
  <2> HIDE DEF pieces, m, w, const
  <2>3. ASSUME NEW i \in 1..m
        PROVE  /\ from(1 + i) = offset + TrampolineAt(blk, i)
               /\ to(1 + i) = offset + TrampolineAt(blk, i) + 2
    <3>1. pieces[1 + i] = [start |-> offset + TrampolineAt(blk, i), cells |-> LongJump.code]
      BY <2>2
    <3>2. pieces[1 + i].start = offset + TrampolineAt(blk, i)
          /\ Len(pieces[1 + i].cells) = 2
      BY <1>2, <3>1
    <3> QED BY <3>2
  <2>4. ASSUME NEW i \in 1..w
        PROVE  /\ from(1 + m + i) = const(i - 1)
               /\ to(1 + m + i) = const(i - 1) + WordCells
    <3>1. pieces[1 + m + i] = [start |-> const(i - 1), cells |-> WordAt(Words(blk)[i])]
      BY <2>2
    <3>2. Len(WordAt(Words(blk)[i])) = WordCells
      BY <2>1
    <3> QED BY <3>1, <3>2
  <2>5. from(1) = offset /\ to(1) = offset + n
    BY <2>2
  <2> QED BY <2>2, <2>3, <2>4, <2>5
<1> DEFINE all == FinalLen(blk)
<1> HIDE DEF m, n, w, pieces, end, const, from, to, all
<1>20. m \in Nat /\ n \in Nat /\ w \in Nat /\ end = n + 2 * m /\ all \in Nat /\ end <= all
  BY <1>1 DEF all
<1>21. from(1) = offset /\ to(1) = offset + n /\ Len(pieces) = 1 + m + w
  BY <1>3
<1>22. /\ \A i, j \in Nat : i <= j => const(i) <= const(j)
       /\ w # 0 => const(w) = offset + all
  BY <1>1 DEF all
<1>4. /\ \A i \in 1..m : from(1 + i) = offset + n + 2 * (i - 1) /\ to(1 + i) = offset + n + 2 * i
      /\ \A i \in 1..w : /\ from(1 + m + i) = const(i - 1) /\ to(1 + m + i) = const(i)
                         /\ const(i - 1) \in Nat /\ const(i) \in Nat
                         /\ offset + end <= const(i - 1)
  <2>1. ASSUME NEW i \in 1..m
        PROVE  from(1 + i) = offset + n + 2 * (i - 1) /\ to(1 + i) = offset + n + 2 * i
    <3> DEFINE t == TrampolineAt(blk, i)
    <3>1. t = n + 2 * (i - 1) /\ from(1 + i) = offset + t /\ to(1 + i) = offset + t + 2
      BY <1>1, <1>3
    <3> HIDE DEF t
    <3> QED BY <1>1, <3>1
  <2>2. ASSUME NEW i \in 1..w
        PROVE  /\ from(1 + m + i) = const(i - 1) /\ to(1 + m + i) = const(i)
               /\ const(i - 1) \in Nat /\ const(i) \in Nat
               /\ offset + end <= const(i - 1)
    <3>1. i - 1 \in Nat /\ (i - 1) + 1 = i /\ i \in Nat
      BY <1>1
    <3>2. const((i - 1) + 1) = const(i - 1) + WordCells /\ const(i - 1) \in Nat
          /\ offset + end <= const(i - 1) /\ const(i) \in Nat
      BY <1>1, <3>1
    <3> QED BY <1>3, <3>1, <3>2
  <2> QED BY <2>1, <2>2
<1>5. \A k \in 1..Len(pieces) :
         k = 1 \/ (\E i \in 1..m : k = 1 + i) \/ (\E i \in 1..w : k = 1 + m + i)
  <2> SUFFICES ASSUME NEW k \in 1..Len(pieces), k # 1
               PROVE  (\E i \in 1..m : k = 1 + i) \/ (\E i \in 1..w : k = 1 + m + i)
    OBVIOUS
  <2>1. k \in 1..(1 + m + w)
    BY <1>21
  <2>2. CASE k <= 1 + m
    <3>1. k - 1 \in 1..m /\ k = 1 + (k - 1)
      BY <1>20, <2>1, <2>2
    <3> QED BY <3>1
  <2>3. CASE ~ (k <= 1 + m)
    <3>1. k - 1 - m \in 1..w /\ k = 1 + m + (k - 1 - m)
      BY <1>20, <2>1, <2>3
    <3> QED BY <3>1
  <2> QED BY <2>2, <2>3
<1>6. \A k \in 1..Len(pieces) :
         /\ from(k) \in Nat /\ to(k) \in Nat /\ offset <= from(k)
         /\ to(k) <= offset + all
  <2> SUFFICES ASSUME NEW k \in 1..Len(pieces)
               PROVE  /\ from(k) \in Nat /\ to(k) \in Nat /\ offset <= from(k)
                      /\ to(k) <= offset + all
    OBVIOUS
  <2>1. CASE k = 1
    BY <1>20, <1>21, <2>1
  <2>2. ASSUME NEW i \in 1..m, k = 1 + i
        PROVE  /\ from(k) \in Nat /\ to(k) \in Nat /\ offset <= from(k)
               /\ to(k) <= offset + all
    BY <1>20, <1>4, <2>2
  <2>3. ASSUME NEW i \in 1..w, k = 1 + m + i
        PROVE  /\ from(k) \in Nat /\ to(k) \in Nat /\ offset <= from(k)
               /\ to(k) <= offset + all
    <3>1. i \in Nat /\ w \in Nat /\ i <= w /\ w # 0
      BY <1>20
    <3>2. const(i) <= const(w) /\ const(w) = offset + all
      BY <1>22, <3>1
    <3> QED BY <1>20, <1>4, <2>3, <3>2
  <2> QED BY <1>5, <2>1, <2>2, <2>3
<1>7. ASSUME NEW j \in 1..Len(pieces), NEW k \in 1..Len(pieces), j < k
      PROVE  to(j) <= from(k)
  <2>1. CASE k = 1
    BY <2>1, <1>7
  <2>2. ASSUME NEW i \in 1..m, k = 1 + i
        PROVE  to(j) <= from(k)
    <3>1. CASE j = 1
      BY <1>20, <1>21, <1>4, <2>2, <3>1
    <3>2. ASSUME NEW h \in 1..m, j = 1 + h
          PROVE  to(j) <= from(k)
      BY <1>20, <1>4, <1>7, <2>2, <3>2
    <3>3. ASSUME NEW h \in 1..w, j = 1 + m + h
          PROVE  FALSE
      BY <1>20, <1>7, <2>2, <3>3
    <3> QED BY <1>5, <3>1, <3>2, <3>3
  <2>3. ASSUME NEW i \in 1..w, k = 1 + m + i
        PROVE  to(j) <= from(k)
    <3>4. i - 1 \in Nat
      BY <1>20
    <3>0. from(k) = const(i - 1) /\ const(i - 1) \in Nat /\ offset + end <= const(i - 1)
          /\ i - 1 \in Nat
      BY <1>4, <2>3, <3>4
    <3>1. CASE j = 1
      BY <1>20, <1>21, <3>0, <3>1
    <3>2. ASSUME NEW h \in 1..m, j = 1 + h
          PROVE  to(j) <= from(k)
      BY <1>20, <1>4, <3>0, <3>2
    <3>3. ASSUME NEW h \in 1..w, j = 1 + m + h
          PROVE  to(j) <= from(k)
      <4>1. h \in Nat /\ h <= i - 1
        BY <1>20, <1>7, <2>3, <3>3
      <4>2. const(h) <= const(i - 1)
        BY <1>22, <3>0, <4>1
      <4> QED BY <1>4, <3>0, <3>3, <4>2
    <3> QED BY <1>5, <3>1, <3>2, <3>3
  <2> QED BY <1>5, <2>1, <2>2, <2>3
<1>8. \A k \in 1..Len(pieces) : PieceOf(pieces[k]) = (from(k) + 1)..to(k)
  BY DEF PieceOf, from, to
<1>9. \A k \in 1..Len(pieces) :
         PieceOf(pieces[k]) \subseteq (offset + 1)..(offset + all)
  <2> SUFFICES ASSUME NEW k \in 1..Len(pieces)
               PROVE  (from(k) + 1)..to(k) \subseteq (offset + 1)..(offset + all)
    BY <1>8
  <2> QED BY <1>6, <1>20
<1>10. ASSUME NEW j \in 1..Len(pieces), NEW k \in 1..Len(pieces), j < k
       PROVE  PieceOf(pieces[j]) \cap PieceOf(pieces[k]) = {}
  BY <1>6, <1>7, <1>8, <1>10
<1>11. \A j, k \in 1..Len(pieces) : j # k => j < k \/ k < j
  BY <1>20, <1>21
<1> QED BY <1>9, <1>10, <1>11 DEF pieces, all

LEMMA SplitIndex ==
    ASSUME NEW a \in Nat, NEW b \in Nat, NEW k \in 1..(a + b)
    PROVE  k \in 1..a \/ \E i \in 1..b : k = a + i
<1>1. CASE k <= a
  BY <1>1
<1>2. CASE ~ (k <= a)
  <2>1. k - a \in 1..b /\ k = a + (k - a)
    BY <1>2
  <2> QED BY <2>1
<1> QED BY <1>1, <1>2

(* The relocations that are applied: those of the code, then those of the  *)
(* trampolines, in the order of their offsets.                             *)
LEMMA RelocsAre ==
    ASSUME NEW blk, BlockInv(blk), HasLongJump(blk)
    PROVE  LET r == Len(blk.relocs)
               m == Len(Syms(blk))
               n == Len(blk.code)
               all == Relocs(blk)
           IN  /\ r \in Nat /\ Len(all) = r + m /\ DOMAIN all = 1..(r + m)
               /\ \A k \in 1..r : /\ all[k] = blk.relocs[k] /\ all[k] \in Reloc
                                  /\ all[k].at \in Nat /\ all[k].at < n
                                  /\ blk.code[all[k].at + 1][1] = "place"
               /\ \A i \in 1..m :
                     all[r + i] = Delayed(TrampolineAt(blk, i) + 1,
                                          Constant((Len(blk.consts) + i - 1) % ConstMod))
               /\ \A k \in 1..(r + m) : all[k].at \in Nat
               /\ \A j, k \in 1..(r + m) : j < k => all[j].at < all[k].at
<1> DEFINE r == Len(blk.relocs)
           m == Len(Syms(blk))
           n == Len(blk.code)
           c == Len(blk.consts)
           s == blk.relocs
           t == [i \in 1..m |-> Delayed(TrampolineAt(blk, i) + 1,
                                        Constant((c + i - 1) % ConstMod))]
           all == Relocs(blk)
<1>1. /\ blk \in BlockRec /\ InOrder(blk.relocs) /\ PlacesIn(blk.relocs, blk.code)
  BY DEF BlockInv
<1>2. /\ m \in Nat /\ n \in Nat /\ c \in Nat
      /\ \A i \in 1..m : TrampolineAt(blk, i) = n + 2 * (i - 1)
  BY <1>1, PartsAt, Zenon
<1>3. s \in Seq(Reloc) /\ DOMAIN s = 1..r /\ r \in Nat
      /\ \A i \in 1..r : s[i] \in Reloc
  BY <1>1, InBlock
<1>4. \A q \in Reloc : q.at \in Nat
  BY DEF Reloc
<1>5. all = s \o t
  <2>1. LongJump.places[1].at = 1
    BY DEF LongJump
  <2> QED BY <2>1 DEF Relocs
<1> HIDE DEF all, s, m, n, c, r
<1>6. \A i \in 1..m : /\ TrampolineAt(blk, i) + 1 = n + 2 * (i - 1) + 1
                      /\ n + 2 * (i - 1) + 1 \in Nat /\ n <= n + 2 * (i - 1) + 1
  <2> SUFFICES ASSUME NEW i \in 1..m
               PROVE  /\ TrampolineAt(blk, i) + 1 = n + 2 * (i - 1) + 1
                      /\ n + 2 * (i - 1) + 1 \in Nat /\ n <= n + 2 * (i - 1) + 1
    OBVIOUS
  <2>1. TrampolineAt(blk, i) = n + 2 * (i - 1)
    BY <1>2
  <2> QED BY <1>2, <2>1
<1>7. \A i \in 1..m : (c + i - 1) % ConstMod \in Nat
  <2> SUFFICES ASSUME NEW i \in 1..m PROVE (c + i - 1) % ConstMod \in Nat
    OBVIOUS
  <2>1. c + i - 1 \in Nat
    BY <1>2
  <2> QED BY <2>1, ModNat, CellAssumption
<1>8. t \in Seq(Reloc) /\ Len(t) = m /\ \A i \in 1..m : t[i].at = n + 2 * (i - 1) + 1
  <2>1. ASSUME NEW i \in 1..m
        PROVE  t[i] \in Reloc /\ t[i].at = n + 2 * (i - 1) + 1
    <3> DEFINE a == TrampolineAt(blk, i) + 1
               x == (c + i - 1) % ConstMod
    <3>1. a \in Nat /\ x \in Nat /\ a = n + 2 * (i - 1) + 1
      BY <1>6, <1>7
    <3>2. t[i] = [at |-> a, target |-> Constant(x)]
      BY DEF Delayed
    <3> HIDE DEF a, x, t
    <3>3. Constant(x) \in DelayedTo
      BY <3>1 DEF DelayedTo
    <3> QED BY <3>1, <3>2, <3>3 DEF Reloc
  <2>2. t = [i \in 1..m |-> t[i]] /\ DOMAIN t = 1..m
    OBVIOUS
  <2> HIDE DEF t
  <2>3. t \in Seq(Reloc)
    BY <1>2, <2>1, <2>2, MadeSeq
  <2> QED BY <1>2, <2>1, <2>2, <2>3
<1>9. \A i \in 1..m : t[i] = Delayed(TrampolineAt(blk, i) + 1, Constant((c + i - 1) % ConstMod))
  OBVIOUS
<1> HIDE DEF t
<1>10. /\ all \in Seq(Reloc) /\ Len(all) = r + m /\ DOMAIN all = 1..(r + m)
       /\ \A i \in 1..r : all[i] = s[i]
       /\ \A i \in 1..m : all[r + i] = t[i]
  <2>1. ASSUME NEW S, NEW p \in Seq(S), NEW q \in Seq(S)
        PROVE  /\ p \o q \in Seq(S) /\ Len(p \o q) = Len(p) + Len(q)
               /\ DOMAIN (p \o q) = 1..(Len(p) + Len(q))
               /\ \A i \in 1..Len(p) : (p \o q)[i] = p[i]
               /\ \A i \in 1..Len(q) : (p \o q)[Len(p) + i] = q[i]
    BY ConcatParts
  <2>2. Len(s) = r /\ Len(t) = m
    BY <1>8 DEF s, r
  <2>3. /\ s \o t \in Seq(Reloc) /\ Len(s \o t) = Len(s) + Len(t)
        /\ DOMAIN (s \o t) = 1..(Len(s) + Len(t))
        /\ \A i \in 1..Len(s) : (s \o t)[i] = s[i]
        /\ \A i \in 1..Len(t) : (s \o t)[Len(s) + i] = t[i]
    <3> DEFINE S == Reloc
    <3>1. s \in Seq(S) /\ t \in Seq(S)
      BY <1>3, <1>8
    <3> HIDE DEF S
    <3>2. /\ s \o t \in Seq(S) /\ Len(s \o t) = Len(s) + Len(t)
          /\ DOMAIN (s \o t) = 1..(Len(s) + Len(t))
          /\ \A i \in 1..Len(s) : (s \o t)[i] = s[i]
          /\ \A i \in 1..Len(t) : (s \o t)[Len(s) + i] = t[i]
      BY <2>1, <3>1
    <3> QED BY <3>2 DEF S
  <2> QED BY <1>5, <2>2, <2>3
<1>11. \A k \in 1..r : all[k] \in Reloc /\ all[k].at \in Nat /\ all[k].at < n
                       /\ blk.code[all[k].at + 1][1] = "place"
  BY <1>1, <1>3, <1>4, <1>10 DEF PlacesIn, s, n
<1>12. \A i \in 1..m : all[r + i].at = n + 2 * (i - 1) + 1
  BY <1>8, <1>10
<1>13. ASSUME NEW k \in 1..(r + m) PROVE all[k].at \in Nat
  <2>1. all[k] \in Reloc
    BY <1>10, ElementsOf
  <2> QED BY <1>4, <2>1
<1>14. ASSUME NEW j \in 1..(r + m), NEW k \in 1..(r + m), j < k
       PROVE  all[j].at < all[k].at
  <2>1. CASE k \in 1..r
    <3>1. j \in 1..r
      BY <1>2, <1>3, <1>14, <2>1
    <3> QED BY <1>1, <1>3, <1>10, <1>14, <2>1, <3>1 DEF InOrder, s
  <2>2. ASSUME NEW i \in 1..m, k = r + i
        PROVE  all[j].at < all[k].at
    <3>1. CASE j \in 1..r
      <4>1. all[j].at \in Nat /\ all[j].at < n
        BY <1>11, <3>1
      <4>2. all[k].at = n + 2 * (i - 1) + 1
        BY <1>12, <2>2
      <4> QED BY <1>2, <1>6, <4>1, <4>2
    <3>2. ASSUME NEW h \in 1..m, j = r + h
          PROVE  all[j].at < all[k].at
      <4>1. all[k].at = n + 2 * (i - 1) + 1 /\ all[j].at = n + 2 * (h - 1) + 1
        BY <1>12, <2>2, <3>2
      <4>2. h < i
        BY <1>2, <1>3, <1>14, <2>2, <3>2
      <4> QED BY <1>2, <4>1, <4>2
    <3>3. j \in 1..r \/ \E h \in 1..m : j = r + h
      BY <1>2, <1>3, SplitIndex
    <3> QED BY <3>1, <3>2, <3>3, Zenon
  <2>3. k \in 1..r \/ \E i \in 1..m : k = r + i
    BY <1>2, <1>3, SplitIndex
  <2> QED BY <2>1, <2>2, <2>3, Zenon
<1> QED BY <1>3, <1>9, <1>10, <1>11, <1>13, <1>14 DEF all, s, m, n, c, r

(* The cells of a block in a map.                                          *)
Cells(blk, offset) == (offset + 1)..(offset + FinalLen(blk))

(* What is written, before it is patched.                                  *)
LEMMA WrittenIs ==
    ASSUME NEW blk \in BlockRec, HasLongJump(blk),
           NEW image \in Seq(AnyCell), NEW offset \in Nat,
           offset + FinalLen(blk) <= Len(image)
    PROVE  LET new == WriteAll(image, Pieces(blk, offset))
           IN  /\ DOMAIN new = 1..Len(image)
               /\ Cells(blk, offset) \subseteq 1..Len(image)
               /\ \A i \in 1..Len(blk.code) : /\ offset + i \in Cells(blk, offset)
                                              /\ new[offset + i] = blk.code[i]
               /\ \A i \in 1..Len(Syms(blk)) :
                     LET at == offset + TrampolineAt(blk, i)
                     IN  /\ at + 1 \in Cells(blk, offset)
                         /\ at + 2 \in Cells(blk, offset)
                         /\ new[at + 1] = JmpInd
               /\ \A j \in 1..Len(Words(blk)) :
                     LET at == ConstantAt(blk, offset, j - 1)
                     IN  at + 1 \in Cells(blk, offset) /\ new[at + 1] = Word(Words(blk)[j])
<1> DEFINE m == Len(Syms(blk))
           n == Len(blk.code)
           w == Len(Words(blk))
           l == Len(image)
           R == Cells(blk, offset)
           pieces == Pieces(blk, offset)
           new == WriteAll(image, pieces)
           N == Len(pieces)
<1>1. /\ m \in Nat /\ n \in Nat /\ w \in Nat /\ Words(blk) \in Seq(Nat)
      /\ FinalLen(blk) \in Nat
      /\ \A i \in 1..m : TrampolineAt(blk, i) = n + 2 * (i - 1)
      /\ \A i \in Nat : ConstantAt(blk, offset, i) \in Nat
  BY PartsAt, Zenon
<1>2. /\ pieces \in Seq(PieceRec) /\ N = 1 + m + w
      /\ pieces[1] = [start |-> offset, cells |-> blk.code]
      /\ \A i \in 1..m :
            pieces[1 + i] = [start |-> offset + TrampolineAt(blk, i), cells |-> LongJump.code]
      /\ \A i \in 1..w :
            pieces[1 + m + i] = [start |-> ConstantAt(blk, offset, i - 1),
                                 cells |-> WordAt(Words(blk)[i])]
  BY PiecesAre, Zenon
<1>3. /\ \A k \in 1..N : PieceOf(pieces[k]) \subseteq (offset + 1)..(offset + FinalLen(blk))
      /\ \A j, k \in 1..N : j # k => PieceOf(pieces[j]) \cap PieceOf(pieces[k]) = {}
  BY PiecesApart, Zenon
<1>4. N \in Nat /\ DOMAIN pieces = 1..N
  BY <1>2, ElementsOf
<1>5. l \in Nat /\ DOMAIN image = 1..l
  BY ElementsOf
<1>6. EachWritten(image, pieces, N, new)
  BY <1>3, <1>4, WriteAllExact
<1>7. \A v \in Nat : Len(WordAt(v)) = WordCells /\ WordCells \in Nat \ {0}
                     /\ WordAt(v)[1] = Word(v)
  <2> SUFFICES ASSUME NEW v \in Nat
               PROVE  /\ Len(WordAt(v)) = WordCells /\ WordCells \in Nat \ {0}
                      /\ WordAt(v)[1] = Word(v)
    OBVIOUS
  <2> DEFINE rest == [i \in 1..(WordCells - 1) |-> Pad]
             a == <<Word(v)>>
  <2>1. WordCells \in Nat \ {0}
    BY CellAssumption
  <2>2. Pad \in AnyCell /\ Word(v) \in AnyCell
    BY DEF Pad, Word, AnyCell, Cell
  <2>3. rest \in Seq(AnyCell) /\ a \in Seq(AnyCell) /\ Len(a) = 1 /\ a[1] = Word(v)
    BY <2>1, <2>2
  <2> HIDE DEF rest, a
  <2>4. (a \o rest)[1] = a[1]
    <3>1. ASSUME NEW S, NEW p \in Seq(S), NEW q \in Seq(S)
          PROVE  \A i \in 1..Len(p) : (p \o q)[i] = p[i]
      BY ConcatParts
    <3>2. \A i \in 1..Len(a) : (a \o rest)[i] = a[i]
      BY <2>3, <3>1
    <3>3. 1 \in 1..Len(a)
      BY <2>3
    <3> QED BY <3>2, <3>3
  <2>5. WordAt(v) = a \o rest
    BY DEF WordAt, a, rest
  <2> QED BY <2>1, <2>3, <2>4, <2>5, WordsAre
<1> HIDE DEF m, n, w, l, R, pieces, new, N
<1>8. DOMAIN new = 1..l
  BY <1>5, <1>6 DEF EachWritten
<1>13. R \subseteq 1..l
  <2> DEFINE f == FinalLen(blk)
  <2>1. offset + f <= l /\ f \in Nat /\ l \in Nat /\ R = (offset + 1)..(offset + f)
    BY <1>1, <1>5 DEF l, R, Cells
  <2> HIDE DEF f
  <2> QED BY <2>1
<1>14. /\ 1 \in 1..N
       /\ \A i \in 1..m : 1 + i \in 1..N
       /\ \A i \in 1..w : 1 + m + i \in 1..N
  <2>1. N = 1 + m + w /\ m \in Nat /\ w \in Nat
    BY <1>1, <1>2, Zenon
  <2> QED BY ONLY <2>1
<1>9. ASSUME NEW k \in 1..N, NEW i \in 1..Len(pieces[k].cells),
             pieces[k].start \in Nat, Len(pieces[k].cells) \in Nat
      PROVE  /\ pieces[k].start + i \in R
             /\ new[pieces[k].start + i] = pieces[k].cells[i]
  <2> DEFINE x == pieces[k].start + i
  <2>1. x \in PieceOf(pieces[k]) /\ x - pieces[k].start = i
    <3> DEFINE s == pieces[k].start
               c == Len(pieces[k].cells)
    <3>1. s \in Nat /\ c \in Nat /\ i \in 1..c /\ x = s + i
      BY <1>9
    <3> HIDE DEF s, c, x
    <3>2. x \in (s + 1)..(s + c) /\ x - s = i
      BY <3>1
    <3> QED BY <3>2 DEF PieceOf, s, c
  <2>2. x \in R
    <3> HIDE DEF x
    <3> QED BY <1>3, <2>1 DEF R, Cells
  <2> HIDE DEF x
  <2>3. new[x] = pieces[k].cells[x - pieces[k].start]
    BY <1>5, <1>6, <1>13, <2>1, <2>2 DEF EachWritten
  <2> QED BY <2>1, <2>2, <2>3 DEF x
<1>10. ASSUME NEW i \in 1..n
       PROVE  offset + i \in R /\ new[offset + i] = blk.code[i]
  <2>1. 1 \in 1..N
    BY <1>14, Zenon
  <2>2. pieces[1].start = offset /\ pieces[1].cells = blk.code /\ Len(blk.code) = n
    BY <1>2 DEF n
  <2> QED BY <1>1, <1>9, <2>1, <2>2
<1>11. ASSUME NEW i \in 1..m
       PROVE  LET at == offset + TrampolineAt(blk, i)
              IN  at + 1 \in R /\ at + 2 \in R /\ new[at + 1] = JmpInd
  <2> DEFINE t == TrampolineAt(blk, i)
             k == 1 + i
  <2>1. k \in 1..N
    BY <1>14, Zenon
  <2>2. pieces[k] = [start |-> offset + t, cells |-> LongJump.code]
    BY <1>2
  <2>3. Len(LongJump.code) = 2 /\ LongJump.code[1] = JmpInd
    BY DEF LongJump
  <2>4. pieces[k].start = offset + t /\ Len(pieces[k].cells) = 2 /\ pieces[k].cells[1] = JmpInd
    BY <2>2, <2>3
  <2>5. offset + t \in Nat
    <3>1. t = n + 2 * (i - 1)
      BY <1>1
    <3> HIDE DEF t
    <3> QED BY <1>1, <3>1
  <2> HIDE DEF k, t
  <2>6. 1 \in 1..2 /\ 2 \in 1..2 /\ 2 \in Nat
    OBVIOUS
  <2> QED BY <1>9, <2>1, <2>4, <2>5, <2>6 DEF t
<1>12. ASSUME NEW j \in 1..w
       PROVE  LET at == ConstantAt(blk, offset, j - 1)
              IN  at + 1 \in R /\ new[at + 1] = Word(Words(blk)[j])
  <2> DEFINE c == ConstantAt(blk, offset, j - 1)
             k == 1 + m + j
             v == Words(blk)[j]
  <2>1. k \in 1..N
    BY <1>14, Zenon
  <2>2. pieces[k] = [start |-> c, cells |-> WordAt(v)]
    BY <1>2
  <2>3. v \in Nat
    BY <1>1, ElementsOf, Zenon DEF w
  <2>4. j - 1 \in Nat
    BY <1>1
  <2>5. c \in Nat
    BY <1>1, <2>4, Zenon
  <2> HIDE DEF c, k, v
  <2>6. pieces[k].start = c /\ pieces[k].cells = WordAt(v)
    BY <2>2
  <2>7. 1 \in 1..WordCells /\ Len(WordAt(v)) = WordCells /\ WordAt(v)[1] = Word(v)
        /\ WordCells \in Nat
    BY <1>7, <2>3
  <2> QED BY <1>9, <2>1, <2>5, <2>6, <2>7 DEF c, v
<1> QED BY <1>8, <1>10, <1>11, <1>12, <1>13 DEF m, n, w, l, R, pieces, new

(* What the image has of a block at an offset, once the block is finalized *)
(* into it: its code, what its relocations lead to, its trampolines and    *)
(* its constants.                                                          *)
InPlace(blk, offset, offs, image) ==
    LET c == Len(blk.consts)
    IN  /\ \A i \in 1..Len(blk.code) :
              /\ offset + i \in Cells(blk, offset)
              /\ (\A r \in Range(blk.relocs) : r.at # i - 1) =>
                    image[offset + i] = blk.code[i]
        /\ \A r \in Range(blk.relocs) :
              /\ offset + r.at + 1 \in Cells(blk, offset)
              /\ image[offset + r.at + 1]
                   = Place(TargetOf(blk, offset, offs, r) - (offset + r.at) - 1)
        /\ \A i \in 1..Len(Syms(blk)) :
              LET at == offset + TrampolineAt(blk, i)
              IN  /\ at + 1 \in Cells(blk, offset) /\ at + 2 \in Cells(blk, offset)
                  /\ image[at + 1] = JmpInd
                  /\ image[at + 2]
                       = Place(ConstantAt(blk, offset, (c + i - 1) % ConstMod)
                                 - (at + 1) - 1)
        /\ \A j \in 1..Len(Words(blk)) :
              LET at == ConstantAt(blk, offset, j - 1)
              IN  at + 1 \in Cells(blk, offset) /\ image[at + 1] = Word(Words(blk)[j])

(* A finalized block, exactly: the code with every place leading to its    *)
(* target, the trampolines, and the words they and the code refer to.      *)
LEMMA FinalizeExact ==
    ASSUME NEW blk, BlockInv(blk), HasLongJump(blk),
           NEW image \in Seq(AnyCell), NEW offset \in Nat,
           offset + FinalLen(blk) <= Len(image), NEW offs
    PROVE  InPlace(blk, offset, offs, FinalizeInto(blk, image, offset, offs))
<1> DEFINE m == Len(Syms(blk))
           n == Len(blk.code)
           w == Len(Words(blk))
           l == Len(image)
           R == Cells(blk, offset)
           r == Len(blk.relocs)
           all == Relocs(blk)
           old == WriteAll(image, Pieces(blk, offset))
           patches == Patches(blk, offset, offs)
           new == PatchAll(old, patches)
           to(q) == TargetOf(blk, offset, offs, q)
           const(i) == ConstantAt(blk, offset, i)
           tramp(i) == TrampolineAt(blk, i)
<1>1. blk \in BlockRec
  BY DEF BlockInv
<1>2. /\ m \in Nat /\ n \in Nat /\ w \in Nat
      /\ \A i \in 1..m : tramp(i) = n + 2 * (i - 1)
      /\ \A i \in Nat : const(i) \in Nat /\ offset + CodeEnd(blk) <= const(i)
      /\ CodeEnd(blk) = n + 2 * m
  BY <1>1, PartsAt, Zenon
<1>3. /\ DOMAIN old = 1..l
      /\ R \subseteq 1..l
      /\ \A i \in 1..n : offset + i \in R /\ old[offset + i] = blk.code[i]
      /\ \A i \in 1..m : /\ offset + tramp(i) + 1 \in R /\ offset + tramp(i) + 2 \in R
                         /\ old[offset + tramp(i) + 1] = JmpInd
      /\ \A j \in 1..w : const(j - 1) + 1 \in R /\ old[const(j - 1) + 1] = Word(Words(blk)[j])
  BY <1>1, WrittenIs, Zenon
<1>4. /\ r \in Nat /\ Len(all) = r + m /\ DOMAIN all = 1..(r + m)
      /\ \A k \in 1..r : all[k] = blk.relocs[k] /\ all[k].at \in Nat /\ all[k].at < n
      /\ \A i \in 1..m :
            all[r + i] = Delayed(tramp(i) + 1, Constant((Len(blk.consts) + i - 1) % ConstMod))
      /\ \A k \in 1..(r + m) : all[k].at \in Nat
      /\ \A j, k \in 1..(r + m) : j < k => all[j].at < all[k].at
  BY RelocsAre, Zenon
<1>5. /\ DOMAIN patches = 1..(r + m)
      /\ \A k \in 1..(r + m) : patches[k].at = offset + all[k].at /\ patches[k].to = to(all[k])
  <2> HIDE DEF all, r, m, to
  <2>1. patches = [k \in 1..Len(all) |-> [at |-> offset + all[k].at, to |-> to(all[k])]]
    BY DEF Patches, all, to
  <2> QED BY <1>4, <2>1
<1> HIDE DEF all, r, m, n, w, l, R, patches, old, new, to, const, tramp
<1>16. m \in Nat /\ n \in Nat /\ w \in Nat /\ r \in Nat /\ CodeEnd(blk) = n + 2 * m
  BY <1>2, <1>4
<1>6. ASSUME NEW j \in 1..(r + m), NEW k \in 1..(r + m), j # k
      PROVE  all[j].at # all[k].at
  <2>1. j < k \/ k < j
    BY <1>2, <1>4, <1>6
  <2>2. all[j].at \in Nat /\ all[k].at \in Nat
    BY <1>4
  <2>3. j < k => all[j].at < all[k].at
    BY <1>4
  <2>4. k < j => all[k].at < all[j].at
    BY <1>4
  <2> QED BY <2>1, <2>2, <2>3, <2>4
<1>7. EachPatched(old, patches, r + m, new)
  <2>1. r + m \in Nat
    BY <1>2, <1>4
  <2>2. \A k \in 1..(r + m) : patches[k].at \in Int
    BY <1>4, <1>5
  <2>3. \A j, k \in 1..(r + m) : j # k => patches[j].at # patches[k].at
    <3> SUFFICES ASSUME NEW j \in 1..(r + m), NEW k \in 1..(r + m), j # k
                 PROVE  patches[j].at # patches[k].at
      OBVIOUS
    <3>1. /\ patches[j].at = offset + all[j].at /\ patches[k].at = offset + all[k].at
          /\ all[j].at \in Nat /\ all[k].at \in Nat /\ all[j].at # all[k].at
      BY <1>4, <1>5, <1>6
    <3> QED BY <3>1
  <2> QED BY <1>5, <2>1, <2>2, <2>3, PatchAllExact DEF new
<1>8. ASSUME NEW x \in R, \A k \in 1..(r + m) : x # offset + all[k].at + 1
      PROVE  new[x] = old[x]
  BY <1>3, <1>5, <1>7, <1>8 DEF EachPatched
<1>9. ASSUME NEW k \in 1..(r + m), offset + all[k].at + 1 \in R
      PROVE  new[offset + all[k].at + 1] = Place(to(all[k]) - (offset + all[k].at) - 1)
  BY <1>3, <1>5, <1>7, <1>9 DEF EachPatched
<1>10. \A k \in 1..(r + m) :
          \/ k \in 1..r /\ all[k] = blk.relocs[k] /\ all[k].at \in Nat /\ all[k].at < n
          \/ \E i \in 1..m : k = r + i /\ all[k].at = n + 2 * (i - 1) + 1
  <2> SUFFICES ASSUME NEW k \in 1..(r + m), k \notin 1..r
               PROVE  \E i \in 1..m : k = r + i /\ all[k].at = n + 2 * (i - 1) + 1
    BY <1>4
  <2>1. PICK i \in 1..m : k = r + i
    BY <1>16, SplitIndex
  <2>2. tramp(i) = n + 2 * (i - 1)
    BY <1>2
  <2>3. all[k] = Delayed(tramp(i) + 1, Constant((Len(blk.consts) + i - 1) % ConstMod))
    BY <1>4, <2>1
  <2>4. all[k].at = tramp(i) + 1
    BY <2>3 DEF Delayed
  <2> QED BY <2>1, <2>2, <2>4
<1>11. ASSUME NEW i \in 1..n, \A q \in Range(blk.relocs) : q.at # i - 1
       PROVE  new[offset + i] = blk.code[i]
  <2>1. ASSUME NEW k \in 1..(r + m) PROVE offset + i # offset + all[k].at + 1
    <3>1. CASE k \in 1..r /\ all[k] = blk.relocs[k] /\ all[k].at \in Nat
      <4>1. all[k] \in Range(blk.relocs)
        <5>1. DOMAIN blk.relocs = 1..r
          BY <1>1, InBlock DEF r
        <5> QED BY <3>1, <5>1 DEF Range
      <4>2. all[k].at # i - 1
        BY <1>11, <4>1
      <4> DEFINE a == all[k].at
      <4>3. a \in Nat /\ a # i - 1
        BY <3>1, <4>2
      <4> HIDE DEF a
      <4>4. offset + i # offset + a + 1
        BY <1>16, <4>3
      <4> QED BY <4>4 DEF a
    <3>2. ASSUME NEW h \in 1..m, all[k].at = n + 2 * (h - 1) + 1
          PROVE  offset + i # offset + all[k].at + 1
      BY <1>2, <3>2
    <3> QED BY <1>10, <3>1, <3>2
  <2> QED BY <1>3, <1>8, <2>1
<1>12. ASSUME NEW q \in Range(blk.relocs)
       PROVE  /\ offset + q.at + 1 \in R
              /\ new[offset + q.at + 1] = Place(to(q) - (offset + q.at) - 1)
  <2>1. PICK k \in 1..r : q = blk.relocs[k]
    <3>1. DOMAIN blk.relocs = 1..r
      BY <1>1, InBlock DEF r
    <3> QED BY <3>1 DEF Range
  <2>2. k \in 1..(r + m) /\ all[k] = q /\ q.at \in Nat /\ q.at < n
    <3>1. all[k] = q /\ q.at \in Nat /\ q.at < n
      BY <1>4, <2>1
    <3>2. k \in 1..(r + m)
      BY <1>16
    <3> QED BY <3>1, <3>2
  <2> DEFINE a == q.at
  <2>3. a + 1 \in 1..n /\ offset + (a + 1) = offset + a + 1
    <3>1. a \in Nat /\ a < n
      BY <2>2
    <3> HIDE DEF a
    <3> QED BY <1>16, <3>1
  <2>4. offset + a + 1 \in R
    BY <1>3, <2>3
  <2> QED BY <1>9, <2>2, <2>4
<1>13. ASSUME NEW i \in 1..m
       PROVE  /\ new[offset + tramp(i) + 1] = JmpInd
              /\ new[offset + tramp(i) + 2]
                   = Place(const((Len(blk.consts) + i - 1) % ConstMod)
                             - (offset + tramp(i) + 1) - 1)
  <2> DEFINE x == offset + tramp(i) + 1
             k == r + i
             c == (Len(blk.consts) + i - 1) % ConstMod
  <2>1. tramp(i) = n + 2 * (i - 1) /\ tramp(i) \in Int /\ x \in R
    <3>1. tramp(i) = n + 2 * (i - 1) /\ x \in R
      BY <1>2, <1>3
    <3>2. n + 2 * (i - 1) \in Int
      BY <1>2
    <3> QED BY <3>1, <3>2
  <2> HIDE DEF k, c
  <2>2. ASSUME NEW h \in 1..(r + m) PROVE x # offset + all[h].at + 1
    <3> DEFINE a == all[h].at
    <3>1. (a \in Nat /\ a < n) \/ \E g \in 1..m : a = n + 2 * (g - 1) + 1
      BY <1>10
    <3> HIDE DEF a
    <3>2. x # offset + a + 1
      BY <1>16, <2>1, <3>1
    <3> QED BY <3>2 DEF a
  <2>3. new[x] = JmpInd
    BY <1>3, <1>8, <2>1, <2>2
  <2>4. k \in 1..(r + m) /\ all[k] = Delayed(tramp(i) + 1, Constant(c))
    <3>1. k \in 1..(r + m)
      BY <1>16 DEF k
    <3>2. all[k] = Delayed(tramp(i) + 1, Constant(c))
      BY <1>4 DEF k, c
    <3> QED BY <3>1, <3>2
  <2>5. all[k].at = tramp(i) + 1 /\ all[k].target = Constant(c)
    BY <2>4 DEF Delayed
  <2> HIDE DEF k, c, x
  <2>6. to(all[k]) = const(c)
    BY <2>5 DEF to, TargetOf, const, Constant
  <2>7. offset + (tramp(i) + 1) + 1 = offset + tramp(i) + 2
    BY <2>1
  <2>8. offset + tramp(i) + 2 \in R
    BY <1>3
  <2>9. new[offset + (tramp(i) + 1) + 1] = Place(to(all[k]) - (offset + (tramp(i) + 1)) - 1)
    BY <1>9, <2>4, <2>5, <2>7, <2>8
  <2>10. offset + (tramp(i) + 1) = offset + tramp(i) + 1
    BY <2>1
  <2> QED BY <2>3, <2>6, <2>7, <2>9, <2>10 DEF x, c
<1>14. ASSUME NEW j \in 1..w
       PROVE  new[const(j - 1) + 1] = Word(Words(blk)[j])
  <2> DEFINE x == const(j - 1)
  <2>1. j - 1 \in Nat
    BY <1>2
  <2>2. x \in Nat /\ offset + CodeEnd(blk) <= x /\ CodeEnd(blk) = n + 2 * m
    BY <1>2, <2>1, Zenon
  <2>3. x + 1 \in R /\ old[x + 1] = Word(Words(blk)[j])
    BY <1>3
  <2> HIDE DEF x
  <2>4. ASSUME NEW h \in 1..(r + m) PROVE x + 1 # offset + all[h].at + 1
    <3> DEFINE a == all[h].at
    <3>1. (a \in Nat /\ a < n) \/ \E g \in 1..m : a = n + 2 * (g - 1) + 1
      BY <1>10
    <3> HIDE DEF a
    <3>2. x + 1 # offset + a + 1
      BY <1>16, <2>2, <3>1
    <3> QED BY <3>2 DEF a
  <2> QED BY <1>8, <2>3, <2>4 DEF x
<1>15. FinalizeInto(blk, image, offset, offs) = new
  BY FinalizeIs DEF new, old, patches
<1> QED BY <1>3, <1>11, <1>12, <1>13, <1>14, <1>15, Zenon DEF InPlace, m, n, w, R, to, const, tramp

-----------------------------------------------------------------------------

(* The place at offset `at` of a block holds n for good.                   *)
Untouched(blk, at) == \A r \in Range(blk.relocs) \cup Range(blk.nexts) : r.at # at

Holding(blk, at, n) == blk.code[at + 1] = Place(n) /\ Untouched(blk, at)

Waits(blk, at, target) == Delayed(at, target) \in Range(blk.relocs)

(* A place of a stencil t has its operand, or waits for a relocation to    *)
(* it; on is the offset of the stencil after t, and t is open while there  *)
(* is none.                                                                *)
PlaceKept(blk, t, p, on, open) ==
    LET at == t.start + p.at
        jump == t.args.jumps[p.id]
    IN  /\ (p.kind = "Hole" /\ ~ t.wide) => Holding(blk, at, t.args.hole)
        /\ (p.kind = "Hole" /\ t.wide) =>
              \E i \in DOMAIN blk.consts :
                 /\ blk.consts[i] = t.args.hole
                 /\ Waits(blk, at, Constant((i - 1) % ConstMod))
        /\ p.kind = "Stack" => Holding(blk, at, t.args.stack)
        /\ p.kind = "Runtime" => Waits(blk, at, Runtime(p.id))
        /\ (p.kind = "Target" /\ jump = Next /\ open) =>
              /\ Delayed(at, Next) \in Range(blk.nexts)
              /\ \A r \in Range(blk.relocs) : r.at # at
        /\ (p.kind = "Target" /\ jump = Next /\ ~ open) => Holding(blk, at, on - at - 1)
        /\ (p.kind = "Target" /\ jump # Next) => Waits(blk, at, jump)

(* The code of a stencil is the block's from t.start to on: its places are *)
(* places there, and the rest is the stencil's own.                        *)
StencilKept(blk, t, on, open) ==
    LET st == t.stencil
    IN  /\ \/ on = t.start + Len(st.code)
           \/ ~ open /\ GoesOn(t) /\ on = t.start + Len(st.code) - 2
        /\ on <= Len(blk.code)
        /\ \A i \in 1..(on - t.start) :
              \/ blk.code[t.start + i] = st.code[i]
              \/ st.code[i][1] = "place" /\ blk.code[t.start + i][1] = "place"
        /\ \A p \in Range(st.places) :
              t.start + p.at < on => PlaceKept(blk, t, p, on, open)

(* What a stencil in a block is known to be, from StencilOK.               *)
WellFormed(t) ==
    LET st == t.stencil
    IN  /\ t.start \in Nat
        /\ st.code \in Seq(CodeCell) /\ st.code # <<>> /\ st.places \in Seq(PlaceRec)
        /\ \A p \in Range(st.places) : p.at > 0 /\ p.at < Len(st.code)
        /\ \A i \in DOMAIN st.code :
              st.code[i] = Jmp =>
                \E p \in Range(st.places) : p.at = i /\ p.kind \in {"Target", "Runtime"}

(* The code of a block is its stencils, one behind the other; the jumps    *)
(* that wait for the next stencil are of the last.                         *)
CodeInv(blk, ts) ==
    /\ \A k \in DOMAIN ts : WellFormed(ts[k])
    /\ ts = <<>> => blk.code = <<>> /\ blk.nexts = <<>>
    /\ ts # <<>> =>
          LET last == ts[Len(ts)]
          IN  /\ ts[1].start = 0
              /\ StencilKept(blk, last, Len(blk.code), TRUE)
              /\ \A r \in Range(blk.nexts) :
                    \E p \in Range(last.stencil.places) : r.at = last.start + p.at
              /\ \A k \in 1..(Len(ts) - 1) :
                    /\ ts[k + 1].start <= last.start
                    /\ StencilKept(blk, ts[k], ts[k + 1].start, FALSE)

(* A block keeps what another has below an offset.                         *)
KeptBelow(old, new, top) ==
    /\ top <= Len(new.code)
    /\ \A i \in 1..top : new.code[i] = old.code[i]
    /\ \A r \in Range(old.relocs) : r \in Range(new.relocs)
    /\ \A r \in Range(new.relocs) \cup Range(new.nexts) :
          r.at < top => r \in Range(old.relocs) \cup Range(old.nexts)
    /\ \A i \in DOMAIN old.consts :
          i \in DOMAIN new.consts /\ new.consts[i] = old.consts[i]

LEMMA StencilStays ==
    ASSUME NEW old, NEW new, NEW top \in Nat, Len(new.code) \in Nat, NEW t, WellFormed(t),
           NEW on \in Nat, on <= top,
           KeptBelow(old, new, top), StencilKept(old, t, on, FALSE)
    PROVE  StencilKept(new, t, on, FALSE)
<1> DEFINE st == t.stencil
<1>1. /\ on = t.start + Len(st.code) \/ (GoesOn(t) /\ on = t.start + Len(st.code) - 2)
      /\ \A i \in 1..(on - t.start) :
              \/ old.code[t.start + i] = st.code[i]
              \/ st.code[i][1] = "place" /\ old.code[t.start + i][1] = "place"
      /\ \A p \in Range(st.places) :
            t.start + p.at < on => PlaceKept(old, t, p, on, FALSE)
  BY DEF StencilKept
<1>2. t.start \in Nat /\ \A p \in Range(st.places) : p.at \in Nat
  <2>1. st.places \in Seq(PlaceRec) /\ t.start \in Nat
    BY DEF WellFormed
  <2>2. \A i \in DOMAIN st.places : st.places[i] \in PlaceRec
    BY <2>1
  <2> QED BY <2>1, <2>2 DEF Range, PlaceRec
<1>3. \A i \in 1..top : new.code[i] = old.code[i]
  BY DEF KeptBelow
<1> HIDE DEF st
<1>4. ASSUME NEW i \in 1..(on - t.start)
      PROVE  new.code[t.start + i] = old.code[t.start + i]
  <2>1. t.start + i \in 1..top
    BY <1>2
  <2> QED BY <1>3, <2>1
<1>5. ASSUME NEW p \in Range(st.places), t.start + p.at < on
      PROVE  PlaceKept(new, t, p, on, FALSE)
  <2> DEFINE at == t.start + p.at
             jump == t.args.jumps[p.id]
  <2>1. PlaceKept(old, t, p, on, FALSE)
    BY <1>1, <1>5
  <2>2. at + 1 \in 1..top /\ at < top
    BY <1>2, <1>5
  <2>3. /\ (p.kind = "Hole" /\ ~ t.wide) => Holding(old, at, t.args.hole)
        /\ (p.kind = "Hole" /\ t.wide) =>
              \E i \in DOMAIN old.consts :
                 /\ old.consts[i] = t.args.hole
                 /\ Waits(old, at, Constant((i - 1) % ConstMod))
        /\ p.kind = "Stack" => Holding(old, at, t.args.stack)
        /\ p.kind = "Runtime" => Waits(old, at, Runtime(p.id))
        /\ (p.kind = "Target" /\ jump = Next) => Holding(old, at, on - at - 1)
        /\ (p.kind = "Target" /\ jump # Next) => Waits(old, at, jump)
    BY <2>1 DEF PlaceKept
  <2> HIDE DEF at, jump
  <2>4. ASSUME NEW n, Holding(old, at, n) PROVE Holding(new, at, n)
    <3>1. new.code[at + 1] = Place(n)
      BY <1>3, <2>2, <2>4 DEF Holding
    <3>2. Untouched(new, at)
      BY <2>2, <2>4 DEF Holding, Untouched, KeptBelow
    <3> QED BY <3>1, <3>2 DEF Holding
  <2>5. ASSUME NEW target, Waits(old, at, target) PROVE Waits(new, at, target)
    BY <2>5 DEF Waits, KeptBelow
  <2>6. (p.kind = "Hole" /\ t.wide) =>
              \E i \in DOMAIN new.consts :
                 /\ new.consts[i] = t.args.hole
                 /\ Waits(new, at, Constant((i - 1) % ConstMod))
    BY <2>3, <2>5 DEF KeptBelow
  <2>7. /\ (p.kind = "Hole" /\ ~ t.wide) => Holding(new, at, t.args.hole)
        /\ p.kind = "Stack" => Holding(new, at, t.args.stack)
        /\ (p.kind = "Target" /\ jump = Next) => Holding(new, at, on - at - 1)
    BY <2>3, <2>4
  <2>8. /\ p.kind = "Runtime" => Waits(new, at, Runtime(p.id))
        /\ (p.kind = "Target" /\ jump # Next) => Waits(new, at, jump)
    BY <2>3, <2>5
  <2> QED BY <2>6, <2>7, <2>8 DEF PlaceKept, at, jump
<1>6. on <= Len(new.code)
  BY DEF KeptBelow
<1> QED BY <1>1, <1>4, <1>5, <1>6 DEF StencilKept, st

(* The last of the relocations in order is the one furthest on.            *)
LEMMA LastIsLargest ==
    ASSUME NEW S, \A q \in S : q.at \in Nat, NEW rs \in Seq(S), rs # <<>>, InOrder(rs)
    PROVE  /\ Last(rs) \in Range(rs) /\ Last(rs).at \in Nat
           /\ DOMAIN Front(rs) = 1..(Len(rs) - 1) /\ Len(rs) \in Nat \ {0}
           /\ \A i \in 1..(Len(rs) - 1) :
                 Front(rs)[i] = rs[i] /\ rs[i].at \in Nat /\ rs[i].at < Last(rs).at
           /\ \A r \in Range(rs) : r.at \in Nat /\ r.at <= Last(rs).at
           /\ \A r \in Range(rs) : r = Last(rs) \/ \E i \in 1..(Len(rs) - 1) : r = rs[i]
<1> DEFINE n == Len(rs)
           last == rs[n]
           front == Front(rs)
<1>1. n \in Nat \ {0} /\ DOMAIN rs = 1..n /\ \A i \in 1..n : rs[i] \in S
  BY EmptySeq
<1>2. DOMAIN front = 1..(n - 1) /\ \A i \in 1..(n - 1) : front[i] = rs[i]
  BY <1>1 DEF Front
<1>3. Last(rs) = last
  BY DEF Last
<1>4. \A i \in 1..n : rs[i].at \in Nat
  BY <1>1
<1> HIDE DEF n, front
<1>5. n \in 1..n /\ \A i \in 1..n : i = n \/ (i \in 1..(n - 1) /\ i < n)
  BY <1>1
<1>6. \A i \in 1..(n - 1) : i \in 1..n /\ i < n
  BY <1>1
<1>7. \A i \in 1..(n - 1) : rs[i].at \in Nat /\ rs[i].at < last.at
  BY <1>1, <1>4, <1>5, <1>6 DEF InOrder
<1>8. last \in Range(rs) /\ last.at \in Nat
  BY <1>1, <1>4, <1>5 DEF Range
<1>9. \A r \in Range(rs) : \E i \in 1..n : r = rs[i]
  BY <1>1 DEF Range
<1>10. \A r \in Range(rs) : r.at \in Nat /\ r.at <= last.at
  <2> SUFFICES ASSUME NEW i \in 1..n PROVE rs[i].at \in Nat /\ rs[i].at <= last.at
    BY <1>9
  <2>1. CASE i = n
    BY <1>8, <2>1
  <2>2. CASE i \in 1..(n - 1)
    BY <1>7, <1>8, <2>2
  <2> QED BY <1>5, <2>1, <2>2
<1> QED BY <1>1, <1>2, <1>3, <1>5, <1>7, <1>8, <1>9, <1>10 DEF n, front

LEMMA RelocAt ==
    (\A q \in Reloc : q.at \in Nat) /\ (\A q \in NextReloc : q.at \in Nat)
<1> QED BY DEF Reloc, NextReloc

(* Only a last stencil that goes on is pruned, of its last jump.           *)
LEMMA PrunedIsLast ==
    ASSUME NEW blk, BlockInv(blk), blk.nexts # <<>>, Prunable(blk), NEW t, WellFormed(t),
           StencilKept(blk, t, Len(blk.code), TRUE),
           \A r \in Range(blk.nexts) : \E p \in Range(t.stencil.places) : r.at = t.start + p.at
    PROVE  /\ Last(blk.nexts).at = Len(blk.code) - 1 /\ GoesOn(t)
           /\ Len(blk.code) = t.start + Len(t.stencil.code) /\ Len(t.stencil.code) >= 2
<1> DEFINE N == Len(blk.code)
           last == Last(blk.nexts)
           l == last.at
           cell == Place(N - l - 1)
           patched == Patch(blk.code, last, N)
           st == t.stencil
           L == Len(st.code)
<1>1. /\ blk \in BlockRec /\ InOrder(blk.relocs) /\ InOrder(blk.nexts)
      /\ PlacesIn(blk.nexts, blk.code)
  BY DEF BlockInv
<1>2. /\ blk.code \in Seq(CodeCell) /\ DOMAIN blk.code = 1..N /\ N \in Nat
      /\ blk.relocs \in Seq(Reloc) /\ blk.nexts \in Seq(NextReloc)
  BY <1>1, InBlock
<1>3. last \in Range(blk.nexts) /\ l \in Nat /\ \A r \in Range(blk.nexts) : r.at <= l
  BY <1>1, <1>2, RelocAt, LastIsLargest
<1>4. \A r \in Range(blk.relocs) : r.at \in Nat /\ r.at < l
  <2>1. CASE blk.relocs = <<>>
    BY <2>1 DEF Range
  <2>2. CASE blk.relocs # <<>>
    <3> DEFINE k == Last(blk.relocs).at
    <3>1. k \in Nat /\ \A r \in Range(blk.relocs) : r.at \in Nat /\ r.at <= k
      BY <1>1, <1>2, <2>2, RelocAt, LastIsLargest
    <3>2. l > k
      BY <2>2 DEF Prunable, LastRelocAt
    <3> HIDE DEF k, l
    <3> QED BY <1>3, <3>1, <3>2 DEF l
  <2> QED BY <2>1, <2>2
<1>5. l < N
  BY <1>1, <1>3 DEF PlacesIn, Range
<1>6. /\ patched \in Seq(CodeCell) /\ Len(patched) = N
      /\ \A i \in 1..N : patched[i] = IF i = l + 1 THEN cell ELSE blk.code[i]
  <2>1. cell \in CodeCell
    BY <1>2, <1>3 DEF Place, CodeCell, Cell
  <2>2. patched = [blk.code EXCEPT ![l + 1] = cell]
    BY DEF Patch
  <2>3. l + 1 \in 1..N
    <3> HIDE DEF l, N
    <3>1. l \in Nat
      BY <1>3
    <3> QED BY <1>2, <1>5, <3>1
  <2> HIDE DEF cell, l, patched
  <2> QED BY <1>2, <2>1, <2>2, <2>3
<1> HIDE DEF patched
<1>7. EndsWith(patched, Empty)
  BY DEF Prunable, patched
<1>8. N >= 2 /\ patched[N - 1] = Jmp
  BY <1>6, <1>7, EndsWithEmpty
<1>9. blk.code[N - 1] = Jmp
  <2>1. cell # Jmp
    BY DEF Place, Jmp
  <2>2. N - 1 \in 1..N
    BY <1>2, <1>8
  <2> HIDE DEF cell, l
  <2> QED BY <1>6, <1>8, <2>1, <2>2
<1>10. /\ t.start \in Nat /\ L \in Nat /\ DOMAIN st.code = 1..L
       /\ \A p \in Range(st.places) : p.at \in Nat /\ p.at > 0 /\ p.at < L
       /\ \A i \in 1..L :
             st.code[i] = Jmp =>
               \E p \in Range(st.places) : p.at = i /\ p.kind \in {"Target", "Runtime"}
  <2>1. st.places \in Seq(PlaceRec) /\ st.code \in Seq(CodeCell)
    BY DEF WellFormed
  <2>2. L \in Nat /\ DOMAIN st.code = 1..L
    BY <2>1
  <2>3. \A i \in DOMAIN st.places : st.places[i] \in PlaceRec
    BY <2>1
  <2>4. \A p \in Range(st.places) : p.at \in Nat
    BY <2>3 DEF Range, PlaceRec
  <2> QED BY <2>2, <2>4 DEF WellFormed
<1>11. /\ N = t.start + L
       /\ \A i \in 1..(N - t.start) :
              \/ blk.code[t.start + i] = st.code[i]
              \/ st.code[i][1] = "place" /\ blk.code[t.start + i][1] = "place"
       /\ \A p \in Range(st.places) :
              t.start + p.at < N => PlaceKept(blk, t, p, N, TRUE)
  BY DEF StencilKept
<1>12. L >= 2
  <2>1. PICK p \in Range(st.places) : l = t.start + p.at
    BY <1>3
  <2> HIDE DEF L, l
  <2> QED BY <1>10, <2>1
<1>13. st.code[L - 1] = Jmp
  <2> DEFINE i == L - 1
  <2>1. i \in 1..(N - t.start) /\ t.start + i = N - 1
    <3> HIDE DEF N, L, st
    <3> QED BY <1>10, <1>11, <1>12
  <2>2. blk.code[t.start + i] = Jmp
    BY <1>9, <2>1
  <2>3. Jmp[1] # "place"
    BY DEF Jmp
  <2> HIDE DEF i, st
  <2>4. st.code[i] = Jmp
    BY <1>11, <2>1, <2>2, <2>3
  <2> QED BY <2>4 DEF i
<1>14. PICK q \in Range(st.places) : q.at = L - 1 /\ q.kind \in {"Target", "Runtime"}
  <2>1. L - 1 \in 1..L
    BY <1>10, <1>12
  <2> QED BY <1>10, <1>13, <2>1
<1>15. t.start + q.at = N - 1 /\ t.start + q.at < N
  <2> HIDE DEF N, L, st
  <2>1. t.start \in Nat /\ L \in Nat /\ N = t.start + L
    BY <1>10, <1>11
  <2> QED BY <1>14, <2>1
<1>16. PlaceKept(blk, t, q, N, TRUE)
  BY <1>11, <1>15
<1> HIDE DEF N, l, L, st
<1>17. ASSUME NEW target, Waits(blk, N - 1, target) PROVE FALSE
  <2>1. Delayed(N - 1, target).at = N - 1
    BY DEF Delayed
  <2>2. N - 1 < l
    BY <1>4, <1>17, <2>1 DEF Waits
  <2> QED BY <1>2, <1>3, <1>5, <2>2
<1>18. q.kind = "Target" /\ t.args.jumps[q.id] = Next
  BY <1>14, <1>15, <1>16, <1>17 DEF PlaceKept
<1>19. Delayed(N - 1, Next) \in Range(blk.nexts)
  BY <1>15, <1>16, <1>18 DEF PlaceKept
<1>20. l = N - 1
  <2>1. N - 1 <= l
    BY <1>3, <1>19 DEF Delayed
  <2> QED BY <1>2, <1>3, <1>5, <2>1
<1>21. GoesOn(t)
  <2>1. q \in Range(t.stencil.places) /\ q.at = Len(t.stencil.code) - 1
        /\ t.stencil.code[q.at] = Jmp
    BY <1>13, <1>14 DEF st, L
  <2> QED BY <1>18, <2>1 DEF GoesOn
<1> QED BY <1>11, <1>12, <1>20, <1>21 DEF N, l, L, st

(* The code of a settled block, cell by cell.                              *)
LEMMA SettledCode ==
    ASSUME NEW blk, BlockInv(blk),
           blk.nexts # <<>> /\ Prunable(blk) => Last(blk.nexts).at = Len(blk.code) - 1
    PROVE  LET s == Settle(blk)
               N == Len(blk.code)
               M == Len(s.code)
           IN  /\ M \in Nat /\ (M = N \/ (blk.nexts # <<>> /\ Prunable(blk) /\ M = N - 2))
               /\ \A i \in 1..M :
                     (\A r \in Range(blk.nexts) : i # r.at + 1) => s.code[i] = blk.code[i]
               /\ \A r \in Range(blk.nexts) :
                     r.at < M => s.code[r.at + 1] = Place(M - r.at - 1)
               /\ s.relocs = blk.relocs /\ s.consts = blk.consts /\ s.nexts = <<>>
<1> DEFINE s == Settle(blk)
           N == Len(blk.code)
           M == Len(s.code)
<1>1. /\ blk \in BlockRec /\ InOrder(blk.nexts) /\ PlacesIn(blk.nexts, blk.code)
  BY DEF BlockInv
<1>2. /\ blk.code \in Seq(CodeCell) /\ DOMAIN blk.code = 1..N /\ N \in Nat
      /\ blk.nexts \in Seq(NextReloc)
  BY <1>1, InBlock
<1>3. CASE blk.nexts = <<>>
  <2>1. s = blk /\ Range(blk.nexts) = {}
    BY <1>3 DEF Settle, Range
  <2> QED BY <1>2, <1>3, <2>1
<1>4. CASE blk.nexts # <<>>
  <2> DEFINE n == Len(blk.nexts)
             last == Last(blk.nexts)
             l == last.at
             cell == Place(N - l - 1)
             patched == Patch(blk.code, last, N)
             kept == Pruned(blk)
             front == Front(blk.nexts)
             patches == LeadingTo(front, Len(kept))
             code == PatchAll(kept, patches)
  <2>1. /\ n \in Nat \ {0} /\ last \in Range(blk.nexts) /\ l \in Nat
        /\ DOMAIN front = 1..(n - 1)
        /\ \A i \in 1..(n - 1) :
              front[i] = blk.nexts[i] /\ blk.nexts[i].at \in Nat /\ blk.nexts[i].at < l
        /\ \A r \in Range(blk.nexts) : r = last \/ \E i \in 1..(n - 1) : r = blk.nexts[i]
    BY <1>1, <1>2, <1>4, RelocAt, LastIsLargest
  <2>2. l < N
    BY <1>1, <2>1 DEF PlacesIn, Range
  <2>3. /\ patched \in Seq(CodeCell) /\ Len(patched) = N
        /\ \A i \in 1..N : patched[i] = IF i = l + 1 THEN cell ELSE blk.code[i]
    <3>1. cell \in CodeCell
      BY <1>2, <2>1 DEF Place, CodeCell, Cell
    <3>2. patched = [blk.code EXCEPT ![l + 1] = cell]
      BY DEF Patch
    <3>3. l + 1 \in 1..N
      <4> HIDE DEF l, N
      <4>1. l \in Nat
        BY <2>1
      <4> QED BY <1>2, <2>2, <4>1
    <3> HIDE DEF cell, l, patched
    <3> QED BY <1>2, <3>1, <3>2, <3>3
  <2> HIDE DEF patched
  <2> DEFINE K == Len(kept)
  <2>4. /\ K \in Nat /\ DOMAIN kept = 1..K /\ (K = N \/ (Prunable(blk) /\ K = N - 2))
        /\ \A i \in 1..K : i \in 1..N /\ kept[i] = IF i = l + 1 THEN cell ELSE blk.code[i]
    <3>1. CASE ~ Prunable(blk)
      <4>1. kept = patched
        BY <3>1 DEF Pruned, patched
      <4> HIDE DEF kept, l, cell
      <4> QED BY <1>2, <2>3, <4>1
    <3>2. CASE Prunable(blk)
      <4>1. EndsWith(patched, Empty) /\ Len(Empty) = 2
        BY <3>2 DEF Prunable, patched, Empty
      <4>2. N >= 2
        BY <2>3, <4>1, EndsWithEmpty
      <4>3. kept = SubSeq(patched, 1, N - 2)
        BY <2>3, <3>2, <4>1 DEF Pruned, patched
      <4> HIDE DEF kept, l, cell, N
      <4>4. Len(kept) = N - 2 /\ DOMAIN kept = 1..(N - 2)
            /\ \A i \in 1..(N - 2) : kept[i] = patched[i]
        BY <1>2, <2>3, <4>2, <4>3
      <4>5. N - 2 \in Nat /\ \A i \in 1..(N - 2) : i \in 1..N
        BY <1>2, <4>2
      <4> QED BY <2>3, <3>2, <4>4, <4>5
    <3> QED BY <3>1, <3>2
  <2>5. /\ DOMAIN patches = 1..(n - 1)
        /\ \A k \in 1..(n - 1) : patches[k].at = blk.nexts[k].at /\ patches[k].to = K
    BY <2>1 DEF LeadingTo
  <2> HIDE DEF kept, patches, front, K
  <2>6. EachPatched(kept, patches, n - 1, code)
    <3>1. n - 1 \in Nat /\ \A k \in 1..(n - 1) : patches[k].at \in Int
      BY <2>1, <2>5
    <3>2. \A j, k \in 1..(n - 1) : j < k => patches[j].at < patches[k].at
      <4>1. \A k \in 1..(n - 1) : k \in DOMAIN blk.nexts
        BY <1>2, <2>1
      <4> QED BY <1>1, <2>5, <4>1 DEF InOrder
    <3>3. \A j, k \in 1..(n - 1) : j # k => patches[j].at # patches[k].at
      <4> SUFFICES ASSUME NEW j \in 1..(n - 1), NEW k \in 1..(n - 1), j # k
                   PROVE  patches[j].at # patches[k].at
        OBVIOUS
      <4>1. j < k \/ k < j
        BY <2>1
      <4>2. j < k => patches[j].at < patches[k].at
        BY <3>2
      <4>3. k < j => patches[k].at < patches[j].at
        BY <3>2
      <4>4. patches[j].at \in Int /\ patches[k].at \in Int
        BY <3>1
      <4> QED BY <4>1, <4>2, <4>3, <4>4
    <3> HIDE DEF n
    <3> QED BY <2>5, <3>1, <3>3, PatchAllExact DEF code
  <2> HIDE DEF code
  <2>7. s.code = code /\ s.relocs = blk.relocs /\ s.consts = blk.consts /\ s.nexts = <<>>
    <3>1. s = [blk EXCEPT !.code = code, !.nexts = <<>>]
      BY <1>4 DEF Settle, code, patches, kept, front
    <3> QED BY <1>1, <3>1 DEF BlockRec
  <2>8. M = K
    <3>1. DOMAIN code = 1..K
      BY <2>4, <2>6 DEF EachPatched
    <3>2. code \in Seq(CodeCell) /\ Len(code) \in Nat
      <4>1. Settle(blk) \in BlockRec
        BY SettleKeeps DEF BlockInv
      <4> QED BY <2>7, <4>1, InBlock
    <3>3. DOMAIN code = 1..Len(code)
      BY <3>2
    <3> DEFINE c == Len(code)
    <3>4. c \in Nat /\ 1..c = 1..K
      BY <3>1, <3>2, <3>3
    <3> HIDE DEF c
    <3>5. c = K
      BY <2>4, <3>4
    <3> QED BY <2>7, <3>5 DEF c
  <2> HIDE DEF M, s
  <2>9. ASSUME NEW i \in 1..K, \A r \in Range(blk.nexts) : i # r.at + 1
        PROVE  s.code[i] = blk.code[i]
    <3>1. i # l + 1
      BY <2>1, <2>9
    <3>2. \A k \in 1..(n - 1) : i # patches[k].at + 1
      <4> SUFFICES ASSUME NEW k \in 1..(n - 1) PROVE i # patches[k].at + 1
        OBVIOUS
      <4>1. k \in DOMAIN blk.nexts
        BY <1>2, <2>1
      <4> QED BY <2>5, <2>9, <4>1 DEF Range
    <3> HIDE DEF l, n
    <3> QED BY <2>4, <2>6, <2>7, <3>1, <3>2 DEF EachPatched
  <2>10. ASSUME NEW r \in Range(blk.nexts), r.at < K
         PROVE  s.code[r.at + 1] = Place(K - r.at - 1)
    <3>1. CASE r = last
      <4>1. K = N
        <5>1. Prunable(blk) => l = N - 1
          BY <1>4
        <5> HIDE DEF l, N
        <5>2. l < K
          BY <2>10, <3>1 DEF l
        <5> QED BY <1>2, <2>4, <5>1, <5>2
      <4>2. l + 1 \in 1..K
        BY <1>2, <2>1, <2>2, <4>1
      <4>3. \A k \in 1..(n - 1) : l + 1 # patches[k].at + 1
        <5> SUFFICES ASSUME NEW k \in 1..(n - 1) PROVE l + 1 # patches[k].at + 1
          OBVIOUS
        <5> DEFINE a == patches[k].at
        <5>1. a \in Nat /\ a < l
          BY <2>1, <2>5
        <5> HIDE DEF a
        <5>2. l + 1 # a + 1
          BY <2>1, <5>1
        <5> QED BY <5>2 DEF a
      <4> HIDE DEF l, n
      <4>4. code[l + 1] = kept[l + 1]
        BY <2>4, <2>6, <4>2, <4>3 DEF EachPatched
      <4>5. code[l + 1] = cell
        BY <2>4, <4>2, <4>4
      <4> QED BY <2>7, <3>1, <4>1, <4>5 DEF l
    <3>2. ASSUME NEW k \in 1..(n - 1), r = blk.nexts[k]
          PROVE  s.code[r.at + 1] = Place(K - r.at - 1)
      <4>1. patches[k].at = r.at /\ patches[k].to = K /\ r.at \in Nat
        BY <2>1, <2>5, <3>2
      <4>2. r.at + 1 \in 1..K
        <5> DEFINE a == r.at
        <5>1. a \in Nat /\ a < K
          BY <2>10, <4>1
        <5> HIDE DEF a
        <5>2. a + 1 \in 1..K
          BY <2>4, <5>1
        <5> QED BY <5>2 DEF a
      <4> HIDE DEF l, n
      <4> QED BY <2>4, <2>6, <2>7, <4>1, <4>2 DEF EachPatched
    <3> QED BY <2>1, <3>1, <3>2
  <2> QED BY <1>4, <2>4, <2>7, <2>8, <2>9, <2>10 DEF s, M
<1> QED BY <1>3, <1>4

(* A settled block keeps its stencils; the jumps of the last lead to the   *)
(* end of the code, where the next stencil is put.                         *)
LEMMA SettleExact ==
    ASSUME NEW blk, BlockInv(blk), NEW t, WellFormed(t),
           StencilKept(blk, t, Len(blk.code), TRUE),
           \A r \in Range(blk.nexts) : \E p \in Range(t.stencil.places) : r.at = t.start + p.at
    PROVE  LET s == Settle(blk)
           IN  /\ t.start <= Len(s.code)
               /\ KeptBelow(blk, s, t.start)
               /\ StencilKept(s, t, Len(s.code), FALSE)
<1> DEFINE s == Settle(blk)
           N == Len(blk.code)
           M == Len(s.code)
           st == t.stencil
           L == Len(st.code)
<1>1. blk.nexts # <<>> /\ Prunable(blk) =>
         /\ Last(blk.nexts).at = N - 1 /\ GoesOn(t) /\ L >= 2
  BY PrunedIsLast
<1>2. /\ M \in Nat /\ (M = N \/ (blk.nexts # <<>> /\ Prunable(blk) /\ M = N - 2))
      /\ \A i \in 1..M : (\A r \in Range(blk.nexts) : i # r.at + 1) => s.code[i] = blk.code[i]
      /\ \A r \in Range(blk.nexts) : r.at < M => s.code[r.at + 1] = Place(M - r.at - 1)
      /\ s.relocs = blk.relocs /\ s.consts = blk.consts /\ s.nexts = <<>>
  BY <1>1, SettledCode
<1>3. /\ t.start \in Nat /\ L \in Nat /\ L > 0
      /\ \A p \in Range(st.places) : p.at \in Nat /\ p.at > 0
  <2>1. st.places \in Seq(PlaceRec) /\ st.code \in Seq(CodeCell) /\ st.code # <<>>
    BY DEF WellFormed
  <2>2. L \in Nat /\ L > 0
    BY <2>1, EmptySeq
  <2>3. \A i \in DOMAIN st.places : st.places[i] \in PlaceRec
    BY <2>1
  <2>4. \A p \in Range(st.places) : p.at \in Nat
    BY <2>3 DEF Range, PlaceRec
  <2> QED BY <2>2, <2>4 DEF WellFormed
<1>4. /\ N = t.start + L
      /\ \A i \in 1..(N - t.start) :
              \/ blk.code[t.start + i] = st.code[i]
              \/ st.code[i][1] = "place" /\ blk.code[t.start + i][1] = "place"
      /\ \A p \in Range(st.places) : t.start + p.at < N => PlaceKept(blk, t, p, N, TRUE)
  BY DEF StencilKept
<1>5. \A r \in Range(blk.nexts) :
         r.at \in Nat /\ t.start < r.at /\ blk.code[r.at + 1][1] = "place"
  <2> SUFFICES ASSUME NEW r \in Range(blk.nexts)
               PROVE  r.at \in Nat /\ t.start < r.at /\ blk.code[r.at + 1][1] = "place"
    OBVIOUS
  <2>1. PICK p \in Range(st.places) : r.at = t.start + p.at
    OBVIOUS
  <2>2. p.at \in Nat /\ p.at > 0
    BY <1>3, <2>1
  <2>3. r.at \in Nat /\ t.start < r.at
    BY <1>3, <2>1, <2>2
  <2> QED BY <2>3 DEF BlockInv, PlacesIn, Range
<1>6. Range(s.nexts) = {}
  BY <1>2 DEF Range
<1> HIDE DEF s, N, M, L, st
<1>7. M <= N /\ t.start <= M
  <2>1. M = N \/ (M = N - 2 /\ L >= 2)
    BY <1>1, <1>2
  <2>2. t.start \in Nat /\ L \in Nat /\ L > 0 /\ N = t.start + L /\ M \in Nat
    BY <1>2, <1>3, <1>4
  <2> QED BY <2>1, <2>2
<1>71. t.start \in Nat /\ M \in Nat /\ N \in Nat /\ L \in Nat
  <2>1. t.start \in Nat /\ L \in Nat /\ N = t.start + L /\ M \in Nat
    BY <1>2, <1>3, <1>4
  <2> QED BY <2>1
<1>8. KeptBelow(blk, s, t.start)
  <2>1. \A i \in 1..t.start : s.code[i] = blk.code[i]
    <3> SUFFICES ASSUME NEW i \in 1..t.start PROVE s.code[i] = blk.code[i]
      OBVIOUS
    <3>1. i \in 1..M
      BY <1>7, <1>71
    <3>2. \A r \in Range(blk.nexts) : i # r.at + 1
      BY <1>5, <1>71
    <3> QED BY <1>2, <3>1, <3>2
  <2>2. t.start <= Len(s.code)
    BY <1>7 DEF M
  <2> QED BY <1>2, <1>6, <2>1, <2>2 DEF KeptBelow
<1>9. M = t.start + L \/ (GoesOn(t) /\ M = t.start + L - 2)
  <2>1. M = N \/ (GoesOn(t) /\ M = N - 2)
    BY <1>1, <1>2
  <2>2. N = t.start + L
    BY <1>4
  <2> QED BY <1>71, <2>1, <2>2
<1>10. ASSUME NEW i \in 1..(M - t.start)
       PROVE  \/ s.code[t.start + i] = st.code[i]
              \/ st.code[i][1] = "place" /\ s.code[t.start + i][1] = "place"
  <2> DEFINE x == t.start + i
  <2>1. i \in 1..(N - t.start) /\ x \in 1..M
    BY <1>7, <1>71
  <2>2. \/ blk.code[x] = st.code[i]
        \/ st.code[i][1] = "place" /\ blk.code[x][1] = "place"
    BY <1>4, <2>1
  <2> HIDE DEF x
  <2>3. CASE \A r \in Range(blk.nexts) : x # r.at + 1
    BY <1>2, <2>1, <2>2, <2>3 DEF x
  <2>4. CASE \E r \in Range(blk.nexts) : x = r.at + 1
    <3>1. PICK r \in Range(blk.nexts) : x = r.at + 1
      BY <2>4
    <3>2. r.at < M
      <4> DEFINE a == r.at
      <4>1. a \in Nat /\ x = a + 1
        BY <1>5, <3>1
      <4> HIDE DEF a
      <4>2. a < M
        BY <1>71, <2>1, <4>1
      <4> QED BY <4>2 DEF a
    <3>3. s.code[x] = Place(M - r.at - 1) /\ blk.code[x][1] = "place"
      BY <1>2, <1>5, <3>1, <3>2
    <3>4. s.code[x][1] = "place"
      BY <3>3 DEF Place
    <3> QED BY <2>2, <3>3, <3>4 DEF x
  <2> QED BY <2>3, <2>4
<1>11. ASSUME NEW p \in Range(st.places), t.start + p.at < M
       PROVE  PlaceKept(s, t, p, M, FALSE)
  <2> DEFINE at == t.start + p.at
             jump == t.args.jumps[p.id]
  <2>1. p.at \in Nat
    BY <1>3
  <2>2. at \in Nat /\ at < N /\ at + 1 \in 1..M
    BY <1>7, <1>71, <1>11, <2>1
  <2>3. PlaceKept(blk, t, p, N, TRUE)
    BY <1>4, <2>2
  <2>4. /\ (p.kind = "Hole" /\ ~ t.wide) => Holding(blk, at, t.args.hole)
        /\ (p.kind = "Hole" /\ t.wide) =>
              \E i \in DOMAIN blk.consts :
                 /\ blk.consts[i] = t.args.hole
                 /\ Waits(blk, at, Constant((i - 1) % ConstMod))
        /\ p.kind = "Stack" => Holding(blk, at, t.args.stack)
        /\ p.kind = "Runtime" => Waits(blk, at, Runtime(p.id))
        /\ (p.kind = "Target" /\ jump = Next) =>
              /\ Delayed(at, Next) \in Range(blk.nexts)
              /\ \A r \in Range(blk.relocs) : r.at # at
        /\ (p.kind = "Target" /\ jump # Next) => Waits(blk, at, jump)
    BY <2>3 DEF PlaceKept
  <2>9. at < M
    BY <1>11
  <2> HIDE DEF at, jump
  <2>5. ASSUME NEW n, Holding(blk, at, n) PROVE Holding(s, at, n)
    <3>1. \A r \in Range(blk.nexts) : at + 1 # r.at + 1
      <4> SUFFICES ASSUME NEW r \in Range(blk.nexts) PROVE at + 1 # r.at + 1
        OBVIOUS
      <4>1. r.at # at /\ r.at \in Nat
        BY <1>5, <2>5 DEF Holding, Untouched
      <4> QED BY <2>2, <4>1
    <3>2. s.code[at + 1] = Place(n)
      BY <1>2, <2>2, <2>5, <3>1 DEF Holding
    <3> QED BY <1>2, <1>6, <2>5, <3>2 DEF Holding, Untouched
  <2>6. \A target : Waits(blk, at, target) => Waits(s, at, target)
    BY <1>2 DEF Waits
  <2>7. (p.kind = "Target" /\ jump = Next) => Holding(s, at, M - at - 1)
    <3> SUFFICES ASSUME Delayed(at, Next) \in Range(blk.nexts),
                        \A r \in Range(blk.relocs) : r.at # at
                 PROVE  Holding(s, at, M - at - 1)
      BY <2>4
    <3>1. Delayed(at, Next).at = at
      BY DEF Delayed
    <3>2. s.code[at + 1] = Place(M - at - 1)
      BY <1>2, <2>9, <3>1
    <3> QED BY <1>2, <1>6, <3>2 DEF Holding, Untouched
  <2>8. (p.kind = "Hole" /\ t.wide) =>
              \E i \in DOMAIN s.consts :
                 /\ s.consts[i] = t.args.hole
                 /\ Waits(s, at, Constant((i - 1) % ConstMod))
    BY <1>2, <2>4, <2>6
  <2>10. /\ (p.kind = "Hole" /\ ~ t.wide) => Holding(s, at, t.args.hole)
         /\ p.kind = "Stack" => Holding(s, at, t.args.stack)
    BY <2>4, <2>5
  <2>11. /\ p.kind = "Runtime" => Waits(s, at, Runtime(p.id))
         /\ (p.kind = "Target" /\ jump # Next) => Waits(s, at, jump)
    BY <2>4, <2>6
  <2> QED BY <2>7, <2>8, <2>10, <2>11 DEF PlaceKept, at, jump
<1>12. StencilKept(s, t, M, FALSE)
  <2>1. M <= Len(s.code)
    BY <1>2 DEF M
  <2> QED BY <1>9, <1>10, <1>11, <2>1 DEF StencilKept, st, L
<1> QED BY <1>7, <1>8, <1>12 DEF s, M

(* A block keeps what it has, but for the place at offset `at`.            *)
GrownAt(old, new, at) ==
    /\ \A i \in DOMAIN old.code :
          new.code[i] = old.code[i] \/ (i = at + 1 /\ new.code[i][1] = "place")
    /\ \A r \in Range(old.relocs) : r \in Range(new.relocs)
    /\ \A r \in Range(old.nexts) : r \in Range(new.nexts)
    /\ \A r \in Range(new.relocs) : r \in Range(old.relocs) \/ r.at = at
    /\ \A r \in Range(new.nexts) : r \in Range(old.nexts) \/ r.at = at
    /\ \A i \in DOMAIN old.consts :
          i \in DOMAIN new.consts /\ new.consts[i] = old.consts[i]

(* What adding one place of a stencil t does to a block in which nothing   *)
(* was known of that place.                                                *)
LEMMA AddPlaceGrows ==
    ASSUME NEW blk \in BlockRec, NEW t, NEW e, NEW p, NEW at \in Nat,
           e.from = t.start, e.wide = t.wide, e.args = t.args, t.wide \in BOOLEAN,
           p.kind \in {"Hole", "Stack", "Runtime", "Target"},
           at = t.start + p.at, at < Len(blk.code),
           \A r \in Range(blk.relocs) \cup Range(blk.nexts) : r.at # at,
           t.args.hole \in Nat,
           p.kind = "Target" => t.args.jumps[p.id] \in Jump,
           p.kind = "Runtime" => p.id \in DOMAIN SymbolAddr
    PROVE  /\ GrownAt(blk, AddPlace(blk, p, e), at)
           /\ PlaceKept(AddPlace(blk, p, e), t, p, 0, TRUE)
<1> DEFINE jump == t.args.jumps[p.id]
           new == AddPlace(blk, p, e)
<1>1. /\ blk.code \in Seq(CodeCell) /\ DOMAIN blk.code = 1..Len(blk.code)
      /\ Len(blk.code) \in Nat /\ blk.consts \in Seq(Nat)
      /\ blk.relocs \in Seq(Reloc) /\ blk.nexts \in Seq(NextReloc)
  BY InBlock
<1>2. /\ e.from + p.at = at /\ e.args.jumps[p.id] = jump
      /\ at + 1 \in DOMAIN blk.code
  BY <1>1
<1>3. blk = [code |-> blk.code, relocs |-> blk.relocs, consts |-> blk.consts,
             nexts |-> blk.nexts, ended |-> blk.ended, long_jump |-> blk.long_jump]
  BY DEF BlockRec
<1>4. ASSUME NEW target, target \in DelayedTo
      PROVE  LET d == Delayed(at, target)
             IN  /\ \A r \in Range(blk.relocs) : r \in Range(Append(blk.relocs, d))
                 /\ \A r \in Range(Append(blk.relocs, d)) : r \in Range(blk.relocs) \/ r.at = at
                 /\ d \in Range(Append(blk.relocs, d))
  <2> DEFINE d == Delayed(at, target)
             rs == Append(blk.relocs, d)
  <2>1. d \in Reloc /\ d.at = at
    BY <1>4 DEF Delayed, Reloc
  <2> HIDE DEF d
  <2>2. Range(rs) = Range(blk.relocs) \cup {d}
    BY <1>1, <2>1, AppendIs
  <2> HIDE DEF rs
  <2> QED BY <2>1, <2>2 DEF d, rs
<1>5. ASSUME NEW n,
             new = [blk EXCEPT !.code[at + 1] = Place(n)]
      PROVE  /\ new.relocs = blk.relocs /\ new.nexts = blk.nexts /\ new.consts = blk.consts
             /\ Holding(new, at, n)
             /\ \A i \in DOMAIN blk.code :
                   new.code[i] = blk.code[i] \/ (i = at + 1 /\ new.code[i][1] = "place")
  <2> DEFINE code == [blk.code EXCEPT ![at + 1] = Place(n)]
  <2>1. \A i \in DOMAIN blk.code : code[i] = IF i = at + 1 THEN Place(n) ELSE blk.code[i]
    OBVIOUS
  <2>2. Place(n)[1] = "place"
    BY DEF Place
  <2>3. code[at + 1] = Place(n)
    BY <1>2, <2>1
  <2> HIDE DEF new
  <2>4. new.code = code /\ new.relocs = blk.relocs /\ new.nexts = blk.nexts
        /\ new.consts = blk.consts
    BY <1>3, <1>5
  <2> HIDE DEF code
  <2>5. Holding(new, at, n)
    BY <2>3, <2>4 DEF Holding, Untouched
  <2> QED BY <2>1, <2>2, <2>4, <2>5
<1>6. CASE p.kind = "Hole" /\ t.wide
  <2> DEFINE c == Len(blk.consts) % ConstMod
             d == Delayed(at, Constant(c))
             consts == Append(blk.consts, t.args.hole)
             relocs == Append(blk.relocs, d)
  <2>1. new = [[blk EXCEPT !.relocs = relocs] EXCEPT !.consts = consts]
    BY <1>2, <1>6 DEF AddPlace
  <2>2. Len(blk.consts) \in Nat /\ c \in Nat
    BY <1>1, CellAssumption, ModNat
  <2>3. Constant(c) \in DelayedTo
    BY <2>2 DEF DelayedTo
  <2>4. /\ Len(consts) = Len(blk.consts) + 1 /\ consts[Len(blk.consts) + 1] = t.args.hole
        /\ DOMAIN consts = 1..(Len(blk.consts) + 1) /\ DOMAIN blk.consts = 1..Len(blk.consts)
        /\ \A i \in 1..Len(blk.consts) : consts[i] = blk.consts[i]
    <3> DEFINE S == Nat
               cs == blk.consts
               h == t.args.hole
    <3>1. cs \in Seq(S) /\ h \in S
      BY <1>1
    <3> HIDE DEF S, cs, h
    <3>2. /\ Len(Append(cs, h)) = Len(cs) + 1 /\ DOMAIN Append(cs, h) = 1..(Len(cs) + 1)
          /\ DOMAIN cs = 1..Len(cs) /\ \A i \in 1..Len(cs) : Append(cs, h)[i] = cs[i]
          /\ Append(cs, h)[Len(cs) + 1] = h
      BY <3>1, AppendIs
    <3> QED BY <3>2 DEF cs, h
  <2> HIDE DEF consts, relocs, new
  <2>5. /\ new.code = blk.code /\ new.relocs = relocs /\ new.consts = consts
        /\ new.nexts = blk.nexts
    BY <1>3, <2>1
  <2>6. /\ \A r \in Range(blk.relocs) : r \in Range(relocs)
        /\ \A r \in Range(relocs) : r \in Range(blk.relocs) \/ r.at = at
        /\ d \in Range(relocs)
    BY <1>4, <2>3 DEF relocs
  <2>7. \A i \in DOMAIN blk.consts : i \in DOMAIN consts /\ consts[i] = blk.consts[i]
    BY <2>2, <2>4
  <2>8. \E i \in DOMAIN consts :
           consts[i] = t.args.hole /\ Waits(new, at, Constant((i - 1) % ConstMod))
    <3> DEFINE i == Len(blk.consts) + 1
    <3>1. i \in DOMAIN consts /\ consts[i] = t.args.hole /\ (i - 1) = Len(blk.consts)
      BY <2>2, <2>4
    <3>2. Waits(new, at, Constant((i - 1) % ConstMod))
      BY <2>5, <2>6, <3>1 DEF Waits
    <3> QED BY <3>1, <3>2
  <2>9. PlaceKept(new, t, p, 0, TRUE)
    BY <1>6, <2>5, <2>8 DEF PlaceKept
  <2> QED BY <2>5, <2>6, <2>7, <2>9 DEF GrownAt, new
<1>7. CASE p.kind = "Hole" /\ ~ t.wide
  <2>1. new = [blk EXCEPT !.code[at + 1] = Place(t.args.hole)]
    BY <1>2, <1>7 DEF AddPlace
  <2>2. /\ new.relocs = blk.relocs /\ new.nexts = blk.nexts /\ new.consts = blk.consts
        /\ Holding(new, at, t.args.hole)
        /\ \A i \in DOMAIN blk.code :
              new.code[i] = blk.code[i] \/ (i = at + 1 /\ new.code[i][1] = "place")
    BY <1>5, <2>1
  <2> HIDE DEF new
  <2>3. PlaceKept(new, t, p, 0, TRUE)
    BY <1>7, <2>2 DEF PlaceKept
  <2> QED BY <2>2, <2>3 DEF GrownAt, new
<1>8. CASE p.kind = "Stack"
  <2>1. new = [blk EXCEPT !.code[at + 1] = Place(t.args.stack)]
    BY <1>2, <1>8 DEF AddPlace
  <2>2. /\ new.relocs = blk.relocs /\ new.nexts = blk.nexts /\ new.consts = blk.consts
        /\ Holding(new, at, t.args.stack)
        /\ \A i \in DOMAIN blk.code :
              new.code[i] = blk.code[i] \/ (i = at + 1 /\ new.code[i][1] = "place")
    BY <1>5, <2>1
  <2> HIDE DEF new
  <2>3. PlaceKept(new, t, p, 0, TRUE)
    BY <1>8, <2>2 DEF PlaceKept
  <2> QED BY <2>2, <2>3 DEF GrownAt, new
<1>9. ASSUME NEW target, target \in DelayedTo,
             new = [blk EXCEPT !.relocs = Append(@, Delayed(at, target))]
      PROVE  /\ new.code = blk.code /\ new.nexts = blk.nexts /\ new.consts = blk.consts
             /\ \A r \in Range(blk.relocs) : r \in Range(new.relocs)
             /\ \A r \in Range(new.relocs) : r \in Range(blk.relocs) \/ r.at = at
             /\ Waits(new, at, target)
  <2> DEFINE relocs == Append(blk.relocs, Delayed(at, target))
  <2> HIDE DEF relocs, new
  <2>1. new = [blk EXCEPT !.relocs = relocs]
    BY <1>9 DEF relocs
  <2>2. /\ new.code = blk.code /\ new.relocs = relocs /\ new.consts = blk.consts
        /\ new.nexts = blk.nexts
    BY <1>3, <2>1
  <2>3. /\ \A r \in Range(blk.relocs) : r \in Range(relocs)
        /\ \A r \in Range(relocs) : r \in Range(blk.relocs) \/ r.at = at
        /\ Delayed(at, target) \in Range(relocs)
    BY <1>4, <1>9 DEF relocs
  <2> QED BY <2>2, <2>3 DEF Waits
<1>10. CASE p.kind = "Runtime"
  <2>1. new = [blk EXCEPT !.relocs = Append(@, Delayed(at, Runtime(p.id)))]
    BY <1>2, <1>10 DEF AddPlace
  <2>2. Runtime(p.id) \in DelayedTo
    BY <1>10 DEF DelayedTo
  <2>3. /\ new.code = blk.code /\ new.nexts = blk.nexts /\ new.consts = blk.consts
        /\ \A r \in Range(blk.relocs) : r \in Range(new.relocs)
        /\ \A r \in Range(new.relocs) : r \in Range(blk.relocs) \/ r.at = at
        /\ Waits(new, at, Runtime(p.id))
    BY <1>9, <2>1, <2>2
  <2> HIDE DEF new
  <2>4. PlaceKept(new, t, p, 0, TRUE)
    BY <1>10, <2>3 DEF PlaceKept
  <2> QED BY <2>3, <2>4 DEF GrownAt, new
<1>11. CASE p.kind = "Target" /\ jump # Next
  <2>1. new = [blk EXCEPT !.relocs = Append(@, Delayed(at, jump))]
    BY <1>2, <1>11 DEF AddPlace
  <2>2. jump \in DelayedTo
    BY <1>11 DEF DelayedTo, Jump
  <2>3. /\ new.code = blk.code /\ new.nexts = blk.nexts /\ new.consts = blk.consts
        /\ \A r \in Range(blk.relocs) : r \in Range(new.relocs)
        /\ \A r \in Range(new.relocs) : r \in Range(blk.relocs) \/ r.at = at
        /\ Waits(new, at, jump)
    BY <1>9, <2>1, <2>2
  <2> HIDE DEF new
  <2>4. PlaceKept(new, t, p, 0, TRUE)
    BY <1>11, <2>3 DEF PlaceKept
  <2> QED BY <2>3, <2>4 DEF GrownAt, new
<1>12. CASE p.kind = "Target" /\ jump = Next
  <2> DEFINE d == Delayed(at, Next)
             nexts == Append(blk.nexts, d)
  <2>1. new = [blk EXCEPT !.nexts = nexts]
    BY <1>2, <1>12 DEF AddPlace
  <2>2. d \in NextReloc /\ d.at = at
    BY DEF Delayed, NextReloc
  <2> HIDE DEF d
  <2>3. Range(nexts) = Range(blk.nexts) \cup {d}
    BY <1>1, <2>2, AppendIs
  <2> HIDE DEF nexts, new
  <2>4. /\ new.code = blk.code /\ new.relocs = blk.relocs /\ new.consts = blk.consts
        /\ new.nexts = nexts
    BY <1>3, <2>1
  <2>5. Delayed(at, Next) \in Range(new.nexts) /\ \A r \in Range(new.relocs) : r.at # at
    BY <2>3, <2>4 DEF d
  <2>6. PlaceKept(new, t, p, 0, TRUE)
    BY <1>12, <2>5 DEF PlaceKept
  <2> QED BY <2>2, <2>3, <2>4, <2>6 DEF GrownAt, new
<1> QED BY <1>6, <1>7, <1>8, <1>10, <1>11, <1>12

(* A place that was added stays as it is when another is added.            *)
LEMMA PlaceStays ==
    ASSUME NEW old, NEW new, NEW t, NEW p, NEW at, t.start + p.at # at,
           new.code[t.start + p.at + 1] = old.code[t.start + p.at + 1],
           GrownAt(old, new, at), PlaceKept(old, t, p, 0, TRUE)
    PROVE  PlaceKept(new, t, p, 0, TRUE)
<1> DEFINE here == t.start + p.at
           jump == t.args.jumps[p.id]
<1>1. /\ (p.kind = "Hole" /\ ~ t.wide) => Holding(old, here, t.args.hole)
      /\ (p.kind = "Hole" /\ t.wide) =>
            \E i \in DOMAIN old.consts :
               /\ old.consts[i] = t.args.hole
               /\ Waits(old, here, Constant((i - 1) % ConstMod))
      /\ p.kind = "Stack" => Holding(old, here, t.args.stack)
      /\ p.kind = "Runtime" => Waits(old, here, Runtime(p.id))
      /\ (p.kind = "Target" /\ jump = Next) =>
            /\ Delayed(here, Next) \in Range(old.nexts)
            /\ \A r \in Range(old.relocs) : r.at # here
      /\ (p.kind = "Target" /\ jump # Next) => Waits(old, here, jump)
  BY DEF PlaceKept
<1>2. here # at /\ new.code[here + 1] = old.code[here + 1]
  OBVIOUS
<1> HIDE DEF here, jump
<1>3. \A n : Holding(old, here, n) => Holding(new, here, n)
  BY <1>2 DEF Holding, Untouched, GrownAt
<1>4. \A target : Waits(old, here, target) => Waits(new, here, target)
  BY DEF Waits, GrownAt
<1>5. (p.kind = "Hole" /\ t.wide) =>
         \E i \in DOMAIN new.consts :
            /\ new.consts[i] = t.args.hole
            /\ Waits(new, here, Constant((i - 1) % ConstMod))
  BY <1>1, <1>4 DEF GrownAt
<1>6. (p.kind = "Target" /\ jump = Next) =>
            /\ Delayed(here, Next) \in Range(new.nexts)
            /\ \A r \in Range(new.relocs) : r.at # here
  BY <1>1, <1>2 DEF GrownAt
<1> QED BY <1>1, <1>3, <1>4, <1>5, <1>6 DEF PlaceKept, here, jump

(* A block while the first n places of a stencil t are added to it, which  *)
(* starts at ctx.e.from.                                                   *)
CopyInv(ctx, places, n, blk) ==
    LET from == ctx.e.from
        base == ctx.base
    IN  /\ AddInv(ctx, places, n, blk)
        /\ \A i \in 1..from : blk.code[i] = base.code[i]
        /\ \A i \in DOMAIN blk.code :
              \/ blk.code[i] = base.code[i]
              \/ base.code[i][1] = "place" /\ blk.code[i][1] = "place"
        /\ \A r \in Range(blk.relocs) : r \in Range(base.relocs) \/ r.at >= from
        /\ \A r \in Range(blk.nexts) : \E k \in 1..n : r.at = from + places[k].at
        /\ \A i \in DOMAIN base.consts :
              i \in DOMAIN blk.consts /\ blk.consts[i] = base.consts[i]
        /\ \A k \in 1..n : PlaceKept(blk, ctx.t, places[k], 0, TRUE)

Copying == INSTANCE FoldTheorems WITH Op <- AddOp, Inv <- CopyInv

LEMMA CopyingIs ==
    ASSUME NEW blk, NEW places, NEW ctx
    PROVE  AddPlaces(blk, places, ctx.e) = Copying!Fold(ctx, blk, places)
<1> QED BY Zenon DEF AddPlaces, FoldLeft, MapThenFoldSet, Max, AddOp,
             Copying!Fold, Copying!Folded, Copying!Solves, Copying!Largest

(* The stencil of an emission, as the trace has it.                        *)
Traced(ctx) ==
    /\ ctx.t.start = ctx.e.from /\ ctx.t.wide = ctx.e.wide /\ ctx.t.args = ctx.e.args

LEMMA CopyStep ==
    ASSUME NEW ctx, NEW places, Emission(ctx, places), Traced(ctx),
           NEW n \in DOMAIN places, NEW blk, CopyInv(ctx, places, n - 1, blk)
    PROVE  CopyInv(ctx, places, n, AddPlace(blk, places[n], ctx.e))
<1> DEFINE e == ctx.e
           t == ctx.t
           base == ctx.base
           from == e.from
           p == places[n]
           at == from + p.at
           new == AddPlace(blk, p, e)
<1>1. AddInv(ctx, places, n - 1, blk) /\ AddInv(ctx, places, n, new)
  BY AddPlaceStep DEF CopyInv
<1>2. /\ from \in Nat /\ e.wide \in BOOLEAN /\ e.args.hole \in Nat
      /\ places \in Seq(PlaceRec)
      /\ \A i, j \in DOMAIN places : i < j => places[i].at < places[j].at
      /\ at < Len(base.code) /\ base.code[at + 1][1] = "place"
      /\ p.kind = "Target" => e.args.jumps[p.id] \in Jump
      /\ p.kind = "Runtime" => p.id \in DOMAIN SymbolAddr
  BY DEF Emission
<1>3. /\ DOMAIN places = 1..Len(places) /\ Len(places) \in Nat
      /\ \A i \in DOMAIN places : places[i] \in PlaceRec
  BY <1>2
<1>4. /\ \A i \in DOMAIN places : places[i].at \in Nat
      /\ p.kind \in {"Hole", "Stack", "Runtime", "Target"}
  BY <1>3 DEF PlaceRec
<1>5. t.start = from /\ t.wide = e.wide /\ t.args = e.args
  BY DEF Traced
<1>6. n \in Nat /\ n > 0 /\ p.at \in Nat
  BY <1>3, <1>4
<1>7. /\ blk \in BlockRec /\ Len(blk.code) = Len(base.code)
      /\ \A r \in Range(blk.relocs) \cup Range(blk.nexts) :
            r.at < IF n - 1 = 0 THEN from ELSE from + places[n - 1].at + 1
  BY <1>1 DEF AddInv, BlockInv
<1>8. /\ \A i \in 1..from : blk.code[i] = base.code[i]
      /\ \A i \in DOMAIN blk.code :
            \/ blk.code[i] = base.code[i]
            \/ base.code[i][1] = "place" /\ blk.code[i][1] = "place"
      /\ \A r \in Range(blk.relocs) : r \in Range(base.relocs) \/ r.at >= from
      /\ \A r \in Range(blk.nexts) : \E k \in 1..(n - 1) : r.at = from + places[k].at
      /\ \A i \in DOMAIN base.consts :
            i \in DOMAIN blk.consts /\ blk.consts[i] = base.consts[i]
      /\ \A k \in 1..(n - 1) : PlaceKept(blk, t, places[k], 0, TRUE)
  BY DEF CopyInv
<1>9. DOMAIN new.code = DOMAIN blk.code
  <2>1. new \in BlockRec /\ Len(new.code) = Len(base.code)
    BY <1>1 DEF AddInv, BlockInv
  <2>2. DOMAIN new.code = 1..Len(new.code) /\ DOMAIN blk.code = 1..Len(blk.code)
    BY <1>7, <2>1, InBlock
  <2> QED BY <1>7, <2>1, <2>2
<1> HIDE DEF new, p, base, e, t, from
<1>10. at \in Nat /\ at + 1 \in DOMAIN blk.code /\ at < Len(blk.code)
  <2>1. DOMAIN blk.code = 1..Len(blk.code) /\ Len(blk.code) \in Nat
    BY <1>7, InBlock
  <2>2. at \in Nat
    BY <1>2, <1>6
  <2> HIDE DEF at
  <2> QED BY <1>2, <1>7, <2>1, <2>2
<1>11. \A k \in 1..n : k \in 1..(n - 1) \/ k = n
  BY <1>6
<1>12. \A k \in 1..(n - 1) :
          /\ k \in DOMAIN places /\ k \in 1..n /\ places[k].at \in Nat
          /\ places[k].at < p.at
  <2> SUFFICES ASSUME NEW k \in 1..(n - 1)
               PROVE  k \in DOMAIN places /\ k \in 1..n /\ places[k].at < p.at
    BY <1>4
  <2>1. k \in DOMAIN places /\ k \in 1..n /\ k < n
    BY <1>3
  <2> QED BY <1>2, <2>1 DEF p
<1>13. \A r \in Range(blk.relocs) \cup Range(blk.nexts) : r.at # at
  <2> SUFFICES ASSUME NEW r \in Range(blk.relocs) \cup Range(blk.nexts) PROVE r.at < at
    BY <1>10
  <2> DEFINE a == r.at
  <2>1. a \in Nat
    BY <1>7, InBlock
  <2>2. a < IF n - 1 = 0 THEN from ELSE from + places[n - 1].at + 1
    BY <1>7
  <2> HIDE DEF a
  <2>3. n = 1 => a < at
    BY <1>2, <1>6, <2>1, <2>2
  <2>4. ASSUME n # 1 PROVE a < at
    <3> DEFINE b == places[n - 1].at
    <3>1. n - 1 \in 1..(n - 1) /\ n - 1 # 0
      BY <1>6, <2>4
    <3>2. b \in Nat /\ b < p.at
      BY <1>12, <3>1
    <3>3. a < from + b + 1
      BY <2>2, <3>1
    <3> HIDE DEF b
    <3> QED BY <1>2, <1>6, <2>1, <3>2, <3>3
  <2>5. a < at
    BY <2>3, <2>4
  <2> QED BY <2>5 DEF a
<1> HIDE DEF at
<1>14. GrownAt(blk, new, at) /\ PlaceKept(new, t, p, 0, TRUE)
  <2>1. at = t.start + p.at
    BY <1>5 DEF at
  <2>2. /\ e.from = t.start /\ e.wide = t.wide /\ e.args = t.args /\ t.wide \in BOOLEAN
        /\ t.args.hole \in Nat
        /\ p.kind = "Target" => t.args.jumps[p.id] \in Jump
        /\ p.kind = "Runtime" => p.id \in DOMAIN SymbolAddr
        /\ p.kind \in {"Hole", "Stack", "Runtime", "Target"}
    BY <1>2, <1>4, <1>5 DEF from
  <2>3. blk \in BlockRec /\ at \in Nat /\ at < Len(blk.code)
    BY <1>7, <1>10
  <2> QED BY <1>13, <2>1, <2>2, <2>3, AddPlaceGrows DEF new
<1>15. at >= from
  BY <1>2, <1>6 DEF at
<1>16. \A i \in 1..from : new.code[i] = base.code[i]
  <2> SUFFICES ASSUME NEW i \in 1..from PROVE new.code[i] = base.code[i]
    OBVIOUS
  <2>1. i # at + 1 /\ i <= Len(blk.code)
    BY <1>2, <1>7, <1>10, <1>15, InBlock
  <2>2. i \in DOMAIN blk.code
    BY <1>2, <1>7, <2>1, InBlock
  <2> QED BY <1>8, <1>14, <2>1, <2>2 DEF GrownAt
<1>17. ASSUME NEW k \in 1..(n - 1) PROVE PlaceKept(new, t, places[k], 0, TRUE)
  <2> DEFINE q == places[k]
             here == t.start + q.at
  <2>1. here < at /\ here \in Nat
    <3> DEFINE a == q.at
    <3>1. a \in Nat /\ a < p.at /\ here = from + a
      BY <1>5, <1>12
    <3> HIDE DEF a, here
    <3> QED BY <1>2, <1>6, <3>1 DEF at
  <2>2. here # at /\ here + 1 # at + 1 /\ here + 1 \in DOMAIN blk.code
    <3>1. DOMAIN blk.code = 1..Len(blk.code) /\ Len(blk.code) \in Nat
      BY <1>7, InBlock
    <3> HIDE DEF here
    <3> QED BY <1>10, <2>1, <3>1
  <2>3. new.code[here + 1] = blk.code[here + 1]
    BY <1>14, <2>2 DEF GrownAt
  <2>4. PlaceKept(blk, t, q, 0, TRUE)
    BY <1>8
  <2> HIDE DEF q
  <2> QED BY <1>14, <2>2, <2>3, <2>4, PlaceStays DEF q
<1>18. \A k \in 1..n : PlaceKept(new, t, places[k], 0, TRUE)
  BY <1>11, <1>14, <1>17 DEF p
<1>19. \A r \in Range(new.nexts) : \E k \in 1..n : r.at = from + places[k].at
  <2>1. n \in 1..n
    BY <1>6
  <2> QED BY <1>8, <1>12, <1>14, <2>1 DEF GrownAt, at, p
<1>20. \A r \in Range(new.relocs) : r \in Range(base.relocs) \/ r.at >= from
  BY <1>8, <1>14, <1>15 DEF GrownAt
<1>21. \A i \in DOMAIN new.code :
          \/ new.code[i] = base.code[i]
          \/ base.code[i][1] = "place" /\ new.code[i][1] = "place"
  BY <1>2, <1>8, <1>9, <1>14 DEF GrownAt, at
<1>22. \A i \in DOMAIN base.consts :
          i \in DOMAIN new.consts /\ new.consts[i] = base.consts[i]
  BY <1>8, <1>14 DEF GrownAt
<1> QED BY <1>1, <1>16, <1>18, <1>19, <1>20, <1>21, <1>22 DEF CopyInv, new, p, base, e, t, from

LEMMA CopiesKeep ==
    ASSUME NEW base, NEW places, NEW e, NEW t,
           Emission([e |-> e, base |-> base], places),
           t.start = e.from, t.wide = e.wide, t.args = e.args,
           BlockInv(base), base.nexts = <<>>, \A r \in Range(base.relocs) : r.at < e.from
    PROVE  CopyInv([e |-> e, base |-> base, t |-> t], places, Len(places),
                   AddPlaces(base, places, e))
<1> DEFINE ctx == [e |-> e, base |-> base, t |-> t]
<1>1. ctx.e = e /\ ctx.base = base /\ ctx.t = t
  OBVIOUS
<1>2. Traced(ctx)
  BY DEF Traced
<1>3. places \in Seq(PlaceRec) /\ Emission(ctx, places)
  BY DEF Emission
<1> HIDE DEF ctx
<1>4. DOMAIN places = 1..Len(places) /\ Len(places) \in Nat
  BY <1>3
<1>5. CopyInv(ctx, places, 0, base)
  <2>1. \A k \in 1..0 : FALSE
    OBVIOUS
  <2>2. Range(base.nexts) = {}
    BY DEF Range
  <2>3. AddInv(ctx, places, 0, base)
    BY <1>1, <2>1, <2>2 DEF AddInv
  <2> QED BY <1>1, <2>1, <2>2, <2>3 DEF CopyInv
<1>6. ASSUME NEW n \in 1..Len(places), NEW v, CopyInv(ctx, places, n - 1, v)
      PROVE  CopyInv(ctx, places, n, AddOp(ctx, v, places[n]))
  BY <1>2, <1>3, <1>4, <1>6, CopyStep DEF AddOp
<1>7. CopyInv(ctx, places, Len(places), Copying!Fold(ctx, base, places))
  BY <1>4, <1>5, <1>6, Copying!FoldInduction
<1>8. AddPlaces(base, places, e) = Copying!Fold(ctx, base, places)
  BY <1>1, CopyingIs
<1> QED BY <1>7, <1>8 DEF ctx

(* What the trace has of an emission.                                      *)
Emitted(blk, family, args) ==
    [start |-> Len(Settle(blk).code), stencil |-> Select(family, args.hole),
     wide |-> Wide(family, args.hole), args |-> args]

LEMMA EmittedWell ==
    ASSUME NEW blk, BlockInv(blk), NEW family, NEW args, Emittable(family, args)
    PROVE  WellFormed(Emitted(blk, family, args))
<1> DEFINE t == Emitted(blk, family, args)
           st == Select(family, args.hole)
<1>1. Len(Settle(blk).code) \in Nat
  <2>1. EmissionFacts(blk, family, args)
    BY EmissionIs
  <2> QED BY <2>1 DEF EmissionFacts
<1>2. StencilOK(st, family.JUMPS) /\ st.code # <<>>
  BY DEF Emittable, Select, Found
<1>3. t.start = Len(Settle(blk).code) /\ t.stencil = st
  BY DEF Emitted
<1> HIDE DEF st, t
<1>4. /\ st.code \in Seq(CodeCell) /\ st.places \in Seq(PlaceRec)
      /\ \A i \in DOMAIN st.places : st.places[i].at > 0 /\ st.places[i].at < Len(st.code)
      /\ \A i \in DOMAIN st.code :
            st.code[i] = Jmp =>
              \E p \in Range(st.places) : p.at = i /\ p.kind \in {"Target", "Runtime"}
  BY <1>2 DEF StencilOK, PlaceRec
<1>5. \A p \in Range(st.places) : p.at > 0 /\ p.at < Len(st.code)
  BY <1>4 DEF Range
<1> QED BY <1>1, <1>2, <1>3, <1>4, <1>5 DEF WellFormed, t

(* The new stencil is put behind what the settled block has.               *)
PutBehind(s, new, t) ==
    /\ KeptBelow(s, new, t.start)
    /\ StencilKept(new, t, Len(new.code), TRUE)
    /\ \A r \in Range(new.nexts) :
          \E p \in Range(t.stencil.places) : r.at = t.start + p.at
    /\ Len(new.code) \in Nat

LEMMA EmitNew ==
    ASSUME NEW blk, BlockInv(blk), NEW family, NEW args, Emittable(family, args)
    PROVE  PutBehind(Settle(blk), EmitOne(blk, family, args), Emitted(blk, family, args))
<1> DEFINE s == Settle(blk)
           new == EmitOne(blk, family, args)
           t == Emitted(blk, family, args)
           st == Select(family, args.hole)
           base == Extended(blk, family, args)
           e == Asked(blk, family, args)
           ctx == [e |-> e, base |-> base, t |-> t]
           places == st.places
           M == Len(s.code)
           L == Len(st.code)
<1>0. EmissionFacts(blk, family, args)
  BY EmissionIs
<1>1. base.nexts = <<>> /\ base.relocs = s.relocs /\ base.consts = s.consts
  <2>1. s.nexts = <<>>
    BY SettleKeeps
  <2> QED BY <2>1 DEF Extended
<1>2. /\ new = AddPlaces(base, places, e) /\ BlockInv(base)
      /\ Emission([e |-> e, base |-> base], places)
      /\ \A r \in Range(base.relocs) : r.at < e.from
  BY <1>0 DEF EmissionFacts
<1>3. /\ M \in Nat /\ L \in Nat /\ Len(base.code) = M + L
      /\ \A i \in 1..M : base.code[i] = s.code[i]
      /\ \A i \in 1..L : base.code[M + i] = st.code[i]
  <2>1. M \in Nat /\ L \in Nat /\ Len(base.code) = M + L
    BY <1>0 DEF EmissionFacts
  <2>2. \A i \in 1..M : base.code[i] = s.code[i]
    BY <1>0 DEF EmissionFacts
  <2>3. \A i \in 1..L : base.code[M + i] = st.code[i]
    BY <1>0 DEF EmissionFacts
  <2> QED BY <2>1, <2>2, <2>3
<1>4. t.start = e.from /\ t.wide = e.wide /\ t.args = e.args
  BY DEF Emitted, Asked
<1>5. t.start = M /\ e.from = M /\ t.stencil = st
  BY DEF Emitted, Asked
<1>6. places \in Seq(PlaceRec)
  BY <1>2 DEF Emission
<1>7. ctx.e = e /\ ctx.base = base /\ ctx.t = t
  OBVIOUS
<1> HIDE DEF s, new, t, st, base, e, M, L, places
<1>8. CopyInv(ctx, places, Len(places), new)
  BY <1>1, <1>2, <1>4, CopiesKeep
<1> HIDE DEF ctx
<1>9. DOMAIN places = 1..Len(places) /\ \A i \in DOMAIN places : places[i].at \in Nat
  <2>1. DOMAIN places = 1..Len(places) /\ \A i \in DOMAIN places : places[i] \in PlaceRec
    BY <1>6
  <2> QED BY <2>1 DEF PlaceRec
<1>10. /\ BlockInv(new) /\ Len(new.code) = M + L
       /\ \A i \in 1..M : new.code[i] = base.code[i]
       /\ \A i \in DOMAIN new.code :
             \/ new.code[i] = base.code[i]
             \/ base.code[i][1] = "place" /\ new.code[i][1] = "place"
       /\ \A r \in Range(base.relocs) : r \in Range(new.relocs)
       /\ \A r \in Range(new.relocs) : r \in Range(base.relocs) \/ r.at >= M
       /\ \A r \in Range(new.nexts) : \E k \in DOMAIN places : r.at = M + places[k].at
       /\ \A i \in DOMAIN base.consts :
             i \in DOMAIN new.consts /\ new.consts[i] = base.consts[i]
       /\ \A k \in DOMAIN places : PlaceKept(new, t, places[k], 0, TRUE)
  <2>1. AddInv(ctx, places, Len(places), new)
    BY <1>8 DEF CopyInv
  <2>2. BlockInv(new) /\ Len(new.code) = Len(base.code)
    BY <1>7, <2>1 DEF AddInv
  <2>3. \A r \in Range(base.relocs) : r \in Range(new.relocs)
    BY <1>7, <2>1 DEF AddInv
  <2>4. /\ \A i \in 1..M : new.code[i] = base.code[i]
        /\ \A i \in DOMAIN new.code :
              \/ new.code[i] = base.code[i]
              \/ base.code[i][1] = "place" /\ new.code[i][1] = "place"
        /\ \A r \in Range(new.relocs) : r \in Range(base.relocs) \/ r.at >= M
        /\ \A r \in Range(new.nexts) : \E k \in 1..Len(places) : r.at = M + places[k].at
        /\ \A i \in DOMAIN base.consts :
              i \in DOMAIN new.consts /\ new.consts[i] = base.consts[i]
        /\ \A k \in 1..Len(places) : PlaceKept(new, t, places[k], 0, TRUE)
    BY <1>5, <1>7, <1>8 DEF CopyInv
  <2> QED BY <1>3, <1>9, <2>2, <2>3, <2>4
<1>11. DOMAIN new.code = 1..(M + L)
  BY <1>10, InBlock DEF BlockInv
<1>12. \A r \in Range(new.relocs) \cup Range(new.nexts) :
          r.at < M => r \in Range(s.relocs)
  <2> SUFFICES ASSUME NEW r \in Range(new.relocs) \cup Range(new.nexts), r.at < M
               PROVE  r \in Range(s.relocs)
    OBVIOUS
  <2> DEFINE a == r.at
  <2>1. a \in Nat /\ a < M
    BY <1>10, InBlock DEF BlockInv
  <2>2. CASE r \in Range(new.relocs)
    <3>1. r \in Range(base.relocs) \/ a >= M
      BY <1>10, <2>2
    <3> HIDE DEF a
    <3>2. ~ (a >= M)
      BY <1>3, <2>1
    <3> QED BY <1>1, <3>1, <3>2
  <2>3. CASE r \in Range(new.nexts)
    <3>1. PICK k \in DOMAIN places : a = M + places[k].at
      BY <1>10, <2>3
    <3> DEFINE b == places[k].at
    <3>2. b \in Nat /\ a = M + b
      BY <1>9, <3>1
    <3> HIDE DEF a, b
    <3>3. FALSE
      BY <1>3, <2>1, <3>2
    <3> QED BY <3>3
  <2> QED BY <2>2, <2>3
<1>13. KeptBelow(s, new, M)
  <2>1. M <= Len(new.code)
    BY <1>3, <1>10
  <2> QED BY <1>1, <1>3, <1>10, <1>12, <2>1 DEF KeptBelow
<1>14. \A r \in Range(new.nexts) : \E p \in Range(places) : r.at = t.start + p.at
  BY <1>5, <1>10 DEF Range
<1>15. \A i \in 1..L :
          \/ new.code[M + i] = st.code[i]
          \/ st.code[i][1] = "place" /\ new.code[M + i][1] = "place"
  <2> SUFFICES ASSUME NEW i \in 1..L
               PROVE  \/ new.code[M + i] = st.code[i]
                      \/ st.code[i][1] = "place" /\ new.code[M + i][1] = "place"
    OBVIOUS
  <2>1. M + i \in 1..(M + L)
    BY <1>3
  <2>2. base.code[M + i] = st.code[i]
    BY <1>3
  <2> QED BY <1>10, <1>11, <2>1, <2>2
<1>16. ASSUME NEW p \in Range(places) PROVE PlaceKept(new, t, p, M + L, TRUE)
  <2>1. PlaceKept(new, t, p, 0, TRUE)
    BY <1>10 DEF Range
  <2> QED BY <2>1 DEF PlaceKept
<1>17. StencilKept(new, t, M + L, TRUE)
  <2>1. M + L = t.start + Len(t.stencil.code)
    BY <1>5 DEF L
  <2>2. (M + L) - t.start = L
    BY <1>3, <1>5
  <2>3. M + L <= Len(new.code)
    BY <1>3, <1>10
  <2> QED BY <1>5, <1>15, <1>16, <2>1, <2>2, <2>3 DEF StencilKept, places
<1>18. M + L \in Nat
  BY <1>3
<1> QED BY <1>5, <1>10, <1>13, <1>14, <1>17, <1>18 DEF PutBehind, s, new, t, places

(* An emission keeps every stencil of the block, and adds its own.         *)
LEMMA EmitExact ==
    ASSUME NEW blk, BlockInv(blk), NEW family, NEW args, Emittable(family, args),
           NEW S, NEW ts \in Seq(S), Emitted(blk, family, args) \in S, CodeInv(blk, ts)
    PROVE  CodeInv(EmitOne(blk, family, args), Append(ts, Emitted(blk, family, args)))
<1> DEFINE s == Settle(blk)
           new == EmitOne(blk, family, args)
           t == Emitted(blk, family, args)
           M == t.start
           n == Len(ts)
           us == Append(ts, t)
<1>1. /\ KeptBelow(s, new, M) /\ StencilKept(new, t, Len(new.code), TRUE)
      /\ \A r \in Range(new.nexts) : \E p \in Range(t.stencil.places) : r.at = t.start + p.at
      /\ Len(new.code) \in Nat
  <2>1. PutBehind(s, new, t)
    BY EmitNew
  <2> QED BY <2>1 DEF PutBehind
<1>2. WellFormed(t)
  BY EmittedWell
<1>3. M \in Nat
  BY <1>2 DEF WellFormed
<1>4. M = Len(s.code)
  BY DEF Emitted
<1>5. /\ us # <<>> /\ Len(us) = n + 1 /\ n \in Nat /\ DOMAIN us = 1..(n + 1)
      /\ DOMAIN ts = 1..n /\ us[n + 1] = t /\ \A k \in 1..n : us[k] = ts[k]
  <2>1. /\ Len(us) = n + 1 /\ n \in Nat /\ DOMAIN us = 1..(n + 1)
        /\ DOMAIN ts = 1..n /\ us[n + 1] = t /\ \A k \in 1..n : us[k] = ts[k]
    BY AppendIs
  <2>2. Len(<<>>) = 0
    OBVIOUS
  <2> HIDE DEF us, n
  <2>3. us # <<>>
    BY <2>1, <2>2
  <2> QED BY <2>1, <2>3
<1>6. \A k \in DOMAIN ts : WellFormed(ts[k])
  BY DEF CodeInv
<1>7. \A k \in DOMAIN us : WellFormed(us[k])
  <2> HIDE DEF us, n, t
  <2>1. \A k \in 1..(n + 1) : k \in 1..n \/ k = n + 1
    BY <1>5
  <2> QED BY <1>2, <1>5, <1>6, <2>1
<1> SUFFICES CodeInv(new, us)
  OBVIOUS
<1>8. CASE ts = <<>>
  <2>1. n = 0
    BY <1>8
  <2>2. blk.code = <<>> /\ blk.nexts = <<>>
    BY <1>8 DEF CodeInv
  <2>3. s = blk
    BY <2>2 DEF Settle
  <2>4. M = 0
    BY <1>4, <2>2, <2>3
  <2> HIDE DEF us, n, t, new, s
  <2>5. us[1] = t /\ us[Len(us)] = t /\ Len(us) = 1
    BY <1>5, <2>1
  <2>6. \A k \in 1..(Len(us) - 1) : FALSE
    BY <2>5
  <2> QED BY <1>1, <1>5, <1>7, <2>4, <2>5, <2>6 DEF CodeInv
<1>9. CASE ts # <<>>
  <2> DEFINE last == ts[n]
  <2>1. n > 0 /\ n \in 1..n /\ 1 \in 1..n
    BY <1>5, <1>9, EmptySeq
  <2>2. /\ ts[1].start = 0
        /\ StencilKept(blk, last, Len(blk.code), TRUE)
        /\ \A r \in Range(blk.nexts) :
              \E p \in Range(last.stencil.places) : r.at = last.start + p.at
        /\ \A k \in 1..(n - 1) :
              /\ ts[k + 1].start <= last.start
              /\ StencilKept(blk, ts[k], ts[k + 1].start, FALSE)
    BY <1>9 DEF CodeInv
  <2>3. WellFormed(last) /\ last.start \in Nat
    <3>1. WellFormed(last)
      BY <1>5, <1>6, <2>1
    <3> QED BY <3>1 DEF WellFormed
  <2> HIDE DEF last, us, n, t, new, s
  <2>4. /\ last.start <= M /\ KeptBelow(blk, s, last.start)
        /\ StencilKept(s, last, M, FALSE)
    BY <1>4, <2>2, <2>3, SettleExact DEF s
  <2>5. \A k \in 1..n : ts[k].start \in Nat /\ WellFormed(ts[k])
    BY <1>5, <1>6 DEF WellFormed
  <2>6. ASSUME NEW k \in 1..(n - 1)
        PROVE  /\ ts[k + 1].start <= M
               /\ StencilKept(new, ts[k], ts[k + 1].start, FALSE)
    <3> DEFINE on == ts[k + 1].start
    <3>1. k \in 1..n /\ k + 1 \in 1..n
      BY <1>5
    <3>2. /\ on \in Nat /\ on <= last.start
          /\ StencilKept(blk, ts[k], on, FALSE) /\ WellFormed(ts[k])
      BY <2>2, <2>5, <3>1
    <3> HIDE DEF on
    <3>3. on <= M
      BY <1>3, <2>3, <2>4, <3>2
    <3>4. StencilKept(s, ts[k], on, FALSE)
      BY <1>3, <1>4, <2>3, <2>4, <3>2, StencilStays
    <3>5. StencilKept(new, ts[k], on, FALSE)
      BY <1>1, <1>3, <3>2, <3>3, <3>4, StencilStays
    <3> QED BY <3>3, <3>5 DEF on
  <2>7. StencilKept(new, last, M, FALSE)
    <3>1. M <= M
      BY <1>3
    <3> QED BY <1>1, <1>3, <2>3, <2>4, <3>1, StencilStays
  <2>8. ASSUME NEW k \in 1..n
        PROVE  us[k + 1].start <= M /\ StencilKept(new, us[k], us[k + 1].start, FALSE)
    <3>1. us[k] = ts[k]
      BY <1>5
    <3>2. CASE k = n
      <4>1. us[k + 1] = t /\ us[k] = last
        BY <1>5, <3>1, <3>2 DEF last
      <4>2. M <= M
        BY <1>3
      <4> QED BY <2>7, <4>1, <4>2
    <3>3. CASE k # n
      <4>1. k \in 1..(n - 1) /\ k + 1 \in 1..n
        BY <1>5, <3>3
      <4>2. us[k + 1] = ts[k + 1]
        BY <1>5, <4>1
      <4> QED BY <2>6, <3>1, <4>1, <4>2
    <3> QED BY <3>2, <3>3
  <2>9. us[1].start = 0 /\ us[Len(us)] = t /\ Len(us) - 1 = n
    BY <1>5, <2>1, <2>2
  <2> QED BY <1>1, <1>5, <1>7, <2>8, <2>9 DEF CodeInv
<1> QED BY <1>8, <1>9

-----------------------------------------------------------------------------

(* What finalizing another block leaves alone.                             *)
LEMMA InPlaceStays ==
    ASSUME NEW blk, NEW offset, NEW offs, NEW old, NEW new, InPlace(blk, offset, offs, old),
           \A i \in Cells(blk, offset) : new[i] = old[i]
    PROVE  InPlace(blk, offset, offs, new)
<1> QED BY DEF InPlace

(* The flag of a block says nothing of its code.                           *)
LEMMA CodeInvSame ==
    ASSUME NEW old, NEW new, NEW ts, CodeInv(old, ts),
           new.code = old.code, new.relocs = old.relocs, new.nexts = old.nexts,
           new.consts = old.consts
    PROVE  CodeInv(new, ts)
<1>1. \A t, p, on, open : PlaceKept(old, t, p, on, open) => PlaceKept(new, t, p, on, open)
  BY DEF PlaceKept, Holding, Untouched, Waits
<1>2. \A t, on, open : StencilKept(old, t, on, open) => StencilKept(new, t, on, open)
  BY <1>1 DEF StencilKept
<1> QED BY <1>2 DEF CodeInv

PlacedInv == \A b \in 1..placed : InPlace(blocks[b], offsets[b], offsets, map)

ImageInv ==
    /\ ProgramInv
    /\ \A b \in BlockIds : CodeInv(blocks[b], trace[b])
    /\ LayoutInv
    /\ PlacedInv

LEMMA ImageStart == ProgramInit => ImageInv
<1> SUFFICES ASSUME ProgramInit PROVE ImageInv
  OBVIOUS
<1>1. /\ phase = "building" /\ placed = 0
      /\ blocks = [b \in BlockIds |-> NewBlock(client.long_jump)]
      /\ trace = [b \in BlockIds |-> <<>>]
  BY DEF ProgramInit
<1>2. CodeInv(NewBlock(client.long_jump), <<>>)
  BY DEF CodeInv, NewBlock
<1>3. \A b \in 1..0 : FALSE
  OBVIOUS
<1>4. LayoutInv /\ PlacedInv
  BY <1>1, <1>3 DEF LayoutInv, PlacedInv
<1> QED BY <1>1, <1>2, <1>4, ProgramStart DEF ImageInv

(* While the blocks are built there is no map yet.                         *)
LEMMA NoMapYet ==
    ASSUME ProgramInv, phase = "building", phase' = "building", placed' = placed
    PROVE  LayoutInv' /\ PlacedInv'
<1>1. placed = 0
  BY DEF ProgramInv, PhaseInv
<1>2. \A b \in 1..0 : FALSE
  OBVIOUS
<1> QED BY <1>1, <1>2 DEF LayoutInv, PlacedInv

(* An emission keeps the code of every block as the trace says.            *)
LEMMA AddKeepsCode ==
    ASSUME ImageInv, NEW b \in BlockIds, NEW family \in Families,
           NEW args \in Args(family), NEW ended, Add(b, family, args, ended)
    PROVE  \A c \in BlockIds' : CodeInv(blocks'[c], trace'[c])
<1> DEFINE new == EmitOne(blocks[b], family, args)
           t == Emitted(blocks[b], family, args)
           full == [new EXCEPT !.ended = ended]
<1>1. /\ client \in Clients /\ DOMAIN blocks = BlockIds /\ DOMAIN trace = BlockIds
      /\ trace \in [BlockIds -> Seq(Entry(client))]
      /\ \A c \in BlockIds : BlockInv(blocks[c]) /\ CodeInv(blocks[c], trace[c])
  BY DEF ImageInv, ProgramInv, BlocksInv
<1>2. /\ Found(family, args.hole) /\ client' = client
      /\ blocks' = [blocks EXCEPT ![b] = full]
      /\ trace' = [trace EXCEPT ![b] = Append(trace[b], t)]
  BY DEF Add, Emitted
<1>3. Emittable(family, args)
  BY <1>1, <1>2, ClientEmits
<1>4. BlockIds' = BlockIds
  BY <1>2 DEF BlockIds, NBlocks
<1> HIDE DEF t, full
<1>5. CodeInv(new, Append(trace[b], t))
  <2>1. trace[b] \in Seq(Entry(client) \cup {t})
    <3>1. trace[b] \in Seq(Entry(client))
      BY <1>1
    <3> QED BY <3>1, SeqMonotonic
  <2>2. t \in Entry(client) \cup {t}
    OBVIOUS
  <2>3. BlockInv(blocks[b]) /\ CodeInv(blocks[b], trace[b])
    BY <1>1
  <2> DEFINE S == Entry(client) \cup {t}
  <2> HIDE DEF S
  <2>4. trace[b] \in Seq(S) /\ Emitted(blocks[b], family, args) \in S
    BY <2>1, <2>2 DEF S, t
  <2> QED BY <1>3, <2>3, <2>4, EmitExact DEF t
<1>6. new \in BlockRec
  BY <1>1, <1>3, EmitKeeps DEF BlockInv
<1> HIDE DEF new
<1>7. /\ full.code = new.code /\ full.relocs = new.relocs /\ full.nexts = new.nexts
      /\ full.consts = new.consts
  BY <1>6 DEF full, BlockRec
<1>8. CodeInv(full, Append(trace[b], t))
  BY <1>5, <1>7, CodeInvSame
<1> SUFFICES ASSUME NEW c \in BlockIds PROVE CodeInv(blocks'[c], trace'[c])
  BY <1>4
<1>9. CASE c = b
  BY <1>1, <1>2, <1>8, <1>9
<1>10. CASE c # b
  BY <1>1, <1>2, <1>10
<1> QED BY <1>9, <1>10

LEMMA ImageBuild ==
    ASSUME ImageInv, NEW b \in BlockIds, Emit(b) \/ Branch(b) \/ EndBranch(b) \/ Ret(b)
    PROVE  ImageInv'
<1>1. /\ phase = "building"
      /\ \E family \in Families : \E args \in Args(family) : \E ended :
            Add(b, family, args, ended)
  BY DEF Emit, Branch, EndBranch, Ret
<1>2. ProgramInv'
  BY BuildStep DEF ImageInv
<1>3. \A c \in BlockIds' : CodeInv(blocks'[c], trace'[c])
  BY <1>1, AddKeepsCode
<1>4. phase' = phase /\ placed' = placed
  BY <1>1 DEF Add
<1>5. LayoutInv' /\ PlacedInv'
  BY <1>1, <1>4, NoMapYet DEF ImageInv
<1> QED BY <1>2, <1>3, <1>5 DEF ImageInv

LEMMA ImageFailEnd ==
    ASSUME ImageInv, NEW b \in BlockIds, FailEnd(b)
    PROVE  ImageInv'
<1> DEFINE new == [blocks[b] EXCEPT !.ended = TRUE]
<1>1. /\ phase = "building" /\ blocks' = [blocks EXCEPT ![b] = new]
      /\ client' = client /\ phase' = phase /\ placed' = placed /\ trace' = trace
  BY DEF FailEnd
<1>2. /\ DOMAIN blocks = BlockIds
      /\ \A c \in BlockIds : blocks[c] \in BlockRec /\ CodeInv(blocks[c], trace[c])
  BY DEF ImageInv, ProgramInv, BlocksInv, BlockInv
<1>3. /\ new.code = blocks[b].code /\ new.relocs = blocks[b].relocs
      /\ new.nexts = blocks[b].nexts /\ new.consts = blocks[b].consts
  BY <1>2 DEF BlockRec
<1> HIDE DEF new
<1>4. CodeInv(new, trace[b])
  BY <1>2, <1>3, CodeInvSame
<1>5. BlockIds' = BlockIds
  BY <1>1 DEF BlockIds, NBlocks
<1>6. \A c \in BlockIds' : CodeInv(blocks'[c], trace'[c])
  BY <1>1, <1>2, <1>4, <1>5
<1>7. LayoutInv' /\ PlacedInv'
  BY <1>1, NoMapYet DEF ImageInv
<1>8. ProgramInv'
  BY FailEndStep DEF ImageInv
<1> QED BY <1>6, <1>7, <1>8 DEF ImageInv

(* What leaves the blocks alone keeps their code, and their lengths.       *)
LEMMA SameCode ==
    ASSUME ImageInv, UNCHANGED <<client, blocks, trace>>
    PROVE  /\ \A c \in BlockIds' : CodeInv(blocks'[c], trace'[c])
           /\ Lens' = Lens /\ OffsetsOf(Lens)' = OffsetsOf(Lens) /\ Total(Lens)' = Total(Lens)
<1>1. BlockIds' = BlockIds
  BY DEF BlockIds, NBlocks
<1>2. Lens' = Lens
  BY <1>1 DEF Lens
<1> QED BY <1>1, <1>2 DEF ImageInv, OffsetsOf

LEMMA ImageMeasure ==
    ASSUME ImageInv, Measure
    PROVE  ImageInv'
<1>1. /\ UNCHANGED <<client, blocks, trace>> /\ placed' = placed /\ phase = "building"
  BY DEF Measure
<1>2. /\ \A c \in BlockIds' : CodeInv(blocks'[c], trace'[c])
      /\ Lens' = Lens /\ OffsetsOf(Lens)' = OffsetsOf(Lens) /\ Total(Lens)' = Total(Lens)
  BY <1>1, SameCode
<1>3. ProgramInv /\ ProgramInv' /\ placed = 0
  BY <1>1, MeasureStep DEF ImageInv, ProgramInv, PhaseInv
<1>4. \A b \in 1..0 : FALSE
  OBVIOUS
<1>5. PlacedInv'
  BY <1>1, <1>3, <1>4 DEF PlacedInv
<1>6. LayoutInv'
  <2>1. CASE \A b \in BlockIds : blocks[b].ended
    <3>1. /\ phase' = "placing" /\ offsets' = OffsetsOf(Lens)
          /\ map' = [i \in 1..Total(Lens) |-> Pad]
      BY <2>1 DEF Measure
    <3>2. Total(Lens) \in Nat
      BY <1>3, OffsetsNat
    <3>3. Len(map') = Total(Lens)
      BY <3>1, <3>2
    <3> QED BY <1>2, <3>1, <3>3 DEF LayoutInv
  <2>2. CASE ~ \A b \in BlockIds : blocks[b].ended
    <3>1. phase' = "NotEnded"
      BY <2>2 DEF Measure
    <3> QED BY <3>1 DEF LayoutInv
  <2> QED BY <2>1, <2>2
<1> QED BY <1>2, <1>3, <1>5, <1>6 DEF ImageInv

(* A block that is put into the map is in place, and so are those before.  *)
LEMMA ImagePlaces ==
    ASSUME ImageInv, phase = "placing", placed < NBlocks,
           blocks[placed + 1].nexts = <<>>, HasLongJump(blocks[placed + 1]),
           Resolved(blocks[placed + 1]),
           NEW new, new = FinalizeInto(blocks[placed + 1], map, offsets[placed + 1], offsets)
    PROVE  /\ Len(new) = Len(map)
           /\ \A b \in 1..(placed + 1) : InPlace(blocks[b], offsets[b], offsets, new)
<1> DEFINE k == placed + 1
<1>1. NBlocks \in Nat /\ placed \in 0..NBlocks
  BY ProgramAssumption DEF ImageInv, ProgramInv, PhaseInv, BlocksInv, NBlocks
<1>2. /\ k \in BlockIds /\ new \in Seq(AnyCell) /\ DOMAIN new = DOMAIN map
      /\ \A i \in DOMAIN map : new[i] # map[i] => i \in RegionOf(k)
  BY Placing DEF ImageInv
<1>3. /\ \A b \in BlockIds :
            /\ offsets[b] \in Nat /\ FinalLen(blocks[b]) \in Nat
            /\ offsets[b] + FinalLen(blocks[b]) <= Len(map)
      /\ \A b, c \in BlockIds : b # c => RegionOf(b) \cap RegionOf(c) = {}
  BY RegionsApart DEF ImageInv
<1>4. BlockInv(blocks[k]) /\ map \in Seq(AnyCell)
  BY <1>2 DEF ImageInv, ProgramInv, BlocksInv, PhaseInv
<1>5. \A b \in 1..(placed + 1) : b \in 1..placed \/ b = k
  BY <1>1
<1>6. \A b \in 1..placed : b \in BlockIds /\ b # k
  BY <1>1 DEF BlockIds
<1> HIDE DEF k
<1>7. InPlace(blocks[k], offsets[k], offsets, new)
  <2>1. /\ offsets[k] \in Nat /\ offsets[k] + FinalLen(blocks[k]) <= Len(map)
    BY <1>2, <1>3
  <2>2. new = FinalizeInto(blocks[k], map, offsets[k], offsets)
    BY DEF k
  <2>3. HasLongJump(blocks[k])
    BY DEF k
  <2> QED BY <1>4, <2>1, <2>2, <2>3, FinalizeExact
<1>8. ASSUME NEW b \in 1..placed PROVE InPlace(blocks[b], offsets[b], offsets, new)
  <2>1. InPlace(blocks[b], offsets[b], offsets, map)
    BY DEF ImageInv, PlacedInv
  <2>2. Cells(blocks[b], offsets[b]) = RegionOf(b)
    BY DEF Cells, RegionOf
  <2>3. b \in BlockIds /\ RegionOf(b) \cap RegionOf(k) = {}
    BY <1>2, <1>3, <1>6
  <2>4. \A i \in RegionOf(b) : i \in DOMAIN map
    <3> DEFINE o == offsets[b]
               f == FinalLen(blocks[b])
               l == Len(map)
    <3>1. o \in Nat /\ f \in Nat /\ o + f <= l /\ l \in Nat /\ DOMAIN map = 1..l
      BY <1>3, <1>4, <2>3
    <3>2. RegionOf(b) = (o + 1)..(o + f)
      BY DEF RegionOf
    <3> HIDE DEF o, f, l
    <3> QED BY <3>1, <3>2
  <2>5. \A i \in Cells(blocks[b], offsets[b]) : new[i] = map[i]
    BY <1>2, <2>2, <2>3, <2>4
  <2> QED BY <2>1, <2>5, InPlaceStays
<1>9. Len(new) = Len(map)
  BY <1>2, <1>4
<1> QED BY <1>5, <1>7, <1>8, <1>9

LEMMA ImageFinalize ==
    ASSUME ImageInv, FinalizeBlock
    PROVE  ImageInv'
<1>1. /\ UNCHANGED <<client, blocks, trace>> /\ offsets' = offsets
      /\ phase = "placing" /\ placed < NBlocks
  BY DEF FinalizeBlock
<1>2. /\ \A c \in BlockIds' : CodeInv(blocks'[c], trace'[c])
      /\ Lens' = Lens /\ OffsetsOf(Lens)' = OffsetsOf(Lens) /\ Total(Lens)' = Total(Lens)
  BY <1>1, SameCode
<1>3. ProgramInv'
  BY FinalizeStep DEF ImageInv
<1>4. offsets = OffsetsOf(Lens) /\ Len(map) = Total(Lens)
  BY <1>1 DEF ImageInv, LayoutInv
<1>5. CASE /\ blocks[placed + 1].nexts = <<>> /\ HasLongJump(blocks[placed + 1])
           /\ Resolved(blocks[placed + 1])
  <2>1. /\ map' = FinalizeInto(blocks[placed + 1], map, offsets[placed + 1], offsets)
        /\ placed' = placed + 1
    BY <1>5 DEF FinalizeBlock
  <2>2. /\ Len(map') = Len(map)
        /\ \A b \in 1..(placed + 1) : InPlace(blocks[b], offsets[b], offsets, map')
    BY <1>1, <1>5, <2>1, ImagePlaces
  <2>3. LayoutInv' /\ PlacedInv'
    BY <1>1, <1>2, <1>4, <2>1, <2>2 DEF LayoutInv, PlacedInv
  <2> QED BY <1>2, <1>3, <2>3 DEF ImageInv
<1>6. CASE ~ (/\ blocks[placed + 1].nexts = <<>> /\ HasLongJump(blocks[placed + 1])
              /\ Resolved(blocks[placed + 1]))
  <2>1. map' = map /\ placed' = placed
    BY <1>6 DEF FinalizeBlock
  <2>2. LayoutInv' /\ PlacedInv'
    BY <1>1, <1>2, <1>4, <2>1 DEF LayoutInv, PlacedInv, ImageInv
  <2> QED BY <1>2, <1>3, <2>2 DEF ImageInv
<1> QED BY <1>5, <1>6

LEMMA ImageStep == ImageInv /\ [ProgramNext]_vars => ImageInv'
<1> SUFFICES ASSUME ImageInv, [ProgramNext]_vars PROVE ImageInv'
  OBVIOUS
<1>1. CASE \E b \in BlockIds : Emit(b) \/ Branch(b) \/ EndBranch(b) \/ Ret(b)
  BY <1>1, ImageBuild
<1>2. CASE \E b \in BlockIds : FailEnd(b)
  BY <1>2, ImageFailEnd
<1>3. CASE Measure
  BY <1>3, ImageMeasure
<1>4. CASE FinalizeBlock
  BY <1>4, ImageFinalize
<1>5. CASE HandOut \/ UNCHANGED vars
  <2>1. /\ UNCHANGED <<client, blocks, trace, offsets, map, placed>>
        /\ phase' = phase \/ (phase = "placing" /\ phase' = "done")
    BY <1>5 DEF HandOut, vars
  <2>2. /\ \A c \in BlockIds' : CodeInv(blocks'[c], trace'[c])
        /\ Lens' = Lens /\ OffsetsOf(Lens)' = OffsetsOf(Lens) /\ Total(Lens)' = Total(Lens)
    BY <2>1, SameCode
  <2>3. ProgramInv'
    BY <1>5, ProgramStep DEF ImageInv, ProgramNext
  <2>4. LayoutInv'
    BY <2>1, <2>2 DEF LayoutInv, ImageInv
  <2>5. PlacedInv'
    BY <2>1 DEF PlacedInv, ImageInv
  <2> QED BY <2>2, <2>3, <2>4, <2>5 DEF ImageInv
<1> QED BY <1>1, <1>2, <1>3, <1>4, <1>5 DEF ProgramNext

LEMMA ImageSafe == ProgramSpec => []ImageInv
<1>1. ProgramInit => ImageInv
  BY ImageStart
<1>2. ImageInv /\ [ProgramNext]_vars => ImageInv'
  BY ImageStep
<1> QED BY <1>1, <1>2, PTL DEF ProgramSpec

-----------------------------------------------------------------------------

(* No block has more constants than there are indices for them.  With more *)
(* ImageRuns does not hold (run many_constants).                           *)
FewConstants ==
    \A b \in BlockIds :
        Len(blocks[b].consts) + Len(RuntimeTrampolineSymbols(blocks[b])) <= ConstMod

(* A block in the map, fit to run.                                         *)
InMap(blk, off) ==
    /\ BlockInv(blk) /\ blk.nexts = <<>> /\ HasLongJump(blk)
    /\ off \in Nat /\ map \in Seq(AnyCell) /\ Cells(blk, off) \subseteq DOMAIN map
    /\ InPlace(blk, off, offsets, map)
    /\ Len(Words(blk)) <= ConstMod
    /\ \A r \in Range(blk.relocs) : r.target[1] = "Block" => offsets[r.target[2]] \in Nat

LEMMA MapAt ==
    ASSUME NEW blk, NEW off, InMap(blk, off), NEW at \in Nat, at + 1 \in Cells(blk, off)
    PROVE  Inside(at)
<1>1. DOMAIN map = 1..Len(map) /\ Len(map) \in Nat /\ at + 1 \in DOMAIN map
  BY DEF InMap
<1> QED BY <1>1 DEF Inside

(* The constants of a block are where their indices say.                   *)
LEMMA WordThere ==
    ASSUME NEW blk, NEW off, InMap(blk, off), NEW j \in 1..Len(Words(blk))
    PROVE  /\ ConstantAt(blk, off, (j - 1) % ConstMod) \in Nat
           /\ Holds(ConstantAt(blk, off, (j - 1) % ConstMod), Word(Words(blk)[j]))
<1> DEFINE at == ConstantAt(blk, off, j - 1)
           w == Len(Words(blk))
<1>1. blk \in BlockRec /\ HasLongJump(blk) /\ off \in Nat
  BY DEF InMap, BlockInv
<1>2. w \in Nat /\ \A i \in Nat : ConstantAt(blk, off, i) \in Nat
  BY <1>1, PartsAt, Zenon
<1>3. w <= ConstMod /\ ConstMod \in Nat
  BY CellAssumption DEF InMap
<1>4. j - 1 \in Nat /\ (j - 1) % ConstMod = j - 1
  <2> HIDE DEF w
  <2>1. j \in 1..w
    BY DEF w
  <2>2. j - 1 \in Nat /\ j - 1 < ConstMod
    BY <1>2, <1>3, <2>1
  <2> QED BY <1>3, <2>2
<1>5. at \in Nat
  BY <1>2, <1>4
<1>6. at + 1 \in Cells(blk, off) /\ map[at + 1] = Word(Words(blk)[j])
  BY DEF InMap, InPlace
<1> HIDE DEF at
<1>7. Inside(at)
  BY <1>5, <1>6, MapAt
<1>8. Holds(at, Word(Words(blk)[j]))
  BY <1>6, <1>7 DEF Holds, CellAt
<1> QED BY <1>4, <1>5, <1>8 DEF at

(* A place with a relocation leads to its target.                          *)
LEMMA PlaceThere ==
    ASSUME NEW blk, NEW off, InMap(blk, off), NEW r \in Range(blk.relocs),
           TargetOf(blk, off, offsets, r) \in Int
    PROVE  LeadsTo(off + r.at) = TargetOf(blk, off, offsets, r)
<1> DEFINE at == off + r.at
           to == TargetOf(blk, off, offsets, r)
<1>1. map[at + 1] = Place(to - at - 1)
  BY DEF InMap, InPlace
<1>2. r.at \in Nat /\ off \in Nat /\ to \in Int
  BY InBlock DEF InMap, BlockInv
<1>3. at \in Int
  BY <1>2
<1> HIDE DEF at, to
<1>4. map[at + 1][2] = to - at - 1
  BY <1>1 DEF Place
<1>5. at + 1 + (to - at - 1) = to
  BY <1>2, <1>3
<1> QED BY <1>4, <1>5 DEF LeadsTo, at, to

(* A runtime function is reached through its trampoline.                   *)
LEMMA TrampolineThere ==
    ASSUME NEW blk, NEW off, InMap(blk, off), NEW at \in Nat, NEW sym,
           Waits(blk, at, Runtime(sym))
    PROVE  Reaches(off + at, sym)
<1> DEFINE r == Delayed(at, Runtime(sym))
           syms == Syms(blk)
           m == Len(syms)
           c == Len(blk.consts)
           j == CHOOSE i \in DOMAIN syms : syms[i] = sym
           tr == off + TrampolineAt(blk, j)
           con == ConstantAt(blk, off, (c + j - 1) % ConstMod)
<1>1. blk \in BlockRec /\ HasLongJump(blk) /\ off \in Nat
  BY DEF InMap, BlockInv
<1>2. r \in Range(blk.relocs) /\ r.at = at /\ r.target = <<"Runtime", sym>>
  BY DEF Waits, Delayed, Runtime
<1>3. r.target[1] = "Runtime" /\ r.target[2] = sym
  BY <1>2
<1>4. /\ syms \in Seq(DOMAIN SymbolAddr) /\ sym \in Range(syms)
  BY <1>1, <1>2, <1>3, SymbolsFound DEF Syms
<1>5. j \in 1..m /\ syms[j] = sym
  <2>1. \E i \in DOMAIN syms : syms[i] = sym
    BY <1>4 DEF Range
  <2>2. j \in DOMAIN syms /\ syms[j] = sym
    BY <2>1
  <2>3. DOMAIN syms = 1..m
    BY <1>4
  <2> QED BY <2>2, <2>3
<1>6. /\ m \in Nat /\ Len(blk.code) \in Nat /\ c \in Nat /\ Len(Words(blk)) = c + m
      /\ TrampolineAt(blk, j) = Len(blk.code) + 2 * (j - 1)
      /\ Words(blk)[c + j] = SymbolAddr[syms[j]]
  BY <1>1, <1>5, PartsAt, Zenon
<1>7. TargetOf(blk, off, offsets, r) = tr
  BY <1>3 DEF TargetOf
<1>8. /\ tr + 1 \in Cells(blk, off) /\ tr + 2 \in Cells(blk, off)
      /\ map[tr + 1] = JmpInd /\ map[tr + 2] = Place(con - (tr + 1) - 1)
  BY <1>5 DEF InMap, InPlace
<1> HIDE DEF r, syms, m, c, j
<1>9. tr \in Nat
  <2> DEFINE n == Len(blk.code)
  <2>1. tr = off + (n + 2 * (j - 1)) /\ n \in Nat /\ j \in 1..m
    BY <1>5, <1>6
  <2> HIDE DEF n, tr
  <2> QED BY <1>1, <1>6, <2>1
<1>10. (c + j) \in 1..Len(Words(blk)) /\ (c + j) - 1 = c + j - 1
  BY <1>5, <1>6
<1>11. con \in Nat /\ Holds(con, Word(SymbolAddr[sym]))
  BY <1>5, <1>6, <1>10, WordThere
<1>12. LeadsTo(off + at) = tr
  <2>1. tr \in Int
    BY <1>9
  <2> QED BY <1>2, <1>7, <2>1, PlaceThere
<1> HIDE DEF tr, con
<1>13. Holds(tr, JmpInd)
  BY <1>8, <1>9, MapAt DEF Holds, CellAt
<1>14. tr + 1 \in Nat /\ tr + 1 + 1 = tr + 2
  BY <1>9
<1>15. Inside(tr + 1)
  BY <1>8, <1>14, MapAt
<1>16. /\ CellAt(tr + 1) = Place(con - (tr + 1) - 1)
       /\ LeadsTo(tr + 1) = tr + 1 + 1 + (con - (tr + 1) - 1)
  BY <1>8, <1>14 DEF CellAt, LeadsTo, Place
<1>17. CellAt(tr + 1)[1] = "place" /\ LeadsTo(tr + 1) = con
  <2>1. tr + 1 + 1 + (con - (tr + 1) - 1) = con
    BY <1>9, <1>11
  <2> QED BY <1>16, <2>1 DEF Place
<1> QED BY <1>11, <1>12, <1>13, <1>15, <1>17 DEF Reaches, RefersTo

(* A place that holds its operand holds it in the map.                     *)
LEMMA HoldingThere ==
    ASSUME NEW blk, NEW off, InMap(blk, off), NEW at \in Nat, at < Len(blk.code), NEW n,
           Holding(blk, at, n)
    PROVE  CellAt(off + at) = Place(n)
<1> DEFINE i == at + 1
<1>1. i \in 1..Len(blk.code) /\ i - 1 = at /\ off + i = off + at + 1
  <2>1. blk.code \in Seq(CodeCell) /\ off \in Nat
    BY DEF InMap, BlockInv, BlockRec
  <2> QED BY <2>1
<1>2. \A r \in Range(blk.relocs) : r.at # i - 1
  BY <1>1 DEF Holding, Untouched
<1> HIDE DEF i
<1>3. map[off + i] = blk.code[i]
  BY <1>1, <1>2 DEF InMap, InPlace
<1> QED BY <1>1, <1>3 DEF CellAt, Holding, i

(* A place that waits for a constant refers to it.                         *)
LEMMA ConstantThere ==
    ASSUME NEW blk, NEW off, InMap(blk, off), NEW at \in Nat,
           NEW i \in DOMAIN blk.consts, Waits(blk, at, Constant((i - 1) % ConstMod))
    PROVE  RefersTo(off + at, blk.consts[i])
<1> DEFINE con == ConstantAt(blk, off, (i - 1) % ConstMod)
           r == Delayed(at, Constant((i - 1) % ConstMod))
           c == Len(blk.consts)
           m == Len(Syms(blk))
<1>1. blk \in BlockRec /\ HasLongJump(blk) /\ off \in Nat
  BY DEF InMap, BlockInv
<1>2. /\ m \in Nat /\ c \in Nat /\ Len(Words(blk)) = c + m
  BY <1>1, PartsAt, Zenon
<1>3. i \in 1..c
  BY <1>1 DEF BlockRec
<1>4. i \in 1..Len(Words(blk))
  <2> HIDE DEF c, m
  <2> QED BY <1>2, <1>3
<1>5. Words(blk)[i] = blk.consts[i]
  BY <1>1, <1>3, PartsAt, Zenon
<1>6. con \in Nat /\ Holds(con, Word(blk.consts[i]))
  BY <1>4, <1>5, WordThere
<1>7. r \in Range(blk.relocs) /\ r.at = at /\ r.target = <<"Constant", (i - 1) % ConstMod>>
  BY DEF Waits, Delayed, Constant
<1>8. r.target[1] = "Constant" /\ r.target[2] = (i - 1) % ConstMod
  BY <1>7
<1> HIDE DEF r
<1>9. TargetOf(blk, off, offsets, r) = con
  BY <1>8 DEF TargetOf
<1> HIDE DEF con
<1>10. con \in Int
  BY <1>6
<1>11. LeadsTo(off + at) = con
  BY <1>7, <1>9, <1>10, PlaceThere
<1> QED BY <1>6, <1>11 DEF RefersTo

(* A jump to a block leads to where the block is.                          *)
LEMMA BlockThere ==
    ASSUME NEW blk, NEW off, InMap(blk, off), NEW at \in Nat, NEW jump \in Jump,
           jump # Next, Waits(blk, at, jump)
    PROVE  LeadsTo(off + at) = offsets[jump[2]]
<1> DEFINE r == Delayed(at, jump)
<1>1. r \in Range(blk.relocs) /\ r.at = at /\ r.target = jump
  BY DEF Waits, Delayed
<1>2. jump[1] = "Block"
  BY DEF Jump, Block
<1> HIDE DEF r
<1>3. TargetOf(blk, off, offsets, r) = offsets[jump[2]]
  BY <1>1, <1>2 DEF TargetOf
<1>4. offsets[jump[2]] \in Int
  BY <1>1, <1>2 DEF InMap
<1> QED BY <1>1, <1>3, <1>4, PlaceThere

(* What is kept of a place is what it must be in the image.                *)
LEMMA PlaceInImage ==
    ASSUME NEW blk, NEW off, InMap(blk, off), NEW t, NEW p \in PlaceRec, NEW on \in Nat,
           NEW open, t.start \in Nat, t.start + p.at < Len(blk.code),
           p.kind = "Target" => t.args.jumps[p.id] \in Jump,
           PlaceKept(blk, t, p, on, open)
    PROVE  PlaceRuns(t, p, off + (t.start + p.at), off + on)
<1> DEFINE at == t.start + p.at
           jump == t.args.jumps[p.id]
           there == off + at
<1>1. at \in Nat /\ at < Len(blk.code) /\ off \in Nat /\ p.at \in Nat
  BY DEF InMap, PlaceRec
<1>2. p.kind \in {"Hole", "Stack", "Runtime", "Target"}
  BY DEF PlaceRec
<1>3. (p.kind = "Hole" /\ ~ t.wide) => CellAt(there) = Place(t.args.hole)
  <2> HIDE DEF there
  <2>1. (p.kind = "Hole" /\ ~ t.wide) => Holding(blk, at, t.args.hole)
    BY DEF PlaceKept
  <2> HIDE DEF at
  <2> QED BY <1>1, <2>1, HoldingThere DEF there
<1>4. (p.kind = "Hole" /\ t.wide) => RefersTo(there, t.args.hole)
  <2> HIDE DEF there
  <2>1. (p.kind = "Hole" /\ t.wide) =>
            \E i \in DOMAIN blk.consts :
               blk.consts[i] = t.args.hole /\ Waits(blk, at, Constant((i - 1) % ConstMod))
    BY DEF PlaceKept
  <2> HIDE DEF at
  <2> QED BY <1>1, <2>1, ConstantThere DEF there
<1>5. p.kind = "Stack" => CellAt(there) = Place(t.args.stack)
  <2> HIDE DEF there
  <2>1. p.kind = "Stack" => Holding(blk, at, t.args.stack)
    BY DEF PlaceKept
  <2> HIDE DEF at
  <2> QED BY <1>1, <2>1, HoldingThere DEF there
<1>6. p.kind = "Runtime" => Reaches(there, p.id)
  <2> HIDE DEF there
  <2>1. p.kind = "Runtime" => Waits(blk, at, Runtime(p.id))
    BY DEF PlaceKept
  <2> HIDE DEF at
  <2> QED BY <1>1, <2>1, TrampolineThere DEF there
<1>7. (p.kind = "Target" /\ jump = Next) => LeadsTo(there) = off + on
  <2> HIDE DEF there
  <2>1. (p.kind = "Target" /\ jump = Next /\ open) => Delayed(at, Next) \in Range(blk.nexts)
    BY DEF PlaceKept
  <2>2. (p.kind = "Target" /\ jump = Next /\ ~ open) => Holding(blk, at, on - at - 1)
    BY DEF PlaceKept
  <2> HIDE DEF at, jump
  <2>3. Range(blk.nexts) = {}
    <3>1. blk.nexts = <<>> /\ DOMAIN <<>> = {}
      BY DEF InMap
    <3> QED BY <3>1 DEF Range
  <2>4. Holding(blk, at, on - at - 1) => CellAt(off + at) = Place(on - at - 1)
    BY <1>1, HoldingThere
  <2>5. CellAt(off + at) = Place(on - at - 1) => LeadsTo(off + at) = off + on
    <3>1. off + at + 1 + (on - at - 1) = off + on
      BY <1>1
    <3> QED BY <3>1 DEF CellAt, LeadsTo, Place
  <2> QED BY <2>1, <2>2, <2>3, <2>4, <2>5 DEF there
<1>8. (p.kind = "Target" /\ jump # Next) => LeadsTo(there) = offsets[jump[2]]
  <2> HIDE DEF there
  <2>1. (p.kind = "Target" /\ jump # Next) => Waits(blk, at, jump)
    BY DEF PlaceKept
  <2>2. p.kind = "Target" => jump \in Jump
    OBVIOUS
  <2> HIDE DEF at, jump
  <2> QED BY <1>1, <2>1, <2>2, BlockThere DEF there
<1>9. PlaceRuns(t, p, there, off + on)
  <2> HIDE DEF there
  <2> QED BY <1>2, <1>3, <1>4, <1>5, <1>6, <1>7, <1>8 DEF PlaceRuns
<1> QED BY <1>9

(* A cell of the code that is no place is in the map as it is.             *)
LEMMA CodeThere ==
    ASSUME NEW blk, NEW off, InMap(blk, off), NEW i \in 1..Len(blk.code),
           blk.code[i][1] # "place"
    PROVE  Holds(off + i - 1, blk.code[i])
<1> DEFINE at == off + i - 1
<1>1. /\ off \in Nat /\ i \in Nat \ {0}
      /\ \A r \in Range(blk.relocs) : r.at \in Nat /\ blk.code[r.at + 1][1] = "place"
  <2>1. blk \in BlockRec /\ PlacesIn(blk.relocs, blk.code) /\ off \in Nat
    BY DEF InMap, BlockInv
  <2>2. blk.relocs \in Seq(Reloc)
    BY <2>1 DEF BlockRec
  <2>3. \A k \in DOMAIN blk.relocs : blk.relocs[k] \in Reloc
    BY <2>2, ElementsOf
  <2>4. \A k \in DOMAIN blk.relocs : blk.relocs[k].at \in Nat
    BY <2>3 DEF Reloc
  <2> QED BY <2>1, <2>4 DEF PlacesIn, Range
<1>2. \A r \in Range(blk.relocs) : r.at # i - 1
  BY <1>1
<1>3. off + i \in Cells(blk, off) /\ map[off + i] = blk.code[i]
  BY <1>2 DEF InMap, InPlace
<1>4. at \in Nat /\ at + 1 = off + i
  BY <1>1
<1> HIDE DEF at
<1>5. Inside(at)
  BY <1>3, <1>4, MapAt
<1> QED BY <1>3, <1>4, <1>5 DEF Holds, CellAt, at

(* A stencil that is kept in a block runs in the image.                    *)
LEMMA StencilInImage ==
    ASSUME NEW b, NEW k, InMap(blocks[b], offsets[b]), WellFormed(trace[b][k]),
           NEW on \in Nat, NEW open, StencilKept(blocks[b], trace[b][k], on, open),
           \A p \in Range(trace[b][k].stencil.places) :
              p.kind = "Target" => trace[b][k].args.jumps[p.id] \in Jump,
           k = 1 => trace[b][k].start = 0
    PROVE  StencilRuns(b, k, offsets[b] + on)
<1> DEFINE blk == blocks[b]
           off == offsets[b]
           t == trace[b][k]
           st == t.stencil
           n == Len(st.code)
           start == t.start
           from == off + start
           abs == off + on
           kept == IF abs = from + n - Len(Empty) /\ GoesOn(t) THEN n - Len(Empty) ELSE n
<1>1. /\ off \in Nat /\ start \in Nat /\ n \in Nat /\ Len(Empty) = 2 /\ Len(blk.code) \in Nat
      /\ \A p \in Range(st.places) : p \in PlaceRec
  <2>1. st.code \in Seq(CodeCell) /\ st.places \in Seq(PlaceRec) /\ start \in Nat
    BY DEF WellFormed
  <2> HIDE DEF blk, off, t, st, n, start, from, abs, kept
  <2>2. \A i \in DOMAIN st.places : st.places[i] \in PlaceRec
    BY <2>1, ElementsOf
  <2>3. \A p \in Range(st.places) : p \in PlaceRec
    BY <2>2 DEF Range
  <2>4. blk.code \in Seq(CodeCell) /\ off \in Nat
    BY DEF InMap, BlockInv, BlockRec, blk, off
  <2>5. n \in Nat /\ Len(blk.code) \in Nat
    BY <2>1, <2>4, ElementsOf DEF n
  <2>6. Len(Empty) = 2
    BY DEF Empty
  <2> QED BY <2>1, <2>3, <2>4, <2>5, <2>6
<1>2. on = start + n \/ (GoesOn(t) /\ on = start + n - 2)
  BY <1>1 DEF StencilKept
<1>3. on <= Len(blk.code)
  BY DEF StencilKept
<1>4. \A i \in 1..(on - start) :
         blk.code[start + i] = st.code[i] \/ st.code[i][1] = "place"
  BY DEF StencilKept
<1>5. \A p \in Range(st.places) : start + p.at < on => PlaceKept(blk, t, p, on, open)
  BY DEF StencilKept
<1> HIDE DEF blk, off, t, st, n, start
<1>6. kept = on - start /\ abs = from + kept
  <2>1. CASE on = start + n
    BY <1>1, <2>1
  <2>2. CASE GoesOn(t) /\ on = start + n - 2
    BY <1>1, <2>2
  <2> QED BY <1>2, <2>1, <2>2
<1> HIDE DEF kept
<1>7. \A i \in 1..kept : st.code[i][1] # "place" => Holds(from + i - 1, st.code[i])
  <2> SUFFICES ASSUME NEW i \in 1..kept, st.code[i][1] # "place"
               PROVE  Holds(from + i - 1, st.code[i])
    OBVIOUS
  <2> DEFINE c == start + i
  <2>1. c \in 1..Len(blk.code) /\ off + c - 1 = from + i - 1 /\ i \in 1..(on - start)
    BY <1>1, <1>3, <1>6
  <2>2. blk.code[c] = st.code[i]
    BY <1>4, <2>1
  <2> HIDE DEF c, from
  <2>3. Holds(off + c - 1, blk.code[c])
    BY <2>1, <2>2, CodeThere DEF blk, off
  <2> QED BY <2>1, <2>2, <2>3
<1>8. \A p \in Range(st.places) : p.at < kept => PlaceRuns(t, p, from + p.at, abs)
  <2> SUFFICES ASSUME NEW p \in Range(st.places), p.at < kept
               PROVE  PlaceRuns(t, p, from + p.at, abs)
    OBVIOUS
  <2>1. p \in PlaceRec /\ p.at \in Nat
    BY <1>1 DEF PlaceRec
  <2>2. /\ start + p.at < on /\ start + p.at < Len(blk.code)
        /\ off + (start + p.at) = from + p.at
    BY <1>1, <1>3, <1>6, <2>1
  <2>3. PlaceKept(blk, t, p, on, open)
    BY <1>5, <2>2
  <2>4. p.kind = "Target" => t.args.jumps[p.id] \in Jump
    BY DEF t, st
  <2> HIDE DEF from
  <2>5. PlaceRuns(t, p, off + (start + p.at), off + on)
    BY <1>1, <2>1, <2>2, <2>3, <2>4, PlaceInImage DEF blk, off, start
  <2> QED BY <2>2, <2>5
<1>9. k = 1 => from = off
  BY <1>1 DEF start, t
<1>10. abs = from + kept
  BY <1>6
<1> QED BY <1>7, <1>8, <1>9, <1>10 DEF StencilRuns, kept, n, st, start, t, off

(* When the image is handed out every block is in it.                      *)
LEMMA AllInMap ==
    ASSUME ImageInv, FewConstants, phase = "done", NEW b \in BlockIds
    PROVE  InMap(blocks[b], offsets[b])
<1> DEFINE blk == blocks[b]
           off == offsets[b]
<1>1. /\ BlockInv(blk) /\ placed = NBlocks
      /\ offsets \in [BlockIds -> Nat] /\ map \in Seq(AnyCell)
      /\ \A c \in 1..placed : /\ blocks[c].nexts = <<>> /\ HasLongJump(blocks[c])
                              /\ Resolved(blocks[c])
  BY DEF ImageInv, ProgramInv, BlocksInv, PhaseInv
<1>2. b \in 1..placed
  BY <1>1 DEF BlockIds
<1>3. /\ blk.nexts = <<>> /\ HasLongJump(blk) /\ Resolved(blk)
      /\ InPlace(blk, off, offsets, map)
  BY <1>1, <1>2 DEF ImageInv, PlacedInv
<1>4. /\ off \in Nat /\ FinalLen(blk) \in Nat /\ off + FinalLen(blk) <= Len(map)
  BY RegionsApart DEF ImageInv
<1>5. Cells(blk, off) \subseteq DOMAIN map
  <2>1. DOMAIN map = 1..Len(map) /\ Len(map) \in Nat
    BY <1>1
  <2> HIDE DEF off
  <2> QED BY <1>4, <2>1 DEF Cells
<1>6. Len(Words(blk)) <= ConstMod
  <2>1. Len(Words(blk)) = Len(blk.consts) + Len(Syms(blk))
    <3>1. blk \in BlockRec
      BY <1>1 DEF BlockInv
    <3> QED BY <1>3, <1>4, <3>1, PartsAt, Zenon
  <2> QED BY <2>1 DEF FewConstants, Syms
<1>7. \A r \in Range(blk.relocs) : r.target[1] = "Block" => offsets[r.target[2]] \in Nat
  BY <1>1, <1>3 DEF Resolved
<1> QED BY <1>1, <1>3, <1>4, <1>5, <1>6, <1>7 DEF InMap

LEMMA ImageIsRight == ImageInv => (FewConstants => ImageRuns)
<1> SUFFICES ASSUME ImageInv, FewConstants, phase = "done",
                    NEW b \in BlockIds, NEW k \in DOMAIN trace[b]
             PROVE  StencilRuns(b, k, offsets[b] +
                                (IF k < Len(trace[b]) THEN trace[b][k + 1].start
                                                      ELSE Len(blocks[b].code)))
  BY DEF ImageRuns
<1> DEFINE ts == trace[b]
           t == ts[k]
           open == k = Len(ts)
           on == IF k < Len(ts) THEN ts[k + 1].start ELSE Len(blocks[b].code)
<1>1. InMap(blocks[b], offsets[b])
  BY AllInMap
<1>2. ts \in Seq(Entry(client)) /\ CodeInv(blocks[b], ts)
  BY DEF ImageInv, ProgramInv, BlocksInv
<1>3. /\ k \in 1..Len(ts) /\ Len(ts) \in Nat /\ ts # <<>>
      /\ t \in Entry(client)
  BY <1>2
<1>4. \A p \in Range(t.stencil.places) : p.kind = "Target" => t.args.jumps[p.id] \in Jump
  BY <1>3 DEF Entry
<1>5. WellFormed(t)
  BY <1>2 DEF CodeInv
<1>6. k = 1 => t.start = 0
  BY <1>2, <1>3 DEF CodeInv
<1>7. StencilKept(blocks[b], t, on, open) /\ on \in Nat
  <2>1. StencilKept(blocks[b], ts[Len(ts)], Len(blocks[b].code), TRUE)
    BY <1>2, <1>3 DEF CodeInv
  <2>2. \A i \in 1..(Len(ts) - 1) : StencilKept(blocks[b], ts[i], ts[i + 1].start, FALSE)
    BY <1>2, <1>3 DEF CodeInv
  <2>3. Len(blocks[b].code) \in Nat
    <3>1. blocks[b].code \in Seq(CodeCell)
      BY <1>1 DEF InMap, BlockInv, BlockRec
    <3> QED BY <3>1
  <2>4. \A i \in DOMAIN ts : ts[i].start \in Nat
    BY <1>2 DEF CodeInv, WellFormed
  <2> HIDE DEF ts
  <2>5. CASE k = Len(ts)
    <3>1. on = Len(blocks[b].code) /\ (open <=> TRUE)
      BY <1>3, <2>5
    <3>2. open = TRUE
      BY <3>1
    <3> QED BY <2>1, <2>3, <2>5, <3>1, <3>2
  <2>6. CASE k # Len(ts)
    <3>1. k \in 1..(Len(ts) - 1) /\ k < Len(ts) /\ k + 1 \in 1..Len(ts)
      BY <1>3, <2>6
    <3>2. on = ts[k + 1].start
      BY <3>1
    <3>3. open = FALSE
      BY <2>6
    <3>4. ts[k + 1].start \in Nat
      BY <1>2, <2>4, <3>1 DEF ts
    <3> QED BY <2>2, <3>1, <3>2, <3>3, <3>4
  <2> QED BY <2>5, <2>6
<1> HIDE DEF on, open
<1>8. StencilRuns(b, k, offsets[b] + on)
  BY <1>1, <1>4, <1>5, <1>6, <1>7, StencilInImage
<1> QED BY <1>8 DEF on

(* Once there is a map, the region of each block lies in it, and no two    *)
(* regions overlap.                                                        *)
Disjoint ==
    phase \in {"placing", "done"} =>
        /\ \A b \in BlockIds : RegionOf(b) \subseteq DOMAIN map
        /\ \A b, c \in BlockIds : b # c => RegionOf(b) \cap RegionOf(c) = {}

(* For every number of blocks and whatever their lengths, the offsets that *)
(* from_lens computes keep blocks apart and inside the map.                *)
THEOREM RegionsDisjoint == ProgramSpec => []Disjoint
<1>1. ImageInv => Disjoint
  <2> SUFFICES ASSUME ImageInv, phase \in {"placing", "done"}
               PROVE  /\ \A b \in BlockIds : RegionOf(b) \subseteq DOMAIN map
                      /\ \A b, c \in BlockIds : b # c => RegionOf(b) \cap RegionOf(c) = {}
    BY DEF Disjoint
  <2>1. /\ \A b \in BlockIds :
              /\ offsets[b] \in Nat /\ FinalLen(blocks[b]) \in Nat
              /\ offsets[b] + FinalLen(blocks[b]) <= Len(map)
        /\ \A b, c \in BlockIds : b # c => RegionOf(b) \cap RegionOf(c) = {}
    BY RegionsApart DEF ImageInv
  <2>2. map \in Seq(AnyCell)
    BY DEF ImageInv, ProgramInv, PhaseInv
  <2>3. DOMAIN map = 1..Len(map) /\ Len(map) \in Nat
    BY <2>2
  <2>4. ASSUME NEW b \in BlockIds PROVE RegionOf(b) \subseteq DOMAIN map
    <3> DEFINE from == offsets[b]
               l == FinalLen(blocks[b])
    <3>1. from \in Nat /\ l \in Nat /\ from + l <= Len(map)
      BY <2>1
    <3> HIDE DEF from, l
    <3>2. (from + 1)..(from + l) \subseteq 1..Len(map)
      BY <2>3, <3>1
    <3> QED BY <2>3, <3>2 DEF RegionOf, from, l
  <2> QED BY <2>1, <2>4
<1> QED BY <1>1, ImageSafe, PTL

(* For every stencil library, every function built with it and every order *)
(* of emissions: while no block has more constants than indices, the image *)
(* that is handed out does what was asked for, whatever jumps were pruned, *)
(* moved or delayed.                                                       *)
THEOREM ImagesRun == ProgramSpec => [](FewConstants => ImageRuns)
<1>1. ProgramSpec => []ImageInv
  BY ImageSafe
<1>2. ImageInv => (FewConstants => ImageRuns)
  BY ImageIsRight
<1> QED BY <1>1, <1>2, PTL

=============================================================================
