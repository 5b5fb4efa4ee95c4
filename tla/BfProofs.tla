------------------------------ MODULE BfProofs ------------------------------
(***************************************************************************)
(* The compiler of the brainfuck example, for programs of any length and   *)
(* any nesting of loops, and for any tape, padding and limit of movement:  *)
(* the blocks that the first visit creates are used up by the second, each *)
(* ends where it should, and no run touches a byte outside of the padded   *)
(* tape.  What the parser promises (Shaped) is part of CodeSpec.           *)
(***************************************************************************)
EXTENDS BfCode, FiniteSetTheorems, SequenceTheorems, TLAPS

(* The stencils a block can hold.                                          *)
Plain == {"IncDec", "LeftRight", "SetZero", "In", "Out", "AddTo"}
Stencils ==
    [op : Plain, n : Int] \cup [op : {"If"}, zero : Nat, other : Nat]
      \cup [op : {"Jump"}, block : Nat] \cup [op : {"Check"}] \cup [op : {"Ret"}, n : Int]

(* A stencil that has another one behind it, and a block that has one more *)
(* to come, or none.                                                       *)
GoesOn(x) == x.op \notin Ends /\ (x.op = "If" => x.other = Behind)
OpenBlock(s) == \A i \in 1..Len(s) : GoesOn(s[i])
EndedBlock(s) ==
    /\ s # <<>> /\ ~ GoesOn(s[Len(s)])
    /\ \A i \in 1..(Len(s) - 1) : GoesOn(s[i])

(* How far the stencils of a block have moved since bounds were checked    *)
(* last, and how far they may have when they use a byte.                   *)
Drifted(far, x) ==
    IF x.op \in {"Check", "If"} THEN 0 ELSE IF x.op = "LeftRight" THEN far + x.n ELSE far

Touches(x) == x.op \in {"IncDec", "SetZero", "In", "Out", "AddTo"}

NearBy(far, x) ==
    Touches(x) => /\ Abs(far) <= CheckAfter
                  /\ x.op = "AddTo" => Abs(x.n) < CheckAfter

Drift(s, d) ==
    /\ d \in [0..Len(s) -> Int] /\ d[0] = 0
    /\ \A i \in 1..Len(s) : d[i] = Drifted(d[i - 1], s[i]) /\ NearBy(d[i - 1], s[i])

(* Where a stencil may jump to.                                            *)
Goes(code, x) ==
    /\ x.op = "If" => /\ x.zero \in 1..(Len(code) - 1)
                      /\ x.other \in 0..(Len(code) - 1)
    /\ x.op = "Jump" => /\ x.block \in 1..(Len(code) - 1)
                        /\ Len(code[x.block]) > 0
                        /\ code[x.block][1].op = "If"

BlocksOK(code, sat) ==
    /\ code \in Seq(Seq(Stencils)) /\ Len(code) >= 2
    /\ \A b \in 1..Len(code) : \A i \in 1..Len(code[b]) : Goes(code, code[b][i])
    /\ ~ sat => \A b \in 1..Len(code) : \E d : Drift(code[b], d)

(* While compiling, the blocks from lo to hi are free, and the loops that  *)
(* are open have the others: what is below lo was taken from the front,    *)
(* what is above hi from the back.                                         *)
IsTail(b) == \E k \in 1..Len(loopStack) : loopStack[k].tail = b

FreeOnes(lo, hi) ==
    /\ lo \in Nat /\ hi \in Nat /\ 2 <= lo /\ lo <= hi + 1 /\ hi < Panic
    /\ free \in Seq(Nat) /\ Len(free) = hi - lo + 1
    /\ \A i \in 1..(hi - lo + 1) : free[i] = lo + i - 1

OpenOnes(lo, hi) ==
    /\ loopStack \in Seq([start : Nat, tail : Nat])
    /\ \A k \in 1..Len(loopStack) :
          /\ loopStack[k].start \in 1..(lo - 1) /\ loopStack[k].tail \in (hi + 1)..(Panic - 1)
          /\ \A l \in 1..Len(loopStack) : loopStack[k].tail = loopStack[l].tail => k = l

Contents(lo, hi) ==
    /\ current \in 1..(Panic - 1) /\ current \notin lo..hi /\ ~ IsTail(current)
    /\ OpenBlock(blocks[current])
    /\ \A b \in 1..Panic : b \in lo..hi \/ b = Panic \/ IsTail(b) => blocks[b] = <<>>
    /\ \A b \in 1..(Panic - 1) :
          b \in lo..hi \/ b = current \/ IsTail(b) \/ EndedBlock(blocks[b])

Layout(lo, hi) == FreeOnes(lo, hi) /\ OpenOnes(lo, hi) /\ Contents(lo, hi)

(* The visits still to come close the loops that are open, and need the    *)
(* blocks that are free.                                                   *)
Nests(v, n) ==
    \E d \in [0..Len(v) -> Nat] :
        /\ d[0] = n /\ d[Len(v)] = 0
        /\ \A i \in 1..Len(v) :
              /\ v[i].kind = "IntoLoop" => d[i] = d[i - 1] + 1
              /\ v[i].kind = "OutOfLoop" => d[i - 1] = d[i] + 1
              /\ v[i].kind = "Leaf" => d[i] = d[i - 1]

Needs(v, n) ==
    \E c \in [0..Len(v) -> Nat] :
        /\ c[0] = n /\ c[Len(v)] = 0
        /\ \A i \in 1..Len(v) : c[i - 1] = IF v[i].kind = "IntoLoop" THEN c[i] + 2 ELSE c[i]

(* No leaf follows a leaf, and an AddTo is the last of its leaf.           *)
LeavesOK(v) ==
    /\ \A i \in 2..Len(v) : v[i].kind = "Leaf" => v[i - 1].kind # "Leaf"
    /\ \A i \in 1..Len(v) : v[i].kind = "Leaf" =>
          \A j \in 1..Len(v[i].ops) : v[i].ops[j].op = "AddTo" =>
             j = Len(v[i].ops) /\ Abs(v[i].ops[j].n) < CheckAfter

CompileInv ==
    /\ pc = <<1, 1>> /\ index = 0 /\ printed = <<>>
    /\ BlocksOK(blocks, saturating)
    /\ \E lo, hi : Layout(lo, hi)
    /\ visits \in Seq(Visit) /\ LeavesOK(visits)
    /\ Nests(visits, Len(loopStack)) /\ Needs(visits, Len(free))
    /\ ~ saturating /\ Len(visits) > 0 /\ visits[1].kind = "Leaf" =>
          \E d : Drift(blocks[current], d) /\ d[Len(blocks[current])] = 0

(* While running, the position is on the tape, or was when bounds were     *)
(* checked last, unless it is about to be checked or the run about to end. *)
Located ==
    /\ pc \in (1..Panic) \X Nat /\ pc[2] \in 1..Len(blocks[pc[1]])
    /\ ~ saturating =>
          \E d : /\ Drift(blocks[pc[1]], d)
                 /\ InTape(index - d[pc[2] - 1]) \/ AtStencil.op \in {"If", "Ret"}

RunInv ==
    /\ BlocksOK(blocks, saturating)
    /\ free = <<>> /\ loopStack = <<>> /\ current \in 1..(Panic - 1)
    /\ \A b \in 1..Panic : EndedBlock(blocks[b])
    /\ blocks[Panic][1].op = "Ret"
    /\ tape \in [Cells -> Cell] /\ stdin \in Seq(Cell)
    /\ printed \in Seq(Cell) /\ Len(printed) <= MaxPrinted
    /\ index \in Int /\ (saturating => InTape(index))
    /\ phase = "run" => Located

(* The inductive invariant.                                                *)
Inv ==
    /\ saturating \in BOOLEAN
    /\ phase \in {"parse", "compile", "run", "returned", "panicked"}
    /\ phase = "parse" => /\ pc = <<1, 1>> /\ index = 0 /\ printed = <<>>
                          /\ current = 1 /\ loopStack = <<>>
    /\ phase = "compile" => CompileInv
    /\ phase \in {"run", "returned", "panicked"} => RunInv

-----------------------------------------------------------------------------

(* What compile emits are stencils, with the fields it gives them.         *)
LEMMA StencilsAre ==
    /\ Check \in Stencils /\ Check.op = "Check"
    /\ \A z, o \in Nat : If(z, o) \in Stencils /\ If(z, o).op = "If"
                         /\ If(z, o).zero = z /\ If(z, o).other = o
    /\ \A b \in Nat : Jump(b) \in Stencils /\ Jump(b).op = "Jump" /\ Jump(b).block = b
    /\ \A n \in Int : Ret(n) \in Stencils /\ Ret(n).op = "Ret" /\ Ret(n).n = n
    /\ \A op \in Plain, n \in Int : /\ Stencil(op, n) \in Stencils
                                    /\ Stencil(op, n).op = op /\ Stencil(op, n).n = n
<1> QED BY DEF Stencils, Check, If, Jump, Ret, Stencil

(* The fields of a stencil, by its kind.                                   *)
LEMMA StencilIs ==
    ASSUME NEW x \in Stencils
    PROVE  /\ x.op \in Plain \cup {"If", "Jump", "Check", "Ret"}
           /\ x.op \in Plain => x.n \in Int
           /\ x.op = "If" => x.zero \in Nat /\ x.other \in Nat
           /\ x.op = "Jump" => x.block \in Nat
<1> QED BY DEF Stencils, Plain

(* Sequences: their elements, and what becomes of them when one is         *)
(* appended to, joined, or loses its head.                                 *)
LEMMA ElementsOf ==
    ASSUME NEW S, NEW s \in Seq(S)
    PROVE  Len(s) \in Nat /\ DOMAIN s = 1..Len(s) /\ \A i \in 1..Len(s) : s[i] \in S
<1> QED OBVIOUS

LEMMA AppendIs ==
    ASSUME NEW S, NEW s \in Seq(S), NEW x \in S
    PROVE  /\ Append(s, x) \in Seq(S) /\ Len(Append(s, x)) = Len(s) + 1
           /\ Append(s, x)[Len(s) + 1] = x
           /\ \A i \in 1..Len(s) : Append(s, x)[i] = s[i]
<1> QED OBVIOUS

LEMMA ConcatIs ==
    ASSUME NEW S, NEW s \in Seq(S), NEW t \in Seq(S)
    PROVE  /\ s \o t \in Seq(S) /\ Len(s \o t) = Len(s) + Len(t)
           /\ \A i \in 1..Len(s) : (s \o t)[i] = s[i]
           /\ \A i \in 1..Len(t) : (s \o t)[Len(s) + i] = t[i]
<1> QED OBVIOUS

LEMMA TailIs ==
    ASSUME NEW S, NEW s \in Seq(S), Len(s) > 0
    PROVE  /\ Tail(s) \in Seq(S) /\ Len(Tail(s)) = Len(s) - 1 /\ Head(s) = s[1] /\ s[1] \in S
           /\ \A i \in 1..(Len(s) - 1) : Tail(s)[i] = s[i + 1]
<1>1. s # <<>>
  OBVIOUS
<1> QED BY <1>1

(* How far the stencils of a longer block have moved.                      *)
LEMMA DriftedIs ==
    ASSUME NEW far \in Int, NEW x \in Stencils
    PROVE  Drifted(far, x) \in Int
<1> QED BY StencilIs DEF Drifted, Plain

LEMMA NoDrift ==
    \E d : Drift(<<>>, d)
<1> DEFINE d == [i \in 0..0 |-> 0]
<1>1. d \in [0..0 -> Int] /\ d[0] = 0 /\ Len(<<>>) = 0 /\ 1..0 = {}
  OBVIOUS
<1> QED BY <1>1 DEF Drift

(* A stencil that uses only bytes near enough can be appended.             *)
LEMMA DriftNext ==
    ASSUME NEW s \in Seq(Stencils), NEW d, Drift(s, d), NEW x \in Stencils,
           NearBy(d[Len(s)], x)
    PROVE  \E e : Drift(Append(s, x), e) /\ e[Len(s) + 1] = Drifted(d[Len(s)], x)
<1>0. PICK n \in Nat : n = Len(s)
  BY ElementsOf
<1>1. PICK t : n = Len(s) /\ t = Append(s, x)
  BY <1>0
<1>2. Len(t) = n + 1 /\ t[n + 1] = x /\ \A i \in 1..n : t[i] = s[i]
  BY <1>1, AppendIs
<1>3. /\ d \in [0..n -> Int] /\ d[0] = 0
      /\ \A i \in 1..n : d[i] = Drifted(d[i - 1], s[i]) /\ NearBy(d[i - 1], s[i])
  BY <1>1 DEF Drift
<1>4. PICK far \in Int : far = Drifted(d[n], x)
  BY <1>3, DriftedIs
<1> DEFINE e == [i \in 0..(n + 1) |-> IF i <= n THEN d[i] ELSE far]
<1>5. e \in [0..(n + 1) -> Int]
  BY <1>3
<1>6. e[0] = 0 /\ e[n + 1] = far /\ \A i \in 0..n : e[i] = d[i]
  BY <1>3
<1> HIDE DEF e
<1>7. ASSUME NEW i \in 1..(n + 1)
      PROVE  e[i] = Drifted(e[i - 1], t[i]) /\ NearBy(e[i - 1], t[i])
  <2>1. CASE i \in 1..n
    <3>1. i - 1 \in 0..n /\ i \in 0..n
      BY <2>1
    <3> QED BY <1>2, <1>3, <1>6, <2>1, <3>1
  <2>2. CASE i = n + 1
    <3>1. i - 1 = n /\ n \in 0..n
      BY <2>2
    <3> QED BY <1>1, <1>2, <1>4, <1>6, <2>2, <3>1
  <2> QED BY <2>1, <2>2
<1>8. Drift(t, e)
  BY <1>2, <1>5, <1>6, <1>7 DEF Drift
<1> QED BY <1>1, <1>4, <1>6, <1>8

(* Code that starts with no drift can follow code that ends with none.     *)
LEMMA DriftJoin ==
    ASSUME NEW s \in Seq(Stencils), NEW t \in Seq(Stencils), NEW d, Drift(s, d),
           d[Len(s)] = 0, NEW e, Drift(t, e)
    PROVE  \E f : Drift(s \o t, f)
<1>0. PICK m \in Nat, n \in Nat : m = Len(s) /\ n = Len(t)
  BY ElementsOf
<1>1. PICK st : m = Len(s) /\ n = Len(t) /\ st = s \o t
  BY <1>0
<1>2. /\ Len(st) = m + n /\ \A i \in 1..m : st[i] = s[i]
      /\ \A i \in 1..n : st[m + i] = t[i]
  BY <1>1, ConcatIs
<1>3. /\ d \in [0..m -> Int] /\ d[0] = 0 /\ d[m] = 0
      /\ \A i \in 1..m : d[i] = Drifted(d[i - 1], s[i]) /\ NearBy(d[i - 1], s[i])
  BY <1>1 DEF Drift
<1>4. /\ e \in [0..n -> Int] /\ e[0] = 0
      /\ \A i \in 1..n : e[i] = Drifted(e[i - 1], t[i]) /\ NearBy(e[i - 1], t[i])
  BY <1>1 DEF Drift
<1> DEFINE f == [i \in 0..(m + n) |-> IF i <= m THEN d[i] ELSE e[i - m]]
<1>5. f \in [0..(m + n) -> Int]
  BY <1>3, <1>4
<1>6. /\ f[0] = 0 /\ \A i \in 0..m : f[i] = d[i]
      /\ \A i \in 0..n : f[m + i] = e[i]
  <2>1. \A i \in 0..m : f[i] = d[i]
    OBVIOUS
  <2>2. ASSUME NEW i \in 0..n PROVE f[m + i] = e[i]
    <3>1. m + i \in 0..(m + n) /\ (m + i) - m = i /\ (m + i <= m => i = 0)
      OBVIOUS
    <3> QED BY <1>3, <1>4, <3>1
  <2> HIDE DEF f
  <2>3. f[0] = 0
    BY <1>3, <2>1
  <2> QED BY <2>1, <2>2, <2>3
<1> HIDE DEF f
<1>7. ASSUME NEW i \in 1..(m + n)
      PROVE  f[i] = Drifted(f[i - 1], st[i]) /\ NearBy(f[i - 1], st[i])
  <2>1. CASE i \in 1..m
    <3>1. i - 1 \in 0..m /\ i \in 0..m
      BY <2>1
    <3> QED BY <1>2, <1>3, <1>6, <2>1, <3>1
  <2>2. CASE i \notin 1..m
    <3>1. PICK j \in 1..n : i = m + j
      BY <2>2
    <3>2. j \in 0..n /\ j - 1 \in 0..n /\ i - 1 = m + (j - 1)
      BY <3>1
    <3>3. f[i] = e[j] /\ f[i - 1] = e[j - 1] /\ st[i] = t[j]
      BY <1>2, <1>6, <3>1, <3>2
    <3> QED BY <1>4, <3>3
  <2> QED BY <2>1, <2>2
<1>8. Drift(st, f)
  BY <1>2, <1>5, <1>6, <1>7 DEF Drift
<1> QED BY <1>1, <1>8

-----------------------------------------------------------------------------

(* What a leaf emits: the movement that was counted is how far the         *)
(* stencils move, up to an AddTo.                                          *)
EmitFor(sat, done, op) ==
    LET moved == done.movement + (IF op.op \in {"LeftRight", "AddTo"} THEN op.n ELSE 0)
        stencils == done.stencils
                      \o (IF op.n = 0 /\ op.op \in {"IncDec", "LeftRight"} THEN <<>>
                          ELSE <<Stencil(op.op, op.n)>>)
    IN  IF Abs(moved) > CheckAfter /\ ~ sat
        THEN [movement |-> 0, stencils |-> Append(stencils, Check)]
        ELSE [movement |-> moved, stencils |-> stencils]

Emitted(sat, ops, n, done) ==
    /\ done = [movement |-> done.movement, stencils |-> done.stencils]
    /\ done.movement \in Int /\ done.stencils \in Seq(Stencils)
    /\ \A i \in 1..Len(done.stencils) : done.stencils[i].op \in Plain \cup {"Check"}
    /\ ~ sat => /\ Abs(done.movement) <= CheckAfter
                /\ \E d : /\ Drift(done.stencils, d)
                          /\ n = 0 \/ ops[n].op # "AddTo" =>
                                d[Len(done.stencils)] = done.movement

Emitting == INSTANCE FoldTheorems WITH Op <- EmitFor, Inv <- Emitted

EmitLeaf(ops) == FoldLeft(EmitOp, [movement |-> 0, stencils |-> <<>>], ops)

(* visit of a leaf is the fold that FoldTheorems is about.                 *)
LEMMA EmitIsFold ==
    ASSUME NEW ops
    PROVE  EmitLeaf(ops) = Emitting!Fold(saturating, [movement |-> 0, stencils |-> <<>>], ops)
<1> QED BY Zenon DEF EmitLeaf, FoldLeft, MapThenFoldSet, Max, EmitOp, EmitFor,
             Emitting!Fold, Emitting!Folded, Emitting!Solves, Emitting!Largest

(* One operation, in two steps: its stencil, and the check.                *)
Simple(st) == \A i \in 1..Len(st) : st[i].op \in Plain \cup {"Check"}

DriftsBy(st, far, op, t) ==
    \A d : /\ Drift(st, d) /\ d[Len(st)] = far /\ Abs(far) <= CheckAfter
           /\ op.op = "AddTo" => Abs(op.n) < CheckAfter
           => \E e : /\ Drift(t, e)
                     /\ op.op # "AddTo" =>
                           e[Len(t)] = far + (IF op.op = "LeftRight" THEN op.n ELSE 0)

(* The stencil of one operation, if it has one, moves as the operation     *)
(* does.                                                                   *)
LEMMA EmitStencil ==
    ASSUME NEW st \in Seq(Stencils), NEW far \in Int, NEW op \in Operation, Simple(st),
           NEW t, t = st \o (IF op.n = 0 /\ op.op \in {"IncDec", "LeftRight"} THEN <<>>
                             ELSE <<Stencil(op.op, op.n)>>)
    PROVE  t \in Seq(Stencils) /\ Simple(t) /\ DriftsBy(st, far, op, t)
<1>1. op.op \in Plain /\ op.n \in Int
  BY DEF Operation, Plain
<1>2. CASE op.n = 0 /\ op.op \in {"IncDec", "LeftRight"}
  <2>1. t = st
    BY <1>2
  <2> QED BY <1>1, <1>2, <2>1 DEF DriftsBy
<1>3. CASE ~ (op.n = 0 /\ op.op \in {"IncDec", "LeftRight"})
  <2>1. PICK x : x = Stencil(op.op, op.n)
    OBVIOUS
  <2>2. x \in Stencils /\ x.op = op.op /\ x.n = op.n
    BY <1>1, <2>1, StencilsAre
  <2>3. t = Append(st, x)
    BY <1>3, <2>1, <2>2
  <2>4. /\ t \in Seq(Stencils) /\ Len(t) = Len(st) + 1 /\ t[Len(st) + 1] = x
        /\ \A i \in 1..Len(st) : t[i] = st[i]
    BY <2>2, <2>3, AppendIs
  <2>5. Simple(t)
    <3>1. Len(st) \in Nat /\ \A i \in 1..Len(t) : i \in 1..Len(st) \/ i = Len(st) + 1
      BY <2>4, ElementsOf
    <3> QED BY <1>1, <2>2, <2>4, <3>1 DEF Simple
  <2>6. ASSUME NEW d, Drift(st, d), d[Len(st)] = far, Abs(far) <= CheckAfter,
               op.op = "AddTo" => Abs(op.n) < CheckAfter
        PROVE  \E e : /\ Drift(t, e)
                      /\ op.op # "AddTo" =>
                            e[Len(t)] = far + (IF op.op = "LeftRight" THEN op.n ELSE 0)
    <3>1. NearBy(far, x)
      BY <2>2, <2>6 DEF NearBy
    <3>2. Drifted(far, x) = far + (IF op.op = "LeftRight" THEN op.n ELSE 0)
      BY <1>1, <2>2 DEF Drifted, Plain
    <3>3. PICK e : Drift(t, e) /\ e[Len(st) + 1] = Drifted(d[Len(st)], x)
      BY <2>2, <2>3, <2>6, <3>1, DriftNext
    <3> QED BY <2>4, <2>6, <3>2, <3>3
  <2> QED BY <2>4, <2>5, <2>6 DEF DriftsBy
<1> QED BY <1>2, <1>3

(* An operation keeps the movement counted since the last check equal to   *)
(* the drift of the stencils, and both within the limit.                   *)
LEMMA EmitStep ==
    ASSUME NEW sat \in BOOLEAN, NEW ops, NEW n \in Nat, n > 0, NEW op \in Operation, op = ops[n],
           n > 1 => ops[n - 1].op # "AddTo",
           op.op = "AddTo" => Abs(op.n) < CheckAfter,
           NEW done, Emitted(sat, ops, n - 1, done)
    PROVE  Emitted(sat, ops, n, EmitFor(sat, done, op))
<1>1. PICK far, st : far = done.movement /\ st = done.stencils
  OBVIOUS
<1>2. /\ far \in Int /\ st \in Seq(Stencils) /\ Len(st) \in Nat
      /\ \A i \in 1..Len(st) : st[i].op \in Plain \cup {"Check"}
      /\ ~ sat => /\ Abs(far) <= CheckAfter
                  /\ \E d : Drift(st, d) /\ (n - 1 = 0 \/ ops[n - 1].op # "AddTo" => d[Len(st)] = far)
  <2>1. /\ far \in Int /\ st \in Seq(Stencils)
        /\ \A i \in 1..Len(st) : st[i].op \in Plain \cup {"Check"}
        /\ ~ sat => /\ Abs(far) <= CheckAfter
                    /\ \E d : Drift(st, d) /\ (n - 1 = 0 \/ ops[n - 1].op # "AddTo" => d[Len(st)] = far)
    BY <1>1 DEF Emitted
  <2> QED BY <2>1, ElementsOf, Zenon
<1>3. n - 1 = 0 \/ ops[n - 1].op # "AddTo"
  OBVIOUS
<1>4. op.op \in Plain /\ op.n \in Int /\ CheckAfter \in Nat
  BY BfAssumption DEF Operation, Plain
<1>5. PICK moved \in Int : moved = far + (IF op.op \in {"LeftRight", "AddTo"} THEN op.n ELSE 0)
  BY <1>2, <1>4
<1>6. PICK t : t = st \o (IF op.n = 0 /\ op.op \in {"IncDec", "LeftRight"} THEN <<>>
                          ELSE <<Stencil(op.op, op.n)>>)
  OBVIOUS
<1>7. /\ t \in Seq(Stencils) /\ \A i \in 1..Len(t) : t[i].op \in Plain \cup {"Check"}
      /\ ~ sat => \E e : /\ Drift(t, e)
                         /\ op.op # "AddTo" =>
                               e[Len(t)] = far + (IF op.op = "LeftRight" THEN op.n ELSE 0)
  <2>1. Simple(st)
    BY <1>2, Zenon DEF Simple
  <2>2. t \in Seq(Stencils) /\ Simple(t) /\ DriftsBy(st, far, op, t)
    BY <1>2, <1>6, <2>1, EmitStencil
  <2>3. \A i \in 1..Len(t) : t[i].op \in Plain \cup {"Check"}
    BY <2>2, Zenon DEF Simple
  <2>4. ASSUME ~ sat
        PROVE  \E e : /\ Drift(t, e)
                      /\ op.op # "AddTo" =>
                            e[Len(t)] = far + (IF op.op = "LeftRight" THEN op.n ELSE 0)
    <3>1. PICK d : Drift(st, d) /\ d[Len(st)] = far
      BY <1>2, <1>3, <2>4
    <3>2. Abs(far) <= CheckAfter
      BY <1>2, <2>4
    <3> QED BY <2>2, <3>1, <3>2, Zenon DEF DriftsBy
  <2> QED BY <2>2, <2>3, <2>4
<1>8. Len(t) \in Nat
  BY <1>7, ElementsOf
<1>9. EmitFor(sat, done, op)
        = IF Abs(moved) > CheckAfter /\ ~ sat THEN [movement |-> 0, stencils |-> Append(t, Check)]
          ELSE [movement |-> moved, stencils |-> t]
  BY <1>1, <1>5, <1>6, Zenon DEF EmitFor
<1>10. CASE Abs(moved) > CheckAfter /\ ~ sat
  <2>1. /\ Append(t, Check) \in Seq(Stencils) /\ Len(Append(t, Check)) = Len(t) + 1
        /\ Append(t, Check)[Len(t) + 1] = Check
        /\ \A i \in 1..Len(t) : Append(t, Check)[i] = t[i]
    BY <1>7, StencilsAre, AppendIs
  <2>2. \A i \in 1..(Len(t) + 1) : Append(t, Check)[i].op \in Plain \cup {"Check"}
    <3>1. \A i \in 1..(Len(t) + 1) : i \in 1..Len(t) \/ i = Len(t) + 1
      BY <1>8
    <3> QED BY <1>7, <2>1, <3>1, StencilsAre
  <2>3. \E d : Drift(Append(t, Check), d) /\ d[Len(t) + 1] = 0
    <3>1. PICK e : Drift(t, e)
      BY <1>7, <1>10
    <3>2. NearBy(e[Len(t)], Check) /\ Drifted(e[Len(t)], Check) = 0
      BY StencilsAre DEF NearBy, Touches, Drifted
    <3> QED BY <1>7, <3>1, <3>2, StencilsAre, DriftNext
  <2>4. Abs(0) <= CheckAfter
    BY <1>4 DEF Abs
  <2> QED BY <1>9, <1>10, <2>1, <2>2, <2>3, <2>4 DEF Emitted
<1>11. CASE ~ (Abs(moved) > CheckAfter /\ ~ sat)
  <2>1. ~ sat => Abs(moved) <= CheckAfter
    BY <1>4, <1>11 DEF Abs
  <2>2. op.op # "AddTo" => moved = far + (IF op.op = "LeftRight" THEN op.n ELSE 0)
    BY <1>5
  <2> QED BY <1>3, <1>7, <1>9, <1>11, <2>1, <2>2 DEF Emitted
<1> QED BY <1>10, <1>11

(* A leaf becomes stencils that go on and, by default, drift no further    *)
(* than the limit before one of them uses a byte.                          *)
LEMMA EmitLeafIs ==
    ASSUME saturating \in BOOLEAN, NEW ops \in Seq(Operation),
           \A j \in 1..Len(ops) :
              ops[j].op = "AddTo" => j = Len(ops) /\ Abs(ops[j].n) < CheckAfter
    PROVE  /\ EmitLeaf(ops).stencils \in Seq(Stencils)
           /\ \A i \in 1..Len(EmitLeaf(ops).stencils) :
                 EmitLeaf(ops).stencils[i].op \in Plain \cup {"Check"}
           /\ ~ saturating => \E d : Drift(EmitLeaf(ops).stencils, d)
<1>1. PICK sat \in BOOLEAN, N \in Nat : sat = saturating /\ N = Len(ops)
  BY ElementsOf
<1>2. DOMAIN ops = 1..N /\ \A j \in 1..N : ops[j] \in Operation
  BY <1>1, ElementsOf
<1> DEFINE base == [movement |-> 0, stencils |-> <<>>]
<1>3. Emitted(sat, ops, 0, base)
  <2>1. base.movement = 0 /\ base.stencils = <<>> /\ Abs(0) <= CheckAfter
    BY BfAssumption DEF Abs
  <2>2. <<>> \in Seq(Stencils) /\ Len(<<>>) = 0 /\ 1..0 = {}
    OBVIOUS
  <2>3. PICK d : Drift(<<>>, d)
    BY NoDrift
  <2>4. d[0] = 0
    BY <2>3 DEF Drift
  <2> QED BY <2>1, <2>2, <2>3, <2>4 DEF Emitted
<1> HIDE DEF base
<1>4. ASSUME NEW n \in 1..N, NEW v, Emitted(sat, ops, n - 1, v)
      PROVE  Emitted(sat, ops, n, EmitFor(sat, v, ops[n]))
  <2>1. n \in Nat /\ n > 0 /\ ops[n] \in Operation
    BY <1>2
  <2>2. n > 1 => n - 1 \in 1..N /\ n - 1 # N
    OBVIOUS
  <2>3. n > 1 => ops[n - 1].op # "AddTo"
    BY <1>1, <2>2
  <2>4. ops[n].op = "AddTo" => Abs(ops[n].n) < CheckAfter
    BY <1>1
  <2> QED BY <1>4, <2>1, <2>3, <2>4, EmitStep
<1>5. Emitted(sat, ops, N, Emitting!Fold(sat, base, ops))
  BY <1>2, <1>3, <1>4, Emitting!FoldInduction
<1>6. EmitLeaf(ops) = Emitting!Fold(sat, base, ops)
  BY <1>1, EmitIsFold DEF base
<1>7. Emitted(sat, ops, N, EmitLeaf(ops))
  BY <1>5, <1>6
<1> QED BY <1>1, <1>7 DEF Emitted

-----------------------------------------------------------------------------

(* What the first visit counts.                                            *)
Count(v, kind, i) == Cardinality({j \in 1..i : v[j].kind = kind})

(* The visits of one kind among the first i, counted one by one.           *)
LEMMA CountIs ==
    ASSUME NEW v, NEW kind, NEW i \in Nat
    PROVE  /\ Count(v, kind, i) \in Nat /\ Count(v, kind, 0) = 0
           /\ Count(v, kind, i + 1)
                = IF v[i + 1].kind = kind THEN Count(v, kind, i) + 1 ELSE Count(v, kind, i)
<1> DEFINE A == {j \in 1..i : v[j].kind = kind}
           B == {j \in 1..(i + 1) : v[j].kind = kind}
<1>1. IsFiniteSet(A) /\ Cardinality(A) \in Nat
  <2>1. IsFiniteSet(1..i) /\ A \subseteq 1..i
    BY FS_Interval
  <2> QED BY <2>1, FS_Subset, FS_CardinalityType
<1>2. Cardinality({j \in 1..0 : v[j].kind = kind}) = 0
  <2>1. {j \in 1..0 : v[j].kind = kind} = {}
    OBVIOUS
  <2> QED BY <2>1, FS_EmptySet
<1>3. CASE v[i + 1].kind = kind
  <2>1. B = A \cup {i + 1} /\ i + 1 \notin A
    BY <1>3
  <2>2. Cardinality(B) = Cardinality(A) + 1
    BY <1>1, <2>1, FS_AddElement
  <2> QED BY <1>1, <1>2, <1>3, <2>2 DEF Count
<1>4. CASE v[i + 1].kind # kind
  <2>1. B = A
    BY <1>4
  <2> QED BY <1>1, <1>2, <1>4, <2>1 DEF Count
<1> QED BY <1>3, <1>4

LEMMA CountGrows ==
    ASSUME NEW v, NEW kind, NEW n \in Nat, NEW i \in 0..n
    PROVE  Count(v, kind, i) <= Count(v, kind, n)
<1>1. IsFiniteSet(1..n) /\ {j \in 1..n : v[j].kind = kind} \subseteq 1..n
  BY FS_Interval
<1>2. {j \in 1..i : v[j].kind = kind} \subseteq {j \in 1..n : v[j].kind = kind}
  OBVIOUS
<1>3. IsFiniteSet({j \in 1..n : v[j].kind = kind})
  BY <1>1, FS_Subset
<1> QED BY <1>2, <1>3, FS_Subset DEF Count

(* A loop is visited on the way in and on the way out.                     *)
LEMMA LoopsAre ==
    ASSUME NEW v \in Seq(Visit)
    PROVE  Cardinality({i \in DOMAIN v : v[i].kind # "Leaf"})
             = Count(v, "IntoLoop", Len(v)) + Count(v, "OutOfLoop", Len(v))
<1>1. PICK n \in Nat : n = Len(v)
  BY ElementsOf
<1>2. DOMAIN v = 1..n /\ \A i \in 1..n : v[i].kind \in {"Leaf", "IntoLoop", "OutOfLoop"}
  <2>1. \A x \in Visit : x.kind \in {"Leaf", "IntoLoop", "OutOfLoop"}
    BY DEF Visit
  <2> QED BY <1>1, <2>1, ElementsOf
<1> DEFINE A == {j \in 1..n : v[j].kind = "IntoLoop"}
           B == {j \in 1..n : v[j].kind = "OutOfLoop"}
<1>3. {i \in DOMAIN v : v[i].kind # "Leaf"} = A \cup B /\ A \cap B = {}
  BY <1>2
<1>4. IsFiniteSet(A) /\ IsFiniteSet(B)
  <2>1. IsFiniteSet(1..n) /\ A \subseteq 1..n /\ B \subseteq 1..n
    BY FS_Interval
  <2> QED BY <2>1, FS_Subset
<1>5. Cardinality(A \cap B) = 0 /\ Cardinality(A) \in Nat /\ Cardinality(B) \in Nat
  BY <1>3, <1>4, FS_EmptySet, FS_CardinalityType
<1>6. Cardinality(A \cup B) = Cardinality(A) + Cardinality(B) - Cardinality(A \cap B)
  BY <1>4, FS_Union
<1>7. Cardinality(A \cup B) = Cardinality(A) + Cardinality(B)
  <2> HIDE DEF A, B
  <2> QED BY <1>5, <1>6
<1>8. Count(v, "IntoLoop", Len(v)) = Cardinality(A) /\ Count(v, "OutOfLoop", Len(v)) = Cardinality(B)
  BY <1>1 DEF Count
<1> HIDE DEF A, B
<1> QED BY <1>3, <1>7, <1>8

(* Shaped visits, as the second pass relies on it: loops nest, there are   *)
(* as many ends of blocks as blocks, and leaves are as they should be.     *)
LEMMA ShapedIs ==
    ASSUME NEW v, Shaped(v), NEW loops, loops = Cardinality({i \in DOMAIN v : v[i].kind # "Leaf"})
    PROVE  v \in Seq(Visit) /\ loops \in Nat /\ Nests(v, 0) /\ Needs(v, loops) /\ LeavesOK(v)
<1>1. v \in Seq(Visit)
  BY DEF Shaped
<1>2. PICK n \in Nat : n = Len(v)
  BY <1>1, ElementsOf
<1>3. PICK a, b : a = [i \in 0..n |-> Count(v, "IntoLoop", i)]
                  /\ b = [i \in 0..n |-> Count(v, "OutOfLoop", i)]
  OBVIOUS
<1>4. \A i \in 0..n : a[i] = Count(v, "IntoLoop", i) /\ b[i] = Count(v, "OutOfLoop", i)
  BY <1>3
<1>5. a[0] = 0 /\ b[0] = 0 /\ \A i \in 0..n : a[i] \in Nat /\ b[i] \in Nat
  BY <1>4, CountIs
<1>6. \A i \in 1..n : /\ a[i] = IF v[i].kind = "IntoLoop" THEN a[i - 1] + 1 ELSE a[i - 1]
                      /\ b[i] = IF v[i].kind = "OutOfLoop" THEN b[i - 1] + 1 ELSE b[i - 1]
  <2> TAKE i \in 1..n
  <2>1. i - 1 \in Nat /\ i - 1 \in 0..n /\ i \in 0..n /\ (i - 1) + 1 = i
    OBVIOUS
  <2>2. /\ Count(v, "IntoLoop", i) = IF v[i].kind = "IntoLoop" THEN Count(v, "IntoLoop", i - 1) + 1
                                     ELSE Count(v, "IntoLoop", i - 1)
        /\ Count(v, "OutOfLoop", i) = IF v[i].kind = "OutOfLoop" THEN Count(v, "OutOfLoop", i - 1) + 1
                                      ELSE Count(v, "OutOfLoop", i - 1)
    BY <2>1, CountIs
  <2> QED BY <1>4, <2>1, <2>2
<1>7. \A i \in 0..n : a[i] <= a[n]
  BY <1>4, CountGrows
<1>8. a[n] = b[n] /\ \A i \in 0..n : a[i] >= b[i]
  <2>1. \A i \in 0..n : OpenLoops(v, i) = a[i] - b[i]
    BY <1>4 DEF OpenLoops, Count
  <2>2. (\A i \in 1..n : OpenLoops(v, i) >= 0) /\ OpenLoops(v, n) = 0
    BY <1>2 DEF Shaped
  <2>3. \A i \in 1..n : a[i] >= b[i]
    BY <1>5, <2>1, <2>2
  <2>4. a[n] = b[n]
    BY <1>5, <2>1, <2>2
  <2> QED BY <1>5, <2>3, <2>4
<1>9. loops = 2 * a[n] /\ loops \in Nat
  BY <1>1, <1>2, <1>4, <1>5, <1>8, LoopsAre
<1>10. Nests(v, 0)
  <2> DEFINE d == [i \in 0..n |-> a[i] - b[i]]
  <2>1. d \in [0..n -> Nat] /\ d[0] = 0 /\ d[n] = 0 /\ \A i \in 0..n : d[i] = a[i] - b[i]
    BY <1>5, <1>8
  <2> HIDE DEF d
  <2>2. ASSUME NEW i \in 1..n
        PROVE  /\ v[i].kind = "IntoLoop" => d[i] = d[i - 1] + 1
               /\ v[i].kind = "OutOfLoop" => d[i - 1] = d[i] + 1
               /\ v[i].kind = "Leaf" => d[i] = d[i - 1]
    <3>1. i \in 0..n /\ i - 1 \in 0..n
      OBVIOUS
    <3>2. PICK ai \in Nat, aj \in Nat, bi \in Nat, bj \in Nat :
            ai = a[i] /\ aj = a[i - 1] /\ bi = b[i] /\ bj = b[i - 1]
      BY <1>5, <3>1
    <3>3. d[i] = ai - bi /\ d[i - 1] = aj - bj
      BY <2>1, <3>1, <3>2
    <3>4. ai = (IF v[i].kind = "IntoLoop" THEN aj + 1 ELSE aj)
          /\ bi = (IF v[i].kind = "OutOfLoop" THEN bj + 1 ELSE bj)
      BY <1>6, <3>2
    <3> QED BY <3>3, <3>4
  <2> QED BY <1>2, <2>1, <2>2 DEF Nests
<1>11. Needs(v, loops)
  <2> DEFINE c == [i \in 0..n |-> 2 * (a[n] - a[i])]
  <2>1. c \in [0..n -> Nat] /\ c[0] = loops /\ c[n] = 0 /\ \A i \in 0..n : c[i] = 2 * (a[n] - a[i])
    BY <1>5, <1>7, <1>9
  <2> HIDE DEF c
  <2>2. ASSUME NEW i \in 1..n
        PROVE  c[i - 1] = IF v[i].kind = "IntoLoop" THEN c[i] + 2 ELSE c[i]
    <3>1. i \in 0..n /\ i - 1 \in 0..n /\ n \in 0..n
      OBVIOUS
    <3>2. PICK ai \in Nat, aj \in Nat, an \in Nat : ai = a[i] /\ aj = a[i - 1] /\ an = a[n]
      BY <1>5, <3>1
    <3>3. c[i] = 2 * (an - ai) /\ c[i - 1] = 2 * (an - aj)
      BY <2>1, <3>1, <3>2
    <3>4. ai = (IF v[i].kind = "IntoLoop" THEN aj + 1 ELSE aj)
      BY <1>6, <3>2
    <3> QED BY <3>3, <3>4
  <2> QED BY <1>2, <2>1, <2>2 DEF Needs
<1>12. LeavesOK(v)
  <2>1. ASSUME NEW i \in 1..Len(v), v[i].kind = "Leaf", NEW j \in 1..Len(v[i].ops),
               v[i].ops[j].op = "AddTo"
        PROVE  j = Len(v[i].ops) /\ Abs(v[i].ops[j].n) < CheckAfter
    <3>1. j = Len(v[i].ops) /\ Abs(v[i].ops[j].n) \in 1..(CheckAfter - 1)
      BY <2>1, Zenon DEF Shaped
    <3> QED BY <3>1, BfAssumption
  <2>2. \A i \in 2..Len(v) : v[i].kind = "Leaf" => v[i - 1].kind # "Leaf"
    BY DEF Shaped
  <2> QED BY <2>1, <2>2, Zenon DEF LeavesOK
<1> QED BY <1>1, <1>9, <1>10, <1>11, <1>12

(* The visits to come, after one of them.                                  *)
LEMMA NestsTail ==
    ASSUME NEW v \in Seq(Visit), Len(v) > 0, NEW n \in Nat, Nests(v, n)
    PROVE  /\ v[1].kind = "IntoLoop" => Nests(Tail(v), n + 1)
           /\ v[1].kind = "OutOfLoop" => n > 0 /\ Nests(Tail(v), n - 1)
           /\ v[1].kind = "Leaf" => Nests(Tail(v), n)
<1>0. PICK m \in Nat : m + 1 = Len(v)
  <2>1. Len(v) \in Nat /\ Len(v) - 1 \in Nat /\ (Len(v) - 1) + 1 = Len(v)
    BY ElementsOf
  <2> QED BY <2>1
<1>1. PICK t : m + 1 = Len(v) /\ t = Tail(v)
  BY <1>0
<1>2. Len(t) = m /\ \A i \in 1..m : t[i] = v[i + 1]
  <2>1. Len(t) = Len(v) - 1 /\ \A i \in 1..(Len(v) - 1) : t[i] = v[i + 1]
    BY <1>1, TailIs
  <2> QED BY <1>1, <2>1
<1>3. PICK d \in [0..(m + 1) -> Nat] :
        /\ d[0] = n /\ d[m + 1] = 0
        /\ \A i \in 1..(m + 1) :
              /\ v[i].kind = "IntoLoop" => d[i] = d[i - 1] + 1
              /\ v[i].kind = "OutOfLoop" => d[i - 1] = d[i] + 1
              /\ v[i].kind = "Leaf" => d[i] = d[i - 1]
  BY <1>1 DEF Nests
<1> DEFINE e == [i \in 0..m |-> d[i + 1]]
<1>4. e \in [0..m -> Nat] /\ e[0] = d[1] /\ e[m] = 0 /\ \A i \in 0..m : e[i] = d[i + 1]
  BY <1>3
<1> HIDE DEF e
<1>5. ASSUME NEW i \in 1..m
      PROVE  /\ t[i].kind = "IntoLoop" => e[i] = e[i - 1] + 1
             /\ t[i].kind = "OutOfLoop" => e[i - 1] = e[i] + 1
             /\ t[i].kind = "Leaf" => e[i] = e[i - 1]
  <2>1. i \in 0..m /\ i - 1 \in 0..m /\ i + 1 \in 1..(m + 1) /\ (i + 1) - 1 = i /\ (i - 1) + 1 = i
    OBVIOUS
  <2>2. e[i] = d[i + 1] /\ e[i - 1] = d[i] /\ t[i] = v[i + 1]
    BY <1>2, <1>4, <2>1
  <2> QED BY <1>3, <2>1, <2>2
<1>6. Nests(t, e[0])
  BY <1>2, <1>4, <1>5 DEF Nests
<1>7. 1 \in 1..(m + 1) /\ 1 - 1 = 0 /\ d[1] \in Nat
  BY <1>3
<1>8. /\ v[1].kind = "IntoLoop" => d[1] = n + 1
      /\ v[1].kind = "OutOfLoop" => n = d[1] + 1
      /\ v[1].kind = "Leaf" => d[1] = n
  BY <1>3, <1>7
<1>9. v[1].kind = "OutOfLoop" => n > 0 /\ d[1] = n - 1
  <2>1. PICK k \in Nat : k = d[1]
    BY <1>7
  <2>2. n = k + 1 => n > 0 /\ k = n - 1
    OBVIOUS
  <2> QED BY <1>8, <2>1, <2>2
<1> QED BY <1>1, <1>4, <1>6, <1>8, <1>9

(* A visit into a loop needs two blocks, any other none.                   *)
LEMMA NeedsTail ==
    ASSUME NEW v \in Seq(Visit), Len(v) > 0, NEW n \in Nat, Needs(v, n)
    PROVE  /\ v[1].kind = "IntoLoop" => n >= 2 /\ Needs(Tail(v), n - 2)
           /\ v[1].kind # "IntoLoop" => Needs(Tail(v), n)
<1>0. PICK m \in Nat : m + 1 = Len(v)
  <2>1. Len(v) \in Nat /\ Len(v) - 1 \in Nat /\ (Len(v) - 1) + 1 = Len(v)
    BY ElementsOf
  <2> QED BY <2>1
<1>1. PICK t : m + 1 = Len(v) /\ t = Tail(v)
  BY <1>0
<1>2. Len(t) = m /\ \A i \in 1..m : t[i] = v[i + 1]
  <2>1. Len(t) = Len(v) - 1 /\ \A i \in 1..(Len(v) - 1) : t[i] = v[i + 1]
    BY <1>1, TailIs
  <2> QED BY <1>1, <2>1
<1>3. PICK c \in [0..(m + 1) -> Nat] :
        /\ c[0] = n /\ c[m + 1] = 0
        /\ \A i \in 1..(m + 1) : c[i - 1] = IF v[i].kind = "IntoLoop" THEN c[i] + 2 ELSE c[i]
  BY <1>1 DEF Needs
<1> DEFINE e == [i \in 0..m |-> c[i + 1]]
<1>4. e \in [0..m -> Nat] /\ e[0] = c[1] /\ e[m] = 0 /\ \A i \in 0..m : e[i] = c[i + 1]
  BY <1>3
<1> HIDE DEF e
<1>5. ASSUME NEW i \in 1..m
      PROVE  e[i - 1] = IF t[i].kind = "IntoLoop" THEN e[i] + 2 ELSE e[i]
  <2>1. i \in 0..m /\ i - 1 \in 0..m /\ i + 1 \in 1..(m + 1) /\ (i + 1) - 1 = i /\ (i - 1) + 1 = i
    OBVIOUS
  <2>2. e[i] = c[i + 1] /\ e[i - 1] = c[i] /\ t[i] = v[i + 1]
    BY <1>2, <1>4, <2>1
  <2> QED BY <1>3, <2>1, <2>2
<1>6. Needs(t, e[0])
  BY <1>2, <1>4, <1>5 DEF Needs
<1>7. 1 \in 1..(m + 1) /\ 1 - 1 = 0 /\ c[1] \in Nat
  BY <1>3
<1>8. n = IF v[1].kind = "IntoLoop" THEN c[1] + 2 ELSE c[1]
  BY <1>3, <1>7
<1>9. /\ v[1].kind = "IntoLoop" => n >= 2 /\ c[1] = n - 2
      /\ v[1].kind # "IntoLoop" => c[1] = n
  BY <1>7, <1>8
<1> QED BY <1>1, <1>4, <1>6, <1>9

(* Leaves stay as they should be when the first visit is made, and no leaf *)
(* follows a leaf.                                                         *)
LEMMA LeavesTail ==
    ASSUME NEW v \in Seq(Visit), Len(v) > 0, LeavesOK(v)
    PROVE  /\ Tail(v) \in Seq(Visit) /\ LeavesOK(Tail(v))
           /\ v[1].kind = "Leaf" /\ Len(Tail(v)) > 0 => Tail(v)[1].kind # "Leaf"
<1>1. PICK t : t = Tail(v)
  OBVIOUS
<1>2. /\ Len(v) \in Nat /\ Len(t) = Len(v) - 1 /\ t \in Seq(Visit)
      /\ \A i \in 1..Len(t) : t[i] = v[i + 1] /\ i + 1 \in 1..Len(v)
  <2>1. Len(v) \in Nat /\ Len(t) = Len(v) - 1 /\ t \in Seq(Visit)
    BY <1>1, TailIs, ElementsOf
  <2>2. \A i \in 1..(Len(v) - 1) : t[i] = v[i + 1]
    BY <1>1, TailIs
  <2> QED BY <2>1, <2>2
<1>3. \A i \in 2..Len(t) : t[i].kind = "Leaf" => t[i - 1].kind # "Leaf"
  <2> TAKE i \in 2..Len(t)
  <2>1. i \in 1..Len(t) /\ i - 1 \in 1..Len(t) /\ i + 1 \in 2..Len(v)
        /\ (i - 1) + 1 = i /\ (i + 1) - 1 = i
    BY <1>2
  <2>2. t[i] = v[i + 1] /\ t[i - 1] = v[i]
    BY <1>2, <2>1
  <2>3. v[i + 1].kind = "Leaf" => v[(i + 1) - 1].kind # "Leaf"
    BY <2>1, Zenon DEF LeavesOK
  <2> QED BY <2>1, <2>2, <2>3
<1>4. LeavesOK(t)
  BY <1>2, <1>3, Zenon DEF LeavesOK
<1>5. v[1].kind = "Leaf" /\ Len(t) > 0 => t[1].kind # "Leaf"
  <2> HAVE v[1].kind = "Leaf" /\ Len(t) > 0
  <2>1. 1 \in 1..Len(t) /\ 2 \in 2..Len(v) /\ 1 + 1 = 2 /\ 2 - 1 = 1
    BY <1>2
  <2>2. t[1] = v[2]
    BY <1>2, <2>1
  <2>3. v[2].kind = "Leaf" => v[2 - 1].kind # "Leaf"
    BY <2>1, Zenon DEF LeavesOK
  <2> QED BY <2>1, <2>2, <2>3
<1> QED BY <1>1, <1>2, <1>4, <1>5

-----------------------------------------------------------------------------

LEMMA LenOf ==
    ASSUME NEW n \in Nat, NEW S, NEW f \in [1..n -> S]
    PROVE  f \in Seq(S) /\ Len(f) = n
<1>1. f \in Seq(S)
  BY SeqDef
<1>2. DOMAIN f = 1..n /\ DOMAIN f = 1..Len(f) /\ Len(f) \in Nat
  BY <1>1, ElementsOf
<1> QED BY <1>1, <1>2

LEMMA FrontIs ==
    ASSUME NEW S, NEW s \in Seq(S), Len(s) > 0
    PROVE  /\ Front(s) \in Seq(S) /\ Len(Front(s)) = Len(s) - 1
           /\ \A i \in 1..(Len(s) - 1) : Front(s)[i] = s[i]
           /\ Last(s) = s[Len(s)] /\ Last(s) \in S
<1>1. Len(s) \in Nat /\ Len(s) \in 1..Len(s) /\ s[Len(s)] \in S
  BY ElementsOf
<1>2. Front(s) \in Seq(S)
  <2>1. \A i \in 1..(Len(s) - 1) : s[i] \in S
    BY ElementsOf
  <2>2. SubSeq(s, 1, Len(s) - 1) \in Seq(S)
    BY <1>1, <2>1, SubSeqProperties
  <2> QED BY <2>2 DEF Front
<1>3. Len(Front(s)) = Len(s) - 1 /\ \A i \in 1..(Len(s) - 1) : Front(s)[i] = s[i]
  <2>1. PICK n \in Nat : n = Len(s) - 1
    BY <1>1
  <2>2. n - 1 + 1 = n /\ (n < 1 => n = 0) /\ \A i \in 1..n : 1 + i - 1 = i /\ s[i] \in S
    BY <2>1, ElementsOf
  <2>3. /\ Len(SubSeq(s, 1, n)) = IF 1 <= n THEN n - 1 + 1 ELSE 0
        /\ \A i \in 1..(n - 1 + 1) : SubSeq(s, 1, n)[i] = s[1 + i - 1]
    BY <2>2, SubSeqProperties
  <2>4. Len(SubSeq(s, 1, n)) = n /\ \A i \in 1..n : SubSeq(s, 1, n)[i] = s[i]
    BY <2>2, <2>3
  <2> QED BY <2>1, <2>4 DEF Front
<1> QED BY <1>1, <1>2, <1>3 DEF Last

(* A block that is open stays open, or ends with the stencil appended.     *)
LEMMA AppendEnds ==
    ASSUME NEW s \in Seq(Stencils), NEW x \in Stencils, OpenBlock(s)
    PROVE  /\ GoesOn(x) => OpenBlock(Append(s, x))
           /\ ~ GoesOn(x) => EndedBlock(Append(s, x))
<1>0. PICK n \in Nat : n = Len(s)
  BY ElementsOf
<1>1. PICK t : n = Len(s) /\ t = Append(s, x)
  BY <1>0
<1>2. t \in Seq(Stencils) /\ Len(t) = n + 1 /\ t[n + 1] = x /\ \A i \in 1..n : t[i] = s[i]
  BY <1>1, AppendIs
<1>3. \A i \in 1..n : GoesOn(t[i])
  BY <1>1, <1>2 DEF OpenBlock
<1>4. t # <<>> /\ (n + 1) - 1 = n /\ \A i \in 1..(n + 1) : i \in 1..n \/ i = n + 1
  BY <1>2
<1>5. GoesOn(x) => OpenBlock(t)
  BY <1>2, <1>3, <1>4 DEF OpenBlock
<1>6. ~ GoesOn(x) => EndedBlock(t)
  BY <1>2, <1>3, <1>4 DEF EndedBlock
<1> QED BY <1>1, <1>5, <1>6

(* Which stencils are followed by another.                                 *)
LEMMA GoingOn ==
    /\ \A x : x.op \in Plain \cup {"Check"} => GoesOn(x)
    /\ GoesOn(Check)
    /\ \A z, o \in Nat : GoesOn(If(z, o)) <=> o = Behind
    /\ \A b \in Nat : ~ GoesOn(Jump(b))
    /\ \A n \in Int : ~ GoesOn(Ret(n))
<1>1. \A x : x.op \in Plain \cup {"Check"} => GoesOn(x)
  BY DEF GoesOn, Ends, Plain
<1>2. GoesOn(Check) /\ \A b \in Nat : ~ GoesOn(Jump(b))
  BY StencilsAre DEF GoesOn, Ends
<1>3. \A n \in Int : ~ GoesOn(Ret(n))
  BY StencilsAre DEF GoesOn, Ends
<1>4. \A z, o \in Nat : GoesOn(If(z, o)) <=> o = Behind
  BY StencilsAre DEF GoesOn, Ends
<1> QED BY <1>1, <1>2, <1>3, <1>4

(* The stencils of a leaf leave a block open.                              *)
LEMMA OpenJoin ==
    ASSUME NEW s \in Seq(Stencils), OpenBlock(s), NEW t \in Seq(Stencils),
           \A i \in 1..Len(t) : t[i].op \in Plain \cup {"Check"}
    PROVE  OpenBlock(s \o t)
<1>0. PICK m \in Nat, n \in Nat : m = Len(s) /\ n = Len(t)
  BY ElementsOf
<1>1. PICK st : m = Len(s) /\ n = Len(t) /\ st = s \o t
  BY <1>0
<1>2. /\ Len(st) = m + n /\ \A i \in 1..m : st[i] = s[i]
      /\ \A i \in 1..n : st[m + i] = t[i]
  BY <1>1, ConcatIs
<1>3. ASSUME NEW i \in 1..(m + n) PROVE GoesOn(st[i])
  <2>1. CASE i \in 1..m
    BY <1>1, <1>2, <2>1 DEF OpenBlock
  <2>2. CASE i \notin 1..m
    <3>1. PICK j \in 1..n : i = m + j
      BY <2>2
    <3>2. st[i] = t[j] /\ t[j].op \in Plain \cup {"Check"}
      BY <1>1, <1>2, <3>1
    <3> QED BY <3>2, GoingOn
  <2> QED BY <2>1, <2>2
<1> QED BY <1>1, <1>2, <1>3 DEF OpenBlock

(* Stencils that are added to blocks leave the jumps there are intact.     *)
Grown(code, more) ==
    /\ Len(more) = Len(code)
    /\ \A b \in 1..Len(code) : /\ Len(code[b]) <= Len(more[b])
                              /\ \A i \in 1..Len(code[b]) : more[b][i] = code[b][i]

(* A jump that leads to a block keeps leading to it when blocks grow.      *)
LEMMA GrownGoes ==
    ASSUME NEW code \in Seq(Seq(Stencils)), NEW more \in Seq(Seq(Stencils)),
           Grown(code, more), NEW x, Goes(code, x)
    PROVE  Goes(more, x)
<1>1. PICK n \in Nat : n = Len(code) /\ n = Len(more)
  BY ElementsOf DEF Grown
<1>2. ASSUME x.op = "Jump"
      PROVE  Len(more[x.block]) > 0 /\ more[x.block][1].op = "If"
  <2>1. PICK b : b = x.block
    OBVIOUS
  <2>2. b \in 1..(n - 1) /\ Len(code[b]) > 0 /\ code[b][1].op = "If"
    BY <1>1, <1>2, <2>1 DEF Goes
  <2>3. b \in 1..n
    BY <2>2
  <2>4. Len(code[b]) \in Nat /\ Len(more[b]) \in Nat
    BY <1>1, <2>3, ElementsOf
  <2>5. 1 \in 1..Len(code[b])
    BY <2>2, <2>4
  <2>6. Len(code[b]) <= Len(more[b]) /\ more[b][1] = code[b][1]
    BY <1>1, <2>3, <2>5 DEF Grown
  <2> QED BY <2>1, <2>2, <2>4, <2>6
<1> QED BY <1>1, <1>2 DEF Goes

(* Blocks that grow by stencils which go where they may are as they should *)
(* be.                                                                     *)
LEMMA GrownOK ==
    ASSUME NEW code, NEW sat, BlocksOK(code, sat), NEW more \in Seq(Seq(Stencils)),
           Grown(code, more),
           \A b \in 1..Len(code) : \A i \in 1..Len(more[b]) :
              i \in 1..Len(code[b]) \/ Goes(more, more[b][i]),
           ~ sat => \A b \in 1..Len(code) : \E d : Drift(more[b], d)
    PROVE  BlocksOK(more, sat)
<1>1. PICK n : n = Len(code) /\ n = Len(more)
  BY DEF Grown
<1>2. code \in Seq(Seq(Stencils)) /\ n >= 2
  BY <1>1 DEF BlocksOK
<1>3. ASSUME NEW b \in 1..n, NEW i \in 1..Len(more[b])
      PROVE  Goes(more, more[b][i])
  <2>1. CASE i \in 1..Len(code[b])
    <3>1. Goes(code, code[b][i]) /\ more[b][i] = code[b][i]
      BY <1>1, <2>1 DEF BlocksOK, Grown
    <3> QED BY <1>2, <3>1, GrownGoes
  <2> QED BY <1>1, <2>1
<1> QED BY <1>1, <1>2, <1>3 DEF BlocksOK

-----------------------------------------------------------------------------

(* A block without code.                                                   *)
LEMMA EmptyBlock ==
    /\ <<>> \in Seq(Stencils) /\ OpenBlock(<<>>) /\ Len(<<>>) = 0
    /\ \E d : Drift(<<>>, d) /\ d[0] = 0
<1>1. <<>> \in Seq(Stencils) /\ Len(<<>>) = 0 /\ 1..0 = {}
  OBVIOUS
<1>2. \E d : Drift(<<>>, d) /\ d[0] = 0
  BY NoDrift DEF Drift
<1> QED BY <1>1, <1>2 DEF OpenBlock

(* The first visit: all blocks but the one for panics are free, and the    *)
(* loops to come need exactly these.                                       *)
LEMMA CreateBlocksOK ==
    ASSUME Inv, NEW v, Shaped(v), CreateBlocks(v)
    PROVE  Inv'
<1>1. /\ saturating \in BOOLEAN /\ pc = <<1, 1>> /\ index = 0 /\ printed = <<>>
      /\ current = 1 /\ loopStack = <<>>
  BY DEF Inv, CreateBlocks
<1>2. PICK n : n = Cardinality({i \in DOMAIN v : v[i].kind # "Leaf"})
  OBVIOUS
<1>3. v \in Seq(Visit) /\ n \in Nat /\ Nests(v, 0) /\ Needs(v, n) /\ LeavesOK(v)
  BY <1>2, ShapedIs
<1>4. /\ blocks' = [b \in 1..(n + 2) |-> <<>>] /\ free' = [i \in 1..n |-> i + 1]
      /\ phase' = "compile" /\ visits' = v /\ saturating' = saturating
      /\ current' = 1 /\ loopStack' = <<>> /\ pc' = <<1, 1>> /\ index' = 0 /\ printed' = <<>>
  BY <1>1, <1>2 DEF CreateBlocks, running
<1>5. /\ blocks' \in Seq(Seq(Stencils)) /\ Len(blocks') = n + 2
      /\ \A b \in 1..(n + 2) : blocks'[b] = <<>>
  <2>1. blocks' \in [1..(n + 2) -> Seq(Stencils)] /\ n + 2 \in Nat
    BY <1>3, <1>4, EmptyBlock
  <2>2. blocks' \in Seq(Seq(Stencils)) /\ Len(blocks') = n + 2
    BY <2>1, LenOf
  <2> QED BY <1>4, <2>2
<1>6. /\ free' \in [1..n -> Nat] /\ Len(free') = n
      /\ \A i \in 1..n : free'[i] = i + 1
  <2>1. free' \in [1..n -> Nat] /\ \A i \in 1..n : free'[i] = i + 1
    BY <1>3, <1>4
  <2> QED BY <1>3, <2>1, LenOf
<1>7. BlocksOK(blocks', saturating)
  <2>1. \A b \in 1..(n + 2) : 1..Len(blocks'[b]) = {}
    BY <1>5, EmptyBlock
  <2>2. \A b \in 1..(n + 2) : \E d : Drift(blocks'[b], d)
    BY <1>5, EmptyBlock
  <2> QED BY <1>3, <1>5, <2>1, <2>2 DEF BlocksOK
<1>8. Layout(2, n + 1)'
  <2>1. Panic' = n + 2 /\ n + 1 \in Nat /\ (n + 1) - 2 + 1 = n /\ 2 <= (n + 1) + 1 /\ n + 1 < n + 2
        /\ (n + 2) - 1 = n + 1
    BY <1>3, <1>5 DEF Panic
  <2>2. \A i \in 1..n : free'[i] = 2 + i - 1
    BY <1>3, <1>6
  <2>3. 1 \in 1..(n + 1) /\ 1 \notin 2..(n + 1) /\ \A b \in 1..(n + 1) : b \in 2..(n + 1) \/ b = 1
    BY <1>3
  <2>4. loopStack' \in Seq([start : Nat, tail : Nat]) /\ Len(loopStack') = 0 /\ 1..0 = {}
    BY <1>4
  <2>5. OpenBlock(blocks'[1])
    BY <1>3, <1>5, EmptyBlock
  <2>6. \A b : ~ IsTail(b)'
    BY <2>4 DEF IsTail
  <2>7. FreeOnes(2, n + 1)'
    <3>1. free' \in Seq(Nat)
      BY <1>3, <1>6, LenOf
    <3> QED BY <1>6, <2>1, <2>2, <3>1 DEF FreeOnes
  <2>8. OpenOnes(2, n + 1)'
    BY <2>4 DEF OpenOnes
  <2>9. Contents(2, n + 1)'
    BY <1>4, <1>5, <2>1, <2>3, <2>5, <2>6 DEF Contents
  <2> QED BY <2>7, <2>8, <2>9 DEF Layout
<1>9. CompileInv'
  <2>1. Len(loopStack') = 0
    BY <1>4
  <2>2. Len(blocks'[1]) = 0 /\ \E d : Drift(blocks'[1], d) /\ d[0] = 0
    BY <1>3, <1>5, EmptyBlock
  <2> QED BY <1>3, <1>4, <1>6, <1>7, <1>8, <2>1, <2>2 DEF CompileInv
<1> QED BY <1>1, <1>4, <1>9 DEF Inv

(* A block s that becomes t, and what is left as it was.                   *)
Longer(code, sat, s, t) ==
    /\ Len(s) <= Len(t) /\ \A i \in 1..Len(s) : t[i] = s[i]
    /\ \A i \in 1..Len(t) : i \in 1..Len(s) \/ Goes(code, t[i])
    /\ ~ sat => \E d : Drift(t, d)

Replaced(code, c, t, more) ==
    /\ Len(more) = Len(code) /\ more[c] = t
    /\ \A b \in 1..Len(code) : b # c => more[b] = code[b]

(* One block grows, and the others stay.                                   *)
LEMMA OneGrown ==
    ASSUME NEW code, NEW sat, BlocksOK(code, sat), NEW c \in 1..Len(code), NEW s, s = code[c],
           NEW t \in Seq(Stencils), Longer(code, sat, s, t),
           NEW more, more = [code EXCEPT ![c] = t]
    PROVE  BlocksOK(more, sat) /\ Replaced(code, c, t, more)
<1>1. PICK n \in Nat : n = Len(code)
  BY ElementsOf DEF BlocksOK
<1>2. code \in Seq(Seq(Stencils)) /\ code \in [1..n -> Seq(Stencils)]
  BY <1>1 DEF BlocksOK
<1>3. more \in [1..n -> Seq(Stencils)] /\ more[c] = t /\ \A b \in 1..n : b # c => more[b] = code[b]
  BY <1>1, <1>2
<1>4. more \in Seq(Seq(Stencils)) /\ Len(more) = n
  BY <1>3, LenOf
<1>5. Grown(code, more)
  <2>1. \A b \in 1..n : Len(code[b]) \in Nat
    BY <1>2, ElementsOf
  <2>2. ASSUME NEW b \in 1..n
        PROVE  Len(code[b]) <= Len(more[b]) /\ \A i \in 1..Len(code[b]) : more[b][i] = code[b][i]
    <3>1. CASE b = c
      BY <1>3, <3>1 DEF Longer
    <3>2. CASE b # c
      BY <1>3, <2>1, <3>2
    <3> QED BY <3>1, <3>2
  <2> QED BY <1>1, <1>4, <2>2 DEF Grown
<1>6. ASSUME NEW b \in 1..n, NEW i \in 1..Len(more[b])
      PROVE  i \in 1..Len(code[b]) \/ Goes(more, more[b][i])
  <2>1. CASE b = c
    <3>1. i \in 1..Len(s) \/ Goes(code, t[i])
      BY <1>3, <2>1 DEF Longer
    <3>2. Goes(code, t[i]) => Goes(more, t[i])
      BY <1>2, <1>4, <1>5, GrownGoes
    <3> QED BY <1>3, <2>1, <3>1, <3>2
  <2>2. CASE b # c
    BY <1>3, <2>2
  <2> QED BY <2>1, <2>2
<1>7. ~ sat => \A b \in 1..n : \E d : Drift(more[b], d)
  <2>1. ASSUME ~ sat, NEW b \in 1..n PROVE \E d : Drift(more[b], d)
    <3>1. CASE b = c
      BY <1>3, <2>1, <3>1 DEF Longer
    <3>2. CASE b # c
      <4>1. \E d : Drift(code[b], d)
        BY <1>1, <2>1 DEF BlocksOK
      <4> QED BY <1>3, <3>2, <4>1
    <3> QED BY <3>1, <3>2
  <2> QED BY <2>1
<1>8. BlocksOK(more, sat)
  BY <1>1, <1>4, <1>5, <1>6, <1>7, GrownOK
<1> QED BY <1>1, <1>3, <1>4, <1>8 DEF Replaced

(* The state while visits are made.                                        *)
LEMMA Visits ==
    ASSUME Inv, NEW kind, Visiting(kind)
    PROVE  /\ saturating \in BOOLEAN /\ phase = "compile" /\ CompileInv
           /\ visits \in Seq(Visit) /\ Len(visits) \in Nat /\ Len(visits) > 0
           /\ Head(visits) = visits[1] /\ visits[1].kind = kind /\ visits[1] \in Visit
           /\ visits' = Tail(visits) /\ visits' \in Seq(Visit) /\ LeavesOK(visits')
           /\ phase' = phase /\ saturating' = saturating
           /\ pc' = <<1, 1>> /\ index' = 0 /\ printed' = <<>>
           /\ kind = "Leaf" /\ Len(visits') > 0 => visits'[1].kind # "Leaf"
<1>1. phase = "compile" /\ CompileInv /\ saturating \in BOOLEAN
  BY DEF Inv, Visiting
<1>2. /\ visits # <<>> /\ Head(visits).kind = kind /\ visits' = Tail(visits)
      /\ phase' = phase /\ saturating' = saturating
      /\ pc' = <<1, 1>> /\ index' = 0 /\ printed' = <<>>
  BY <1>1 DEF CompileInv, Visiting, running
<1>3. visits \in Seq(Visit) /\ LeavesOK(visits)
  BY <1>1 DEF CompileInv
<1>4. Len(visits) \in Nat /\ Len(visits) > 0
  BY <1>2, <1>3
<1>5. Head(visits) = visits[1] /\ visits[1] \in Visit
  BY <1>3, <1>4, TailIs
<1>6. /\ Tail(visits) \in Seq(Visit) /\ LeavesOK(Tail(visits))
      /\ visits[1].kind = "Leaf" /\ Len(Tail(visits)) > 0 => Tail(visits)[1].kind # "Leaf"
  BY <1>3, <1>4, LeavesTail
<1> QED BY <1>1, <1>2, <1>3, <1>4, <1>5, <1>6

(* A leaf is appended to the current block.                                *)
LEMMA VisitLeafOK ==
    ASSUME Inv, VisitLeaf
    PROVE  Inv'
<1>1. Visiting("Leaf")
  BY DEF VisitLeaf
<1>2. /\ saturating \in BOOLEAN /\ phase = "compile" /\ CompileInv
      /\ visits \in Seq(Visit) /\ Len(visits) \in Nat /\ Len(visits) > 0
      /\ Head(visits) = visits[1] /\ visits[1].kind = "Leaf" /\ visits[1] \in Visit
      /\ visits' = Tail(visits) /\ visits' \in Seq(Visit) /\ LeavesOK(visits')
      /\ phase' = phase /\ saturating' = saturating
      /\ pc' = <<1, 1>> /\ index' = 0 /\ printed' = <<>>
      /\ Len(visits') > 0 => visits'[1].kind # "Leaf"
  BY <1>1, Visits
<1>3. PICK ops, code, c, s : ops = visits[1].ops /\ code = blocks /\ c = current /\ s = code[c]
  OBVIOUS
<1>4. ops \in Seq(Operation)
  BY <1>2, <1>3 DEF Visit
<1>5. \A j \in 1..Len(ops) : ops[j].op = "AddTo" => j = Len(ops) /\ Abs(ops[j].n) < CheckAfter
  <2>1. 1 \in 1..Len(visits) /\ LeavesOK(visits)
    BY <1>2 DEF CompileInv
  <2> QED BY <1>2, <1>3, <2>1, Zenon DEF LeavesOK
<1>6. PICK em : em = EmitLeaf(ops).stencils
  OBVIOUS
<1>7. /\ em \in Seq(Stencils) /\ \A i \in 1..Len(em) : em[i].op \in Plain \cup {"Check"}
      /\ ~ saturating => \E d : Drift(em, d)
  BY <1>2, <1>4, <1>5, <1>6, EmitLeafIs
<1>8. blocks' = [code EXCEPT ![c] = s \o em] /\ UNCHANGED <<current, free, loopStack>>
  <2>1. blocks' = [blocks EXCEPT ![current] =
          @ \o FoldLeft(EmitOp, [movement |-> 0, stencils |-> <<>>], Head(visits).ops).stencils]
    BY DEF VisitLeaf
  <2>2. UNCHANGED <<current, free, loopStack>>
    BY DEF VisitLeaf
  <2>3. Head(visits).ops = ops
    BY <1>2, <1>3
  <2> QED BY <1>3, <1>6, <2>1, <2>2, <2>3, Zenon DEF EmitLeaf
<1>9. PICK lo, hi : FreeOnes(lo, hi) /\ OpenOnes(lo, hi) /\ Contents(lo, hi)
  BY <1>2 DEF CompileInv, Layout
<1>10. /\ BlocksOK(code, saturating) /\ Len(code) \in Nat /\ c \in 1..(Len(code) - 1)
       /\ c \in 1..Len(code) /\ s \in Seq(Stencils) /\ Len(s) \in Nat /\ OpenBlock(s)
  <2>1. BlocksOK(code, saturating) /\ c \in 1..(Len(code) - 1) /\ OpenBlock(s)
    BY <1>2, <1>3, <1>9 DEF CompileInv, Contents, Panic
  <2>2. code \in Seq(Seq(Stencils))
    BY <2>1 DEF BlocksOK
  <2>3. Len(code) \in Nat /\ c \in 1..Len(code)
    BY <2>1, <2>2, ElementsOf
  <2>4. s \in Seq(Stencils)
    BY <1>3, <2>2, <2>3, ElementsOf
  <2> QED BY <2>1, <2>3, <2>4, ElementsOf
<1>11. PICK t : t = s \o em
  OBVIOUS
<1>12. /\ t \in Seq(Stencils) /\ Len(t) = Len(s) + Len(em) /\ Len(em) \in Nat
       /\ \A i \in 1..Len(s) : t[i] = s[i]
       /\ \A i \in 1..Len(em) : t[Len(s) + i] = em[i]
  BY <1>7, <1>10, <1>11, ConcatIs, ElementsOf
<1>13. OpenBlock(t)
  BY <1>7, <1>10, <1>11, OpenJoin
<1>14. \A i \in 1..Len(t) : i \in 1..Len(s) \/ Goes(code, t[i])
  <2> TAKE i \in 1..Len(t)
  <2>1. CASE i \notin 1..Len(s)
    <3>1. PICK j \in 1..Len(em) : i = Len(s) + j
      <4>1. PICK m \in Nat, n \in Nat : m = Len(s) /\ n = Len(em)
        BY <1>10, <1>12
      <4>2. i \in 1..(m + n) /\ i \notin 1..m
        BY <1>12, <2>1, <4>1
      <4>3. i - m \in 1..n /\ i = m + (i - m)
        BY <4>2
      <4> QED BY <4>1, <4>3
    <3>2. t[i].op \in Plain \cup {"Check"}
      BY <1>7, <1>12, <3>1
    <3> QED BY <3>2 DEF Goes, Plain
  <2> QED BY <2>1
<1>15. ~ saturating => \E d : Drift(t, d)
  <2> HAVE ~ saturating
  <2>1. PICK e : Drift(em, e)
    BY <1>7
  <2>2. PICK d : Drift(s, d) /\ d[Len(s)] = 0
    BY <1>2, <1>3 DEF CompileInv
  <2> QED BY <1>7, <1>10, <1>11, <2>1, <2>2, DriftJoin
<1>16. PICK more : more = blocks'
  OBVIOUS
<1>17. /\ BlocksOK(more, saturating) /\ Len(more) = Len(code) /\ more[c] = t
       /\ \A b \in 1..Len(code) : b # c => more[b] = code[b]
  <2>1. more = [code EXCEPT ![c] = t] /\ Len(s) <= Len(t)
    BY <1>8, <1>10, <1>11, <1>12, <1>16
  <2>2. Longer(code, saturating, s, t)
    BY <1>12, <1>14, <1>15, <2>1 DEF Longer
  <2>3. BlocksOK(more, saturating) /\ Replaced(code, c, t, more)
    BY <1>3, <1>10, <1>12, <2>1, <2>2, OneGrown
  <2> QED BY <2>3 DEF Replaced
<1>18. Panic' = Panic /\ \A b : IsTail(b)' <=> IsTail(b)
  BY <1>3, <1>8, <1>16, <1>17 DEF Panic, IsTail
<1>19. FreeOnes(lo, hi)' /\ OpenOnes(lo, hi)'
  BY <1>8, <1>9, <1>18 DEF FreeOnes, OpenOnes
<1>20. Contents(lo, hi)'
  <2>1. /\ c \notin lo..hi /\ ~ IsTail(c) /\ c # Len(code)
        /\ \A b \in 1..Len(code) : b \in lo..hi \/ b = Len(code) \/ IsTail(b) => code[b] = <<>>
        /\ \A b \in 1..(Len(code) - 1) :
              b \in lo..hi \/ b = c \/ IsTail(b) \/ EndedBlock(code[b])
    BY <1>3, <1>9, <1>10 DEF Contents, Panic
  <2>2. \A b \in 1..Len(code) : b \in lo..hi \/ b = Len(code) \/ IsTail(b) => more[b] = <<>>
    BY <1>17, <2>1
  <2>3. \A b \in 1..(Len(code) - 1) : b \in lo..hi \/ b = c \/ IsTail(b) \/ EndedBlock(more[b])
    <3>1. \A b \in 1..(Len(code) - 1) : b \in 1..Len(code)
      BY <1>10
    <3> QED BY <1>17, <2>1, <3>1
  <2>4. current' = c /\ blocks' = more /\ Panic' = Len(code)
    BY <1>3, <1>8, <1>16, <1>17 DEF Panic
  <2> QED BY <1>10, <1>13, <1>17, <1>18, <2>1, <2>2, <2>3, <2>4 DEF Contents
<1>21. Nests(visits', Len(loopStack')) /\ Needs(visits', Len(free'))
  <2>1. /\ Nests(visits, Len(loopStack)) /\ Needs(visits, Len(free))
        /\ Len(loopStack) \in Nat /\ Len(free) \in Nat
    BY <1>2, <1>9, ElementsOf DEF CompileInv, FreeOnes, OpenOnes
  <2>2. Nests(Tail(visits), Len(loopStack))
    BY <1>2, <2>1, NestsTail
  <2>3. Needs(Tail(visits), Len(free))
    BY <1>2, <2>1, NeedsTail
  <2> QED BY <1>2, <1>8, <2>2, <2>3
<1>22. CompileInv'
  <2>1. Layout(lo, hi)'
    BY <1>19, <1>20 DEF Layout
  <2>2. BlocksOK(blocks', saturating')
    BY <1>2, <1>16, <1>17
  <2> QED BY <1>2, <1>21, <2>1, <2>2 DEF CompileInv
<1> QED BY <1>2, <1>22 DEF Inv

(* A block of one stencil.                                                 *)
LEMMA OneStencil ==
    ASSUME NEW x \in Stencils
    PROVE  /\ <<x>> \in Seq(Stencils) /\ Len(<<x>>) = 1 /\ <<x>>[1] = x
           /\ GoesOn(x) => OpenBlock(<<x>>)
           /\ ~ GoesOn(x) => EndedBlock(<<x>>)
           /\ x.op \notin Plain => \E d : Drift(<<x>>, d) /\ d[1] = 0
<1>1. <<x>> \in Seq(Stencils) /\ Len(<<x>>) = 1 /\ <<x>>[1] = x /\ <<x>> = Append(<<>>, x)
  OBVIOUS
<1>2. /\ GoesOn(x) => OpenBlock(<<x>>)
      /\ ~ GoesOn(x) => EndedBlock(<<x>>)
  BY <1>1, EmptyBlock, AppendEnds
<1>3. x.op \notin Plain => \E d : Drift(<<x>>, d) /\ d[1] = 0
  <2> HAVE x.op \notin Plain
  <2>1. PICK d : Drift(<<>>, d) /\ d[0] = 0
    BY EmptyBlock
  <2>2. ~ Touches(x) /\ Drifted(0, x) = 0
    BY StencilIs DEF Touches, Drifted, Plain
  <2>3. Len(<<>>) = 0 /\ 0 + 1 = 1
    OBVIOUS
  <2>4. NearBy(d[Len(<<>>)], x)
    BY <2>2 DEF NearBy
  <2>5. \E e : Drift(Append(<<>>, x), e) /\ e[Len(<<>>) + 1] = Drifted(d[Len(<<>>)], x)
    BY <2>1, <2>4, EmptyBlock, DriftNext
  <2> QED BY <1>1, <2>1, <2>2, <2>3, <2>5
<1> QED BY <1>1, <1>2, <1>3

(* A stencil that touches no byte comes after any other.                   *)
LEMMA DriftOn ==
    ASSUME NEW s \in Seq(Stencils), \E d : Drift(s, d), NEW x \in Stencils, x.op \notin Plain
    PROVE  \E d : Drift(Append(s, x), d)
<1>1. PICK d : Drift(s, d)
  OBVIOUS
<1>2. NearBy(d[Len(s)], x)
  BY DEF NearBy, Touches, Plain
<1> QED BY <1>1, <1>2, DriftNext

(* A loop takes the first and the last free block: the one is current now, *)
(* the other belongs to the loop until it is left.                         *)
LEMMA IntoLoopOK ==
    ASSUME Inv, IntoLoop
    PROVE  Inv'
<1>1. Visiting("IntoLoop")
  BY DEF IntoLoop
<1>2. /\ saturating \in BOOLEAN /\ phase = "compile" /\ CompileInv
      /\ visits \in Seq(Visit) /\ Len(visits) \in Nat /\ Len(visits) > 0
      /\ visits[1].kind = "IntoLoop"
      /\ visits' = Tail(visits) /\ visits' \in Seq(Visit) /\ LeavesOK(visits')
      /\ phase' = phase /\ saturating' = saturating
      /\ pc' = <<1, 1>> /\ index' = 0 /\ printed' = <<>>
  BY <1>1, Visits
<1>3. PICK code, c, s : code = blocks /\ c = current /\ s = code[c]
  OBVIOUS
<1>4. PICK lo, hi : FreeOnes(lo, hi) /\ OpenOnes(lo, hi) /\ Contents(lo, hi)
  BY <1>2 DEF CompileInv, Layout
<1>5. /\ BlocksOK(code, saturating) /\ Len(code) \in Nat /\ c \in 1..(Len(code) - 1)
      /\ c \in 1..Len(code) /\ s \in Seq(Stencils) /\ Len(s) \in Nat /\ OpenBlock(s)
  <2>1. BlocksOK(code, saturating) /\ c \in 1..(Len(code) - 1) /\ OpenBlock(s)
    BY <1>2, <1>3, <1>4 DEF CompileInv, Contents, Panic
  <2>2. code \in Seq(Seq(Stencils))
    BY <2>1 DEF BlocksOK
  <2>3. Len(code) \in Nat /\ c \in 1..Len(code)
    BY <2>1, <2>2, ElementsOf
  <2>4. s \in Seq(Stencils)
    BY <1>3, <2>2, <2>3, ElementsOf
  <2> QED BY <2>1, <2>3, <2>4, ElementsOf
<1>6. PICK n \in Nat : n = Len(code)
  BY <1>5
<1>7. /\ Nests(visits, Len(loopStack)) /\ Needs(visits, Len(free))
      /\ Len(loopStack) \in Nat /\ Len(free) \in Nat
  BY <1>2, <1>4, ElementsOf DEF CompileInv, FreeOnes, OpenOnes
<1>8. Nests(visits', Len(loopStack) + 1)
  BY <1>2, <1>7, NestsTail
<1>9. Len(free) >= 2 /\ Needs(visits', Len(free) - 2)
  BY <1>2, <1>7, NeedsTail
<1>10. /\ lo \in Nat /\ hi \in Nat /\ 2 <= lo /\ hi < n /\ Len(free) = hi - lo + 1 /\ lo < hi
       /\ free \in Seq(Nat) /\ free[1] = lo /\ free[Len(free)] = hi
       /\ \A i \in 1..(hi - lo + 1) : free[i] = lo + i - 1
  <2>1. /\ lo \in Nat /\ hi \in Nat /\ 2 <= lo /\ hi < n /\ Len(free) = hi - lo + 1
        /\ free \in Seq(Nat) /\ \A i \in 1..(hi - lo + 1) : free[i] = lo + i - 1
    BY <1>3, <1>4, <1>6 DEF FreeOnes, Panic
  <2>2. lo < hi /\ 1 \in 1..(hi - lo + 1) /\ hi - lo + 1 \in 1..(hi - lo + 1)
        /\ lo + 1 - 1 = lo /\ lo + (hi - lo + 1) - 1 = hi
    BY <1>9, <2>1
  <2>3. free[1] = lo + 1 - 1 /\ free[hi - lo + 1] = lo + (hi - lo + 1) - 1
    BY <2>1, <2>2
  <2> QED BY <2>1, <2>2, <2>3
<1>11. Head(free) = lo /\ Last(free) = hi
  <2>1. Len(free) > 0 /\ free \in Seq(Nat)
    BY <1>9, <1>10
  <2>2. Head(free) = free[1]
    BY <2>1, TailIs
  <2>3. Last(free) = free[Len(free)]
    BY <2>1, FrontIs
  <2> QED BY <1>10, <2>2, <2>3
<1>12. /\ Front(Tail(free)) \in Seq(Nat) /\ Len(Front(Tail(free))) = (hi - 1) - (lo + 1) + 1
       /\ \A i \in 1..((hi - 1) - (lo + 1) + 1) : Front(Tail(free))[i] = (lo + 1) + i - 1
  <2>1. PICK f : f = Tail(free)
    OBVIOUS
  <2>2. f \in Seq(Nat) /\ Len(f) = hi - lo /\ \A i \in 1..(hi - lo) : f[i] = free[i + 1]
    <3>1. /\ f \in Seq(Nat) /\ Len(f) = Len(free) - 1
          /\ \A i \in 1..(Len(free) - 1) : f[i] = free[i + 1]
      BY <1>9, <1>10, <2>1, TailIs
    <3>2. Len(free) - 1 = hi - lo
      BY <1>10
    <3> QED BY <3>1, <3>2
  <2>3. \A i \in 1..(hi - lo) : f[i] = lo + i
    <3> TAKE i \in 1..(hi - lo)
    <3>1. i + 1 \in 1..(hi - lo + 1) /\ lo + (i + 1) - 1 = lo + i
      BY <1>10
    <3> QED BY <1>10, <2>2, <3>1
  <2>4. /\ Front(f) \in Seq(Nat) /\ Len(Front(f)) = (hi - lo) - 1
        /\ \A i \in 1..((hi - lo) - 1) : Front(f)[i] = f[i]
    <3>1. Len(f) > 0
      BY <1>10, <2>2
    <3>2. /\ Front(f) \in Seq(Nat) /\ Len(Front(f)) = Len(f) - 1
          /\ \A i \in 1..(Len(f) - 1) : Front(f)[i] = f[i]
      BY <2>2, <3>1, FrontIs
    <3> QED BY <2>2, <3>2
  <2>5. (hi - lo) - 1 = (hi - 1) - (lo + 1) + 1
    BY <1>10
  <2>6. \A i \in 1..((hi - lo) - 1) : Front(f)[i] = (lo + 1) + i - 1
    <3> TAKE i \in 1..((hi - lo) - 1)
    <3>1. i \in 1..(hi - lo) /\ lo + i = (lo + 1) + i - 1
      BY <1>10
    <3> QED BY <2>3, <2>4, <3>1
  <2> QED BY <2>1, <2>4, <2>5, <2>6
<1>13. PICK t, x : t = Append(s, Jump(lo)) /\ x = <<If(hi, Behind)>>
  OBVIOUS
<1>14. /\ blocks' = [code EXCEPT ![c] = t, ![lo] = x] /\ current' = lo
       /\ loopStack' = Append(loopStack, [start |-> lo, tail |-> hi])
       /\ free' = Front(Tail(free))
  BY <1>3, <1>11, <1>13 DEF IntoLoop
<1>15. /\ c \notin lo..hi /\ ~ IsTail(c)
       /\ \A b \in 1..n : b \in lo..hi \/ b = n \/ IsTail(b) => code[b] = <<>>
       /\ \A b \in 1..(n - 1) : b \in lo..hi \/ b = c \/ IsTail(b) \/ EndedBlock(code[b])
  BY <1>3, <1>4, <1>6 DEF Contents, Panic
<1>16. /\ x \in Seq(Stencils) /\ Len(x) = 1 /\ x[1] = If(hi, Behind) /\ OpenBlock(x)
       /\ \E d : Drift(x, d) /\ d[1] = 0
  <2>1. If(hi, Behind) \in Stencils /\ If(hi, Behind).op = "If" /\ GoesOn(If(hi, Behind))
        /\ "If" \notin Plain
    BY <1>10, StencilsAre, GoingOn DEF Behind, Plain
  <2> QED BY <1>13, <2>1, OneStencil
<1>17. PICK mid : mid = [code EXCEPT ![lo] = x]
  OBVIOUS
<1>18. lo \in 1..n /\ hi \in 1..(n - 1) /\ lo \in 1..(n - 1) /\ lo # c /\ code[lo] = <<>>
  BY <1>10, <1>15
<1>19. BlocksOK(mid, saturating) /\ Replaced(code, lo, x, mid)
  <2>1. Goes(code, x[1])
    <3>1. Behind \in Nat /\ Behind \in 0..(Len(code) - 1)
      BY <1>6, <1>18 DEF Behind
    <3>2. x[1].op = "If" /\ x[1].zero = hi /\ x[1].other = Behind
      <4>1. x[1] = If(hi, Behind)
        BY <1>16, Zenon
      <4>2. hi \in Nat /\ Behind \in Nat
        BY <1>10, <3>1, Zenon
      <4>3. \A z, o \in Nat : If(z, o).op = "If" /\ If(z, o).zero = z /\ If(z, o).other = o
        BY ONLY StencilsAre
      <4> QED BY <4>1, <4>2, <4>3
    <3>3. hi \in 1..(Len(code) - 1)
      BY <1>6, <1>18
    <3> QED BY <3>1, <3>2, <3>3 DEF Goes
  <2>2. Longer(code, saturating, <<>>, x)
    <3>1. Len(<<>>) = 0 /\ 1..0 = {} /\ \A i \in 1..Len(x) : i = 1
      BY <1>16
    <3> QED BY <1>16, <2>1, <3>1 DEF Longer
  <2> QED BY <1>5, <1>6, <1>16, <1>17, <1>18, <2>2, OneGrown
<1>20. mid[lo] = x /\ mid[c] = s /\ Len(mid) = n /\ c \in 1..Len(mid)
  BY <1>3, <1>5, <1>6, <1>18, <1>19 DEF Replaced
<1>21. /\ t \in Seq(Stencils) /\ Len(t) = Len(s) + 1 /\ t[Len(s) + 1] = Jump(lo)
       /\ \A i \in 1..Len(s) : t[i] = s[i]
       /\ EndedBlock(t)
  <2>1. Jump(lo) \in Stencils /\ ~ GoesOn(Jump(lo))
    BY <1>10, StencilsAre, GoingOn
  <2> QED BY <1>5, <1>13, <2>1, AppendIs, AppendEnds
<1>22. PICK more : more = [mid EXCEPT ![c] = t]
  OBVIOUS
<1>23. BlocksOK(more, saturating) /\ Replaced(mid, c, t, more)
  <2>1. Goes(mid, Jump(lo))
    <3>1. PICK y : y = Jump(lo) /\ y.op = "Jump" /\ y.block = lo
      BY <1>10, StencilsAre
    <3>2. Len(mid[lo]) = 1 /\ mid[lo][1].op = "If"
      BY <1>10, <1>16, <1>20, StencilsAre DEF Behind
    <3>3. lo \in 1..(Len(mid) - 1)
      BY <1>18, <1>20
    <3>4. Goes(mid, y)
      BY <3>1, <3>2, <3>3 DEF Goes
    <3> QED BY <3>1, <3>4
  <2>2. \A i \in 1..Len(t) : i \in 1..Len(s) \/ Goes(mid, t[i])
    <3>1. \A i \in 1..Len(t) : i \in 1..Len(s) \/ i = Len(s) + 1
      BY <1>5, <1>21
    <3> QED BY <1>21, <2>1, <3>1
  <2>3. ~ saturating => \E d : Drift(t, d)
    <3> HAVE ~ saturating
    <3>1. \E d : Drift(s, d)
      BY <1>3, <1>5 DEF BlocksOK
    <3>2. Jump(lo) \in Stencils /\ Jump(lo).op \notin Plain
      BY <1>10, StencilsAre DEF Plain
    <3> QED BY <1>5, <1>13, <3>1, <3>2, DriftOn
  <2>4. Longer(mid, saturating, s, t)
    BY <1>5, <1>21, <2>2, <2>3 DEF Longer
  <2> QED BY <1>19, <1>20, <1>21, <1>22, <2>4, OneGrown
<1>24. /\ blocks' = more /\ Len(more) = n /\ more[lo] = x /\ more[c] = t
       /\ \A b \in 1..n : b # lo /\ b # c => more[b] = code[b]
  <2>1. /\ Len(more) = n /\ more[lo] = x /\ more[c] = t
        /\ \A b \in 1..n : b # lo /\ b # c => more[b] = code[b]
    BY <1>6, <1>18, <1>19, <1>20, <1>23 DEF Replaced
  <2>2. [code EXCEPT ![c] = t, ![lo] = x] = [[code EXCEPT ![lo] = x] EXCEPT ![c] = t]
    BY <1>18
  <2> QED BY <1>14, <1>17, <1>22, <2>1, <2>2
<1>25. Panic' = n /\ Panic = n
  BY <1>3, <1>6, <1>24 DEF Panic
<1>26. FreeOnes(lo + 1, hi - 1)'
  <2>1. lo + 1 \in Nat /\ hi - 1 \in Nat /\ 2 <= lo + 1 /\ lo + 1 <= (hi - 1) + 1 /\ hi - 1 < n
    BY <1>10
  <2> QED BY <1>12, <1>14, <1>25, <2>1 DEF FreeOnes
<1>open. PICK m \in Nat : m = Len(loopStack)
  BY <1>7
<1>27. PICK old, ls : m = Len(loopStack) /\ old = loopStack /\ ls = loopStack'
  BY <1>open
<1>28. /\ ls \in Seq([start : Nat, tail : Nat]) /\ Len(ls) = m + 1
       /\ ls[m + 1] = [start |-> lo, tail |-> hi] /\ \A k \in 1..m : ls[k] = old[k]
  <2>1. old \in Seq([start : Nat, tail : Nat]) /\ [start |-> lo, tail |-> hi] \in [start : Nat, tail : Nat]
    BY <1>4, <1>10, <1>27 DEF OpenOnes
  <2> QED BY <1>14, <1>27, <2>1, AppendIs
<1>29. \A k \in 1..m :
          /\ old[k].start \in 1..(lo - 1) /\ old[k].tail \in (hi + 1)..(n - 1)
          /\ \A l \in 1..m : old[k].tail = old[l].tail => k = l
  BY <1>4, <1>25, <1>27 DEF OpenOnes
<1>30. OpenOnes(lo + 1, hi - 1)'
  <2>1. ls[m + 1].start = lo /\ ls[m + 1].tail = hi
    BY <1>28
  <2>2. ASSUME NEW k \in 1..(m + 1)
        PROVE  /\ ls[k].start \in 1..((lo + 1) - 1) /\ ls[k].tail \in ((hi - 1) + 1)..(n - 1)
               /\ \A l \in 1..(m + 1) : ls[k].tail = ls[l].tail => k = l
    <3>1. CASE k \in 1..m
      <4>1. ls[k].start \in 1..(lo - 1) /\ ls[k].tail \in (hi + 1)..(n - 1)
        BY <1>28, <1>29, <3>1
      <4>2. \A l \in 1..m : ls[k].tail = ls[l].tail => k = l
        BY <1>28, <1>29, <3>1
      <4>3. ls[k].tail # hi
        <5>1. \A i \in (hi + 1)..(n - 1) : i # hi
          BY <1>10
        <5> QED BY <4>1, <5>1
      <4>4. \A l \in 1..(m + 1) : l \in 1..m \/ l = m + 1
        OBVIOUS
      <4>5. ls[k].start \in 1..((lo + 1) - 1) /\ ls[k].tail \in ((hi - 1) + 1)..(n - 1)
        <5>1. \A i \in 1..(lo - 1) : i \in 1..((lo + 1) - 1)
          BY <1>10
        <5>2. \A i \in (hi + 1)..(n - 1) : i \in ((hi - 1) + 1)..(n - 1)
          BY <1>10
        <5> QED BY <4>1, <5>1, <5>2
      <4> QED BY <2>1, <4>2, <4>3, <4>4, <4>5
    <3>2. CASE k = m + 1
      <4>1. \A l \in 1..m : ls[l].tail # hi
        <5>1. \A l \in 1..m : ls[l].tail \in (hi + 1)..(n - 1)
          BY <1>28, <1>29
        <5>2. hi \notin (hi + 1)..(n - 1)
          BY <1>10
        <5> QED BY <5>1, <5>2
      <4>2. \A l \in 1..(m + 1) : l \in 1..m \/ l = m + 1
        OBVIOUS
      <4>3. lo \in 1..((lo + 1) - 1) /\ hi \in ((hi - 1) + 1)..(n - 1)
        BY <1>10
      <4> QED BY <2>1, <3>2, <4>1, <4>2, <4>3
    <3> QED BY <3>1, <3>2
  <2> QED BY <1>25, <1>27, <1>28, <2>2 DEF OpenOnes
<1>31. \A b : IsTail(b)' <=> IsTail(b) \/ b = hi
  <2>1. ls[m + 1].tail = hi
    BY <1>28
  <2>2. \A b : (\E k \in 1..(m + 1) : ls[k].tail = b) <=> (\E k \in 1..m : old[k].tail = b) \/ b = hi
    <3>1. m + 1 \in 1..(m + 1) /\ (\A k \in 1..m : k \in 1..(m + 1))
          /\ \A k \in 1..(m + 1) : k \in 1..m \/ k = m + 1
      OBVIOUS
    <3> QED BY <1>28, <2>1, <3>1
  <2> QED BY <1>27, <1>28, <2>2 DEF IsTail
<1>32. Contents(lo + 1, hi - 1)'
  <2>1. ~ IsTail(lo) /\ lo # hi
    <3>1. \A k \in 1..m : old[k].tail # lo
      <4>1. \A k \in 1..m : old[k].tail \in (hi + 1)..(n - 1)
        BY <1>29
      <4> QED BY <1>10, <4>1
    <3> QED BY <1>10, <1>27, <3>1 DEF IsTail
  <2>2. lo \in 1..(n - 1) /\ lo \notin (lo + 1)..(hi - 1) /\ ~ IsTail(lo)'
    BY <1>10, <1>18, <1>31, <2>1
  <2>3. ASSUME NEW b \in 1..n, b \in (lo + 1)..(hi - 1) \/ b = n \/ IsTail(b)'
        PROVE  more[b] = <<>>
    <3>1. b \in lo..hi \/ b = n \/ IsTail(b)
      BY <1>10, <1>31, <2>3
    <3>2. b # lo
      BY <1>10, <1>31, <2>1, <2>3
    <3>3. b # c
      BY <1>5, <1>6, <1>15, <3>1
    <3> QED BY <1>15, <1>24, <3>1, <3>2, <3>3
  <2>4. ASSUME NEW b \in 1..(n - 1)
        PROVE  b \in (lo + 1)..(hi - 1) \/ b = lo \/ IsTail(b)' \/ EndedBlock(more[b])
    <3>1. CASE b = c
      BY <1>21, <1>24, <3>1
    <3>2. CASE b \in lo..hi
      <4>1. b = lo \/ b = hi \/ b \in (lo + 1)..(hi - 1)
        BY <1>10, <3>2
      <4> QED BY <1>31, <4>1
    <3>3. CASE b # c /\ b \notin lo..hi
      <4>1. b \in 1..n /\ b # lo /\ b # c
        BY <1>10, <3>3
      <4>2. IsTail(b) \/ EndedBlock(more[b])
        BY <1>15, <1>24, <3>3, <4>1
      <4> QED BY <1>31, <4>2
    <3> QED BY <3>1, <3>2, <3>3
  <2> QED BY <1>14, <1>16, <1>24, <1>25, <2>2, <2>3, <2>4 DEF Contents
<1>33. CompileInv'
  <2>1. Layout(lo + 1, hi - 1)'
    BY <1>26, <1>30, <1>32 DEF Layout
  <2>2. Len(free') = Len(free) - 2
    <3>1. (hi - 1) - (lo + 1) + 1 = (hi - lo + 1) - 2
      BY <1>10
    <3>2. Len(free') = (hi - 1) - (lo + 1) + 1
      BY <1>12, <1>14
    <3> QED BY <1>10, <3>1, <3>2
  <2>3. Nests(visits', Len(loopStack')) /\ Needs(visits', Len(free'))
    BY <1>8, <1>9, <1>27, <1>28, <2>2
  <2>4. \E d : Drift(blocks'[current'], d) /\ d[Len(blocks'[current'])] = 0
    BY <1>14, <1>16, <1>24
  <2> QED BY <1>2, <1>23, <1>24, <2>1, <2>3, <2>4 DEF CompileInv
<1> QED BY <1>2, <1>33 DEF Inv

(* The tail of the innermost loop becomes current.                         *)
LEMMA OutOfLoopOK ==
    ASSUME Inv, OutOfLoop
    PROVE  Inv'
<1>1. Visiting("OutOfLoop")
  BY DEF OutOfLoop
<1>2. /\ saturating \in BOOLEAN /\ phase = "compile" /\ CompileInv
      /\ visits \in Seq(Visit) /\ Len(visits) \in Nat /\ Len(visits) > 0
      /\ visits[1].kind = "OutOfLoop"
      /\ visits' = Tail(visits) /\ visits' \in Seq(Visit) /\ LeavesOK(visits')
      /\ phase' = phase /\ saturating' = saturating
      /\ pc' = <<1, 1>> /\ index' = 0 /\ printed' = <<>>
  BY <1>1, Visits
<1>3. PICK code, c, s : code = blocks /\ c = current /\ s = code[c]
  OBVIOUS
<1>4. PICK lo, hi : FreeOnes(lo, hi) /\ OpenOnes(lo, hi) /\ Contents(lo, hi)
  BY <1>2 DEF CompileInv, Layout
<1>5. /\ BlocksOK(code, saturating) /\ Len(code) \in Nat /\ c \in 1..(Len(code) - 1)
      /\ c \in 1..Len(code) /\ s \in Seq(Stencils) /\ Len(s) \in Nat /\ OpenBlock(s)
  <2>1. BlocksOK(code, saturating) /\ c \in 1..(Len(code) - 1) /\ OpenBlock(s)
    BY <1>2, <1>3, <1>4 DEF CompileInv, Contents, Panic
  <2>2. code \in Seq(Seq(Stencils))
    BY <2>1 DEF BlocksOK
  <2>3. Len(code) \in Nat /\ c \in 1..Len(code)
    BY <2>1, <2>2, ElementsOf
  <2>4. s \in Seq(Stencils)
    BY <1>3, <2>2, <2>3, ElementsOf
  <2> QED BY <2>1, <2>3, <2>4, ElementsOf
<1>6. PICK n \in Nat : n = Len(code)
  BY <1>5
<1>7. /\ Nests(visits, Len(loopStack)) /\ Needs(visits, Len(free))
      /\ Len(loopStack) \in Nat /\ Len(free) \in Nat
  BY <1>2, <1>4, ElementsOf DEF CompileInv, FreeOnes, OpenOnes
<1>8. Len(loopStack) > 0 /\ Nests(visits', Len(loopStack) - 1)
  BY <1>2, <1>7, NestsTail
<1>9. Needs(visits', Len(free))
  <2>1. visits[1].kind # "IntoLoop"
    BY <1>2
  <2> QED BY <1>2, <1>7, <2>1, NeedsTail
<1>10. lo \in Nat /\ hi \in Nat /\ 2 <= lo /\ hi < n /\ lo <= hi + 1
  BY <1>3, <1>4, <1>6 DEF FreeOnes, Panic
<1>open. PICK m \in Nat : m + 1 = Len(loopStack)
  <2>1. Len(loopStack) - 1 \in Nat /\ (Len(loopStack) - 1) + 1 = Len(loopStack)
    BY <1>7, <1>8
  <2> QED BY <2>1
<1>11. PICK old, ls : m + 1 = Len(loopStack) /\ old = loopStack /\ ls = loopStack'
  BY <1>open
<1>12. /\ ls \in Seq([start : Nat, tail : Nat]) /\ Len(ls) = m
       /\ \A k \in 1..m : ls[k] = old[k]
       /\ Last(old) = old[m + 1]
  <2>1. old \in Seq([start : Nat, tail : Nat]) /\ Len(old) > 0 /\ Len(old) = m + 1 /\ (m + 1) - 1 = m
    BY <1>4, <1>8, <1>11 DEF OpenOnes
  <2>2. ls = Front(old)
    BY <1>11 DEF OutOfLoop
  <2>3. /\ Front(old) \in Seq([start : Nat, tail : Nat]) /\ Len(Front(old)) = Len(old) - 1
        /\ \A k \in 1..(Len(old) - 1) : Front(old)[k] = old[k]
        /\ Last(old) = old[Len(old)]
    BY <2>1, FrontIs
  <2> QED BY <2>1, <2>2, <2>3
<1>13. \A k \in 1..(m + 1) :
          /\ old[k].start \in 1..(lo - 1) /\ old[k].tail \in (hi + 1)..(n - 1)
          /\ \A l \in 1..(m + 1) : old[k].tail = old[l].tail => k = l
  BY <1>3, <1>4, <1>6, <1>11 DEF OpenOnes, Panic
<1>14. PICK st, tl : st = old[m + 1].start /\ tl = old[m + 1].tail
  OBVIOUS
<1>15. /\ st \in 1..(lo - 1) /\ tl \in (hi + 1)..(n - 1)
       /\ \A k \in 1..m : old[k].tail # tl
  <2>1. m + 1 \in 1..(m + 1) /\ \A k \in 1..m : k \in 1..(m + 1) /\ k # m + 1
    OBVIOUS
  <2> QED BY <1>13, <1>14, <2>1
<1>16. \A b : IsTail(b) <=> IsTail(b)' \/ b = tl
  <2>1. \A b : (\E k \in 1..(m + 1) : old[k].tail = b) <=> (\E k \in 1..m : ls[k].tail = b) \/ b = tl
    <3>1. m + 1 \in 1..(m + 1) /\ (\A k \in 1..m : k \in 1..(m + 1))
          /\ \A k \in 1..(m + 1) : k \in 1..m \/ k = m + 1
      OBVIOUS
    <3>2. old[m + 1].tail = tl /\ \A k \in 1..m : ls[k].tail = old[k].tail
      BY <1>12, <1>14
    <3> QED BY <3>1, <3>2, Zenon
  <2>2. 1..Len(loopStack) = 1..(m + 1) /\ loopStack = old
        /\ (1..Len(loopStack))' = 1..m /\ loopStack' = ls
    BY <1>11, <1>12
  <2>3. \A b : /\ IsTail(b) <=> \E k \in 1..(m + 1) : old[k].tail = b
               /\ IsTail(b)' <=> \E k \in 1..m : ls[k].tail = b
    BY <2>2, Zenon DEF IsTail
  <2> QED BY <2>1, <2>3, Zenon
<1>17. ~ IsTail(tl)'
  BY <1>11, <1>12, <1>15 DEF IsTail
<1>18. PICK x, t : x = If(tl, st) /\ t = Append(s, x)
  OBVIOUS
<1>19. blocks' = [code EXCEPT ![c] = t] /\ current' = tl /\ free' = free
  <2>1. Last(loopStack).tail = tl /\ Last(loopStack).start = st
    BY <1>11, <1>12, <1>14
  <2> QED BY <1>3, <1>18, <2>1 DEF OutOfLoop
<1>20. /\ st \in Nat /\ tl \in Nat /\ st # Behind /\ st \in 0..(n - 1) /\ tl \in 1..(n - 1)
       /\ tl \notin lo..hi
  BY <1>10, <1>15 DEF Behind
<1>21. /\ x \in Stencils /\ x.op = "If" /\ x.zero = tl /\ x.other = st /\ ~ GoesOn(x)
       /\ x.op \notin Plain
  BY <1>18, <1>20, StencilsAre, GoingOn DEF Plain
<1>22. /\ t \in Seq(Stencils) /\ Len(t) = Len(s) + 1 /\ t[Len(s) + 1] = x
       /\ \A i \in 1..Len(s) : t[i] = s[i]
       /\ EndedBlock(t)
  BY <1>5, <1>18, <1>21, AppendIs, AppendEnds
<1>23. PICK more : more = blocks'
  OBVIOUS
<1>24. BlocksOK(more, saturating) /\ Replaced(code, c, t, more)
  <2>1. Goes(code, x)
    BY <1>6, <1>20, <1>21 DEF Goes
  <2>2. \A i \in 1..Len(t) : i \in 1..Len(s) \/ Goes(code, t[i])
    <3>1. \A i \in 1..Len(t) : i \in 1..Len(s) \/ i = Len(s) + 1
      BY <1>5, <1>22
    <3> QED BY <1>22, <2>1, <3>1
  <2>3. ~ saturating => \E d : Drift(t, d)
    <3> HAVE ~ saturating
    <3>1. \E d : Drift(s, d)
      BY <1>3, <1>5 DEF BlocksOK
    <3> QED BY <1>5, <1>18, <1>21, <3>1, DriftOn
  <2>4. Longer(code, saturating, s, t)
    BY <1>5, <1>22, <2>2, <2>3 DEF Longer
  <2> QED BY <1>3, <1>5, <1>19, <1>22, <1>23, <2>4, OneGrown
<1>25. /\ blocks' = more /\ Len(more) = n /\ more[c] = t
       /\ \A b \in 1..n : b # c => more[b] = code[b]
  BY <1>6, <1>23, <1>24 DEF Replaced
<1>26. Panic' = n /\ Panic = n
  BY <1>3, <1>6, <1>25 DEF Panic
<1>27. FreeOnes(lo, hi)'
  BY <1>4, <1>19, <1>26 DEF FreeOnes
<1>28. OpenOnes(lo, hi)'
  <2>1. \A k \in 1..m : k \in 1..(m + 1)
    OBVIOUS
  <2>2. \A k \in 1..m :
          /\ ls[k].start \in 1..(lo - 1) /\ ls[k].tail \in (hi + 1)..(n - 1)
          /\ \A l \in 1..m : ls[k].tail = ls[l].tail => k = l
    BY <1>12, <1>13, <2>1
  <2> QED BY <1>11, <1>12, <1>26, <2>2 DEF OpenOnes
<1>29. /\ ~ IsTail(c)
       /\ \A b \in 1..n : b \in lo..hi \/ b = n \/ IsTail(b) => code[b] = <<>>
       /\ \A b \in 1..(n - 1) : b \in lo..hi \/ b = c \/ IsTail(b) \/ EndedBlock(code[b])
       /\ c \notin lo..hi /\ c # n
  BY <1>3, <1>4, <1>5, <1>6 DEF Contents, Panic
<1>30. tl # c /\ tl \in 1..n /\ more[tl] = <<>>
  <2>1. IsTail(tl) /\ tl \in 1..n
    BY <1>16, <1>20
  <2> QED BY <1>25, <1>29, <2>1
<1>31. Contents(lo, hi)'
  <2>1. OpenBlock(more[tl])
    BY <1>30, EmptyBlock
  <2>2. ASSUME NEW b \in 1..n, b \in lo..hi \/ b = n \/ IsTail(b)'
        PROVE  more[b] = <<>>
    <3>1. b \in lo..hi \/ b = n \/ IsTail(b)
      BY <1>16, <2>2
    <3>2. b # c
      BY <1>29, <3>1
    <3> QED BY <1>25, <1>29, <3>1, <3>2
  <2>3. ASSUME NEW b \in 1..(n - 1)
        PROVE  b \in lo..hi \/ b = tl \/ IsTail(b)' \/ EndedBlock(more[b])
    <3>1. b \in 1..n
      OBVIOUS
    <3>2. CASE b = c
      BY <1>22, <1>25, <3>2
    <3>3. CASE b # c
      BY <1>16, <1>25, <1>29, <3>1, <3>3
    <3> QED BY <3>2, <3>3
  <2> QED BY <1>17, <1>19, <1>20, <1>25, <1>26, <2>1, <2>2, <2>3 DEF Contents
<1>32. CompileInv'
  <2>1. Layout(lo, hi)'
    BY <1>27, <1>28, <1>31 DEF Layout
  <2>2. Nests(visits', Len(loopStack')) /\ Needs(visits', Len(free'))
    <3>1. Len(loopStack') = Len(loopStack) - 1
      BY <1>11, <1>12
    <3> QED BY <1>8, <1>9, <1>19, <3>1
  <2>3. \E d : Drift(blocks'[current'], d) /\ d[Len(blocks'[current'])] = 0
    BY <1>19, <1>25, <1>30, EmptyBlock
  <2> QED BY <1>2, <1>24, <1>25, <2>1, <2>2, <2>3 DEF CompileInv
<1> QED BY <1>2, <1>32 DEF Inv

(* When no visit is left, no loop is open and no block is free.            *)
LEMMA NoVisits ==
    ASSUME NEW n
    PROVE  (Nests(<<>>, n) => n = 0) /\ (Needs(<<>>, n) => n = 0)
<1>1. Len(<<>>) = 0
  OBVIOUS
<1> QED BY <1>1 DEF Nests, Needs

(* Cells count modulo CellSize, and the tape has a first byte.             *)
LEMMA CellsAre ==
    /\ 0 \in Cell /\ CellSize \in Nat \ {0} /\ TapeSize \in Nat \ {0}
    /\ \A k \in Int : k % CellSize \in Cell
    /\ \A i : InTape(i) => i \in Int
    /\ InTape(0)
<1>1. CellSize \in Nat \ {0} /\ TapeSize \in Nat \ {0}
  BY BfAssumption
<1>2. \A k \in Int : k % CellSize \in Cell
  BY <1>1 DEF Cell
<1> QED BY <1>1, <1>2 DEF Cell, InTape

(* The code is finished, and a run starts at the first byte.               *)
LEMMA FinishOK ==
    ASSUME Inv, NEW fill \in Cell, NEW in \in Seq(Cell), Finish(fill, in)
    PROVE  Inv'
<1>1. /\ saturating \in BOOLEAN /\ CompileInv /\ visits = <<>>
      /\ pc' = <<1, 1>> /\ index' = 0 /\ printed' = <<>> /\ phase' = "run"
      /\ saturating' = saturating /\ current' = current /\ free' = free /\ loopStack' = loopStack
      /\ tape' = Filled(fill) /\ stdin' = in
      /\ blocks' = [blocks EXCEPT ![current] = @ \o <<Check, Ret(0)>>, ![Panic] = <<Ret(-1)>>]
  BY DEF Inv, CompileInv, Finish
<1>2. PICK code, c, s : code = blocks /\ c = current /\ s = code[c]
  OBVIOUS
<1>3. PICK lo, hi : FreeOnes(lo, hi) /\ OpenOnes(lo, hi) /\ Contents(lo, hi)
  BY <1>1 DEF CompileInv, Layout
<1>4. /\ BlocksOK(code, saturating) /\ Len(code) \in Nat /\ c \in 1..(Len(code) - 1)
      /\ c \in 1..Len(code) /\ s \in Seq(Stencils) /\ Len(s) \in Nat /\ OpenBlock(s)
      /\ Len(code) >= 2
  <2>1. BlocksOK(code, saturating) /\ c \in 1..(Len(code) - 1) /\ OpenBlock(s)
    BY <1>1, <1>2, <1>3 DEF CompileInv, Contents, Panic
  <2>2. code \in Seq(Seq(Stencils)) /\ Len(code) >= 2
    BY <2>1 DEF BlocksOK
  <2>3. Len(code) \in Nat /\ c \in 1..Len(code)
    BY <2>1, <2>2, ElementsOf
  <2>4. s \in Seq(Stencils)
    BY <1>2, <2>2, <2>3, ElementsOf
  <2> QED BY <2>1, <2>2, <2>3, <2>4, ElementsOf
<1>5. PICK n \in Nat : n = Len(code) /\ n >= 2
  BY <1>4
<1>6. Len(loopStack) = 0 /\ Len(free) = 0
  BY <1>1, NoVisits DEF CompileInv
<1>7. loopStack = <<>> /\ free = <<>> /\ lo..hi = {} /\ \A b : ~ IsTail(b)
  <2>1. loopStack \in Seq([start : Nat, tail : Nat]) /\ free \in Seq(Nat)
        /\ lo \in Nat /\ hi \in Nat /\ Len(free) = hi - lo + 1
    BY <1>3 DEF OpenOnes, FreeOnes
  <2>2. lo = hi + 1
    BY <1>6, <2>1
  <2>3. lo..hi = {}
    BY <2>1, <2>2
  <2> QED BY <1>6, <2>1, <2>3 DEF IsTail
<1>8. code[n] = <<>> /\ c # n /\ n \in 1..n
      /\ \A b \in 1..(n - 1) : b = c \/ EndedBlock(code[b])
  BY <1>2, <1>3, <1>4, <1>5, <1>7 DEF Contents, Panic
<1>9. PICK x, y, t, u : x = Ret(0) /\ y = Ret(-1) /\ t = Append(s, Check) /\ u = Append(t, x)
  OBVIOUS
<1>10. /\ x \in Stencils /\ y \in Stencils /\ Check \in Stencils
       /\ x.op = "Ret" /\ y.op = "Ret" /\ Check.op = "Check"
       /\ ~ GoesOn(x) /\ ~ GoesOn(y) /\ GoesOn(Check)
       /\ "Ret" \notin Plain /\ "Check" \notin Plain
  BY <1>9, StencilsAre, GoingOn DEF Plain
<1>11. /\ t \in Seq(Stencils) /\ Len(t) = Len(s) + 1 /\ t[Len(s) + 1] = Check
       /\ \A i \in 1..Len(s) : t[i] = s[i]
       /\ OpenBlock(t)
  BY <1>4, <1>9, <1>10, AppendIs, AppendEnds
<1>12. /\ u \in Seq(Stencils) /\ Len(u) = Len(t) + 1 /\ u[Len(t) + 1] = x
       /\ \A i \in 1..Len(t) : u[i] = t[i]
       /\ EndedBlock(u)
  <2>1. /\ u \in Seq(Stencils) /\ Len(u) = Len(t) + 1 /\ u[Len(t) + 1] = x
        /\ \A i \in 1..Len(t) : u[i] = t[i]
    BY <1>9, <1>10, <1>11, AppendIs
  <2>2. EndedBlock(u)
    BY <1>9, <1>10, <1>11, AppendEnds
  <2> QED BY <2>1, <2>2
<1>13. s \o <<Check, Ret(0)>> = u
  BY <1>4, <1>9, <1>10
<1>14. /\ <<y>> \in Seq(Stencils) /\ Len(<<y>>) = 1 /\ <<y>>[1] = y /\ EndedBlock(<<y>>)
       /\ \E d : Drift(<<y>>, d)
  BY <1>10, OneStencil
<1>15. PICK mid : mid = [code EXCEPT ![c] = u]
  OBVIOUS
<1>16. BlocksOK(mid, saturating) /\ Replaced(code, c, u, mid)
  <2>1. Goes(code, x) /\ Goes(code, Check)
    BY <1>10 DEF Goes
  <2>2. \A i \in 1..Len(u) : i \in 1..Len(s) \/ Goes(code, u[i])
    <3>1. \A i \in 1..Len(u) : i \in 1..Len(s) \/ i = Len(s) + 1 \/ i = Len(t) + 1
      BY <1>4, <1>11, <1>12
    <3>2. Len(s) + 1 \in 1..Len(t)
      BY <1>4, <1>11
    <3>3. u[Len(s) + 1] = Check
      BY <1>11, <1>12, <3>2
    <3> QED BY <1>12, <2>1, <3>1, <3>3
  <2>3. Len(s) <= Len(u) /\ \A i \in 1..Len(s) : u[i] = s[i]
    <3>1. Len(s) <= Len(u) /\ \A i \in 1..Len(s) : i \in 1..Len(t)
      BY <1>4, <1>11, <1>12
    <3> QED BY <1>11, <1>12, <3>1
  <2>4. ~ saturating => \E d : Drift(u, d)
    <3> HAVE ~ saturating
    <3>1. \E d : Drift(s, d)
      BY <1>2, <1>4 DEF BlocksOK
    <3>2. \E d : Drift(t, d)
      BY <1>4, <1>9, <1>10, <3>1, DriftOn
    <3> QED BY <1>9, <1>10, <1>11, <3>2, DriftOn
  <2>5. Longer(code, saturating, s, u)
    BY <2>2, <2>3, <2>4 DEF Longer
  <2> QED BY <1>2, <1>4, <1>12, <1>15, <2>5, OneGrown
<1>17. Len(mid) = n /\ mid[n] = <<>> /\ mid[c] = u /\ \A b \in 1..n : b # c => mid[b] = code[b]
  BY <1>5, <1>8, <1>16 DEF Replaced
<1>18. PICK more : more = [mid EXCEPT ![n] = <<y>>]
  OBVIOUS
<1>19. BlocksOK(more, saturating) /\ Replaced(mid, n, <<y>>, more)
  <2>1. Goes(mid, y)
    BY <1>10 DEF Goes
  <2>2. Longer(mid, saturating, <<>>, <<y>>)
    <3>1. Len(<<>>) = 0 /\ 1..0 = {} /\ \A i \in 1..Len(<<y>>) : i = 1
      BY <1>14
    <3> QED BY <1>14, <2>1, <3>1 DEF Longer
  <2> QED BY <1>8, <1>14, <1>16, <1>17, <1>18, <2>2, OneGrown
<1>20. /\ blocks' = more /\ Len(more) = n /\ more[n] = <<y>> /\ more[c] = u
       /\ \A b \in 1..n : b # n /\ b # c => more[b] = code[b]
  <2>1. /\ Len(more) = n /\ more[n] = <<y>> /\ more[c] = u
        /\ \A b \in 1..n : b # n /\ b # c => more[b] = code[b]
    BY <1>4, <1>5, <1>8, <1>17, <1>19 DEF Replaced
  <2>2. blocks' = [code EXCEPT ![c] = u, ![n] = <<y>>]
    BY <1>1, <1>2, <1>5, <1>9, <1>13 DEF Panic
  <2> QED BY <1>15, <1>18, <2>1, <2>2
<1>21. Panic' = n
  BY <1>20 DEF Panic
<1>22. \A b \in 1..n : EndedBlock(more[b])
  <2> TAKE b \in 1..n
  <2>1. CASE b = n
    BY <1>14, <1>20, <2>1
  <2>2. CASE b = c
    BY <1>12, <1>20, <2>2
  <2>3. CASE b # n /\ b # c
    <3>1. b \in 1..(n - 1)
      BY <2>3
    <3> QED BY <1>8, <1>20, <2>3, <3>1
  <2> QED BY <2>1, <2>2, <2>3
<1>23. tape' \in [Cells' -> Cell]
  BY <1>1, CellsAre DEF Filled, Cells
<1>24. Located'
  <2>1. 1 \in 1..n /\ more[1] \in Seq(Stencils) /\ EndedBlock(more[1])
    <3>1. 1 \in 1..n /\ more \in Seq(Seq(Stencils))
      BY <1>5, <1>19 DEF BlocksOK
    <3> QED BY <1>20, <1>22, <3>1, ElementsOf
  <2>2. 1 \in 1..Len(more[1])
    BY <2>1 DEF EndedBlock
  <2>3. pc'[1] = 1 /\ pc'[2] = 1 /\ pc' \in (1..n) \X Nat /\ 1 - 1 = 0
    BY <1>1, <2>1
  <2>4. ~ saturating => \E d : Drift(more[1], d) /\ InTape(0 - d[0])
    <3> HAVE ~ saturating
    <3>1. PICK d : Drift(more[1], d)
      BY <1>19, <1>20, <2>1 DEF BlocksOK
    <3>2. 0 - d[0] = 0
      BY <3>1 DEF Drift
    <3> QED BY <3>1, <3>2, CellsAre
  <2> QED BY <1>1, <1>20, <1>21, <2>2, <2>3, <2>4 DEF Located
<1>25. RunInv'
  <2>1. current' \in 1..(n - 1) /\ free' = <<>> /\ loopStack' = <<>>
    BY <1>1, <1>2, <1>4, <1>5, <1>7
  <2>2. blocks'[n][1].op = "Ret"
    BY <1>10, <1>14, <1>20
  <2>3. printed' \in Seq(Cell) /\ Len(printed') <= MaxPrinted
    BY <1>1, BfAssumption
  <2>4. index' \in Int /\ InTape(index')
    BY <1>1, CellsAre
  <2> QED BY <1>1, <1>19, <1>20, <1>21, <1>22, <1>23, <1>24, <2>1, <2>2, <2>3, <2>4 DEF RunInv
<1> QED BY <1>1, <1>25 DEF Inv

-----------------------------------------------------------------------------

(* The stencil that runs next, its block, and the one behind it.           *)
LEMMA AtStencilIs ==
    ASSUME Inv, phase = "run"
    PROVE  /\ pc[1] \in 1..Panic /\ pc[2] \in Nat /\ pc[2] \in 1..Len(blocks[pc[1]])
           /\ blocks[pc[1]] \in Seq(Stencils) /\ Len(blocks[pc[1]]) \in Nat
           /\ AtStencil = blocks[pc[1]][pc[2]] /\ AtStencil \in Stencils
           /\ Goes(blocks, AtStencil)
           /\ GoesOn(AtStencil) => pc[2] + 1 \in 1..Len(blocks[pc[1]])
<1>1. RunInv /\ Located
  BY DEF Inv, RunInv
<1>2. pc[1] \in 1..Panic /\ pc[2] \in Nat /\ pc[2] \in 1..Len(blocks[pc[1]])
  BY <1>1 DEF Located
<1>3. PICK b, i, s : b = pc[1] /\ i = pc[2] /\ s = blocks[b]
  OBVIOUS
<1>4. blocks \in Seq(Seq(Stencils)) /\ b \in 1..Len(blocks) /\ EndedBlock(s)
  BY <1>1, <1>2, <1>3 DEF RunInv, BlocksOK, Panic
<1>5. s \in Seq(Stencils)
  BY <1>3, <1>4, ElementsOf
<1>6. Len(s) \in Nat /\ s[i] \in Stencils /\ i \in 1..Len(s) /\ AtStencil = s[i]
  BY <1>2, <1>3, <1>5, ElementsOf DEF AtStencil
<1>7. Goes(blocks, s[i])
  BY <1>1, <1>3, <1>4, <1>6 DEF RunInv, BlocksOK
<1>8. GoesOn(s[i]) => i + 1 \in 1..Len(s)
  <2> HAVE GoesOn(s[i])
  <2>1. ~ GoesOn(s[Len(s)])
    BY <1>4 DEF EndedBlock
  <2>2. i # Len(s)
    BY <2>1
  <2> QED BY <1>6, <2>2
<1> QED BY <1>2, <1>3, <1>5, <1>6, <1>7, <1>8

(* A step to the stencil behind, and one to the start of a block.          *)
LEMMA BehindOK ==
    ASSUME Inv, phase = "run", UNCHANGED <<saturating, compiling>>,
           pc' = <<pc[1], pc[2] + 1>>, GoesOn(AtStencil), index \in Int, index' \in Int,
           ~ saturating =>
              \/ AtStencil.op \in {"Check", "If"} /\ InTape(index')
              \/ /\ AtStencil.op \notin {"Check", "If"}
                 /\ index' = index + (IF AtStencil.op = "LeftRight" THEN AtStencil.n ELSE 0)
    PROVE  Located'
<1>1. PICK b, i, s, x : b = pc[1] /\ i = pc[2] /\ s = blocks[b] /\ x = AtStencil
  OBVIOUS
<1>2. /\ b \in 1..Panic /\ i \in Nat /\ i \in 1..Len(s) /\ i + 1 \in 1..Len(s)
      /\ s \in Seq(Stencils) /\ Len(s) \in Nat /\ x = s[i] /\ x \in Stencils
  BY <1>1, AtStencilIs
<1>3. /\ blocks' = blocks /\ saturating' = saturating /\ Panic' = Panic
      /\ pc' = <<b, i + 1>> /\ pc'[1] = b /\ pc'[2] = i + 1 /\ (i + 1) - 1 = i
  BY <1>1, <1>2 DEF compiling, Panic
<1>4. ASSUME ~ saturating
      PROVE  \E d : Drift(s, d) /\ InTape(index' - d[i])
  <2>1. PICK d : Drift(s, d) /\ (InTape(index - d[i - 1]) \/ x.op \in {"If", "Ret"})
    BY <1>1, <1>4 DEF Inv, RunInv, Located
  <2>2. d[i - 1] \in Int /\ d[i] \in Int /\ d[i] = Drifted(d[i - 1], x)
    BY <1>2, <2>1 DEF Drift
  <2>3. x.op # "Ret"
    BY <1>1 DEF GoesOn, Ends
  <2>4. PICK far \in Int, next \in Int : far = d[i - 1] /\ next = d[i]
    BY <2>2
  <2>5. CASE x.op \in {"Check", "If"}
    <3>1. next = 0 /\ InTape(index')
      BY <1>1, <1>4, <2>2, <2>4, <2>5 DEF Drifted
    <3>2. index' - next = index'
      <4>1. \A j \in Int : j - 0 = j
        OBVIOUS
      <4>2. index' \in Int
        BY <1>1
      <4> QED BY <3>1, <4>1, <4>2, Zenon
    <3> QED BY <2>1, <2>4, <3>1, <3>2
  <2>6. CASE x.op \notin {"Check", "If"}
    <3>1. PICK n \in Int : n = IF x.op = "LeftRight" THEN x.n ELSE 0
      <4>1. x.op = "LeftRight" => x.n \in Int
        BY <1>2, StencilIs DEF Plain
      <4> QED BY <4>1
    <3>2. next = far + n
      BY <2>2, <2>4, <2>6, <3>1 DEF Drifted
    <3>3. index' = index + n
      BY <1>1, <1>4, <2>6, <3>1
    <3>4. index' - next = index - far
      BY <3>2, <3>3
    <3>5. InTape(index - far)
      BY <2>1, <2>3, <2>4, <2>6
    <3> QED BY <2>1, <2>4, <3>4, <3>5
  <2> QED BY <2>5, <2>6
<1>5. pc' \in (1..Panic) \X Nat
  BY <1>2, <1>3
<1> QED BY <1>1, <1>2, <1>3, <1>4, <1>5 DEF Located

(* A run that enters a block is on the tape, unless the block tests that.  *)
LEMMA BlockOK ==
    ASSUME Inv, phase = "run", UNCHANGED <<saturating, compiling>>,
           NEW b \in 1..Panic, pc' = <<b, 1>>, index' \in Int,
           InTape(index') \/ blocks[b][1].op \in {"If", "Ret"}
    PROVE  Located'
<1>1. RunInv
  BY DEF Inv
<1>2. /\ blocks' = blocks /\ saturating' = saturating /\ Panic' = Panic
      /\ pc'[1] = b /\ pc'[2] = 1 /\ 1 - 1 = 0 /\ pc' \in (1..Panic) \X Nat
  BY DEF compiling, Panic
<1>3. blocks \in Seq(Seq(Stencils)) /\ b \in 1..Len(blocks) /\ EndedBlock(blocks[b])
  BY <1>1 DEF RunInv, BlocksOK, Panic
<1>4. blocks[b] \in Seq(Stencils)
  BY <1>3, ElementsOf
<1>5. 1 \in 1..Len(blocks[b])
  BY <1>3, <1>4 DEF EndedBlock
<1>6. ~ saturating => \E d : /\ Drift(blocks[b], d)
                             /\ InTape(index' - d[0]) \/ blocks[b][1].op \in {"If", "Ret"}
  <2> HAVE ~ saturating
  <2>1. PICK d : Drift(blocks[b], d)
    BY <1>1, <1>3 DEF RunInv, BlocksOK
  <2>2. index' - d[0] = index'
    BY <2>1 DEF Drift
  <2> QED BY <2>1, <2>2
<1> QED BY <1>2, <1>5, <1>6 DEF Located, AtStencil

(* What a stencil has to keep for the invariant to hold behind it.         *)
LEMMA StepOK ==
    ASSUME Inv, phase = "run", UNCHANGED <<saturating, compiling>>,
           phase' \in {"run", "returned", "panicked"}, phase' = "run" => Located',
           tape' \in [Cells -> Cell], stdin' \in Seq(Cell),
           printed' \in Seq(Cell), Len(printed') <= MaxPrinted,
           index' \in Int, saturating => InTape(index')
    PROVE  Inv'
<1>1. RunInv /\ saturating \in BOOLEAN
  BY DEF Inv
<1>2. /\ blocks' = blocks /\ saturating' = saturating /\ Panic' = Panic /\ Cells' = Cells
      /\ free' = free /\ loopStack' = loopStack /\ current' = current
  BY DEF compiling, Panic, Cells
<1>3. RunInv'
  BY <1>1, <1>2 DEF RunInv
<1> QED BY <1>1, <1>2, <1>3 DEF Inv

(* Adding to a byte makes a byte; moves saturate where they should.        *)
LEMMA AddedIs ==
    ASSUME NEW t \in [Cells -> Cell], NEW i, NEW n \in Int
    PROVE  Added(t, i, n) \in [Cells -> Cell]
<1>1. CASE i \in Cells
  <2>1. t[i] + n \in Int
    BY <1>1, CellsAre DEF Cell
  <2>2. (t[i] + n) % CellSize \in Cell
    BY <2>1, CellsAre
  <2> QED BY <2>2 DEF Added
<1>2. CASE i \notin Cells
  BY <1>2 DEF Added
<1> QED BY <1>1, <1>2

LEMMA MovedIs ==
    ASSUME NEW i \in Int, NEW n \in Int, saturating \in BOOLEAN
    PROVE  /\ Moved(i, n) \in Int
           /\ saturating /\ InTape(i) => InTape(Moved(i, n))
           /\ ~ saturating => Moved(i, n) = i + n
<1>1. TapeSize \in Nat /\ TapeSize > 0
  BY CellsAre
<1>2. CASE ~ saturating
  BY <1>2 DEF Moved
<1>3. CASE saturating /\ n < 0
  <2>1. PICK m : m = Max({i + n, 0})
    OBVIOUS
  <2>2. \E x \in {i + n, 0} : \A y \in {i + n, 0} : x >= y
    <3>1. CASE i + n >= 0
      BY <3>1
    <3>2. CASE ~ (i + n >= 0)
      BY <3>2
    <3> QED BY <3>1, <3>2
  <2>3. m \in {i + n, 0} /\ m >= i + n /\ m >= 0
    BY <2>1, <2>2 DEF Max
  <2>4. m \in Int /\ (InTape(i) => InTape(m))
    BY <1>1, <1>3, <2>3 DEF InTape
  <2> QED BY <1>3, <2>1, <2>4 DEF Moved
<1>4. CASE saturating /\ ~ (n < 0)
  <2>1. PICK m : m = Min({i + n, TapeSize - 1})
    OBVIOUS
  <2>2. \E x \in {i + n, TapeSize - 1} : \A y \in {i + n, TapeSize - 1} : x <= y
    <3>1. CASE i + n <= TapeSize - 1
      BY <1>1, <3>1
    <3>2. CASE ~ (i + n <= TapeSize - 1)
      BY <1>1, <3>2
    <3> QED BY <3>1, <3>2
  <2>3. m \in {i + n, TapeSize - 1} /\ m <= i + n /\ m <= TapeSize - 1
    BY <2>1, <2>2 DEF Min
  <2>4. m \in Int /\ (InTape(i) => InTape(m))
    BY <1>1, <1>4, <2>3 DEF InTape
  <2> QED BY <1>4, <2>1, <2>4 DEF Moved
<1> QED BY <1>2, <1>3, <1>4

(* A stencil that only works on the tape goes on to the next.              *)
LEMMA StraightOK ==
    ASSUME Inv, NEW op \in Plain, Straight(op),
           tape' \in [Cells -> Cell], stdin' \in Seq(Cell),
           printed' \in Seq(Cell), Len(printed') <= MaxPrinted,
           op # "LeftRight" => index' = index,
           op = "LeftRight" => index' = Moved(index, AtStencil.n)
    PROVE  Inv'
<1>1. /\ phase = "run" /\ phase' = phase /\ UNCHANGED <<saturating, compiling>>
      /\ AtStencil.op = op /\ pc' = <<pc[1], pc[2] + 1>>
  BY DEF Straight, Runs, To, Behind
<1>2. /\ RunInv /\ saturating \in BOOLEAN /\ index \in Int /\ (saturating => InTape(index))
  BY <1>1 DEF Inv, RunInv
<1>3. AtStencil \in Stencils /\ GoesOn(AtStencil) /\ AtStencil.n \in Int
  BY <1>1, AtStencilIs, StencilIs, GoingOn
<1>4. /\ index' \in Int /\ (saturating => InTape(index'))
      /\ ~ saturating => index' = index + (IF op = "LeftRight" THEN AtStencil.n ELSE 0)
  <2>1. CASE op = "LeftRight"
    BY <1>2, <1>3, <2>1, MovedIs
  <2>2. CASE op # "LeftRight"
    <3>1. PICK j \in Int : j = index
      BY <1>2
    <3>2. j = j + 0
      OBVIOUS
    <3> QED BY <1>2, <2>2, <3>1, <3>2
  <2> QED BY <2>1, <2>2
<1>5. op \notin {"Check", "If"}
  BY DEF Plain
<1>6. Located'
  BY <1>1, <1>2, <1>3, <1>4, <1>5, BehindOK
<1> QED BY <1>1, <1>4, <1>6, StepOK

(* Each stencil keeps the position where the code has it.                  *)
LEMMA RunOK ==
    ASSUME Inv, Run
    PROVE  Inv'
<1>1. /\ phase = "run" /\ UNCHANGED <<saturating, compiling>>
      /\ AtStencil.op \in Plain \cup {"Jump", "Check", "If", "Ret"}
  BY DEF Run, RunIncDec, RunLeftRight, RunSetZero, RunAddTo, RunPrint, RunRead, RunJump,
         RunCheck, RunIf, RunRet, Straight, Runs, Plain
<1>2. /\ RunInv /\ Located /\ saturating \in BOOLEAN
      /\ tape \in [Cells -> Cell] /\ stdin \in Seq(Cell)
      /\ printed \in Seq(Cell) /\ Len(printed) <= MaxPrinted
      /\ index \in Int /\ (saturating => InTape(index))
  BY <1>1 DEF Inv, RunInv
<1>3. /\ AtStencil \in Stencils /\ Goes(blocks, AtStencil)
      /\ AtStencil.op \in Plain => AtStencil.n \in Int
      /\ AtStencil.op = "If" => AtStencil.zero \in Nat /\ AtStencil.other \in Nat
  BY <1>1, AtStencilIs, StencilIs
<1>4. Panic = Len(blocks) /\ Panic \in Nat /\ Panic >= 2
  BY <1>2, ElementsOf DEF RunInv, BlocksOK, Panic
<1>5. \A t \in [Cells -> Cell] : \A i : \A v \in Cell : [t EXCEPT ![i] = v] \in [Cells -> Cell]
  OBVIOUS
<1>6. CASE RunIncDec
  <2>1. Straight("IncDec") /\ "IncDec" \in Plain /\ AtStencil.op = "IncDec"
    BY <1>6 DEF RunIncDec, Straight, Runs, Plain
  <2>2. tape' \in [Cells -> Cell]
    BY <1>2, <1>3, <1>6, <2>1, AddedIs DEF RunIncDec
  <2>3. stdin' = stdin /\ printed' = printed /\ index' = index
    BY <1>6 DEF RunIncDec
  <2> QED BY <1>2, <2>1, <2>2, <2>3, StraightOK
<1>7. CASE RunLeftRight
  <2>1. Straight("LeftRight") /\ "LeftRight" \in Plain
    BY <1>7 DEF RunLeftRight, Plain
  <2>2. stdin' = stdin /\ printed' = printed /\ tape' = tape /\ index' = Moved(index, AtStencil.n)
    BY <1>7 DEF RunLeftRight
  <2> QED BY <1>2, <2>1, <2>2, StraightOK
<1>8. CASE RunSetZero
  <2>1. Straight("SetZero") /\ "SetZero" \in Plain
    BY <1>8 DEF RunSetZero, Plain
  <2>2. stdin' = stdin /\ printed' = printed /\ index' = index
    BY <1>8 DEF RunSetZero
  <2>3. tape' \in [Cells -> Cell]
    BY <1>2, <1>5, <1>8, CellsAre DEF RunSetZero
  <2> QED BY <1>2, <2>1, <2>2, <2>3, StraightOK
<1>9. CASE RunAddTo
  <2>1. Straight("AddTo") /\ "AddTo" \in Plain
    BY <1>9 DEF RunAddTo, Plain
  <2>2. stdin' = stdin /\ printed' = printed /\ index' = index
    BY <1>9 DEF RunAddTo
  <2>3. index \in Cells
    BY <2>1 DEF Straight, Runs, Accessed
  <2>4. tape[index] \in Int /\ [tape EXCEPT ![index] = 0] \in [Cells -> Cell]
    BY <1>2, <1>5, <2>3, CellsAre DEF Cell
  <2>5. tape' \in [Cells -> Cell]
    BY <1>9, <2>4, AddedIs DEF RunAddTo
  <2> QED BY <1>2, <2>1, <2>2, <2>5, StraightOK
<1>10. CASE RunPrint
  <2>1. Straight("Out") /\ "Out" \in Plain
    BY <1>10 DEF RunPrint, Plain
  <2>2. /\ stdin' = stdin /\ tape' = tape /\ index' = index
        /\ printed' = Append(printed, tape[index]) /\ Len(printed) < MaxPrinted
    BY <1>10 DEF RunPrint
  <2>3. index \in Cells
    BY <2>1 DEF Straight, Runs, Accessed
  <2>4. tape[index] \in Cell
    BY <1>2, <2>3
  <2>5. printed' \in Seq(Cell) /\ Len(printed') = Len(printed) + 1 /\ Len(printed) \in Nat
    BY <1>2, <2>2, <2>4, AppendIs, ElementsOf
  <2>6. Len(printed') <= MaxPrinted
    BY <2>2, <2>5, BfAssumption
  <2> QED BY <1>2, <2>1, <2>2, <2>5, <2>6, StraightOK
<1>11. CASE RunRead
  <2>1. Straight("In") /\ "In" \in Plain
    BY <1>11 DEF RunRead, Plain
  <2>2. /\ stdin' = Rest(stdin) /\ printed' = printed /\ index' = index
        /\ tape' = [tape EXCEPT ![index] = Input(stdin)]
    BY <1>11 DEF RunRead
  <2>3. Input(stdin) \in Cell /\ Rest(stdin) \in Seq(Cell)
    BY <1>2, CellsAre DEF Input, Rest
  <2>4. tape' \in [Cells -> Cell]
    BY <1>2, <1>5, <2>2, <2>3
  <2> QED BY <1>2, <2>1, <2>2, <2>3, <2>4, StraightOK
<1>12. CASE RunJump
  <2>1. /\ AtStencil.op = "Jump" /\ phase' = phase /\ index' = index /\ tape' = tape
        /\ stdin' = stdin /\ printed' = printed
    BY <1>12 DEF RunJump, Runs
  <2>2. PICK b : b = AtStencil.block
    OBVIOUS
  <2>3. b \in 1..(Panic - 1) /\ blocks[b][1].op = "If"
    BY <1>3, <1>4, <2>1, <2>2 DEF Goes
  <2>4. b \in 1..Panic /\ pc' = <<b, 1>>
    BY <1>4, <1>12, <2>2, <2>3 DEF RunJump, To, Behind
  <2>5. Located'
    BY <1>1, <1>2, <2>1, <2>3, <2>4, BlockOK
  <2> QED BY <1>1, <1>2, <2>1, <2>5, StepOK
<1>13. CASE RunCheck
  <2>1. /\ AtStencil.op = "Check" /\ phase' = phase /\ index' = index /\ tape' = tape
        /\ stdin' = stdin /\ printed' = printed /\ To(IF InTape(index) THEN Behind ELSE Panic)
    BY <1>13 DEF RunCheck, Runs
  <2>2. CASE InTape(index)
    <3>1. pc' = <<pc[1], pc[2] + 1>> /\ GoesOn(AtStencil)
      BY <2>1, <2>2, GoingOn DEF To
    <3>2. Located'
      BY <1>1, <1>2, <2>1, <2>2, <3>1, BehindOK
    <3> QED BY <1>1, <1>2, <2>1, <3>2, StepOK
  <2>3. CASE ~ InTape(index)
    <3>1. pc' = <<Panic, 1>> /\ Panic \in 1..Panic /\ blocks[Panic][1].op = "Ret"
      BY <1>2, <1>4, <2>1, <2>3 DEF To, Behind, RunInv
    <3>2. Located'
      BY <1>1, <1>2, <2>1, <3>1, BlockOK
    <3> QED BY <1>1, <1>2, <2>1, <3>2, StepOK
  <2> QED BY <2>2, <2>3
<1>14. CASE RunIf
  <2>1. /\ AtStencil.op = "If" /\ phase' = phase /\ index' = index /\ tape' = tape
        /\ stdin' = stdin /\ printed' = printed
    BY <1>14 DEF RunIf, Runs
  <2>2. CASE ~ saturating /\ ~ InTape(index)
    <3>1. pc' = <<Panic, 1>> /\ Panic \in 1..Panic /\ blocks[Panic][1].op = "Ret"
      BY <1>2, <1>4, <1>14, <2>2 DEF RunIf, To, Behind, RunInv
    <3>2. Located'
      BY <1>1, <1>2, <2>1, <3>1, BlockOK
    <3> QED BY <1>1, <1>2, <2>1, <3>2, StepOK
  <2>3. CASE InTape(index)
    <3>1. PICK b : b = IF tape[index] = 0 THEN AtStencil.zero ELSE AtStencil.other
      OBVIOUS
    <3>2. To(b)
      BY <1>14, <2>3, <3>1 DEF RunIf
    <3>3. b \in 0..(Panic - 1) /\ (b = Behind => AtStencil.other = Behind)
      <4>1. AtStencil.zero \in 1..(Panic - 1) /\ AtStencil.other \in 0..(Panic - 1)
        BY <1>3, <1>4, <2>1 DEF Goes
      <4> QED BY <1>4, <3>1, <4>1 DEF Behind
    <3>4. CASE b = Behind
      <4>1. pc' = <<pc[1], pc[2] + 1>> /\ GoesOn(AtStencil)
        BY <2>1, <3>2, <3>3, <3>4 DEF To, GoesOn, Ends
      <4>2. Located'
        BY <1>1, <1>2, <2>1, <2>3, <4>1, BehindOK
      <4> QED BY <1>1, <1>2, <2>1, <4>2, StepOK
    <3>5. CASE b # Behind
      <4>1. pc' = <<b, 1>> /\ b \in 1..Panic
        BY <1>4, <3>2, <3>3, <3>5 DEF To, Behind
      <4>2. Located'
        BY <1>1, <1>2, <2>1, <2>3, <4>1, BlockOK
      <4> QED BY <1>1, <1>2, <2>1, <4>2, StepOK
    <3> QED BY <3>4, <3>5
  <2> QED BY <1>2, <2>2, <2>3
<1>15. CASE RunRet
  <2>1. /\ phase' \in {"returned", "panicked"} /\ index' = index /\ tape' = tape
        /\ stdin' = stdin /\ printed' = printed
    BY <1>15 DEF RunRet, running
  <2> QED BY <1>1, <1>2, <2>1, StepOK
<1> QED BY <1>6, <1>7, <1>8, <1>9, <1>10, <1>11, <1>12, <1>13, <1>14, <1>15 DEF Run

-----------------------------------------------------------------------------

(* The invariant holds in every state of every compilation and run.        *)
LEMMA InvInvariant ==
    CodeSpec => []Inv
<1>1. ASSUME CodeInit PROVE Inv
  BY <1>1 DEF CodeInit, Inv
<1>2. ASSUME Inv, [CodeNext]_codeVars PROVE Inv'
  <2>1. CASE \E v : Shaped(v) /\ CreateBlocks(v)
    BY <1>2, <2>1, CreateBlocksOK
  <2>2. CASE Compile
    BY <1>2, <2>2, VisitLeafOK, IntoLoopOK, OutOfLoopOK DEF Compile
  <2>3. CASE \E fill \in Cell, in \in Seq(Cell) : Finish(fill, in)
    BY <1>2, <2>3, FinishOK
  <2>4. CASE Run
    BY <1>2, <2>4, RunOK
  <2>5. CASE UNCHANGED codeVars
    <3>1. /\ saturating' = saturating /\ phase' = phase /\ visits' = visits /\ blocks' = blocks
          /\ current' = current /\ free' = free /\ loopStack' = loopStack /\ pc' = pc
          /\ index' = index /\ tape' = tape /\ stdin' = stdin /\ printed' = printed
      BY <2>5 DEF codeVars, compiling, running
    <3>2. /\ Cells' = Cells /\ Panic' = Panic /\ AtStencil' = AtStencil
          /\ \A b : IsTail(b)' = IsTail(b)
      BY <3>1 DEF Cells, Panic, AtStencil, IsTail
    <3>3. \A lo, hi : Layout(lo, hi)' <=> Layout(lo, hi)
      BY <3>1, <3>2 DEF Layout, FreeOnes, OpenOnes, Contents
    <3>4. (CompileInv => CompileInv') /\ (Located => Located')
      BY <3>1, <3>2, <3>3 DEF CompileInv, Located
    <3>5. RunInv => RunInv'
      BY <3>1, <3>2, <3>4 DEF RunInv
    <3> QED BY <1>2, <3>1, <3>4, <3>5 DEF Inv
  <2> QED BY <1>2, <2>1, <2>2, <2>3, <2>4, <2>5 DEF CodeNext
<1> QED BY <1>1, <1>2, PTL DEF CodeSpec

(* The state has its type in every state of every compilation and run: a   *)
(* stencil that adds to a byte leaves a byte, and the block that is filled *)
(* is never the one for panics.                                            *)
THEOREM BfTypeCorrect ==
    CodeSpec => []BfTypeOK
<1>1. ASSUME Inv PROVE BfTypeOK
  <2>1. phase \in {"parse", "compile", "run", "returned", "panicked"}
    BY <1>1 DEF Inv
  <2>2. CASE phase = "parse"
    BY <1>1, <2>2, BfAssumption DEF Inv, BfTypeOK
  <2>3. CASE phase = "compile"
    <3>1. current \in 1..(Len(blocks) - 1) /\ printed = <<>>
      BY <1>1, <2>3 DEF Inv, CompileInv, Layout, Contents, Panic
    <3> QED BY <2>3, <3>1, BfAssumption DEF BfTypeOK
  <2>4. CASE phase \in {"run", "returned", "panicked"}
    BY <1>1, <2>1, <2>4 DEF Inv, RunInv, Panic, BfTypeOK
  <2> QED BY <2>1, <2>2, <2>3, <2>4
<1> QED BY <1>1, InvInvariant, PTL

(* The blocks that the first visit creates are those that the second uses: *)
(* a loop never finds fewer than two left, none is left over when the code *)
(* is finished, no loop is open then, and each block ends in a jump or a   *)
(* return that nothing follows.                                            *)
THEOREM UsesUpBlocks ==
    CodeSpec => []BlocksUsedUp
<1>1. ASSUME Inv PROVE BlocksUsedUp
  <2>1. ASSUME phase = "compile", visits # <<>>, Head(visits).kind = "IntoLoop"
        PROVE  Len(free) >= 2
    <3>1. visits \in Seq(Visit) /\ Needs(visits, Len(free)) /\ \E lo, hi : FreeOnes(lo, hi)
      BY <1>1, <2>1 DEF Inv, CompileInv, Layout
    <3>2. Len(visits) > 0
      BY <2>1, <3>1
    <3>3. visits[1].kind = "IntoLoop"
      BY <2>1, <3>1, <3>2, TailIs
    <3>4. Len(free) \in Nat
      BY <3>1, ElementsOf DEF FreeOnes
    <3> QED BY <3>1, <3>2, <3>3, <3>4, NeedsTail
  <2>2. ASSUME phase = "run"
        PROVE  /\ free = <<>> /\ loopStack = <<>>
               /\ \A b \in DOMAIN blocks :
                     /\ blocks[b] # <<>>
                     /\ \/ Last(blocks[b]).op \in Ends
                        \/ Last(blocks[b]).op = "If" /\ Last(blocks[b]).other # Behind
                     /\ \A i \in 1..(Len(blocks[b]) - 1) : blocks[b][i].op \notin Ends
    <3>1. RunInv
      BY <1>1, <2>2 DEF Inv
    <3>2. DOMAIN blocks = 1..Panic
      BY <3>1, ElementsOf DEF RunInv, BlocksOK, Panic
    <3>3. ASSUME NEW b \in 1..Panic
          PROVE  /\ blocks[b] # <<>>
                 /\ \/ Last(blocks[b]).op \in Ends
                    \/ Last(blocks[b]).op = "If" /\ Last(blocks[b]).other # Behind
                 /\ \A i \in 1..(Len(blocks[b]) - 1) : blocks[b][i].op \notin Ends
      <4>1. PICK s : s = blocks[b]
        OBVIOUS
      <4>2. EndedBlock(s)
        BY <3>1, <4>1 DEF RunInv
      <4>3. Last(s).op \in Ends \/ (Last(s).op = "If" /\ Last(s).other # Behind)
        BY <4>2 DEF EndedBlock, GoesOn, Last
      <4>4. s # <<>> /\ \A i \in 1..(Len(s) - 1) : s[i].op \notin Ends
        BY <4>2 DEF EndedBlock, GoesOn
      <4> QED BY <4>1, <4>3, <4>4
    <3> QED BY <3>1, <3>2, <3>3 DEF RunInv
  <2> QED BY <2>1, <2>2 DEF BlocksUsedUp
<1> QED BY <1>1, InvInvariant, PTL

(* No stencil touches a byte outside of the padded tape, though bounds are *)
(* only checked at loops and after CheckAfter bytes of movement: the       *)
(* padding is what the unchecked stencils can reach.                       *)
THEOREM StaysInPaddedTape ==
    CodeSpec => []InPaddedTape
<1>1. ASSUME Inv PROVE InPaddedTape
  <2> SUFFICES ASSUME phase = "run", ~ (saturating /\ AtStencil.op = "AddTo")
               PROVE  Accessed \subseteq Cells
    BY DEF InPaddedTape
  <2>1. RunInv /\ Located /\ index \in Int /\ (saturating => InTape(index))
    BY <1>1 DEF Inv, RunInv
  <2>2. /\ TapeSize \in Nat \ {0} /\ CheckAfter \in Nat \ {0} /\ Padding \in Nat
        /\ 2 * CheckAfter <= Padding + 1
    BY BfAssumption
  <2>3. InTape(index) => index \in Cells
    BY <2>2 DEF InTape, Cells
  <2>4. CASE saturating
    BY <2>1, <2>3, <2>4 DEF Accessed
  <2>5. CASE ~ saturating /\ ~ Touches(AtStencil)
    BY <2>3, <2>5 DEF Accessed, Touches
  <2>6. CASE ~ saturating /\ Touches(AtStencil)
    <3>1. PICK b, i, s, x : b = pc[1] /\ i = pc[2] /\ s = blocks[b] /\ x = AtStencil
      OBVIOUS
    <3>2. i \in 1..Len(s) /\ x = s[i] /\ x \in Stencils
      BY <1>1, <3>1, AtStencilIs
    <3>3. PICK d : Drift(s, d) /\ (InTape(index - d[i - 1]) \/ x.op \in {"If", "Ret"})
      BY <2>1, <2>6, <3>1 DEF Located
    <3>4. x.op \notin {"If", "Ret"} /\ (x.op = "AddTo" => x.n \in Int)
      BY <2>6, <3>1, <3>2, StencilIs DEF Touches, Plain
    <3>5. d[i - 1] \in Int /\ NearBy(d[i - 1], x)
      BY <1>1, <3>1, <3>2, <3>3, AtStencilIs DEF Drift
    <3>6. PICK far \in Int : far = d[i - 1]
      BY <3>5
    <3>7. InTape(index - far) /\ Abs(far) <= CheckAfter /\ (x.op = "AddTo" => Abs(x.n) < CheckAfter)
      BY <2>6, <3>1, <3>3, <3>4, <3>5, <3>6 DEF NearBy
    <3>8. index \in (-CheckAfter)..(TapeSize - 1 + CheckAfter)
      BY <2>1, <2>2, <3>7 DEF InTape, Abs
    <3>9. index \in Cells
      BY <2>2, <2>6, <3>8 DEF Cells
    <3>10. x.op = "AddTo" => index + x.n \in Cells
      <4> HAVE x.op = "AddTo"
      <4>1. PICK n \in Int : n = x.n /\ Abs(n) < CheckAfter
        BY <3>4, <3>7
      <4>2. n \in (-(CheckAfter - 1))..(CheckAfter - 1)
        BY <2>2, <4>1 DEF Abs
      <4>3. index + n \in (-Padding)..(TapeSize + Padding - 1)
        BY <2>1, <2>2, <3>8, <4>2
      <4> QED BY <2>6, <4>1, <4>3 DEF Cells
    <3> QED BY <2>6, <3>1, <3>9, <3>10 DEF Accessed, Touches
  <2> QED BY <2>4, <2>5, <2>6
<1> QED BY <1>1, InvInvariant, PTL

=============================================================================
