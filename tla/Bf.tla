--------------------------------- MODULE Bf ---------------------------------
(***************************************************************************)
(* The brainfuck example (examples/bf) as a whole: the parser with its     *)
(* special cases, whose programs module BfCode compiles and runs, and an   *)
(* interpreter to compare the runs with.                                   *)
(*                                                                         *)
(* The parser is translated as the recursive operators it consists of.     *)
(*                                                                         *)
(* Operators named Faulty... are what a bug would make of the definition   *)
(* that follows them; the properties are run against them, to see that     *)
(* they notice.                                                            *)
(***************************************************************************)
EXTENDS BfCode

CONSTANTS
    MaxLen,        \* bound: the characters of a program
    MaxLoopLen,    \* bound: the characters of one that starts with a loop
    MaxIoLen,      \* bound: the characters of one with input or output
    Fuel           \* bound: steps of the reference interpreter

ASSUME SourceAssumption ==
    MaxLen \in Nat /\ MaxLoopLen \in Nat /\ MaxIoLen \in Nat /\ Fuel \in Nat

VARIABLE
    code           \* the characters of the program

vars == <<code, codeVars>>

Characters == {"+", "-", "<", ">", "[", "]"}
IoCharacters == {".", ","}

-----------------------------------------------------------------------------
(* The parser.  A tree is a leaf of operations, a node of trees, or a loop.*)

Leaf(ops) == [kind |-> "Leaf", ops |-> ops]
Node(trees) == [kind |-> "Node", trees |-> trees]
Loop(tree) == [kind |-> "Loop", body |-> tree]

OpOf(c) ==
    CASE c = "+" -> IncDec(1)
      [] c = "-" -> IncDec(-1)
      [] c = "<" -> LeftRight(-1)
      [] c = ">" -> LeftRight(1)
      [] c = "." -> Out
      [] c = "," -> In

FaultyMerge(ops, op) ==
    IF ops # <<>> /\ Last(ops).op = op.op /\ op.op \in {"IncDec", "LeftRight"}
    THEN [ops EXCEPT ![Len(ops)].n = op.n]
    ELSE Append(ops, op)

try_merge(ops, op) ==
    IF ops # <<>> /\ Last(ops).op = op.op /\ op.op \in {"IncDec", "LeftRight"}
    THEN [ops EXCEPT ![Len(ops)].n = @ + op.n]
    ELSE Append(ops, op)

Parsed(tree, rest) == [tree |-> tree, rest |-> rest]

parse_leaf(s) ==
    LET stops == {i \in DOMAIN s : s[i] \in {"[", "]"}}
        end == CHOOSE i \in stops \cup {Len(s) + 1} : \A j \in stops : i <= j
        chars == SubSeq(s, 1, end - 1)
    IN  Parsed(Leaf(FoldLeft(LAMBDA ops, c : try_merge(ops, OpOf(c)), <<>>, chars)),
               From(s, end))

AddToPattern(ops) ==
    /\ Len(ops) = 4
    /\ ops[1] = IncDec(-1) /\ ops[3] = IncDec(1)
    /\ ops[2].op = "LeftRight" /\ ops[4] = LeftRight(-ops[2].n)
    /\ ops[2].n # 0 /\ Abs(ops[2].n) < CheckAfter

(* is_add_to, of the body of a loop; 0 is None.                            *)
is_add_to(body) ==
    IF body.kind = "Leaf" /\ AddToPattern(body.ops) THEN body.ops[2].n ELSE 0

FaultyAddTree(trees, tree) == Append(trees, tree)

(* Leaves behind one another become one.                                   *)
AddTree(trees, tree) ==
    IF Last(trees).kind = "Leaf" /\ tree.kind = "Leaf"
    THEN Append(Front(trees), Leaf(Last(trees).ops \o tree.ops))
    ELSE Append(trees, tree)

RECURSIVE parse_inner(_), ParseTrees(_, _)

parse_loop(s) ==
    LET inner == parse_inner(Tail(s))
    IN  Parsed(Loop(inner.tree), IF inner.rest = <<>> THEN <<>> ELSE Tail(inner.rest))

(* A tree that starts with a bracket, by its special case or as it is.     *)
ParseBracket(s) ==
    LET loop == parse_loop(s)
        offset == is_add_to(loop.tree.body)
    IN  IF IsPrefix(<<"[", "-", "]">>, s) THEN Parsed(Leaf(<<SetZero>>), From(s, 4))
        ELSE IF offset # 0 THEN Parsed(Leaf(<<AddTo(offset)>>), loop.rest)
        ELSE loop

ParseTrees(trees, s) ==
    IF s = <<>> \/ Head(s) = "]"
    THEN Parsed(Node(trees), s)
    ELSE LET next == IF Head(s) = "[" THEN ParseBracket(s) ELSE parse_leaf(s)
         IN  ParseTrees(AddTree(trees, next.tree), next.rest)

parse_inner(s) ==
    LET first == parse_leaf(s)
    IN  IF first.rest = <<>> THEN first ELSE ParseTrees(<<first.tree>>, first.rest)

(* BF::visit: the calls it makes, in their order.                          *)
RECURSIVE visit(_)
visit(tree) ==
    CASE tree.kind = "Leaf" -> <<tree>>
      [] tree.kind = "Node" -> FlattenSeq([i \in DOMAIN tree.trees |-> visit(tree.trees[i])])
      [] tree.kind = "Loop" -> <<[kind |-> "IntoLoop"]>> \o visit(tree.body)
                                  \o <<[kind |-> "OutOfLoop"]>>

(* main has read the options and a program.                                *)
Init ==
    /\ CodeInit
    /\ \/ \E n \in 0..MaxLen : code \in [1..n -> Characters]
       \/ \E n \in 1..MaxLoopLen : code \in {<<"[">> \o s : s \in [1..(n - 1) -> Characters]}
       \/ \E n \in 0..MaxIoLen : code \in [1..n -> Characters \cup IoCharacters]

Parse == CreateBlocks(visit(parse_inner(code).tree)) /\ UNCHANGED code

CompileAll ==
    /\ \/ Compile
       \/ \E fill \in 0..1, in \in {<<>>} \cup IF Contains(code, ",") THEN {<<1>>} ELSE {} :
             Finish(fill, in)
    /\ UNCHANGED code

RunAll == Run /\ UNCHANGED code

Next == Parse \/ CompileAll \/ RunAll

(* One thread compiles and then runs the code: while it can, it goes on.   *)
Spec == Init /\ [][Next]_vars /\ WF_vars(CompileAll \/ RunAll)

-----------------------------------------------------------------------------
(* The reference: brainfuck, one character after the other, on the same    *)
(* tape.  A loop that is still open at the end is closed there, and what  *)
(* follows a closing bracket that closes nothing is ignored.               *)

Depth(s) == FoldLeft(LAMBDA d, c : CASE c = "[" -> d + 1 [] c = "]" -> d - 1 [] OTHER -> d, 0, s)

Closed ==
    LET ends == {i \in DOMAIN code : Depth(SubSeq(code, 1, i)) < 0}
        kept == IF ends = {} THEN code
                ELSE SubSeq(code, 1, (CHOOSE i \in ends : \A j \in ends : i <= j) - 1)
    IN  kept \o [i \in 1..Depth(kept) |-> "]"]

(* The bracket that closes the one at i of source s.                       *)
Closing(s, i) ==
    CHOOSE j \in (i + 1)..Len(s) :
        /\ Depth(SubSeq(s, i, j)) = 0
        /\ \A k \in (i + 1)..(j - 1) : Depth(SubSeq(s, i, k)) > 0
Opening(s, j) == CHOOSE i \in 1..(j - 1) : s[i] = "[" /\ Closing(s, i) = j

(* The position stays on the exact tape of the saturating mode.            *)
RefMoved(i, n) == IF saturating /\ ~ InTape(i + n) THEN i ELSE i + n

(* One step at character `at`; `wild` once a cell outside of memory was    *)
(* used, `left` once the position was off the tape.                        *)
RefStep(m, s) ==
    LET c == s[m.at]
        uses == c \in {"+", "-", "[", "]", ".", ","}
        on == [m EXCEPT !.at = @ + 1]
    IN  IF uses /\ m.index \notin Cells THEN [on EXCEPT !.wild = TRUE]
        ELSE CASE c \in {"+", "-"} -> [on EXCEPT !.tape = Added(@, m.index, OpOf(c).n)]
               [] c \in {"<", ">"} ->
                     LET to == RefMoved(m.index, OpOf(c).n)
                     IN  [on EXCEPT !.index = to, !.left = @ \/ ~ InTape(to)]
               [] c = "." -> [on EXCEPT !.printed = Append(@, m.tape[m.index])]
               [] c = "," -> [on EXCEPT !.tape[m.index] = Input(m.stdin), !.stdin = Rest(@)]
               [] c = "[" -> IF m.tape[m.index] = 0 THEN [on EXCEPT !.at = Closing(s, m.at) + 1]
                             ELSE on
               [] c = "]" -> [on EXCEPT !.at = Opening(s, m.at)]

(* The reference after at most Fuel steps.                                 *)
RECURSIVE RefRun(_, _, _)
RefRun(m, s, fuel) ==
    IF fuel = 0 \/ m.wild \/ m.at > Len(s) THEN m ELSE RefRun(RefStep(m, s), s, fuel - 1)

Reference ==
    RefRun([at |-> 1, index |-> 0, tape |-> given[1], stdin |-> given[2], printed |-> <<>>,
            wild |-> FALSE, left |-> FALSE],
           Closed, Fuel)

Halted(m) == m.at = Len(Closed) + 1 /\ ~ m.wild

-----------------------------------------------------------------------------

(* Compiled code that returns has done what the program says: the bytes,   *)
(* in the padding as well, the position, what was printed and what was     *)
(* read are those of an interpreter that goes character by character.      *)
(* Where it panics, the program has left the tape.  This is about the      *)
(* default mode; what a move behind an end of the tape should do in the    *)
(* saturating one, the code and README.md do not agree on.                 *)
SameOutcome ==
    /\ phase = "returned" /\ ~ saturating =>
          LET expected == Reference
          IN  /\ Halted(expected)
              /\ tape = expected.tape /\ index = expected.index
              /\ printed = expected.printed /\ stdin = expected.stdin
    /\ phase = "panicked" => ~ saturating /\ Reference.left

(* In the saturating mode moves are merged before they saturate, and an    *)
(* AddTo does not saturate: programs that turn around between two moves,   *)
(* or with an AddTo, are not what the mode's moves make of them one by one.*)
AddsTo == \E b \in DOMAIN blocks : \E i \in DOMAIN blocks[b] : blocks[b][i].op = "AddTo"
Turns == \E i \in 1..(Len(code) - 1) : {code[i], code[i + 1]} = {"<", ">"}
Comparable == saturating => ~ Turns /\ ~ AddsTo

(* A parsed program is compiled, and its code goes on to its end, or to the*)
(* panic, unless the interpreter does not come to an end either: no jump   *)
(* of a loop is lost on the way.                                           *)
Endless ==
    LET expected == Reference
    IN  ~ Halted(expected) \/ Len(expected.printed) > MaxPrinted
Terminates ==
    phase = "compile" ~>
        \/ phase \in {"returned", "panicked"}
        \/ phase = "run" /\ pc = <<1, 1>> /\ (~ Comparable \/ Endless)

(* The parser is done, the compiler has not begun.                         *)
JustParsed == phase = "compile" /\ \A b \in DOMAIN blocks : blocks[b] = <<>>

(* Whatever the program, the parser makes what the compiler relies on:     *)
(* loops nest, bounds are only checked within a leaf, so none follows      *)
(* another, and an AddTo, which counts as movement although the position   *)
(* stays, has nothing but ends of loops behind it, so that it hides no     *)
(* drift from the checks.                                                  *)
ParserPromises == JustParsed => Shaped(visits)

(* A loop that adds its byte to another one and comes back becomes an      *)
(* AddTo, as the comments of the operation ("`[->>>+<<<]`") and of its     *)
(* stencil say.  The parser only does so where the loop is left open.      *)
Moves(n) == [i \in 1..Abs(n) |-> IF n < 0 THEN "<" ELSE ">"]
CopyLoop(n) == <<"[", "-">> \o Moves(n) \o <<"+">> \o Moves(-n) \o <<"]">>
ClosedLoopsAdd ==
    \A n \in ((1 - CheckAfter)..(CheckAfter - 1)) \ {0} :
        JustParsed /\ code = CopyLoop(n) =>
            \E i \in DOMAIN visits : visits[i].kind = "Leaf" /\ Contains(visits[i].ops, AddTo(n))

=============================================================================
