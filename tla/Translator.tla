----------------------------- MODULE Translator -----------------------------
(***************************************************************************)
(* The bytecode translator of the disassembler (lang/disassembler/src/code):*)
(* one pass over the opcodes of a function rebuilds its expressions.  The  *)
(* only stack is the list of expressions of the current block, which holds *)
(* operands and finished statements alike.  A branch or an Unpack starts a *)
(* nested translator for the next n opcodes; it shares the iterator with   *)
(* the one that called it, and the call resumes where it ended.  The calls *)
(* in progress are the frames below: [exps, end, then], `then' being what  *)
(* is left to do after the block.                                          *)
(*                                                                         *)
(* Opcodes that the translator treats alike are one opcode here: Ld stands *)
(* for all the loads, Loc for CopyLoc and MoveLoc, Ref for the borrows of a *)
(* local, FieldRef for those of a field, Cast for the casts, Add and Eq for *)
(* the binary operators, Call for calls and built-ins.  usize arithmetic   *)
(* wraps, as in a release build, so a length that comes out negative gives *)
(* a block that ends before it starts.                                     *)
(***************************************************************************)
EXTENDS Integers, Sequences, FiniteSets, SequencesExt

CONSTANTS
    Sources,   \* the functions disassembled: [body, ret, fall]
    Params,    \* the number of parameters of each function and struct
    Returns,   \* the number of results of each function
    Horizon    \* bound on the events of a run that are compared

VARIABLES
    source,    \* the function, as it was compiled
    code,      \* its opcodes; offset i is code[i + 1]
    at,        \* BytecodeIterator.index, -1 for None
    frames,    \* the translators in progress, the innermost last
    used,      \* the locals marked as used
    body       \* the block translated, <<>> until the translator is done

vars == <<source, code, at, frames, used, body>>

-----------------------------------------------------------------------------
(* Bytecode and its layout.                                                *)

Op(op, id, to) == [op |-> op, id |-> id, to |-> to]

\* A source expression, and what a piece of restored source stands for.
Term(op, id, args) == [op |-> op, id |-> id, args |-> args]

RECURSIVE CompileExp(_), CompileExps(_)
CompileExp(e) == CompileExps(e.args) \o <<Op(e.op, e.id, 0)>>
CompileExps(es) == IF es = <<>> THEN <<>> ELSE CompileExp(Head(es)) \o CompileExps(Tail(es))

\* A block that leaves the function or goes back does not fall through.
Leaves(stmts) == stmts # <<>> /\ Last(stmts).op \in {"Ret", "Abort"}

\* The opcodes of statements placed at offset `base' in a loop starting at
\* `loop'; with `fall', a jump to the next opcode is left out.
RECURSIVE CompileBlock(_, _, _, _)
CompileStatement(s, base, loop, fall) ==
    LET cond == CompileExp(s.args[1])
        then == base + Len(cond) + 2
    IN  CASE s.op = "Drop" -> cond \o (IF Returns[s.args[1].id] = 0 THEN <<>>
                                       ELSE <<Op("Pop", "", 0)>>)
          [] s.op = "Unpack" ->
                cond \o <<Op("Unpack", s.id, 0)>>
                     \o [i \in 1 .. Params[s.id] |->
                            LET x == s.names[Params[s.id] + 1 - i]
                            IN  IF x = "_" THEN Op("Pop", "", 0) ELSE Op("StLoc", x, 0)]
          [] s.op = "Assert" ->
                cond \o <<Op("BrTrue", "", then + 1), Op("Ld", "1", 0), Op("Abort", "", 0)>>
          [] s.op = "ContinueIf" ->
                cond \o <<Op("BrTrue", "", loop), Op("Branch", "", then)>>
          [] s.op = "While" ->
                LET b == CompileBlock(s.then, then, base, fall)
                IN  cond \o <<Op("BrTrue", "", then), Op("Branch", "", then + Len(b) + 1)>>
                         \o b \o <<Op("Branch", "", base)>>
          [] s.op = "If" ->
                LET b == CompileBlock(s.then, then, loop, fall)
                    skip == IF Leaves(s.then) \/ (fall /\ s.else = <<>>) THEN 0 ELSE 1
                    else == then + Len(b) + skip
                    e == CompileBlock(s.else, else, loop, fall)
                IN  cond \o <<Op("BrTrue", "", then), Op("Branch", "", else)>> \o b
                         \o [i \in 1 .. skip |-> Op("Branch", "", else + Len(e))] \o e
          [] OTHER -> CompileExp(s)
CompileBlock(stmts, base, loop, fall) ==
    IF stmts = <<>> THEN <<>>
    ELSE LET first == CompileStatement(Head(stmts), base, loop, fall)
         IN  first \o CompileBlock(Tail(stmts), base + Len(first), loop, fall)

Compile(src) == CompileBlock(src.body, 0, 0, src.fall)

-----------------------------------------------------------------------------
(* Expressions.  `from' is the start of the expression's range in the code. *)

NoOffset == 9999      \* above every offset: the range of an empty block

Least(s) == CHOOSE m \in s : \A n \in s : m <= n

From(kids) == Least({NoOffset} \cup {kids[i].from : i \in DOMAIN kids})

\* ExpLoc::new for an expression with operands `kids' whose range is `start'.
ExpFrom(op, id, kids, index, start) ==
    [op |-> op, id |-> id, kids |-> kids, explicit |-> FALSE, index |-> index,
     from |-> Least({index, start})]
ExpLoc(op, id, kids, index) == ExpFrom(op, id, kids, index, From(kids))
Nop(index) == ExpLoc("Nop", "", <<>>, index)
Block(exps) == [op |-> "Block", kids |-> exps, from |-> From(exps)]
NoBlock == [op |-> "None", kids |-> <<>>, from |-> NoOffset]

BinaryOps == {"Add", "Eq"}
LeafOps == {"Ld", "Loc", "Ref"}

\* BinaryOp::exp: an operand that is a binary operation gets its brackets.
Basket(e) == IF e.op \in BinaryOps THEN ExpLoc("Basket", "", <<e>>, e.index) ELSE e

\* The opcodes that only take operands from the list, and how many.
Arity(o) == CASE o.op \in {"Not", "Cast", "Abort", "FieldRef", "Deref"} -> 1
              [] o.op \in BinaryOps \cup {"WriteRef"} -> 2
              [] o.op \in {"Call", "Pack"} -> Params[o.id]
              [] OTHER -> 0

\* pop_exp_vec: what is missing is padded at the end ...
PopExpVec(exps, n, index) ==
    IF n > Len(exps) THEN exps \o [i \in 1 .. n - Len(exps) |-> Nop(index)]
    ELSE SubSeq(exps, Len(exps) - n + 1, Len(exps))
\* ... pop_exp, n times: what is missing was further down the list.
PopExps(exps, n) ==
    IF n > Len(exps) THEN [i \in 1 .. n - Len(exps) |-> Nop(0)] \o exps
    ELSE SubSeq(exps, Len(exps) - n + 1, Len(exps))
Without(exps, n) == SubSeq(exps, 1, Len(exps) - n)

-----------------------------------------------------------------------------
(* The iterator and the frames.                                            *)

Index == IF at = -1 THEN 0 ELSE at
At(i) == IF i \in 0 .. Len(code) - 1 THEN code[i + 1] ELSE Op("Nop", "", 0)

Top == frames[Len(frames)]
Outer == frames[Len(frames) - 1]

\* Mutant of Frame: the length is taken for the end.
FrameLength(n, index, then) == [exps |-> <<>>, end |-> n - index, then |-> then]

Frame(n, index, then) == [exps |-> <<>>, end |-> index + n, then |-> then]

\* The opcode the innermost translator takes next.
Taken == code[at + 2]
CanTake == body = <<>> /\ Top.end > Index /\ at + 1 < Len(code)
Take(op) == CanTake /\ Taken.op = op

\* The loop of translate pushes the expression of the opcode, at the offset
\* the iterator has reached.
Push(exps) == frames' = [frames EXCEPT ![Len(frames)].exps = exps]
Rest == UNCHANGED <<source, code, body>>

Init ==
    /\ source \in Sources
    /\ code = Compile(source)
    /\ at = -1
    /\ frames = <<Frame(Len(code), 0, [k |-> "top"])>>
    /\ used = {}
    /\ body = <<>>

\* Pushes the expression of an opcode that takes n operands from the list.
Operate(kids, n) ==
    /\ at' = at + 1
    /\ Push(Append(Without(Top.exps, n), ExpLoc(Taken.op, Taken.id, kids, at + 1)))
    /\ UNCHANGED used /\ Rest

TakeLd == Take("Ld") /\ Operate(<<>>, 0)

\* A local that is read or borrowed is marked as used.
Local ==
    /\ at' = at + 1
    /\ Push(Append(Top.exps, ExpLoc(Taken.op, Taken.id, <<>>, at + 1)))
    /\ used' = used \cup {Taken.id}
    /\ Rest

TakeLoc == Take("Loc") /\ Local
TakeRef == Take("Ref") /\ Local

TakeUnary    == (Take("Not") \/ Take("Abort")) /\ Operate(PopExps(Top.exps, 1), 1)
TakeCast     == Take("Cast") /\ Operate(PopExps(Top.exps, 1), 1)
TakeFieldRef == Take("FieldRef") /\ Operate(PopExps(Top.exps, 1), 1)
TakeDeref    == Take("Deref") /\ Operate(PopExps(Top.exps, 1), 1)
TakeWriteRef == Take("WriteRef") /\ Operate(PopExps(Top.exps, 2), 2)

TakeBinary ==
    LET args == PopExps(Top.exps, 2)
    IN  /\ CanTake /\ Taken.op \in BinaryOps
        /\ Operate([i \in 1 .. 2 |-> Basket(args[i])], 2)

TakeCall ==
    LET n == Params[Taken.id] IN Take("Call") /\ Operate(PopExpVec(Top.exps, n, at + 1), n)
TakePack ==
    LET n == Params[Taken.id] IN Take("Pack") /\ Operate(PopExpVec(Top.exps, n, at + 1), n)

\* Pop and Nop leave what is on the list where it is.
TakePop ==
    /\ CanTake /\ Taken.op \in {"Pop", "Nop"}
    /\ at' = at + 1
    /\ Push(Append(Top.exps, Nop(at + 1)))
    /\ UNCHANGED used /\ Rest

\* FreezeRef: the reference itself, at a later offset.
TakeFreezeRef ==
    LET e == PopExps(Top.exps, 1)[1]
    IN  /\ Take("FreezeRef")
        /\ at' = at + 1
        /\ Push(Append(Without(Top.exps, 1),
                       ExpFrom(e.op, e.id, e.kids, at + 1, From(e.kids))))
        /\ UNCHANGED used /\ Rest

\* Let::exp: after another assignment there is nothing to assign, as in the
\* fields of an Unpack.
TakeStLoc ==
    LET bare == Top.exps = <<>> \/ Last(Top.exps).op = "Let"
        e == IF bare THEN Nop(at + 1) ELSE Last(Top.exps)
    IN  /\ Take("StLoc")
        /\ at' = at + 1
        /\ Push(Append(Without(Top.exps, IF bare THEN 0 ELSE 1),
                       ExpLoc("Let", Taken.id, <<e>>, at + 1)))
        /\ UNCHANGED used /\ Rest

TakeRet ==
    /\ Take("Ret")
    /\ at' = at + 1
    /\ Push(Append(Without(Top.exps, source.ret),
                   ExpLoc("Ret", "", PopExps(Top.exps, source.ret), at + 1)))
    /\ UNCHANGED used /\ Rest

\* br: a jump forward is left to the branch it belongs to.  br_false: an error.
TakeBranch ==
    LET e == CASE Taken.op = "BrFalse" -> "Error"
               [] Taken.op = "Branch" /\ Taken.to > at + 1 -> "Nop"
               [] OTHER -> "Continue"
    IN  /\ CanTake /\ Taken.op \in {"Branch", "BrFalse"}
        /\ at' = at + 1
        /\ Push(Append(Top.exps, ExpLoc(e, "", <<>>, at + 1)))
        /\ UNCHANGED used /\ Rest

\* Unpack::exp: the opcodes that follow say where the fields go.
TakeUnpack ==
    /\ Take("Unpack")
    /\ at' = at + 1
    /\ frames' = Append(frames, Frame(Params[Taken.id], at + 1, [k |-> "unpack", id |-> Taken.id]))
    /\ UNCHANGED used /\ Rest

\* The If expression that br_true returns: it takes its condition last.
If(exps, true, false, index) ==
    Append(Without(exps, 1),
           ExpLoc("If", "", <<PopExps(exps, 1)[1], true, false>>, index))

\* br_true, followed by a Branch: the true branch first, ...
TakeBrTrueBranch ==
    LET false == At(at + 2).to
    IN  /\ Take("BrTrue") /\ At(at + 2).op = "Branch"
        /\ at' = at + 2
        /\ IF Taken.to < at + 2
           THEN Push(If(Top.exps, Block(<<ExpLoc("Continue", "", <<>>, at + 2)>>), NoBlock, at + 2))
           ELSE frames' = Append(frames, Frame(false - Taken.to, at + 2,
                                               [k |-> "true", false |-> false]))
        /\ UNCHANGED used /\ Rest

\* ... and without one: the false branch, up to the target, and then the rest.
TakeBrTrue ==
    /\ Take("BrTrue") /\ At(at + 2).op # "Branch"
    /\ at' = at + 1
    /\ IF Top.end = at + 1
       THEN Push(If(Top.exps, Block(<<>>), NoBlock, at + 1))
       ELSE frames' = Append(frames, Frame(Taken.to - (at + 1) - 1, at + 1, [k |-> "else"]))
    /\ UNCHANGED used /\ Rest

-----------------------------------------------------------------------------
(* The end of a block: its opcodes are used up, or there is none left, when *)
(* the iterator still counts the call of next.                             *)

\* Mutant of Ended: the end of the code is not the end of a block.
EndedAtEnd(k) ==
    /\ body = <<>> /\ Top.then.k = k
    /\ Top.end <= Index /\ at' = at
    /\ UNCHANGED <<source, code, used>>

Ended(k) ==
    /\ body = <<>> /\ Top.then.k = k
    /\ \/ Top.end <= Index /\ at' = at
       \/ Top.end > Index /\ at + 1 >= Len(code) /\ at' = at + 1
    /\ UNCHANGED <<source, code, used>>

\* The outer translator goes on with the expression the opcode gave it.
Return(exps) ==
    /\ frames' = Append(SubSeq(frames, 1, Len(frames) - 2), [Outer EXCEPT !.exps = exps])
    /\ UNCHANGED body

\* The outer translator starts a second block.
Again(n, then) ==
    /\ frames' = Append(Front(frames), Frame(n, at', then))
    /\ UNCHANGED body

EndTop ==
    /\ Ended("top")
    /\ body' = <<Block(Top.exps)>>
    /\ UNCHANGED frames

EndUnpack ==
    LET n == Params[Top.then.id]
        fields == Reverse(Top.exps) \o [i \in 1 .. n - Len(Top.exps) |-> Nop(at')]
        src == PopExps(Outer.exps, 1)[1]
    IN  /\ Ended("unpack")
        /\ Return(Append(Without(Outer.exps, 1),
                         ExpFrom("Unpack", Top.then.id, Append(fields, src), at', From(fields))))

\* The last expression of the true branch tells what the branch is: a loop,
\* when it goes back to where the condition starts, ...
IsLoop ==
    /\ Top.exps # <<>> /\ Last(Top.exps).op = "Continue"
    /\ At(at').op \in {"Branch", "BrTrue", "BrFalse"}
    /\ Outer.exps # <<>> /\ At(at').to = Last(Outer.exps).from

\* ... or an if that jumps over its else branch.
HasElse ==
    /\ Top.exps # <<>> /\ Last(Top.exps).op = "Nop"
    /\ At(at').op = "Branch" /\ At(at').to > at'

\* Mutant of Explicit: no keyword.
ExplicitNever(exps) == exps

\* A return that ends the true branch needs its keyword.
Explicit(exps) ==
    IF exps # <<>> /\ Last(exps).op = "Ret"
    THEN Append(Front(exps), [Last(exps) EXCEPT !.explicit = TRUE]) ELSE exps

EndTrue ==
    /\ Ended("true")
    /\ LET false == Top.then.false
           n == At(at').to - false
           true == Block(Explicit(Top.exps))
       IN  CASE IsLoop ->
                  Return(Append(Without(Outer.exps, 1),
                                ExpLoc("While", "", <<PopExps(Outer.exps, 1)[1], Block(Front(Top.exps))>>, at')))
             [] HasElse /\ false < at' ->
                  Return(If(Outer.exps, true, Block(<<ExpLoc("Continue", "", <<>>, at')>>), at'))
             [] HasElse /\ false >= at' /\ n # 0 -> Again(n, [k |-> "false", true |-> true])
             [] OTHER -> Return(If(Outer.exps, true, NoBlock, at'))

OrNone(exps) == IF exps = <<>> THEN NoBlock ELSE Block(exps)

EndFalse ==
    /\ Ended("false")
    /\ Return(If(Outer.exps, Top.then.true, OrNone(Top.exps), at'))

\* Mutant of RemainingCode: all the opcodes of the function.
WholeCode(index) == Len(code)

\* The number of opcodes after offset `index'.
RemainingCode(index) == Len(code) - (index + 1)

EndElse ==
    /\ Ended("else")
    /\ Again(RemainingCode(at'), [k |-> "rest", else |-> OrNone(Top.exps)])

EndRest ==
    /\ Ended("rest")
    /\ Return(If(Outer.exps, Block(Top.exps), Top.then.else, at'))

Next ==
    \/ TakeLd \/ TakeLoc \/ TakeRef \/ TakeUnary \/ TakeCast \/ TakeFieldRef \/ TakeDeref
    \/ TakeWriteRef \/ TakeBinary \/ TakeCall \/ TakePack
    \/ TakePop \/ TakeFreezeRef \/ TakeStLoc \/ TakeRet \/ TakeBranch
    \/ TakeUnpack \/ TakeBrTrueBranch \/ TakeBrTrue
    \/ EndTop \/ EndUnpack \/ EndTrue \/ EndFalse \/ EndElse \/ EndRest

Spec == Init /\ [][Next]_vars /\ WF_vars(Next)

-----------------------------------------------------------------------------
(* What bytecode does, as the set of its runs: the assignments, calls,     *)
(* writes, conditions and the end of a run, in order, with the operands of *)
(* each; a condition may come out either way.                              *)

Event(kind, id, args) == <<kind, id, args>>
Cut(runs) == {SubSeq(r, 1, IF Len(r) > Horizon THEN Horizon ELSE Len(r)) : r \in runs}

RECURSIVE RunCode(_, _, _, _)
RunCode(ops, pc, stack, run) ==
    LET o == ops[pc + 1]
        n == Arity(o)
        top == stack[Len(stack)]
        args == SubSeq(stack, Len(stack) - n + 1, Len(stack))
        Go(to, st, r) == RunCode(ops, to, st, r)
        Step(st, r) == Go(pc + 1, st, r)
    IN  IF Len(run) >= Horizon THEN {run}
        ELSE CASE o.op \in LeafOps -> Step(Append(stack, Term(o.op, o.id, <<>>)), run)
               [] o.op \in {"FreezeRef", "Nop"} -> Step(stack, run)
               [] o.op = "Pop" -> Step(Front(stack), Append(run, Event("do", "", <<top>>)))
               [] o.op = "StLoc" -> Step(Front(stack), Append(run, Event("let", o.id, <<top>>)))
               [] o.op = "Ret" ->
                    {Append(run, Event("ret", "", SubSeq(stack, Len(stack) - source.ret + 1, Len(stack))))}
               [] o.op = "Abort" -> {Append(run, Event("abort", "", <<top>>))}
               [] o.op = "WriteRef" -> Step(Without(stack, 2), Append(run, Event("write", "", args)))
               [] o.op = "Unpack" ->
                    Step(Front(stack) \o [i \in 1 .. Params[o.id] |-> Term("Field", i, <<top>>)], run)
               [] o.op = "Branch" -> Go(o.to, stack, run)
               [] o.op = "BrTrue" ->
                    Go(o.to, Front(stack), Append(run, Event("if", TRUE, <<top>>)))
                      \cup Step(Front(stack), Append(run, Event("if", FALSE, <<top>>)))
               [] o.op = "Call" /\ Returns[o.id] = 0 ->
                    Step(Without(stack, n), Append(run, Event("do", "", <<Term("Call", o.id, args)>>)))
               [] OTHER -> Step(Append(Without(stack, n), Term(o.op, o.id, args)), run)

(* What the restored source means to the Move compiler that reads it.  The *)
(* negation of a binary operation is printed without brackets and binds to *)
(* its first operand; the field of a field is printed with two ampersands, *)
(* which are one token.                                                    *)
RECURSIVE Read(_)
Read(e) ==
    LET arg == e.kids[1]
    IN  CASE e.op = "Basket" -> Read(arg)
          [] e.op = "Not" /\ arg.op \in BinaryOps ->
               Term(arg.op, arg.id, <<Term("Not", "", <<Read(arg.kids[1])>>), Read(arg.kids[2])>>)
          [] e.op = "FieldRef" /\ arg.op = "FieldRef" -> Term("And", "", <<Read(arg)>>)
          [] OTHER -> Term(e.op, e.id, [i \in DOMAIN e.kids |-> Read(e.kids[i])])

Done(how, run) == [how |-> how, run |-> run]

\* What is printed of a block: no-ops are left out.
Printed(b) == SelectSeq(b.kids, LAMBDA e : e.op # "Nop")

\* `last' says that the value of the statement is the value of the function.
RECURSIVE RunStatement(_, _, _), RunList(_, _, _), RunWhile(_, _, _)
RunStatement(e, last, run) ==
    LET Do(event) == {Done("next", Append(run, event))}
        values == [i \in DOMAIN e.kids |-> Read(e.kids[i])]
    IN  IF Len(run) >= Horizon THEN {Done("end", run)}
        ELSE CASE e.op = "Let" /\ e.kids[1].op = "Nop" -> Do(Event("do", "", <<Term("Loc", e.id, <<>>)>>))
               [] e.op = "Let" -> Do(Event("let", e.id, values))
               [] e.op = "WriteRef" -> Do(Event("write", "", values))
               [] e.op = "Ret" /\ (e.explicit \/ last) -> {Done("end", Append(run, Event("ret", "", values)))}
               [] e.op = "Ret" /\ ~(e.explicit \/ last) /\ e.kids = <<>> -> {Done("next", run)}
               [] e.op = "Abort" -> {Done("end", Append(run, Event("abort", "", values)))}
               [] e.op = "Continue" -> {Done("continue", run)}
               [] e.op = "Unpack" ->
                    LET fields == Front(e.kids)
                        src == Read(Last(e.kids))
                        At1(i) == Len(fields) + 1 - i
                    IN  {Done("next", run \o [i \in DOMAIN fields |->
                            LET f == fields[At1(i)]
                            IN  Event(IF f.op = "Let" THEN "let" ELSE "do", f.id,
                                      <<Term("Field", At1(i), <<src>>)>>)])}
               [] e.op = "If" ->
                    LET c == Read(e.kids[1])
                    IN  RunList(Printed(e.kids[2]), last, Append(run, Event("if", TRUE, <<c>>)))
                          \cup RunList(Printed(e.kids[3]), last, Append(run, Event("if", FALSE, <<c>>)))
               [] e.op = "While" -> RunWhile(Read(e.kids[1]), Printed(e.kids[2]), run)
               [] OTHER -> Do(Event("do", "", <<Read(e)>>))
RunList(exps, last, run) ==
    IF exps = <<>> THEN {Done("next", run)}
    ELSE UNION {IF d.how = "next" THEN RunList(Tail(exps), last, d.run) ELSE {d} :
                    d \in RunStatement(Head(exps), last /\ Len(exps) = 1, run)}
RunWhile(cond, exps, run) ==
    IF Len(run) >= Horizon THEN {Done("end", run)}
    ELSE {Done("next", Append(run, Event("if", FALSE, <<cond>>)))}
           \cup UNION {IF d.how = "end" THEN {d} ELSE RunWhile(cond, exps, d.run) :
                          d \in RunList(exps, FALSE, Append(run, Event("if", TRUE, <<cond>>)))}

RunSource(b) ==
    {IF d.how = "end" THEN d.run ELSE Append(d.run, Event("ret", "", <<>>)) :
        d \in RunList(Printed(b), TRUE, <<>>)}

-----------------------------------------------------------------------------
(* Properties.                                                             *)

\* Every variable keeps its type: the end of a block, computed with usize arithmetic, is
\* never negative, and only the outermost translator is the function itself.
TypeOK ==
    /\ at \in -1 .. Len(code) + Len(frames)
    /\ \A i \in DOMAIN frames :
          /\ frames[i].end \in Nat
          /\ frames[i].then.k = "top" <=> i = 1
    /\ used \subseteq {code[i].id : i \in DOMAIN code}

(***************************************************************************)
(* The restored source does what the bytecode does: the same assignments,  *)
(* calls, writes and conditions with the same operands in the same order,  *)
(* on every path.  The tests of the crate compile the restored source and  *)
(* compare the bytecode with the original (disassembler/src/lib.rs:218).   *)
(***************************************************************************)
SameMeaning ==
    body # <<>> => Cut(RunSource(body[1])) = Cut(RunCode(code, 0, <<>>, <<>>))

RECURSIVE HasAssert(_)
HasAssert(stmts) ==
    \E i \in DOMAIN stmts :
        \/ stmts[i].op = "Assert"
        \/ /\ stmts[i].op \in {"If", "While"}
           /\ HasAssert(stmts[i].then) \/ HasAssert(stmts[i].else)

AssertInBranch ==
    \E i \in DOMAIN source.body :
        LET s == source.body[i]
        IN  s.op \in {"If", "While"} /\ (HasAssert(s.then) \/ HasAssert(s.else))

(***************************************************************************)
(* As SameMeaning, of the functions without an assert inside a branch or a *)
(* loop: what follows such an assert, the code after the branch included,  *)
(* is taken into the branch (branching/mod.rs:28).                         *)
(***************************************************************************)
MeaningKept == ~AssertInBranch => SameMeaning

\* The block of what follows an assert that is inside a branch or a loop.
Overruns(i) ==
    /\ frames[i].then.k = "rest"
    /\ \E j \in 2 .. i - 1 : frames[j].then.k \in {"true", "false"}

(***************************************************************************)
(* The nested translators share one iterator: a block never reads past the *)
(* end of the block that contains it, except what follows an assert inside *)
(* a branch or a loop, which is read to the end of the function and not    *)
(* past it (branching/mod.rs:28).  Without such an assert no block does,   *)
(* and in either case the blocks of one function read every opcode.        *)
(***************************************************************************)
BlocksNest ==
    /\ \A i \in DOMAIN frames \ {1} :
          frames[i].end <= IF AssertInBranch /\ Overruns(i) THEN Len(code) - 1 ELSE frames[i - 1].end
    /\ body # <<>> => at >= Len(code)

\* Every function is translated: no opcode keeps the translator in its loop.
Translated == <>(body # <<>>)
=============================================================================
