---------------------------- MODULE MCTranslator ----------------------------
(* Small functions for Translator: blocks of statements over one local, a  *)
(* parameter, a struct of two fields and three functions.                  *)
EXTENDS Translator

MCParams == [f |-> 1, g |-> 1, r |-> 0, S |-> 2]
MCReturns == [f |-> 1, g |-> 0, r |-> 0]

Ld == Term("Ld", "1", <<>>)
X == Term("Loc", "x", <<>>)
Y == Term("Loc", "y", <<>>)
Sum == Term("Add", "", <<X, Ld>>)
Call(f, args) == Term("Call", f, args)
Field(f, e) == Term("FieldRef", f, <<e>>)
Conditions == {X, Term("Not", "", <<Y>>),
               Term("Eq", "", <<Term("Add", "", <<Sum, X>>), Call("f", <<Y>>)>>)}

Statement(op, cond, then, else) ==
    [op |-> op, id |-> "", args |-> <<cond>>, then |-> then, else |-> else]
Drop(e) == Statement("Drop", e, <<>>, <<>>)
Check(c) == Statement("Assert", c, <<>>, <<>>)
ContinueIf(c) == Statement("ContinueIf", c, <<>>, <<>>)
While(c, b) == Statement("While", c, b, <<>>)
IfElse(c, b, e) == Statement("If", c, b, e)
Assign(x, e) == Term("StLoc", x, <<e>>)
Ret(e) == Term("Ret", "", e)
Abort == Term("Abort", "", <<Ld>>)
Unpack(names) == [op |-> "Unpack", id |-> "S", args |-> <<Y>>, names |-> names]

\* Statements without branches.
Plain ==
    {Drop(Call("r", <<>>)), Drop(Call("f", <<Sum>>)),
     Drop(Call("g", <<Term("FreezeRef", "", <<Term("Ref", "x", <<>>)>>)>>)),
     Assign("x", Term("Cast", "", <<Sum>>)),
     Assign("x", Term("Pack", "S", <<X, Call("f", <<Y>>)>>)),
     Assign("x", Term("Deref", "", <<Field("a", Y)>>)),
     Unpack(<<"x", "_">>), Unpack(<<"x", "y">>),
     Term("WriteRef", "", <<Ld, Field("b", Term("Ref", "x", <<>>))>>)}
Few == {Drop(Call("r", <<>>)), Drop(Call("f", <<Y>>)), Unpack(<<"_", "x">>)}

\* Branches and loops around them, and around each other.
Simple ==
    {IfElse(c, <<s>>, e) : c \in Conditions, s \in Plain, e \in {<<>>, <<Drop(Call("r", <<>>))>>, <<Abort>>}}
      \cup {While(c, b) : c \in Conditions, b \in {<<>>} \cup {<<s>> : s \in Few}
                                                 \cup {<<ContinueIf(X), s>> : s \in Few}}
Branching ==
    {IfElse(X, b, e) : b \in {<<s>> : s \in Few}, e \in {<<>>} \cup {<<s>> : s \in Few}}
      \cup {While(Y, <<s>>) : s \in Few}
Nested ==
    {IfElse(Y, <<s>>, e) : s \in Branching, e \in {<<>>, <<Drop(Call("r", <<>>))>>}}
      \cup {IfElse(Y, <<p, s>>, <<q>>) : s \in Branching, p \in Few, q \in Branching}
      \cup {While(X, <<s, p>>) : s \in Branching, p \in Few}
      \cup {While(X, <<s>>) : s \in Branching}

\* An assert inside a branch or a loop, alone or before, after and between other statements.
Asserting ==
    LET inner == {<<Check(Y)>>} \cup {<<p, Check(Y), q>> : p \in Few, q \in Few}
                 \cup {<<Check(Y), s>> : s \in Branching}
    IN  {IfElse(X, b, e) : b \in inner, e \in {<<>>, <<Drop(Call("r", <<>>))>>}}
          \cup {IfElse(X, <<p>>, b) : p \in Few, b \in inner}
          \cup {While(X, b) : b \in inner}
          \cup {IfElse(Y, <<IfElse(X, <<Check(Y)>>, e)>>, e) : e \in {<<>>, <<Check(X)>>}}

Statements(r) ==
    {<<p, q>> : p \in Plain, q \in Plain}
      \cup {<<p, s, q>> : p \in Few, s \in Simple, q \in Few}
      \cup {<<s>> : s \in Nested}
      \cup {<<s>> : s \in Asserting} \cup {<<s, p>> : s \in Asserting, p \in Few}
      \cup {<<Check(c), p>> : c \in Conditions, p \in Plain \cup Branching}
      \cup {<<Check(X), p, Check(Y), s>> : p \in Few, s \in Branching}
      \cup {<<p, IfElse(c, <<p, e>>, <<>>)>> : p \in Few, c \in Conditions, e \in {Abort, Ret(r)}}

MCSources ==
    {[body |-> Append(b, Ret(r)), ret |-> Len(r), fall |-> fall] :
        b \in Statements(<<>>), r \in {<<>>}, fall \in BOOLEAN}
      \cup {[body |-> Append(b, Ret(r)), ret |-> Len(r), fall |-> TRUE] :
        b \in Statements(<<Sum>>), r \in {<<Sum>>}}

\* Functions of the same language that the translator restores wrongly.
WrongSources ==
    {[body |-> Append(b, Ret(<<>>)), ret |-> 0, fall |-> TRUE] : b \in
        {<<Assign("x", Term("Deref", "", <<Field("a", Field("b", Y))>>))>>,
         <<Assign("x", Term("Not", "", <<Term("Eq", "", <<X, Y>>)>>))>>,
         <<IfElse(X, <<Check(Y), Drop(Call("r", <<>>))>>, <<>>), Drop(Call("f", <<Y>>))>>,
         <<IfElse(X, <<Drop(Call("r", <<>>))>>, <<Ret(<<>>)>>), Drop(Call("f", <<Y>>))>>}}
=============================================================================
