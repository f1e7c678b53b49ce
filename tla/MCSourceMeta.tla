---------------------------- MODULE MCSourceMeta ----------------------------
(* Small syntax trees for SourceMeta.                                      *)
EXTENDS SourceMeta

Node(k, mod, types, exps) ==
    [k |-> k, mod |-> mod, types |-> types, exps |-> exps, binds |-> <<>>, seq |-> <<>>,
     uses |-> <<>>, bare |-> types = <<>>]
Leaf(k, mod) == Node(k, mod, <<>>, <<>>)

Mods == {"M1", NoModule}
Types ==
    {Leaf("apply", m) : m \in Mods}
      \cup {Node("apply", NoModule, <<Leaf("apply", m), Leaf("apply", "M2")>>, <<>>) : m \in Mods}
      \cup {Node("ref", NoModule, <<Leaf("apply", "M3")>>, <<>>),
            Node("multiple", NoModule, <<Leaf("apply", NoModule), Leaf("apply", "M2")>>, <<>>)}

Unpack(m, types, binds) == [Node("unpack", m, types, <<>>) EXCEPT !.binds = binds]
Binds ==
    {Leaf("var", NoModule), Unpack("M3", <<>>, <<>>), Unpack("M3", <<>>, <<Unpack("M2", <<>>, <<>>)>>),
     Unpack(NoModule, <<Leaf("apply", "M1")>>, <<Unpack("M2", <<>>, <<>>), Leaf("var", NoModule)>>)}

Exps0 == {Leaf("value", NoModule), Leaf("name", "M1"), Node("call", "M2", <<>>, <<>>)}
Exps1 ==
    Exps0
      \cup {Node("call", m, <<t>>, <<e>>) : m \in Mods, t \in Types, e \in Exps0}
      \cup {Node("pack", m, <<>>, <<e, Leaf("name", "M3")>>) : m \in Mods, e \in Exps0}
      \cup {Node("cast", NoModule, <<t>>, <<e>>) : t \in Types, e \in Exps0}
      \cup {Node("if", NoModule, <<>>, <<e, f>>) : e \in Exps0, f \in Exps0}
      \cup {Node(k, NoModule, <<>>, <<e>>) : k \in {"index", "lambda"}, e \in Exps0}
      \cup {Node("annotate", NoModule, <<t>>, <<e>>) : t \in Types, e \in Exps0}

Item(k, binds, types, exps) == [Node(k, NoModule, types, exps) EXCEPT !.binds = binds]
Use(m) == Leaf("use", m)
BlockOf(uses, seq, e) == [Node("block", NoModule, <<>>, <<e>>) EXCEPT !.uses = uses, !.seq = seq]
Blocks ==
    {BlockOf(<<Use("M2")>>, <<Item("bind", <<b>>, <<t>>, <<e>>)>>, Leaf("name", "M1")) :
        b \in Binds, t \in Types, e \in Exps0}
      \cup {BlockOf(<<>>, <<Item("declare", <<b>>, <<>>, <<>>), Item("seq", <<>>, <<>>, <<e>>)>>, e) :
        b \in Binds, e \in Exps1}

Function(t, uses, seq, e) ==
    [Node("function", NoModule, <<t>>, <<e>>) EXCEPT !.uses = uses, !.seq = seq]
Functions ==
    {Function(t, <<>>, <<>>, e) : t \in Types, e \in Exps1}
      \cup {Function(Leaf("apply", NoModule), <<Use("M3")>>, <<Item("seq", <<>>, <<>>, <<b>>)>>,
                     Node("while", NoModule, <<>>, <<Leaf("value", NoModule), b>>)) : b \in Blocks}

Members ==
    Functions \cup {Use("M1"), Leaf("member_spec", NoModule),
                          Node("member_spec", NoModule, <<>>, <<Leaf("name", "M2")>>)}
      \cup {Node("native", NoModule, <<t>>, <<>>) : t \in Types}
      \cup {Node("struct", NoModule, <<t>>, <<>>) : t \in Types}
      \cup {Node("constant", NoModule, <<t>>, <<e>>) : t \in Types, e \in Exps0}

Def(k, a, members, others) ==
    [k |-> k, address |-> a, name |-> "m", members |-> members, others |-> others]
Constant == Node("constant", NoModule, <<Leaf("apply", "M3")>>, <<Leaf("value", NoModule)>>)
MCFiles ==
    {[parses |-> TRUE, defs |-> <<Def("module", NoAddress, <<Use("M3"), m>>, <<>>)>>] : m \in Members}
      \cup {[parses |-> p, defs |-> <<Def(k, NoAddress, <<Use("M1")>>, <<>>),
                                      Def("address", "a2", <<Use("M2")>>, <<>>),
                                      Def("script", NoAddress, u \o <<f>>, c)>>] :
                k \in {"module", "script"}, p \in BOOLEAN, u \in {<<>>, <<Use("M2")>>},
                c \in {<<>>, <<Constant, Leaf("member_spec", NoModule)>>},
                f \in {Function(t, <<Use("M1")>>, <<>>, e) : t \in Types, e \in Exps0}}

\* Their nodes, level by level; there are six at most.
Below(S) == {n : n \in S \cup UNION {Children(m) : m \in S}}
Tops == UNION {ToSet(d.members) \cup ToSet(d.others) : d \in UNION {ToSet(f.defs) : f \in MCFiles}}
Level2 == Below(Tops)
Level3 == Below(Level2)
Level4 == Below(Level3)
Level5 == Below(Level4)
Level6 == Below(Level5)
MCNodes == Level6

RECURSIVE MCTree(_)
MCTree(n) == {n} \cup UNION {MCTree(c) : c \in Children(n)}
=============================================================================
