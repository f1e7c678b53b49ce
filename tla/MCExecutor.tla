----------------------------- MODULE MCExecutor -----------------------------
(* Small instances of Executor: all files of a few lines over a small alphabet. *)
EXTENDS Executor

CONSTANTS res, bal, price, other

MCResource == {res, bal, price, TimeResource, BlockResource}
MCVal      == {1, 2, 100}

Code         == [is |-> "code"]
Unbuilt      == [is |-> "broken"]
CoinsModule  == [is |-> "module", name |-> Coins]
Const(c)     == [is |-> "const", err |-> TRUE, module |-> other, name |-> c, code |-> 7]
Doc(k, v)    == [is |-> "doc", key |-> k, val |-> v, form |-> "good"]
Script(p)    == [is |-> "script", prog |-> p]

Aborts   == Doc("aborts_with", 7)
Dry      == Doc("dry_run", TRUE)
Balance  == Doc("balance", [res |-> bal, val |-> 1])
Priced   == Doc("price", [res |-> price, val |-> 1])
Missing  == Doc("status", MissingData)
Timed    == Doc("current_time", 2)
Bad      == [Doc("block", None) EXCEPT !.form = "unparsable"]
Partial  == [Doc("balance", None) EXCEPT !.form = "incomplete"]

Prog == [signers |-> 1, args |-> <<>>, links |-> TRUE, needs |-> {}, asserts |-> <<>>,
         code |-> 7, module |-> other, writes |-> <<>>]
Put    == Script([Prog EXCEPT !.writes = (res :> 1)])
Check  == Script([Prog EXCEPT !.asserts = (res :> 1)])
Del    == Script([Prog EXCEPT !.needs = {res}, !.writes = (res :> Absent)])
Pay    == Script([Prog EXCEPT !.needs = {bal}, !.writes = (bal :> 2)])
Clock  == Script([Prog EXCEPT !.asserts = (TimeResource :> 2) @@ (BlockResource :> 100)])
Argued == Script([Prog EXCEPT !.args = <<"u64">>])
Loose  == Script([Prog EXCEPT !.links = FALSE])

\* Files of four lines, at least one of which is a script.
Files(A, n) == {f \in [1..n -> A] : \E i \in 1..n : IsScript(f[i])}

Test(tests, skipped, deps) == [mode |-> "test", tests |-> tests, skipped |-> skipped, deps |-> deps, args |-> <<>>]
Run(file, deps, args)      == [mode |-> "run", tests |-> <<file>>, skipped |-> {}, deps |-> deps, args |-> args]

MCProjects ==
    {Test(<<f>>, {}, <<>>) : f \in Files({Code, Aborts, Dry, Balance, Put, Check, Del, Pay}, 5)}
      \cup {Test(<<f, <<Put, Check>> >>, {}, <<d>>) :
              f \in Files({Priced, Timed, Missing, Clock, Del, Loose}, 3), d \in {<<Code>>, <<CoinsModule, Put>>}}
      \cup {Test(<<f, g, <<Put>> >>, s, <<>>) :
              f, g \in {<<Code>>, <<Put>>, <<Unbuilt>>, <<Bad, Put>>, <<Partial, Check>>}, s \in SUBSET {1, 2}}
      \cup {Run(f, <<d>>, a) :
              f \in Files({Argued, Put, Doc("signers", <<Sender, Sender>>), Doc("note", None)}, 2), d \in {<<Code>>, <<Const("a"), Const("b"), Check>>},
              a \in {<<>>, <<"u64">>, <<"bool">>, None}}
=============================================================================
