------------------------ MODULE MCTransactionBuilder ------------------------
(* Small instances of TransactionBuilder: two files, scripts of two names. *)
EXTENDS TransactionBuilder

CONSTANTS f, g

MCNames == {"store", "pay"}

Script(name, types, params) == [name |-> name, types |-> types, params |-> params]
StoreS == Script("store", 0, <<"&signer", "u64">>)
PayS   == Script("pay", 1, <<"&signer", "address", "vector<u64>", "&signer">>)
HexS   == Script("pay", 0, <<"vector<u8>", "bool">>)
Odd    == Script("pay", 0, <<"vector<bool>">>)

File(scripts) == [parses |-> TRUE, compiles |-> TRUE, scripts |-> scripts]
Broken        == [parses |-> FALSE, compiles |-> FALSE, scripts |-> <<StoreS>>]
Untyped       == [parses |-> TRUE, compiles |-> FALSE, scripts |-> <<PayS>>]

\* One script in each file, one name in two files, several scripts in a file, one file only,
\* files that do not parse or compile.
MCDirs == {(f :> File(<<StoreS>>)) @@ (g :> File(<<PayS>>)),
           (f :> File(<<StoreS>>)) @@ (g :> File(<<StoreS>>)),
           (f :> File(<<StoreS, HexS>>)) @@ (g :> File(<<StoreS, StoreS>>)),
           (f :> File(<<HexS>>)), (f :> File(<<Odd>>)),
           (f :> File(<<StoreS>>)) @@ (g :> Broken), (f :> File(<<>>)) @@ (g :> Untyped)}

MCArgs  == {<<"n">>, <<"a">>, <<"h">>, <<"t">>, <<"[", "n", ",", "n", "]">>, <<"[", "]">>}
ArgSeqs == {<<>>} \cup {<<x>> : x \in MCArgs} \cup {<<x, y>> : x, y \in MCArgs}

Commas(parts) == FoldLeft(LAMBDA acc, p : IF acc = <<>> THEN p ELSE acc \o <<",">> \o p, <<>>, parts)

Render(name, types, args) ==
    <<name>> \o (IF types = 0 THEN <<>> ELSE <<"<">> \o Commas([i \in 1..types |-> <<"type">>]) \o <<">">>)
             \o <<"(">> \o Commas(args) \o <<")">>

Call(name, types, args) ==
    [call |-> Render(name, types, args),
     meant |-> [name |-> name, types |-> [i \in 1..types |-> "type"], args |-> args],
     name |-> None, file |-> None, types |-> None, args |-> None]

Raw(tokens) == [Call("store", 0, <<>>) EXCEPT !.call = tokens, !.meant = None]
NoCall(name, file, args) == [Call("store", 0, <<>>) EXCEPT !.call = None, !.meant = None,
                                                           !.name = name, !.file = file, !.args = args]

MCCommands ==
    {Call("store", 0, a) : a \in ArgSeqs}
      \cup {Call("pay", t, a) : t \in {0, 2}, a \in {<<>>, <<<<"h">>, <<"t">>>>}}
      \cup {Call("pay", 1, <<<<"a">>, <<"[", "n", ",", "n", "]">>>>)}
      \cup {[Call(n, 0, <<<<"n">>>>) EXCEPT !.file = x] : n \in MCNames, x \in {f, g}}
      \cup {[Call("store", 0, <<>>) EXCEPT !.name = "pay", !.args = <<<<"h">>, <<"t">>>>]}
      \cup {[Call("store", 0, <<<<"n">>>>) EXCEPT !.types = <<"type">>]}
      \cup {NoCall(n, x, <<<<"n">>>>) : n \in {None, "store"}, x \in {None, f, g}}
      \cup {Raw(t) : t \in {<<>>, <<"(">>, <<"store">>, <<"store", "<", "n">>, <<"store", "<", ">", "n">>, <<"store", "bad">>,
                            <<"store", "(", "n", "n", ")", "n">>, <<"store", "(", ",", "n", ",", ")">>, <<"store", "(">>,
                            <<"store", "(", "[", "n", "]", "n", ")">>, <<"store", "(", "n", "bad">>}}
=============================================================================
