---------------------- MODULE TransactionBuilderProofs ----------------------
(***************************************************************************)
(* What is proved about TransactionBuilder for every directory, command    *)
(* and sequence of them: a well-formed call is taken apart as it is meant, *)
(* what is stored is a call of the script it carries, a name without a     *)
(* file stands for one script of the directory, and a command that fails   *)
(* can harm no stored transaction but the one it was about to replace.     *)
(***************************************************************************)
EXTENDS TransactionBuilder, SequenceFacts, FiniteSetTheorems

Parsing  == {"name", "open", "types", "paren", "args", "bracket", "scalar"}
Storing  == {"remove", "create", "write"}
Building == {"compile", "check", "arguments"} \cup Storing

\* The shapes of the variables, as far as the proofs need them.
Shapes ==
    /\ dir \in Dirs
    /\ phase # "idle" => cmd \in Commands
    /\ phase \in Parsing => cmd.call \in Seq(STRING)
    /\ tx = [n \in Names |-> tx[n]] /\ before = [n \in Names |-> before[n]]
    /\ builder = [name |-> builder.name, types |-> builder.types, args |-> builder.args]
    /\ prepared = [signers |-> prepared.signers, values |-> prepared.values]
    /\ \E S : prepared.values \in Seq(S)

\* The script that was found is one of its file, which compiles once it was compiled.
ScriptFound ==
    phase \in Building =>
        /\ script.file \in DOMAIN dir
        /\ \E i \in DOMAIN dir[script.file].scripts : script.meta = dir[script.file].scripts[i]
        /\ phase # "compile" => dir[script.file].compiles

\* From the lookup on, a name without a file stands for one script.
NamedOnce ==
    phase \in Building /\ cmd.file = None /\ builder.name # None =>
        /\ script.file \in DOMAIN dir /\ script.meta = Scripts(script.file)[1]
        /\ \A f \in DOMAIN dir : Named(f, builder.name) = IF f = script.file THEN {1} ELSE {}

\* The parameters that are done got their arguments.
Preparing ==
    phase \in {"arguments"} \cup Storing =>
        LET params == script.meta.params
            done   == prepared.signers + Len(prepared.values)
        IN  /\ script.meta.types = Len(builder.types)
            /\ done <= Len(params)
            /\ Matched(params, done, prepared.values)
            /\ phase # "arguments" => CallAccepted

\* A command that runs has not ended, and changes nothing that is stored until it stores.
Untouched ==
    /\ phase # "idle" => outcome = None
    /\ phase \notin {"idle", "create", "write"} => tx = before
    /\ phase = "create" => tx = [before EXCEPT ![script.meta.name] = None]
    /\ phase = "write" => tx = [before EXCEPT ![script.meta.name] = Damaged]

IInv == /\ TypeOK /\ Shapes /\ ScriptFound /\ NamedOnce /\ Preparing /\ Untouched
        /\ StoredIsCallable /\ FailureKeepsTransactions

-----------------------------------------------------------------------------
(* Lemmas *)

\* The rank of a parameter is a number, and grows at the parameters that take an argument.
LEMMA RankGrows ==
    ASSUME NEW params, NEW m \in Nat
    PROVE  /\ Rank(params, 0) = 0
           /\ Rank(params, m) \in Nat
           /\ Rank(params, m + 1) = IF params[m + 1] # "&signer" THEN Rank(params, m) + 1
                                                                 ELSE Rank(params, m)
<1> DEFINE P(k) == {j \in 1..k : params[j] # "&signer"}
<1>1. P(0) = {}
  OBVIOUS
<1>2. IsFiniteSet(P(m)) /\ Cardinality(P(m)) \in Nat
  <2>1. IsFiniteSet(1..m)
    BY FS_Interval
  <2>2. P(m) \in SUBSET (1..m)
    OBVIOUS
  <2> QED
    BY <2>1, <2>2, FS_Subset, FS_CardinalityType
<1>3. CASE params[m + 1] # "&signer"
  <2>1. P(m + 1) = P(m) \cup {m + 1} /\ m + 1 \notin P(m)
    BY <1>3
  <2>2. Cardinality(P(m) \cup {m + 1}) = Cardinality(P(m)) + 1
    BY <2>1, <1>2, FS_AddElement
  <2>3. Rank(params, 0) = 0 /\ Rank(params, m) = Cardinality(P(m))
    BY <1>1, FS_EmptySet DEF Rank
  <2>4. Rank(params, m + 1) = Cardinality(P(m) \cup {m + 1})
    BY <2>1 DEF Rank
  <2> HIDE DEF P
  <2> QED
    BY <2>2, <2>3, <2>4, <1>2, <1>3
<1>4. CASE params[m + 1] = "&signer"
  <2>1. P(m + 1) = P(m)
    BY <1>4
  <2> QED
    BY <2>1, <1>1, <1>2, <1>4, FS_EmptySet DEF Rank
<1> QED
  BY <1>3, <1>4

\* A signer is counted: what was matched stays so.
LEMMA MatchedSigner ==
    ASSUME NEW params, NEW m \in Nat, NEW args, Matched(params, m, args), params[m + 1] = "&signer"
    PROVE  Matched(params, m + 1, args)
<1>1. Rank(params, m + 1) = Rank(params, m)
  BY RankGrows
<1>2. \A k \in 1..(m + 1) : k \in 1..m \/ k = m + 1
  OBVIOUS
<1> QED
  BY <1>1, <1>2 DEF Matched

\* A parameter takes an argument that reads as its type.
LEMMA MatchedArgument ==
    ASSUME NEW params, NEW m \in Nat, NEW args, Matched(params, m, args), params[m + 1] # "&signer",
           \E S : args \in Seq(S), NEW arg, arg.type = params[m + 1], Accepts(params[m + 1], arg.text)
    PROVE  Matched(params, m + 1, Append(args, arg))
<1> DEFINE new == Append(args, arg)
<1>1. Rank(params, m + 1) = Rank(params, m) + 1 /\ Rank(params, m) = Len(args)
  BY RankGrows DEF Matched
<1>2. /\ Len(args) \in Nat /\ DOMAIN args = 1..Len(args)
      /\ Len(new) = Len(args) + 1 /\ DOMAIN new = 1..(Len(args) + 1)
      /\ \A i \in 1..Len(args) : new[i] = args[i]
      /\ new[Len(args) + 1] = arg
  BY AppendKeeps
<1> HIDE DEF new
<1>3. ASSUME NEW k \in 1..(m + 1), params[k] # "&signer"
      PROVE  /\ Rank(params, k) \in DOMAIN new
             /\ new[Rank(params, k)].type = params[k]
             /\ Accepts(params[k], new[Rank(params, k)].text)
  <2>1. CASE k = m + 1
    BY <2>1, <1>1, <1>2
  <2>2. CASE k # m + 1
    <3>1. k \in 1..m
      BY <2>2
    <3>2. /\ Rank(params, k) \in 1..Len(args)
          /\ args[Rank(params, k)].type = params[k]
          /\ Accepts(params[k], args[Rank(params, k)].text)
      BY <3>1, <1>2, <1>3 DEF Matched
    <3>3. new[Rank(params, k)] = args[Rank(params, k)] /\ Rank(params, k) \in 1..(Len(args) + 1)
      BY <3>2, <1>2
    <3> QED
      BY <3>2, <3>3, <1>2
  <2> QED
    BY <2>1, <2>2
<1>4. Len(new) = Rank(params, m + 1)
  BY <1>1, <1>2
<1> QED
  BY <1>3, <1>4 DEF Matched, new

\* What a directory and its scripts are.
LEMMA DirFacts ==
    ASSUME dir \in Dirs, NEW f \in DOMAIN dir, NEW i \in DOMAIN dir[f].scripts
    PROVE  /\ Len(dir[f].scripts) \in Nat /\ DOMAIN dir[f].scripts = 1..Len(dir[f].scripts)
           /\ dir[f].scripts[i].name \in Names
           /\ Len(dir[f].scripts[i].params) \in Nat
           /\ dir[f].compiles => Len(dir[f].scripts[i].params) <= 255
<1>1. dir[f].scripts \in Seq([name : Names, types : Nat, params : Seq(STRING)])
  BY DirsAssumption
<1>2. i \in 1..Len(dir[f].scripts)
  BY <1>1
<1>3. dir[f].scripts[i] \in [name : Names, types : Nat, params : Seq(STRING)]
  BY <1>1, <1>2, ElementOfSeq
<1> QED
  BY <1>1, <1>3, DirsAssumption

\* The invariant holds at the start.
LEMMA InitIInv == Init => IInv
<1> SUFFICES ASSUME Init PROVE IInv
  OBVIOUS
<1>1. TypeOK
  BY BudgetAssumption DEF Init, TypeOK, Phases
<1>2. Shapes
  <2>1. \E S : prepared.values \in Seq(S)
    BY EmptySeq DEF Init
  <2> QED
    BY <2>1 DEF Init, Shapes, Parsing
<1>3. ScriptFound /\ NamedOnce /\ Preparing /\ Untouched
  BY DEF Init, ScriptFound, NamedOnce, Preparing, Untouched, Building, Storing, CallAccepted
<1>4. StoredIsCallable /\ FailureKeepsTransactions
  BY NoneAssumption DEF Init, StoredIsCallable, FailureKeepsTransactions
<1> QED
  BY <1>1, <1>2, <1>3, <1>4 DEF IInv

-----------------------------------------------------------------------------
(* The steps *)

\* What is stored stays callable while nothing is stored.
LEMMA SameStored ==
    ASSUME IInv, tx' = tx
    PROVE  StoredIsCallable'
BY DEF IInv, StoredIsCallable

\* While a command runs, nothing is said of how it ended.
LEMMA RunningKeeps ==
    ASSUME IInv, outcome' = None \/ (phase # "idle" /\ outcome' = outcome)
    PROVE  FailureKeepsTransactions'
BY NoneAssumption DEF IInv, Untouched, FailureKeepsTransactions

\* Nor does it change when nothing it is about does.
LEMMA SettledKeeps ==
    ASSUME IInv, UNCHANGED <<tx, before, script, builder, prepared, outcome>>
    PROVE  FailureKeepsTransactions'
<1>1. Transaction' = Transaction
  BY DEF Transaction
<1>2. CallAccepted' = CallAccepted
  BY DEF CallAccepted
<1> QED
  BY <1>1, <1>2 DEF IInv, FailureKeepsTransactions

\* A command that does not end well ends with what it had when it stopped.
LEMMA StoppedKeeps ==
    ASSUME IInv, phase # "idle", outcome' # "ok", UNCHANGED <<tx, before, script, builder, prepared>>
    PROVE  FailureKeepsTransactions'
<1>1. CASE tx = before
  BY <1>1 DEF FailureKeepsTransactions, CallAccepted
<1>2. CASE phase \in {"create", "write"}
  <2>1. CallAccepted
    BY <1>2 DEF IInv, Preparing, Storing, CallAccepted
  <2>2. CallAccepted'
    BY <2>1 DEF CallAccepted
  <2>3. \E left \in {None, Damaged} : tx = [before EXCEPT ![script.meta.name] = left]
    BY <1>2 DEF IInv, Untouched
  <2> QED
    BY <2>2, <2>3 DEF FailureKeepsTransactions, CallAccepted
<1> QED
  BY <1>1, <1>2 DEF IInv, Untouched

\* A command that fails, or is killed, or panics in the lookup, keeps the invariant.
LEMMA EndIInv ==
    ASSUME IInv, phase # "idle", phase' = "idle",
           outcome' \in {"error", "killed"} \/ (outcome' = "panic" /\ phase = "lookup"),
           UNCHANGED <<dir, tx, cmd, pos, token, builder, script, prepared, before, budget>>
    PROVE  IInv'
<1>2. TypeOK'
  BY DEF IInv, TypeOK, Phases
<1>3. Shapes'
  BY DEF IInv, Shapes, Parsing
<1>4. ScriptFound' /\ NamedOnce' /\ Preparing' /\ Untouched'
  BY DEF ScriptFound, NamedOnce, Preparing, Untouched, Building, Storing, CallAccepted
<1>5. FailureKeepsTransactions'
  BY StoppedKeeps
<1> QED
  BY <1>2, <1>3, <1>4, <1>5, SameStored DEF IInv

LEMMA FailIInv ==
    ASSUME IInv, Fail, phase # "idle"
    PROVE  IInv'
BY EndIInv DEF Fail

\* What a builder may become while the command line is read.
GoodBuilder(b) ==
    b = [name |-> b.name, types |-> b.types, args |-> b.args] /\ b.name \in Names \cup {None}

\* A change of the builder in a phase that looks nothing up keeps the invariant.
LEMMA ReadIInv ==
    ASSUME IInv, phase \in Parsing \cup {"options"},
           phase' \in Parsing \cup {"options", "lookup"}, phase' \in Parsing => phase \in Parsing,
           pos' \in Nat \ {0}, GoodBuilder(builder'),
           UNCHANGED <<dir, tx, cmd, script, prepared, outcome, before, budget>>
    PROVE  IInv'
<1>2. TypeOK'
  BY DEF IInv, TypeOK, Phases, Parsing, GoodBuilder
<1>3. Shapes'
  BY DEF IInv, Shapes, Parsing, GoodBuilder
<1>4. ScriptFound' /\ NamedOnce' /\ Preparing' /\ Untouched'
  BY DEF IInv, ScriptFound, NamedOnce, Preparing, Untouched, Building, Parsing, Storing, CallAccepted
<1>5. FailureKeepsTransactions'
  BY RunningKeeps, NoneAssumption DEF IInv, Parsing
<1> QED
  BY <1>2, <1>3, <1>4, <1>5, SameStored DEF IInv

\* The lexer moves on.
LEMMA AdvanceIInv ==
    ASSUME IInv, phase \in Parsing, NEW ph \in Parsing, NEW tk, NEW b, GoodBuilder(b),
           Advance(ph, tk, b)
    PROVE  IInv'
<1>1. CASE Fail
  BY <1>1, FailIInv DEF Parsing
<1>2. CASE /\ pos' = Min({pos + 1, Len(cmd.call) + 1})
           /\ phase' = ph /\ token' = tk /\ builder' = b
           /\ UNCHANGED <<dir, tx, cmd, script, prepared, outcome, before, budget>>
  <2>1. pos \in Nat \ {0} /\ Len(cmd.call) \in Nat
    BY DEF IInv, TypeOK, Shapes
  <2>2. pos' \in {pos + 1, Len(cmd.call) + 1}
    <3> DEFINE S == {pos + 1, Len(cmd.call) + 1}
    <3>1. \E x \in S : \A y \in S : x <= y
      BY <2>1
    <3> QED
      BY <3>1, <1>2 DEF Min
  <2>3. pos' \in Nat \ {0}
    BY <2>1, <2>2
  <2> QED
    BY <1>2, <2>3, ReadIInv
<1> QED
  BY <1>1, <1>2 DEF Advance

\* The command line is read.
LEMMA ParseIInv ==
    ASSUME IInv, Parse
    PROVE  IInv'
<1>1. GoodBuilder(builder)
  BY DEF IInv, TypeOK, Shapes, GoodBuilder
<1>2. \A n \in Names : GoodBuilder([builder EXCEPT !.name = n])
  BY <1>1 DEF GoodBuilder
<1>3. \A t : GoodBuilder([builder EXCEPT !.types = t]) /\ GoodBuilder([builder EXCEPT !.args = t])
  BY <1>1 DEF GoodBuilder
<1>4. ASSUME phase \in Parsing, NEW b, GoodBuilder(b), ArgumentsDone(b)
      PROVE  IInv'
  <2>1. /\ phase' = "options" /\ builder' = b
        /\ UNCHANGED <<dir, tx, cmd, pos, script, prepared, outcome, before, budget>>
    BY <1>4 DEF ArgumentsDone
  <2>2. pos' \in Nat \ {0} /\ phase' \notin Parsing
    BY <2>1 DEF IInv, TypeOK, Parsing
  <2> QED
    BY <1>4, <2>1, <2>2, ReadIInv
<1>5. CASE ParseName
  <2>1. phase \in Parsing /\ "open" \in Parsing
    BY <1>5 DEF ParseName, Parsing
  <2>2. CASE Fail
    BY <2>1, <2>2, FailIInv DEF Parsing
  <2>3. CASE Peek(pos) \in Names /\ Advance("open", <<>>, [builder EXCEPT !.name = Peek(pos)])
    BY <2>1, <2>3, <1>2, AdvanceIInv
  <2> QED
    BY <2>2, <2>3, <1>5 DEF ParseName
<1>6. CASE ParseOpen
  <2>1. phase \in Parsing /\ {"types", "args"} \subseteq Parsing
    BY <1>6 DEF ParseOpen, Parsing
  <2>2. CASE Fail
    BY <2>1, <2>2, FailIInv DEF Parsing
  <2>3. CASE Advance("types", <<>>, builder) \/ Advance("args", <<>>, builder)
    BY <2>1, <2>3, <1>1, AdvanceIInv
  <2> QED
    BY <2>2, <2>3, <1>6 DEF ParseOpen
<1>7. CASE ParseTypes
  <2>1. phase \in Parsing /\ {"paren", "types"} \subseteq Parsing
    BY <1>7 DEF ParseTypes, Parsing
  <2>2. CASE Fail
    BY <2>1, <2>2, FailIInv DEF Parsing
  <2>3. CASE \/ Advance("paren", <<>>, builder) \/ Advance("types", <<>>, builder)
             \/ Advance("types", <<>>, [builder EXCEPT !.types = Append(@, "type")])
    BY <2>1, <2>3, <1>1, <1>3, AdvanceIInv
  <2> QED
    BY <2>2, <2>3, <1>7 DEF ParseTypes
<1>8. CASE ParseArgs
  <2>1. phase \in Parsing /\ {"args", "bracket", "scalar"} \subseteq Parsing
    BY <1>8 DEF ParseArgs, Parsing
  <2>2. CASE Fail
    BY <2>1, <2>2, FailIInv DEF Parsing
  <2>3. CASE \/ Advance("args", <<>>, builder) \/ Advance("bracket", <<"[">>, builder)
             \/ Advance("scalar", <<Peek(pos)>>, builder)
    BY <2>1, <2>3, <1>1, AdvanceIInv
  <2>4. CASE ArgumentsDone(builder)
    BY <2>1, <2>4, <1>1, <1>4
  <2> QED
    BY <2>2, <2>3, <2>4, <1>8 DEF ParseArgs
<1>9. CASE ParseBracket
  <2>1. phase \in Parsing /\ {"args", "bracket"} \subseteq Parsing
    BY <1>9 DEF ParseBracket, Parsing
  <2>2. GoodBuilder(WithArg(Append(token, "]")))
    BY <1>3 DEF WithArg
  <2> QED
    BY <2>1, <2>2, <1>1, <1>9, AdvanceIInv DEF ParseBracket
<1>10. CASE ParseScalar
  <2>1. phase \in Parsing /\ {"args", "scalar"} \subseteq Parsing
    BY <1>10 DEF ParseScalar, Parsing
  <2>2. GoodBuilder(WithArg(token))
    BY <1>3 DEF WithArg
  <2>3. CASE Advance("args", <<>>, WithArg(token)) \/ Advance("scalar", token \o Text(Peek(pos)), builder)
    BY <2>1, <2>2, <2>3, <1>1, AdvanceIInv
  <2>4. CASE ArgumentsDone(WithArg(token))
    BY <2>1, <2>2, <2>4, <1>4
  <2> QED
    BY <2>3, <2>4, <1>10 DEF ParseScalar
<1> QED
  BY <1>5, <1>6, <1>7, <1>8, <1>9, <1>10 DEF Parse

\* The options replace parts of the call, or end the command.
LEMMA OptionsIInv ==
    ASSUME IInv, Options \/ TypeOption
    PROVE  IInv'
<1>1. CASE TypeOption
  BY <1>1, FailIInv DEF TypeOption
<1>2. CASE Options
  <2>1. /\ phase = "options" /\ phase' = "lookup"
        /\ UNCHANGED <<dir, tx, cmd, pos, script, prepared, outcome, before, budget>>
    BY <1>2 DEF Options
  <2>2. cmd.name \in Names \cup {None}
    BY <2>1, CommandsAssumption DEF IInv, Shapes
  <2>3. GoodBuilder(builder)
    BY DEF IInv, TypeOK, Shapes, GoodBuilder
  <2>4. GoodBuilder(builder')
    BY <1>2, <2>2, <2>3 DEF Options, GoodBuilder
  <2>5. pos' \in Nat \ {0} /\ phase' \notin Parsing /\ phase \in Parsing \cup {"options"}
    BY <2>1 DEF IInv, TypeOK, Parsing
  <2> QED
    BY <2>1, <2>4, <2>5, ReadIInv
<1> QED
  BY <1>1, <1>2

\* A script is found: one of a file that parses and, for a name without a file, the only one.
LEMMA FoundIInv ==
    ASSUME IInv, phase = "lookup", NEW f \in DOMAIN dir, NEW i \in DOMAIN Scripts(f),
           Found(f, Scripts(f)[i]),
           cmd.file = None /\ builder.name # None =>
               /\ i = 1
               /\ \A g \in DOMAIN dir : Named(g, builder.name) = IF g = f THEN {1} ELSE {}
    PROVE  IInv'
<1>1. /\ script' = [file |-> f, meta |-> Scripts(f)[i]] /\ phase' = "compile"
      /\ UNCHANGED <<dir, tx, cmd, pos, token, builder, prepared, outcome, before, budget>>
  BY DEF Found
<1>2. script'.file = f /\ script'.meta = Scripts(f)[i]
  BY <1>1
<1>3. TypeOK'
  BY <1>1 DEF IInv, TypeOK, Phases
<1>4. Shapes'
  BY <1>1 DEF IInv, Shapes, Parsing
<1>5. ScriptFound'
  <2>1. i \in DOMAIN dir[f].scripts /\ Scripts(f)[i] = dir[f].scripts[i]
    BY DEF Scripts
  <2> QED
    BY <1>1, <1>2, <2>1 DEF ScriptFound
<1>6. NamedOnce'
  BY <1>1, <1>2 DEF NamedOnce, Named, Scripts
<1>7. Preparing' /\ Untouched'
  BY <1>1 DEF IInv, Preparing, Untouched, Storing
<1>8. FailureKeepsTransactions'
  BY <1>1, RunningKeeps
<1> QED
  BY <1>8, <1>1, <1>3, <1>4, <1>5, <1>6, <1>7, SameStored DEF IInv

\* The scripts of a file are a list.
LEMMA ScriptsAreList ==
    ASSUME dir \in Dirs, NEW f \in DOMAIN dir
    PROVE  /\ Len(Scripts(f)) \in Nat /\ DOMAIN Scripts(f) = 1..Len(Scripts(f))
           /\ \A name : IsFiniteSet(Named(f, name)) /\ Named(f, name) \subseteq DOMAIN Scripts(f)
<1>1. dir[f].scripts \in Seq([name : Names, types : Nat, params : Seq(STRING)])
  BY DirsAssumption
<1>2. Scripts(f) \in Seq([name : Names, types : Nat, params : Seq(STRING)])
  BY <1>1 DEF Scripts
<1>3. Len(Scripts(f)) \in Nat /\ DOMAIN Scripts(f) = 1..Len(Scripts(f))
  BY <1>2
<1>4. IsFiniteSet(1..Len(Scripts(f)))
  BY <1>3, FS_Interval
<1>5. \A name : Named(f, name) \in SUBSET (1..Len(Scripts(f)))
  BY <1>3 DEF Named
<1> QED
  BY <1>3, <1>4, <1>5, FS_Subset

\* The script is looked for in the file that the command gives.
LEMMA LookupByFileIInv ==
    ASSUME IInv, LookupByFile
    PROVE  IInv'
<1> DEFINE given == cmd.file
           N == Named(given, builder.name)
<1>1. phase = "lookup" /\ cmd.file # None /\ dir \in Dirs
  BY DEF LookupByFile, IInv, Shapes
<1>2. CASE Fail
  BY <1>1, <1>2, FailIInv
<1>3. CASE /\ phase' = "idle" /\ outcome' = "panic"
           /\ UNCHANGED <<dir, tx, cmd, pos, token, builder, script, prepared, before, budget>>
  BY <1>1, <1>3, EndIInv
<1>4. CASE given \in DOMAIN dir /\ Len(Scripts(given)) = 1 /\ Found(given, Scripts(given)[1])
  <2>1. 1 \in DOMAIN Scripts(given)
    BY <1>1, <1>4, ScriptsAreList
  <2> QED
    BY <1>1, <1>4, <2>1, FoundIInv
<1>5. CASE given \in DOMAIN dir /\ Cardinality(N) = 1 /\ Found(given, Scripts(given)[Min(N)])
  <2>1. N \subseteq DOMAIN Scripts(given) /\ IsFiniteSet(N) /\ DOMAIN Scripts(given) \subseteq Nat
    BY <1>1, <1>5, ScriptsAreList
  <2>2. PICK x : N = {x}
    BY <2>1, <1>5, FS_Singleton
  <2>3. x \in DOMAIN Scripts(given) /\ x \in Nat
    BY <2>1, <2>2
  <2>4. \E m \in {x} : \A y \in {x} : m <= y
    BY <2>3
  <2>5. Min({x}) \in {x}
    BY <2>4 DEF Min
  <2>6. Min(N) = x
    BY <2>2, <2>5
  <2> QED
    BY <1>1, <1>5, <2>3, <2>6, FoundIInv
<1>6. CASE given \notin DOMAIN dir \/ Scripts(given) = <<>>
  BY <1>2, <1>6 DEF LookupByFile
<1>7. CASE given \in DOMAIN dir /\ Scripts(given) # <<>>
  <2>1. CASE Len(Scripts(given)) = 1
    BY <1>4, <1>7, <2>1 DEF LookupByFile
  <2>2. CASE Len(Scripts(given)) > 1 /\ Cardinality(N) > 1
    BY <1>2, <1>7, <2>2 DEF LookupByFile
  <2>3. CASE Len(Scripts(given)) > 1 /\ Cardinality(N) = 1
    BY <1>5, <1>7, <2>3 DEF LookupByFile
  <2>4. CASE /\ Len(Scripts(given)) # 1
             /\ ~(Len(Scripts(given)) > 1 /\ Cardinality(N) > 1)
             /\ ~(Len(Scripts(given)) > 1 /\ Cardinality(N) = 1)
    BY <1>3, <1>7, <2>4 DEF LookupByFile
  <2> QED
    BY <2>1, <2>2, <2>3, <2>4
<1> QED
  BY <1>6, <1>7

\* The script is looked for by its name: one file has the name, and one script.
LEMMA LookupByNameIInv ==
    ASSUME IInv, LookupByName
    PROVE  IInv'
<1> DEFINE files == {f \in DOMAIN dir : Named(f, builder.name) # {}}
<1>1. phase = "lookup" /\ cmd.file = None /\ builder.name # None /\ dir \in Dirs
  BY DEF LookupByName, IInv, Shapes
<1>2. CASE Fail
  BY <1>1, <1>2, FailIInv
<1>3. CASE /\ Cardinality(files) = 1 /\ \A f \in files : Len(Scripts(f)) = 1
           /\ \E f \in files : Found(f, Scripts(f)[1])
  <2>1. IsFiniteSet(DOMAIN dir) /\ files \in SUBSET DOMAIN dir
    BY <1>1, DirsAssumption
  <2>2. IsFiniteSet(files)
    BY <2>1, FS_Subset
  <2>3. PICK f : files = {f}
    BY <1>3, <2>2, FS_Singleton
  <2>4. f \in DOMAIN dir /\ Named(f, builder.name) # {} /\ Len(Scripts(f)) = 1 /\ Found(f, Scripts(f)[1])
    BY <1>3, <2>3
  <2>5. DOMAIN Scripts(f) = {1}
    <3>1. DOMAIN Scripts(f) = 1..1
      BY <1>1, <2>4, ScriptsAreList
    <3> QED
      BY <3>1
  <2>6. Named(f, builder.name) = {1}
    BY <2>4, <2>5 DEF Named
  <2>7. \A g \in DOMAIN dir : g # f => Named(g, builder.name) = {}
    BY <2>3
  <2> HIDE DEF files
  <2> QED
    BY <1>1, <2>4, <2>5, <2>6, <2>7, FoundIInv
<1> QED
  BY <1>2, <1>3 DEF LookupByName

\* Nothing is given: the directory has one file with one script.
LEMMA LookupOnlyIInv ==
    ASSUME IInv, LookupOnly
    PROVE  IInv'
<1>1. phase = "lookup" /\ builder.name = None /\ dir \in Dirs
  BY DEF LookupOnly, IInv, Shapes
<1>2. CASE Fail
  BY <1>1, <1>2, FailIInv
<1>3. CASE \E f \in DOMAIN dir : Len(Scripts(f)) = 1 /\ Found(f, Scripts(f)[1])
  <2>1. PICK f \in DOMAIN dir : Len(Scripts(f)) = 1 /\ Found(f, Scripts(f)[1])
    BY <1>3
  <2>2. 1 \in DOMAIN Scripts(f)
    BY <1>1, <2>1, ScriptsAreList
  <2> QED
    BY <1>1, <2>1, <2>2, FoundIInv
<1> QED
  BY <1>2, <1>3 DEF LookupOnly

\* The script compiles and its types are counted.
LEMMA CompileIInv ==
    ASSUME IInv, Compile \/ CheckTypes
    PROVE  IInv'
<1>0. phase \in {"compile", "check"}
  BY DEF Compile, CheckTypes
<1>1. CASE Fail
  BY <1>0, <1>1, FailIInv
<1>2. CASE /\ phase = "compile" /\ dir[script.file].compiles /\ phase' = "check"
           /\ UNCHANGED <<dir, tx, cmd, pos, token, builder, script, prepared, outcome, before, budget>>
  <2>1. TypeOK' /\ Shapes'
    BY <1>2 DEF IInv, TypeOK, Phases, Shapes, Parsing
  <2>2. ScriptFound' /\ Preparing' /\ Untouched'
    BY <1>2 DEF IInv, ScriptFound, Building, Preparing, Untouched, Storing
  <2>3. NamedOnce'
    BY <1>2 DEF IInv, NamedOnce, Building, Named, Scripts, Storing
  <2>4. FailureKeepsTransactions'
    BY <1>2, RunningKeeps
  <2> QED
    BY <2>4, <1>2, <2>1, <2>2, <2>3, SameStored DEF IInv
<1>3. CASE /\ phase = "check" /\ script.meta.types = Len(builder.types) /\ phase' = "arguments"
           /\ prepared' = [signers |-> 0, values |-> <<>>]
           /\ UNCHANGED <<dir, tx, cmd, pos, token, builder, script, outcome, before, budget>>
  <2>1. prepared'.signers = 0 /\ prepared'.values = <<>>
    BY <1>3
  <2>2. TypeOK'
    BY <1>3, <2>1 DEF IInv, TypeOK, Phases
  <2>3. Shapes'
    <3>1. \E S : prepared'.values \in Seq(S)
      BY <2>1, EmptySeq
    <3> QED
      BY <1>3, <3>1 DEF IInv, Shapes, Parsing
  <2>4. ScriptFound' /\ Untouched'
    BY <1>3 DEF IInv, ScriptFound, Building, Untouched, Storing
  <2>7. FailureKeepsTransactions'
    BY <1>3, RunningKeeps
  <2>5. NamedOnce'
    BY <1>3 DEF IInv, NamedOnce, Building, Named, Scripts, Storing
  <2>6. Preparing'
    <3> DEFINE params == script.meta.params
    <3>1. Len(params) \in Nat
      BY <1>3, DirFacts DEF IInv, Shapes, ScriptFound, Building, Storing
    <3>2. Rank(params, 0) = 0 /\ Len(prepared'.values) = 0
      BY <2>1, RankGrows
    <3>3. Matched(params, 0, prepared'.values)
      BY <3>2 DEF Matched
    <3>4. prepared'.signers + Len(prepared'.values) = 0
      BY <2>1, <3>2
    <3> QED
      BY <1>3, <3>1, <3>3, <3>4 DEF Preparing, Storing, CallAccepted
  <2> QED
    BY <1>3, <2>2, <2>3, <2>4, <2>5, <2>6, <2>7, SameStored DEF IInv
<1> QED
  BY <1>1, <1>2, <1>3 DEF Compile, CheckTypes

\* While the parameters are folded.
LEMMA ArgumentsFacts ==
    ASSUME IInv, phase \in {"arguments"} \cup Storing
    PROVE  /\ prepared.signers \in Nat /\ Len(prepared.values) \in Nat
           /\ Len(script.meta.params) \in Nat /\ Len(script.meta.params) <= 255
           /\ script.meta.name \in Names
           /\ Matched(script.meta.params, prepared.signers + Len(prepared.values), prepared.values)
<1>1. phase \in Building /\ phase # "compile"
  BY DEF Building, Storing
<1>2. PICK i \in DOMAIN dir[script.file].scripts : script.meta = dir[script.file].scripts[i]
  BY <1>1 DEF IInv, ScriptFound
<1>3. /\ Len(script.meta.params) \in Nat /\ Len(script.meta.params) <= 255
      /\ script.meta.name \in Names
  <2>1. dir \in Dirs /\ script.file \in DOMAIN dir /\ dir[script.file].compiles
    BY <1>1 DEF IInv, Shapes, ScriptFound
  <2> QED
    BY <1>2, <2>1, DirFacts
<1>4. prepared.signers \in Nat /\ Len(prepared.values) \in Nat
  BY DEF IInv, TypeOK, Shapes
<1> QED
  BY <1>3, <1>4 DEF IInv, Preparing, Storing, CallAccepted

\* A parameter is taken.
LEMMA TakenIInv ==
    ASSUME IInv, phase = "arguments", NEW p, Taken(p),
           p = [signers |-> p.signers, values |-> p.values], p.signers \in Nat,
           \E S : p.values \in Seq(S),
           p.signers + Len(p.values) <= Len(script.meta.params),
           Matched(script.meta.params, p.signers + Len(p.values), p.values)
    PROVE  IInv'
<1>1. /\ prepared' = p
      /\ UNCHANGED <<dir, tx, cmd, phase, pos, token, builder, script, outcome, before, budget>>
  BY DEF Taken
<1>2. TypeOK'
  BY <1>1 DEF IInv, TypeOK
<1>3. Shapes'
  BY <1>1 DEF IInv, Shapes
<1>4. ScriptFound' /\ Untouched'
  BY <1>1 DEF IInv, ScriptFound, Untouched
<1>7. FailureKeepsTransactions'
  BY <1>1, RunningKeeps
<1>5. NamedOnce'
  BY <1>1 DEF IInv, NamedOnce, Named, Scripts
<1>6. Preparing'
  BY <1>1 DEF IInv, Preparing, Storing
<1> QED
  BY <1>1, <1>2, <1>3, <1>4, <1>5, <1>6, <1>7, SameStored DEF IInv

\* The parameters take the arguments one by one.
LEMMA TakeIInv ==
    ASSUME IInv, TakeSigner \/ TakeArgument
    PROVE  IInv'
<1> DEFINE params == script.meta.params
           m == prepared.signers + Len(prepared.values)
           type == params[Parameter]
           arg == [type |-> type, text |-> builder.args[Len(prepared.values) + 1]]
<1>1. phase = "arguments" /\ Parameter <= Len(params)
  BY DEF TakeSigner, TakeArgument
<1>2. /\ prepared.signers \in Nat /\ Len(prepared.values) \in Nat /\ m \in Nat
      /\ Parameter = m + 1 /\ Len(params) \in Nat
      /\ Matched(params, m, prepared.values)
  BY <1>1, ArgumentsFacts DEF Parameter
<1>3. /\ prepared = [signers |-> prepared.signers, values |-> prepared.values]
      /\ \E S : prepared.values \in Seq(S)
  BY DEF IInv, Shapes
<1>4. CASE Fail
  BY <1>1, <1>4, FailIInv
<1>5. CASE type = "&signer" /\ Taken([prepared EXCEPT !.signers = @ + 1])
  <2> DEFINE p == [prepared EXCEPT !.signers = @ + 1]
  <2>1. /\ p = [signers |-> p.signers, values |-> p.values]
        /\ p.signers = prepared.signers + 1 /\ p.values = prepared.values
    BY <1>3
  <2>2. Matched(params, m + 1, prepared.values)
    BY <1>2, <1>5, MatchedSigner
  <2> HIDE DEF p
  <2>3. p.signers + Len(p.values) = m + 1 /\ p.signers \in Nat
    BY <2>1, <1>2
  <2>4. Matched(params, p.signers + Len(p.values), p.values)
    BY <2>1, <2>2, <2>3
  <2> QED
    BY <1>1, <1>2, <1>3, <1>5, <2>1, <2>3, <2>4, TakenIInv DEF p
<1>6. CASE /\ type # "&signer" /\ Accepts(type, builder.args[Len(prepared.values) + 1])
           /\ Taken([prepared EXCEPT !.values = Append(@, arg)])
  <2> DEFINE v == Append(prepared.values, arg)
             p == [prepared EXCEPT !.values = v]
  <2>2. arg.type = type /\ arg.text = builder.args[Len(prepared.values) + 1]
    OBVIOUS
  <2>0. Taken(p)
    BY <1>6
  <2> HIDE DEF arg, v
  <2>1. /\ p = [signers |-> p.signers, values |-> p.values]
        /\ p.signers = prepared.signers /\ p.values = v
    BY <1>3
  <2> HIDE DEF p
  <2>3. Matched(params, m + 1, v)
    BY <1>2, <1>3, <1>6, <2>2, MatchedArgument DEF v
  <2>4. (\E S : p.values \in Seq(S)) /\ Len(p.values) = Len(prepared.values) + 1
    <3>1. \E S : v \in Seq(S)
      BY <1>3, AppendKeeps, Zenon DEF v
    <3>2. Len(v) = Len(prepared.values) + 1
      BY <1>3, AppendKeeps, Zenon DEF v
    <3> QED
      BY <2>1, <3>1, <3>2, Zenon
  <2>5. p.signers + Len(p.values) = m + 1 /\ p.signers \in Nat
    <3>1. \A a, b, c \in Nat : a + b = c => a + (b + 1) = c + 1
      OBVIOUS
    <3>2. /\ prepared.signers \in Nat /\ Len(prepared.values) \in Nat /\ m \in Nat
          /\ prepared.signers + Len(prepared.values) = m
      BY <1>2
    <3> HIDE DEF m
    <3>3. prepared.signers + (Len(prepared.values) + 1) = m + 1
      BY <3>1, <3>2
    <3> QED
      BY <2>1, <2>4, <3>2, <3>3, Zenon
  <2>6. Matched(params, p.signers + Len(p.values), p.values)
    BY <2>1, <2>3, <2>5
  <2> QED
    BY <1>1, <1>2, <2>0, <2>1, <2>4, <2>5, <2>6, TakenIInv
<1> QED
  BY <1>4, <1>5, <1>6 DEF TakeSigner, TakeArgument

\* The arguments are used up, and the old transaction is removed.
LEMMA RemoveIInv ==
    ASSUME IInv, ArgumentsTaken \/ RemoveOld
    PROVE  IInv'
<1>1. CASE Fail /\ phase = "arguments"
  BY <1>1, FailIInv
<1>2. CASE /\ phase = "arguments" /\ Parameter > Len(script.meta.params) /\ phase' = "remove"
           /\ Len(builder.args) = Len(prepared.values)
           /\ UNCHANGED <<dir, tx, cmd, pos, token, builder, script, prepared, outcome, before, budget>>
  <2>1. TypeOK' /\ Shapes'
    BY <1>2 DEF IInv, TypeOK, Phases, Shapes, Parsing
  <2>2. ScriptFound' /\ Untouched'
    BY <1>2 DEF IInv, ScriptFound, Building, Untouched, Storing
  <2>6. FailureKeepsTransactions'
    BY <1>2, RunningKeeps
  <2>3. NamedOnce'
    BY <1>2 DEF IInv, NamedOnce, Building, Named, Scripts, Storing
  <2>4. prepared.signers + Len(prepared.values) = Len(script.meta.params)
    <3>1. prepared.signers + Len(prepared.values) <= Len(script.meta.params)
      BY <1>2 DEF IInv, Preparing
    <3>2. /\ prepared.signers \in Nat /\ Len(prepared.values) \in Nat
          /\ Len(script.meta.params) \in Nat
      BY <1>2, ArgumentsFacts
    <3>3. prepared.signers + Len(prepared.values) + 1 > Len(script.meta.params)
      BY <1>2 DEF Parameter
    <3>4. \A a, b, c \in Nat : a + b <= c /\ a + b + 1 > c => a + b = c
      OBVIOUS
    <3> QED
      BY <3>1, <3>2, <3>3, <3>4, Zenon
  <2>5. Preparing'
    BY <1>2, <2>4 DEF IInv, Preparing, Storing, CallAccepted
  <2> QED
    BY <1>2, <2>1, <2>2, <2>3, <2>5, <2>6, SameStored DEF IInv
<1>3. CASE RemoveOld
  <2>1. /\ phase = "remove" /\ phase' = "create" /\ tx' = [tx EXCEPT ![script.meta.name] = None]
        /\ UNCHANGED <<dir, cmd, pos, token, builder, script, prepared, outcome, before, budget>>
    BY <1>3 DEF RemoveOld
  <2>2. TypeOK' /\ Shapes'
    BY <2>1 DEF IInv, TypeOK, Phases, Shapes, Parsing
  <2>3. ScriptFound' /\ Untouched' /\ Preparing'
    BY <2>1 DEF IInv, ScriptFound, Building, Untouched, Preparing, Storing, CallAccepted
  <2>4. NamedOnce'
    BY <2>1 DEF IInv, NamedOnce, Building, Named, Scripts, Storing
  <2>5. FailureKeepsTransactions'
    BY <2>1, RunningKeeps
  <2>6. StoredIsCallable'
    <3>1. \A n \in Names : tx'[n] = tx[n] \/ tx'[n] = None
      BY <2>1 DEF IInv, Shapes
    <3> QED
      BY <3>1 DEF IInv, StoredIsCallable
  <2> QED
    BY <2>2, <2>3, <2>4, <2>5, <2>6 DEF IInv
<1> QED
  BY <1>1, <1>2, <1>3 DEF ArgumentsTaken

\* The new file is created.
LEMMA CreateIInv ==
    ASSUME IInv, CreateNew
    PROVE  IInv'
<1>1. /\ phase = "create" /\ phase' = "write" /\ tx' = [tx EXCEPT ![script.meta.name] = Damaged]
      /\ UNCHANGED <<dir, cmd, pos, token, builder, script, prepared, outcome, before, budget>>
  BY DEF CreateNew
<1>2. TypeOK' /\ Shapes'
  BY <1>1 DEF IInv, TypeOK, Phases, Shapes, Parsing
<1>3. ScriptFound' /\ Preparing'
  BY <1>1 DEF IInv, ScriptFound, Building, Storing, Preparing, CallAccepted
<1>4. Untouched'
  BY <1>1 DEF IInv, Untouched, Shapes
<1>5. NamedOnce'
  BY <1>1 DEF IInv, NamedOnce, Building, Storing, Named, Scripts
<1>6. FailureKeepsTransactions'
  BY <1>1, RunningKeeps DEF IInv, Untouched
<1>7. StoredIsCallable'
  <2>1. \A n \in Names : tx'[n] = tx[n] \/ tx'[n] = Damaged
    BY <1>1 DEF IInv, Shapes
  <2> QED
    BY <2>1 DEF IInv, StoredIsCallable
<1> QED
  BY <1>2, <1>3, <1>4, <1>5, <1>6, <1>7 DEF IInv

\* The transaction is stored.
LEMMA StoreIInv ==
    ASSUME IInv, StoreTransaction
    PROVE  IInv'
<1>1. /\ phase = "write" /\ phase' = "idle" /\ outcome' = "ok"
      /\ tx' = [tx EXCEPT ![script.meta.name] = Transaction]
      /\ UNCHANGED <<dir, cmd, pos, token, builder, script, prepared, before, budget>>
  BY DEF StoreTransaction
<1>2. TypeOK' /\ Shapes'
  BY <1>1 DEF IInv, TypeOK, Phases, Shapes, Parsing
<1>3. ScriptFound' /\ NamedOnce' /\ Preparing' /\ Untouched'
  BY <1>1 DEF ScriptFound, NamedOnce, Preparing, Untouched, Building, Storing
<1>5. FailureKeepsTransactions'
  <2>1. Transaction' = Transaction
    BY <1>1 DEF Transaction
  <2>2. tx = [before EXCEPT ![script.meta.name] = Damaged]
    BY <1>1 DEF IInv, Untouched
  <2>3. tx' = [before EXCEPT ![script.meta.name] = Transaction]
    BY <1>1, <2>2
  <2> QED
    BY <1>1, <2>1, <2>3 DEF FailureKeepsTransactions
<1>4. StoredIsCallable'
  <2> DEFINE params == script.meta.params
             T == Transaction
  <2>1. /\ T.code = script.meta /\ T.signers = prepared.signers % 256
        /\ T.args = prepared.values /\ T.types = builder.types
    BY DEF Transaction
  <2>2. /\ prepared.signers \in Nat /\ Len(prepared.values) \in Nat
        /\ Len(params) \in Nat /\ Len(params) <= 255
        /\ Matched(params, prepared.signers + Len(prepared.values), prepared.values)
        /\ prepared.signers + Len(prepared.values) = Len(params)
        /\ script.meta.types = Len(builder.types)
    BY <1>1, ArgumentsFacts DEF IInv, Preparing, Storing, CallAccepted
  <2>3. prepared.signers % 256 = prepared.signers
    <3>1. \A a, b, c \in Nat : a + b = c /\ c <= 255 => a % 256 = a
      OBVIOUS
    <3> QED
      BY <2>2, <3>1, Zenon
  <2>4. \A n \in Names : tx'[n] = IF n = script.meta.name THEN T ELSE tx[n]
    BY <1>1 DEF IInv, Shapes
  <2> HIDE DEF T
  <2> SUFFICES ASSUME NEW n \in Names, tx'[n] \notin {None, Damaged}
               PROVE  /\ tx'[n].code.name = n
                      /\ tx'[n].signers + Len(tx'[n].args) = Len(tx'[n].code.params)
                      /\ Len(tx'[n].types) = tx'[n].code.types
                      /\ Matched(tx'[n].code.params, Len(tx'[n].code.params), tx'[n].args)
    BY DEF StoredIsCallable
  <2>5. CASE n = script.meta.name
    <3>1. /\ T.signers + Len(T.args) = Len(T.code.params)
          /\ Len(T.types) = T.code.types
          /\ Matched(T.code.params, Len(T.code.params), T.args)
      BY <2>1, <2>2, <2>3, Zenon
    <3>2. tx'[n] = T /\ T.code.name = n
      BY <2>1, <2>4, <2>5, Zenon
    <3> QED
      BY <3>1, <3>2, Zenon
  <2>6. CASE n # script.meta.name
    BY <2>4, <2>6 DEF IInv, StoredIsCallable
  <2> QED
    BY <2>5, <2>6
<1> QED
  BY <1>2, <1>3, <1>4, <1>5 DEF IInv

\* Between the commands.
LEMMA IdleIInv ==
    ASSUME IInv, (\E c \in Commands : Start(c)) \/ Edit
    PROVE  IInv'
<1>1. CASE Edit
  <2>1. /\ phase = "idle" /\ dir' \in Dirs
        /\ UNCHANGED <<tx, cmd, phase, pos, token, builder, script, prepared, outcome, before, budget>>
    BY <1>1 DEF Edit
  <2>2. TypeOK' /\ Shapes' /\ ScriptFound' /\ NamedOnce' /\ Preparing'
    BY <2>1 DEF IInv, TypeOK, Shapes, ScriptFound, NamedOnce, Preparing, Parsing, Building, Storing, CallAccepted
  <2>3. Untouched' /\ FailureKeepsTransactions'
    BY <2>1, SettledKeeps DEF IInv, Untouched
  <2> QED
    BY <2>1, <2>2, <2>3, SameStored DEF IInv
<1>2. ASSUME NEW c \in Commands, Start(c)
      PROVE  IInv'
  <2>1. /\ budget > 0 /\ budget' = budget - 1 /\ cmd' = c
        /\ phase' = (IF c.call = None THEN "options" ELSE "name")
        /\ pos' = 1 /\ builder' = [name |-> None, types |-> <<>>, args |-> <<>>]
        /\ outcome' = None /\ before' = tx /\ UNCHANGED <<dir, tx, script, prepared>>
    BY <1>2 DEF Start
  <2>2. TypeOK'
    BY <2>1, BudgetAssumption DEF IInv, TypeOK, Phases
  <2>3. Shapes'
    BY <2>1, CommandsAssumption DEF IInv, Shapes, Parsing
  <2>4. ScriptFound' /\ NamedOnce' /\ Preparing' /\ Untouched' /\ FailureKeepsTransactions'
    BY <2>1, RunningKeeps DEF ScriptFound, NamedOnce, Preparing, Untouched, Building, Storing
  <2> QED
    BY <2>1, <2>2, <2>3, <2>4, SameStored DEF IInv
<1> QED
  BY <1>1, <1>2

\* Every step keeps the invariant.
LEMMA NextIInv == IInv /\ [Next]_vars => IInv'
<1> SUFFICES ASSUME IInv, [Next]_vars PROVE IInv'
  OBVIOUS
<1>1. CASE (\E c \in Commands : Start(c)) \/ Edit
  BY <1>1, IdleIInv
<1>2. CASE Kill
  BY <1>2, EndIInv DEF Kill
<1>3. CASE Parse
  BY <1>3, ParseIInv
<1>4. CASE Build
  BY <1>4, OptionsIInv, LookupByFileIInv, LookupByNameIInv, LookupOnlyIInv, CompileIInv, TakeIInv,
     RemoveIInv, CreateIInv, StoreIInv, FailIInv DEF Build, StorageFails
<1>5. CASE UNCHANGED vars
  <2>1. TypeOK' /\ Shapes' /\ ScriptFound' /\ Preparing' /\ Untouched' /\ FailureKeepsTransactions'
    BY <1>5, SettledKeeps DEF vars, IInv, TypeOK, Shapes, ScriptFound, Preparing, Untouched, CallAccepted
  <2>2. NamedOnce'
    BY <1>5 DEF vars, IInv, NamedOnce, Named, Scripts
  <2> QED
    BY <1>5, <2>1, <2>2, SameStored DEF vars, IInv
<1> QED
  BY <1>1, <1>2, <1>3, <1>4, <1>5 DEF Next

\* The invariant, of every behaviour.
LEMMA AlwaysIInv == Spec => []IInv
BY InitIInv, NextIInv, PTL DEF Spec

-----------------------------------------------------------------------------
(* How far a call is understood *)

\* What was read of a call that is written out for m, with its arguments at `place'.
SoFar(m, place) ==
    LET k == Len(builder.args)
        t == Len(builder.types)
        n == Len(m.args)
    IN  /\ k \in Nat /\ DOMAIN builder.args = 1..k /\ k <= n
        /\ t \in Nat /\ DOMAIN builder.types = 1..t /\ t <= Len(m.types)
        /\ \E S : builder.args \in Seq(S)
        /\ builder.types \in Seq({"type"})
        /\ \A i \in 1..k : builder.args[i] = m.args[i]
        /\ phase # "name" => builder.name = m.name
        /\ phase \in {"name", "open", "types", "paren"} => k = 0
        /\ phase \in {"paren", "args", "bracket", "scalar", "options"} => t = Len(m.types)
        /\ phase = "name" => pos = 1 /\ t = 0
        /\ phase = "open" => pos = 2 /\ t = 0
        /\ phase = "types" => /\ pos = 2 * t + 2 \/ pos = 2 * t + 3
                              /\ pos = 2 * t + 2 => t > 0
                              /\ pos = 2 * t + 3 => t < Len(m.types)
        /\ phase = "paren" => pos = OpenAt(m)
        /\ phase = "args" => \/ pos = place[k + 1] /\ (k < n \/ n = 0)
                             \/ pos + 1 = place[k + 1] /\ k > 0
        /\ phase \in {"bracket", "scalar"} =>
              LET arg == m.args[k + 1]
              IN  /\ k < n
                  /\ token \in Seq(STRING)
                  /\ Len(token) \in 1..Len(arg)
                  /\ pos = place[k + 1] + Len(token)
                  /\ \A j \in 1..Len(token) : token[j] = arg[j]
                  /\ phase = "scalar" => IsScalar(arg)
                  /\ phase = "bracket" => IsVector(arg) /\ Len(token) < Len(arg)
        /\ phase = "options" => k = n

Places == [1..(Len(cmd.meant.args) + 1) -> 1..(Len(cmd.call) + 1)]

Understanding ==
    phase \in Parsing \cup {"options"} /\ cmd.call # None /\ cmd.meant # None =>
        \E place \in Places : ArgumentsAt(cmd.call, cmd.meant, place) /\ SoFar(cmd.meant, place)

\* A call that is written out for m and read as far as SoFar says.
Reading(m, place) ==
    /\ phase \in Parsing /\ pos \in Nat \ {0}
    /\ builder = [name |-> builder.name, types |-> builder.types, args |-> builder.args]
    /\ cmd.call \in Seq(STRING \ {"EOF"})
    /\ Written(cmd.call, m)
    /\ place \in [1..(Len(m.args) + 1) -> 1..(Len(cmd.call) + 1)]
    /\ ArgumentsAt(cmd.call, m, place)
    /\ SoFar(m, place)

\* The comma is none of the other tokens.
LEMMA CommaFacts == Comma \notin {")", "[", "EOF", ">", "type"}
BY Zenon DEF Comma

\* The places of a call that is written out.
LEMMA ReadingFacts ==
    ASSUME NEW m, NEW place, Reading(m, place)
    PROVE  /\ Len(m.args) \in Nat /\ Len(m.types) \in Nat /\ Len(cmd.call) \in Nat
           /\ OpenAt(m) \in Nat /\ OpenAt(m) < Len(cmd.call) /\ OpenAt(m) >= 2
           /\ OpenAt(m) = IF Len(m.types) = 0 THEN 2 ELSE 2 * Len(m.types) + 3
           /\ \A i \in 1..(Len(m.args) + 1) : place[i] \in Nat \ {0}
           /\ \A i \in 1..Len(m.args) :
                 /\ m.args[i] \in Seq(STRING) /\ Len(m.args[i]) \in Nat \ {0}
                 /\ IsVector(m.args[i]) \/ IsScalar(m.args[i])
                 /\ place[i + 1] = place[i] + Len(m.args[i]) + 1
                 /\ place[i] + Len(m.args[i]) <= Len(cmd.call)
                 /\ cmd.call[place[i] + Len(m.args[i])] = IF i = Len(m.args) THEN ")" ELSE Comma
           /\ \A p \in 1..Len(cmd.call) : Peek(p) = cmd.call[p] /\ Peek(p) # "EOF" /\ Peek(p) \in STRING
<1>1. /\ m.args \in Seq(Seq(STRING)) /\ m.types \in Seq({"type"}) /\ cmd.call \in Seq(STRING \ {"EOF"})
      /\ \A i \in DOMAIN m.args : IsVector(m.args[i]) \/ IsScalar(m.args[i])
      /\ Len(cmd.call) > OpenAt(m)
      /\ place \in [1..(Len(m.args) + 1) -> 1..(Len(cmd.call) + 1)]
      /\ ArgumentsAt(cmd.call, m, place)
  BY DEF Reading, Written
<1>2. /\ Len(m.args) \in Nat /\ Len(m.types) \in Nat /\ Len(cmd.call) \in Nat
      /\ DOMAIN m.args = 1..Len(m.args)
      /\ m.types = <<>> <=> Len(m.types) = 0
  BY <1>1
<1>3. /\ OpenAt(m) = IF Len(m.types) = 0 THEN 2 ELSE 2 * Len(m.types) + 3
      /\ OpenAt(m) \in Nat /\ OpenAt(m) < Len(cmd.call) /\ OpenAt(m) >= 2
  BY <1>1, <1>2 DEF OpenAt
<1>4. \A i \in 1..(Len(m.args) + 1) : place[i] \in Nat \ {0}
  BY <1>1, <1>2
<1>5. ASSUME NEW i \in 1..Len(m.args)
      PROVE  /\ m.args[i] \in Seq(STRING) /\ Len(m.args[i]) \in Nat \ {0}
             /\ IsVector(m.args[i]) \/ IsScalar(m.args[i])
             /\ place[i + 1] = place[i] + Len(m.args[i]) + 1
             /\ place[i] + Len(m.args[i]) <= Len(cmd.call)
             /\ cmd.call[place[i] + Len(m.args[i])] = IF i = Len(m.args) THEN ")" ELSE Comma
  <2>1. m.args[i] \in Seq(STRING) /\ (IsVector(m.args[i]) \/ IsScalar(m.args[i]))
    <3>1. i \in DOMAIN m.args
      BY <1>2, Zenon
    <3>2. m.args[i] \in Seq(STRING)
      <4>1. m.args \in Seq(Seq(STRING))
        BY <1>1, Zenon
      <4> QED
        BY <4>1, ElementOfSeq, Zenon
    <3>3. IsVector(m.args[i]) \/ IsScalar(m.args[i])
      BY <1>1, <3>1, Zenon
    <3> QED
      BY <3>2, <3>3, Zenon
  <2>2. Len(m.args[i]) \in Nat \ {0}
    <3>1. Len(m.args[i]) \in Nat /\ (Len(m.args[i]) = 0 => m.args[i] = <<>>)
      BY <2>1
    <3>2. IsVector(m.args[i]) => Len(m.args[i]) >= 2
      BY Zenon DEF IsVector
    <3>3. IsScalar(m.args[i]) => m.args[i] # <<>>
      BY Zenon DEF IsScalar
    <3> QED
      BY <2>1, <3>1, <3>2, <3>3
  <2>3. \A j \in 1..Len(m.args) :
           /\ place[j + 1] = place[j] + Len(m.args[j]) + 1
           /\ place[j] + Len(m.args[j]) <= Len(cmd.call)
           /\ cmd.call[place[j] + Len(m.args[j])] = IF j = Len(m.args) THEN ")" ELSE Comma
    BY <1>1 DEF ArgumentsAt
  <2> QED
    BY <2>1, <2>2, <2>3
<1>6. \A p \in 1..Len(cmd.call) : Peek(p) = cmd.call[p] /\ Peek(p) # "EOF" /\ Peek(p) \in STRING
  <2> SUFFICES ASSUME NEW p \in 1..Len(cmd.call)
               PROVE  Peek(p) = cmd.call[p] /\ Peek(p) # "EOF" /\ Peek(p) \in STRING
    OBVIOUS
  <2>1. cmd.call[p] \in STRING \ {"EOF"}
    BY <1>1
  <2>2. Peek(p) = cmd.call[p]
    BY <1>2 DEF Peek
  <2> QED
    BY <2>1, <2>2
<1> QED
  BY <1>2, <1>3, <1>4, <1>5, <1>6

\* A step of the lexer that does not end the command.
LEMMA AdvanceStep ==
    ASSUME NEW ph, NEW tk, NEW b, Advance(ph, tk, b), phase' # "idle",
           Len(cmd.call) \in Nat, pos \in 1..Len(cmd.call)
    PROVE  pos' = pos + 1 /\ phase' = ph /\ token' = tk /\ builder' = b /\ cmd' = cmd
<1>1. ~Fail
  BY DEF Fail
<1>2. /\ pos' = Min({pos + 1, Len(cmd.call) + 1})
      /\ phase' = ph /\ token' = tk /\ builder' = b /\ cmd' = cmd
  BY <1>1 DEF Advance
<1> DEFINE S == {pos + 1, Len(cmd.call) + 1}
<1>3. \E x \in S : \A y \in S : x <= y
  OBVIOUS
<1>4. Min(S) \in S /\ \A y \in S : Min(S) <= y
  BY <1>3 DEF Min
<1> QED
  BY <1>2, <1>4

\* The name, the opening and the types.
LEMMA NameUnderstood ==
    ASSUME NEW m, NEW place, Reading(m, place), ParseName, phase' # "idle"
    PROVE  SoFar(m, place)'
<1>1. phase = "name" /\ pos = 1 /\ SoFar(m, place)
  BY DEF Reading, SoFar, ParseName
<1>2. Peek(1) = m.name /\ m.name \in Names /\ Len(cmd.call) \in Nat /\ 1 \in 1..Len(cmd.call)
  <2>1. /\ Len(cmd.call) \in Nat /\ OpenAt(m) \in Nat
        /\ OpenAt(m) >= 2 /\ OpenAt(m) < Len(cmd.call)
        /\ \A p \in 1..Len(cmd.call) : Peek(p) = cmd.call[p]
    BY ReadingFacts
  <2>2. cmd.call[1] = m.name /\ m.name \in Names
    BY DEF Reading, Written
  <2> QED
    BY <2>1, <2>2
<1>3. Advance("open", <<>>, [builder EXCEPT !.name = Peek(pos)])
  BY <1>1, <1>2 DEF ParseName
<1>4. pos' = 2 /\ phase' = "open" /\ builder' = [builder EXCEPT !.name = m.name]
  BY <1>1, <1>2, <1>3, AdvanceStep
<1>5. builder'.name = m.name /\ builder'.types = builder.types /\ builder'.args = builder.args
  BY <1>4 DEF Reading
<1> QED
  BY <1>1, <1>4, <1>5 DEF SoFar

LEMMA OpenUnderstood ==
    ASSUME NEW m, NEW place, Reading(m, place), ParseOpen, phase' # "idle"
    PROVE  SoFar(m, place)'
<1>1. phase \in {"open", "paren"} /\ SoFar(m, place)
  BY DEF Reading, ParseOpen
<1>2. /\ Len(m.args) \in Nat /\ Len(m.types) \in Nat /\ Len(cmd.call) \in Nat
      /\ OpenAt(m) \in Nat /\ OpenAt(m) < Len(cmd.call) /\ OpenAt(m) >= 2
      /\ OpenAt(m) = IF Len(m.types) = 0 THEN 2 ELSE 2 * Len(m.types) + 3
      /\ \A p \in 1..Len(cmd.call) : Peek(p) = cmd.call[p]
  BY ReadingFacts
<1>3. /\ cmd.call[OpenAt(m)] = "(" /\ place[1] = OpenAt(m) + 1
      /\ Len(m.types) # 0 => cmd.call[2] = "<"
  BY <1>2 DEF Reading, Written, ArgumentsAt
<1>4. pos \in 1..Len(cmd.call)
  BY <1>1, <1>2 DEF SoFar
<1>5. CASE phase = "open" /\ Len(m.types) # 0
  <2>1. pos = 2 /\ Peek(pos) = "<"
    BY <1>1, <1>2, <1>3, <1>5 DEF SoFar
  <2>2. Advance("types", <<>>, builder)
    BY <2>1, <1>5 DEF ParseOpen
  <2>3. pos' = 3 /\ phase' = "types" /\ builder' = builder
    BY <2>1, <2>2, <1>2, <1>4, AdvanceStep
  <2> QED
    BY <1>1, <1>2, <1>5, <2>3 DEF SoFar
<1>6. CASE phase = "paren" \/ Len(m.types) = 0
  <2>1. pos = OpenAt(m) /\ Peek(pos) = "("
    BY <1>1, <1>2, <1>3, <1>6 DEF SoFar
  <2>2. Advance("args", <<>>, builder)
    BY <2>1 DEF ParseOpen
  <2>3. pos' = place[1] /\ phase' = "args" /\ builder' = builder
    BY <2>1, <2>2, <1>2, <1>3, <1>4, AdvanceStep
  <2>4. Len(builder.types) = Len(m.types) /\ Len(builder.args) = 0
    BY <1>1, <1>2, <1>6 DEF SoFar
  <2> QED
    BY <1>1, <1>2, <2>3, <2>4 DEF SoFar
<1> QED
  BY <1>1, <1>5, <1>6

LEMMA TypesUnderstood ==
    ASSUME NEW m, NEW place, Reading(m, place), ParseTypes, phase' # "idle"
    PROVE  SoFar(m, place)'
<1> DEFINE t == Len(builder.types)
<1>1. phase = "types" /\ SoFar(m, place)
  BY DEF Reading, ParseTypes
<1>2. /\ Len(m.args) \in Nat /\ Len(m.types) \in Nat /\ Len(cmd.call) \in Nat
      /\ OpenAt(m) \in Nat /\ OpenAt(m) < Len(cmd.call)
      /\ OpenAt(m) = IF Len(m.types) = 0 THEN 2 ELSE 2 * Len(m.types) + 3
      /\ \A p \in 1..Len(cmd.call) : Peek(p) = cmd.call[p]
  BY ReadingFacts
<1>3. /\ t \in Nat /\ t <= Len(m.types)
      /\ pos = 2 * t + 2 \/ pos = 2 * t + 3
      /\ pos = 2 * t + 2 => t > 0
      /\ pos = 2 * t + 3 => t < Len(m.types)
  BY <1>1 DEF SoFar
<1>4. \A k \in 1..Len(m.types) :
          cmd.call[2 * k + 1] = "type" /\ cmd.call[2 * k + 2] = IF k = Len(m.types) THEN ">" ELSE Comma
  BY DEF Reading, Written
<1>5. pos \in 1..Len(cmd.call) /\ Len(m.types) > 0
  <2> HIDE DEF t
  <2>1. Len(m.types) > 0 /\ pos \in Nat \ {0} /\ pos <= 2 * Len(m.types) + 2
    BY <1>2, <1>3
  <2>2. Len(cmd.call) \in Nat /\ 2 * Len(m.types) + 3 < Len(cmd.call)
    BY <2>1, <1>2
  <2> QED
    BY <2>1, <2>2, <1>2
<1>6. CASE pos = 2 * t + 3
  <2>1. t + 1 \in 1..Len(m.types) /\ 2 * (t + 1) + 1 = pos
    BY <1>2, <1>3, <1>6
  <2>2. Peek(pos) = "type"
    BY <2>1, <1>2, <1>4, <1>5
  <2>3. Advance("types", <<>>, [builder EXCEPT !.types = Append(@, "type")])
    BY <2>2 DEF ParseTypes
  <2>4. pos' = pos + 1 /\ phase' = "types" /\ builder' = [builder EXCEPT !.types = Append(@, "type")]
    BY <2>3, <1>2, <1>5, AdvanceStep
  <2>5. /\ builder'.name = builder.name /\ builder'.args = builder.args
        /\ builder'.types = Append(builder.types, "type")
    BY <2>4 DEF Reading
  <2>6. /\ builder'.types \in Seq({"type"}) /\ Len(builder'.types) = t + 1
        /\ DOMAIN builder'.types = 1..(t + 1)
    BY <2>5, <1>1 DEF SoFar
  <2>7. pos' = 2 * (t + 1) + 2 /\ t + 1 \in Nat /\ t + 1 > 0 /\ t + 1 <= Len(m.types)
    BY <2>4, <1>2, <1>3, <1>6
  <2>8. /\ Len(builder.args) = 0 /\ DOMAIN builder.args = 1..0 /\ \E S : builder.args \in Seq(S)
        /\ builder.name = m.name
    BY <1>1 DEF SoFar
  <2>9. /\ Len(builder'.args) = 0 /\ DOMAIN builder'.args = 1..0 /\ \E S : builder'.args \in Seq(S)
        /\ builder'.name = m.name
    BY <2>5, <2>8, Zenon
  <2>10. phase' = "types" /\ pos' = 2 * (t + 1) + 2
    BY <2>4, <2>7
  <2> HIDE DEF t
  <2> QED
    BY <1>2, <2>6, <2>7, <2>9, <2>10 DEF SoFar
<1>7. CASE pos = 2 * t + 2
  <2>1. t \in 1..Len(m.types) /\ Peek(pos) = cmd.call[2 * t + 2]
    BY <1>2, <1>3, <1>5, <1>7
  <2>2. CASE t = Len(m.types)
    <3>1. Peek(pos) = ">"
      BY <2>1, <2>2, <1>4
    <3>2. Advance("paren", <<>>, builder)
      BY CommaFacts, <3>1 DEF ParseTypes
    <3>3. pos' = OpenAt(m) /\ phase' = "paren" /\ builder' = builder
      BY <3>2, <2>2, <1>2, <1>3, <1>5, <1>7, AdvanceStep
    <3> QED
      BY <1>1, <2>2, <3>3 DEF SoFar
  <2>3. CASE t # Len(m.types)
    <3>1. Peek(pos) = Comma
      BY <2>1, <2>3, <1>4
    <3>2. Advance("types", <<>>, builder)
      BY CommaFacts, <3>1 DEF ParseTypes
    <3>3. pos' = 2 * t + 3 /\ phase' = "types" /\ builder' = builder
      BY <3>2, <1>2, <1>3, <1>5, <1>7, AdvanceStep
    <3> QED
      BY <1>1, <1>2, <1>3, <2>3, <3>3 DEF SoFar
  <2> QED
    BY <2>2, <2>3
<1> QED
  BY <1>3, <1>6, <1>7

\* A beginning of an argument, with the token that follows it.
LEMMA TokenGrows ==
    ASSUME NEW arg \in Seq(STRING), NEW tk \in Seq(STRING), Len(tk) < Len(arg),
           \A j \in 1..Len(tk) : tk[j] = arg[j], NEW x, x = arg[Len(tk) + 1]
    PROVE  /\ tk \o <<x>> \in Seq(STRING) /\ Len(tk \o <<x>>) = Len(tk) + 1
           /\ \A j \in 1..(Len(tk) + 1) : (tk \o <<x>>)[j] = arg[j]
           /\ Len(tk) + 1 = Len(arg) => Append(tk, x) = arg
<1>1. x \in STRING
  <2>1. Len(tk) + 1 \in 1..Len(arg)
    OBVIOUS
  <2> QED
    BY <2>1
<1>2. /\ tk \o <<x>> \in Seq(STRING) /\ Len(tk \o <<x>>) = Len(tk) + 1
      /\ \A j \in 1..(Len(tk) + 1) : (tk \o <<x>>)[j] = IF j <= Len(tk) THEN tk[j] ELSE x
  BY <1>1
<1>3. /\ Append(tk, x) \in Seq(STRING) /\ Len(Append(tk, x)) = Len(tk) + 1
      /\ \A j \in 1..(Len(tk) + 1) : Append(tk, x)[j] = IF j <= Len(tk) THEN tk[j] ELSE x
  BY <1>1
<1>4. \A j \in 1..(Len(tk) + 1) : (IF j <= Len(tk) THEN tk[j] ELSE x) = arg[j]
  OBVIOUS
<1>5. ASSUME Len(tk) + 1 = Len(arg) PROVE Append(tk, x) = arg
  BY <1>3, <1>4, <1>5, SeqEqual
<1> QED
  BY <1>2, <1>4, <1>5

\* The builder gets the argument that was read.
LEMMA ArgumentKept ==
    ASSUME NEW m, NEW place, Reading(m, place), Len(builder.args) < Len(m.args),
           builder' = WithArg(m.args[Len(builder.args) + 1])
    PROVE  LET k == Len(builder.args)
           IN  /\ builder'.name = builder.name /\ builder'.types = builder.types
               /\ Len(builder'.args) = k + 1 /\ DOMAIN builder'.args = 1..(k + 1)
               /\ \E S : builder'.args \in Seq(S)
               /\ \A i \in 1..(k + 1) : builder'.args[i] = m.args[i]
<1> DEFINE k == Len(builder.args)
<1>1. /\ builder'.name = builder.name /\ builder'.types = builder.types
      /\ builder'.args = Append(builder.args, m.args[k + 1])
  BY DEF WithArg, Reading
<1>2. k \in Nat /\ (\E S : builder.args \in Seq(S)) /\ \A i \in 1..k : builder.args[i] = m.args[i]
  BY DEF Reading, SoFar
<1>3. /\ \E S : Append(builder.args, m.args[k + 1]) \in Seq(S)
      /\ Len(Append(builder.args, m.args[k + 1])) = k + 1
      /\ DOMAIN Append(builder.args, m.args[k + 1]) = 1..(k + 1)
      /\ \A i \in 1..k : Append(builder.args, m.args[k + 1])[i] = builder.args[i]
      /\ Append(builder.args, m.args[k + 1])[k + 1] = m.args[k + 1]
  BY <1>2, AppendKeeps
<1>4. \A i \in 1..(k + 1) : i \in 1..k \/ i = k + 1
  BY <1>2
<1> HIDE DEF k
<1>5. \A i \in 1..(k + 1) : builder'.args[i] = m.args[i]
  BY <1>1, <1>2, <1>3, <1>4
<1> QED
  BY <1>1, <1>3, <1>5, Zenon DEF k

LEMMA ArgsUnderstood ==
    ASSUME NEW m, NEW place, Reading(m, place), ParseArgs, phase' # "idle"
    PROVE  SoFar(m, place)'
<1> DEFINE k == Len(builder.args)
           n == Len(m.args)
           arg == m.args[k + 1]
<1>1. phase = "args" /\ SoFar(m, place)
  BY DEF Reading, ParseArgs
<1>2. /\ n \in Nat /\ Len(cmd.call) \in Nat
      /\ OpenAt(m) \in Nat /\ OpenAt(m) < Len(cmd.call)
      /\ \A i \in 1..(n + 1) : place[i] \in Nat \ {0}
      /\ \A i \in 1..n :
            /\ m.args[i] \in Seq(STRING) /\ Len(m.args[i]) \in Nat \ {0}
            /\ IsVector(m.args[i]) \/ IsScalar(m.args[i])
            /\ place[i + 1] = place[i] + Len(m.args[i]) + 1
            /\ place[i] + Len(m.args[i]) <= Len(cmd.call)
            /\ cmd.call[place[i] + Len(m.args[i])] = IF i = n THEN ")" ELSE Comma
      /\ \A p \in 1..Len(cmd.call) : Peek(p) = cmd.call[p] /\ Peek(p) # "EOF" /\ Peek(p) \in STRING
  BY ReadingFacts
<1>3. /\ k \in Nat /\ k <= n /\ Len(builder.types) = Len(m.types) /\ builder.name = m.name
      /\ pos \in Nat \ {0}
  BY <1>1 DEF SoFar, Reading
<1> HIDE DEF k, n, arg
<1>4. ASSUME Peek(pos) = ")", k = n PROVE SoFar(m, place)'
  <2>1. phase' = "options" /\ builder' = builder
    BY CommaFacts, <1>1, <1>4 DEF ParseArgs, ArgumentsDone
  <2> QED
    BY <1>1, <1>4, <2>1 DEF SoFar, k, n
<1>5. CASE n = 0 /\ pos = place[1]
  <2>1. place[1] = OpenAt(m) + 1 /\ cmd.call[place[1]] = ")"
    BY <1>5 DEF Reading, ArgumentsAt, n
  <2>2. pos \in 1..Len(cmd.call)
    BY <2>1, <1>2, <1>5
  <2>3. Peek(pos) = ")"
    BY <2>1, <2>2, <1>2, <1>5
  <2> QED
    BY <2>3, <1>3, <1>4, <1>5
<1>6. CASE k < n /\ pos = place[k + 1]
  <2>1. k + 1 \in 1..n
    BY <1>2, <1>3, <1>6
  <2>2. /\ arg \in Seq(STRING) /\ Len(arg) \in Nat \ {0} /\ pos \in Nat \ {0}
        /\ IsVector(arg) \/ IsScalar(arg)
        /\ pos + Len(arg) <= Len(cmd.call)
    <3>1. k + 1 \in 1..(n + 1)
      BY <2>1, <1>2
    <3> QED
      BY <2>1, <3>1, <1>2, <1>6 DEF arg
  <2>3. pos \in 1..Len(cmd.call)
    BY <2>2, <1>2
  <2>4. cmd.call[pos] = arg[1]
    <3>1. \A i \in 1..n : \A j \in 1..Len(m.args[i]) : cmd.call[place[i] + j - 1] = m.args[i][j]
      BY DEF Reading, ArgumentsAt, n
    <3>2. 1 \in 1..Len(arg) /\ pos + 1 - 1 = pos
      BY <2>2
    <3>3. cmd.call[place[k + 1] + 1 - 1] = arg[1]
      BY <2>1, <3>1, <3>2 DEF arg
    <3> QED
      BY <3>2, <3>3, <1>6
  <2>5. Peek(pos) = arg[1] /\ arg[1] # "EOF" /\ arg[1] \in STRING
    BY <2>3, <2>4, <1>2
  <2>6. CASE IsVector(arg)
    <3>1. Len(arg) >= 2 /\ arg[1] = "["
      BY <2>6 DEF IsVector
    <3>2. Advance("bracket", <<"[">>, builder)
      BY <2>5, <3>1, <1>1 DEF ParseArgs
    <3>3. pos' = pos + 1 /\ phase' = "bracket" /\ token' = <<"[">> /\ builder' = builder
      BY <3>2, <2>3, <1>2, AdvanceStep
    <3>4. token' \in Seq(STRING) /\ Len(token') = 1 /\ \A j \in 1..1 : token'[j] = arg[j]
      <4>1. token' = <<arg[1]>>
        BY <3>1, <3>3
      <4> QED
        BY <2>5, <4>1
    <3>5. pos' = place[k + 1] + Len(token') /\ Len(token') \in 1..Len(arg) /\ Len(token') < Len(arg)
      BY <2>2, <3>1, <3>3, <3>4, <1>6
    <3> QED
      BY <1>1, <1>3, <1>6, <2>6, <3>3, <3>4, <3>5 DEF SoFar, k, n, arg
  <2>7. CASE IsScalar(arg)
    <3>1. arg[1] \notin {"[", Comma, ")"}
      <4>1. 1 \in DOMAIN arg
        BY <2>2
      <4> QED
        BY <4>1, <2>7 DEF IsScalar
    <3>2. Advance("scalar", <<arg[1]>>, builder)
      BY <2>5, <3>1, <1>1 DEF ParseArgs
    <3>3. pos' = pos + 1 /\ phase' = "scalar" /\ token' = <<arg[1]>> /\ builder' = builder
      BY <3>2, <2>3, <1>2, AdvanceStep
    <3>4. token' \in Seq(STRING) /\ Len(token') = 1 /\ \A j \in 1..1 : token'[j] = arg[j]
      BY <2>5, <3>3
    <3>5. pos' = place[k + 1] + Len(token') /\ Len(token') \in 1..Len(arg)
      BY <2>2, <3>3, <3>4, <1>6
    <3> QED
      BY <1>1, <1>3, <1>6, <2>7, <3>3, <3>4, <3>5 DEF SoFar, k, n, arg
  <2> QED
    BY <2>2, <2>6, <2>7
<1>7. CASE k > 0 /\ pos + 1 = place[k + 1]
  <2>1. k \in 1..n /\ k \in 1..(n + 1) /\ pos \in Int
    BY <1>2, <1>3, <1>7
  <2>2. pos = place[k] + Len(m.args[k]) /\ pos \in 1..Len(cmd.call)
    <3>1. /\ place[k] \in Nat /\ Len(m.args[k]) \in Nat
          /\ place[k + 1] = place[k] + Len(m.args[k]) + 1
          /\ place[k] + Len(m.args[k]) <= Len(cmd.call)
      BY <2>1, <1>2
    <3>2. pos + 1 = place[k + 1] /\ pos \in Nat \ {0} /\ Len(cmd.call) \in Nat
      BY <1>2, <1>3, <1>7
    <3>3. PICK l \in Nat : l = Len(m.args[k])
      BY <3>1
    <3>4. pos + 1 = place[k] + l + 1 /\ place[k] + l <= Len(cmd.call) /\ place[k] \in Nat
      BY <3>1, <3>2, <3>3
    <3>5. pos = place[k] + l /\ pos \in 1..Len(cmd.call)
      BY <3>2, <3>4
    <3> QED
      BY <3>3, <3>5
  <2>3. Peek(pos) = IF k = n THEN ")" ELSE Comma
    BY <2>1, <2>2, <1>2
  <2>4. CASE k = n
    BY <2>3, <2>4, <1>4
  <2>5. CASE k # n
    <3>1. Advance("args", <<>>, builder)
      BY CommaFacts, <2>3, <2>5 DEF ParseArgs
    <3>2. pos' = pos + 1 /\ phase' = "args" /\ builder' = builder
      BY <3>1, <2>2, <1>2, AdvanceStep
    <3>3. pos' = place[k + 1] /\ k < n
      BY <3>2, <2>5, <1>2, <1>3, <1>7
    <3> QED
      BY <1>1, <1>3, <3>2, <3>3 DEF SoFar, k, n
  <2> QED
    BY <2>4, <2>5
<1> QED
  <2>1. \/ pos = place[k + 1] /\ (k < n \/ n = 0)
        \/ pos + 1 = place[k + 1] /\ k > 0
    BY <1>1 DEF SoFar, k, n
  <2>2. n = 0 => k + 1 = 1
    BY <1>2, <1>3
  <2> QED
    BY <2>1, <2>2, <1>5, <1>6, <1>7

\* Within an argument: where the lexer is and what it sees.
LEMMA WithinArgument ==
    ASSUME NEW m, NEW place, Reading(m, place), phase \in {"bracket", "scalar"}
    PROVE  LET k == Len(builder.args)
               n == Len(m.args)
               arg == m.args[k + 1]
               l == Len(token)
           IN  /\ k \in Nat /\ n \in Nat /\ k < n
               /\ arg \in Seq(STRING) /\ Len(arg) \in Nat
               /\ token \in Seq(STRING) /\ l \in 1..Len(arg)
               /\ \A j \in 1..l : token[j] = arg[j]
               /\ Len(cmd.call) \in Nat /\ pos \in 1..Len(cmd.call)
               /\ place[k + 1] \in Nat /\ pos = place[k + 1] + l
               /\ place[k + 2] = place[k + 1] + Len(arg) + 1
               /\ l < Len(arg) => Peek(pos) = arg[l + 1] /\ Peek(pos) # "EOF"
               /\ l = Len(arg) => Peek(pos) = IF k + 1 = n THEN ")" ELSE Comma
<1> DEFINE k == Len(builder.args)
           n == Len(m.args)
           arg == m.args[k + 1]
           l == Len(token)
<1>1. /\ k \in Nat /\ k < n
      /\ token \in Seq(STRING) /\ l \in 1..Len(arg)
      /\ \A j \in 1..l : token[j] = arg[j]
      /\ pos = place[k + 1] + l
  BY DEF Reading, SoFar
<1>2. /\ n \in Nat /\ Len(cmd.call) \in Nat
      /\ \A i \in 1..(n + 1) : place[i] \in Nat \ {0}
      /\ \A i \in 1..n :
            /\ m.args[i] \in Seq(STRING) /\ Len(m.args[i]) \in Nat \ {0}
            /\ place[i + 1] = place[i] + Len(m.args[i]) + 1
            /\ place[i] + Len(m.args[i]) <= Len(cmd.call)
            /\ cmd.call[place[i] + Len(m.args[i])] = IF i = n THEN ")" ELSE Comma
      /\ \A p \in 1..Len(cmd.call) : Peek(p) = cmd.call[p] /\ Peek(p) # "EOF"
  BY ReadingFacts
<1>3. \A i \in 1..n : \A j \in 1..Len(m.args[i]) : cmd.call[place[i] + j - 1] = m.args[i][j]
  BY DEF Reading, ArgumentsAt
<1>4. l \in Nat
  BY <1>1
<1> HIDE DEF k, n, l
<1>5. k + 1 \in 1..n /\ k + 1 \in 1..(n + 1) /\ (k + 1) + 1 = k + 2
  BY <1>1, <1>2
<1>6. /\ arg \in Seq(STRING) /\ Len(arg) \in Nat /\ place[k + 1] \in Nat \ {0}
      /\ place[k + 2] = place[k + 1] + Len(arg) + 1
      /\ place[k + 1] + Len(arg) <= Len(cmd.call)
      /\ cmd.call[place[k + 1] + Len(arg)] = IF k + 1 = n THEN ")" ELSE Comma
  BY <1>2, <1>5
<1>7. \A j \in 1..Len(arg) : cmd.call[place[k + 1] + j - 1] = arg[j]
  BY <1>3, <1>5
<1> HIDE DEF arg
<1>8. pos \in 1..Len(cmd.call)
  <2>1. pos = place[k + 1] + l /\ l \in 1..Len(arg) /\ Len(cmd.call) \in Nat
    BY <1>1, <1>2
  <2>2. Len(arg) \in Nat /\ place[k + 1] \in Nat \ {0} /\ place[k + 1] + Len(arg) <= Len(cmd.call)
    BY <1>6
  <2> QED
    BY <2>1, <2>2
<1>9. ASSUME l < Len(arg) PROVE Peek(pos) = arg[l + 1]
  <2>1. l + 1 \in 1..Len(arg) /\ place[k + 1] + (l + 1) - 1 = pos
    BY <1>1, <1>4, <1>6, <1>9
  <2>2. cmd.call[place[k + 1] + (l + 1) - 1] = arg[l + 1]
    BY <2>1, <1>7
  <2> QED
    BY <2>1, <2>2, <1>2, <1>8
<1>10. ASSUME l = Len(arg) PROVE Peek(pos) = IF k + 1 = n THEN ")" ELSE Comma
  BY <1>1, <1>2, <1>6, <1>8, <1>10
<1>11. Peek(pos) # "EOF"
  BY <1>2, <1>8
<1> QED
  BY <1>1, <1>2, <1>6, <1>8, <1>9, <1>10, <1>11 DEF k, n, arg, l

LEMMA BracketUnderstood ==
    ASSUME NEW m, NEW place, Reading(m, place), ParseBracket, phase' # "idle"
    PROVE  SoFar(m, place)'
<1> DEFINE k == Len(builder.args)
           n == Len(m.args)
           arg == m.args[k + 1]
           l == Len(token)
<1>1. phase = "bracket" /\ SoFar(m, place)
  BY DEF Reading, ParseBracket
<1>2. IsVector(arg) /\ l < Len(arg) /\ Len(builder.types) = Len(m.types) /\ builder.name = m.name
  BY <1>1 DEF SoFar
<1>3. /\ k \in Nat /\ n \in Nat /\ k < n
      /\ arg \in Seq(STRING) /\ Len(arg) \in Nat
      /\ token \in Seq(STRING) /\ l \in 1..Len(arg)
      /\ \A j \in 1..l : token[j] = arg[j]
      /\ Len(cmd.call) \in Nat /\ pos \in 1..Len(cmd.call)
      /\ place[k + 1] \in Nat /\ pos = place[k + 1] + l
      /\ place[k + 2] = place[k + 1] + Len(arg) + 1
      /\ Peek(pos) = arg[l + 1] /\ Peek(pos) # "EOF"
  BY <1>1, <1>2, WithinArgument
<1> HIDE DEF k, n, arg, l
<1>4. /\ k \in Nat /\ n \in Nat /\ k < n /\ Len(arg) \in Nat /\ l \in 1..Len(arg)
      /\ place[k + 1] \in Nat /\ pos = place[k + 1] + l
      /\ place[k + 2] = place[k + 1] + Len(arg) + 1
  BY <1>3
<1>5. CASE Peek(pos) = "]"
  <2>1. l + 1 = Len(arg)
    <3>1. \A j \in 2..(Len(arg) - 1) : arg[j] # "]"
      BY <1>2 DEF IsVector
    <3>2. l + 1 >= 2 /\ l + 1 <= Len(arg)
      BY <1>2, <1>4
    <3>3. arg[l + 1] = "]"
      BY <1>3, <1>5
    <3> QED
      BY <3>1, <3>2, <3>3, <1>4
  <2>2. Append(token, "]") = arg
    <3>1. /\ arg \in Seq(STRING) /\ token \in Seq(STRING) /\ Len(token) < Len(arg)
          /\ \A j \in 1..Len(token) : token[j] = arg[j]
      BY <1>2, <1>3 DEF l
    <3>2. "]" = arg[Len(token) + 1] /\ Len(token) + 1 = Len(arg)
      BY <2>1, <1>3, <1>5 DEF l
    <3> QED
      BY <3>1, <3>2, TokenGrows
  <2>3. Advance("args", <<>>, WithArg(arg))
    BY <2>2, <1>5 DEF ParseBracket
  <2>4. pos' = pos + 1 /\ phase' = "args" /\ builder' = WithArg(arg)
    BY <2>3, <1>3, AdvanceStep
  <2>5. /\ builder'.name = builder.name /\ builder'.types = builder.types
        /\ Len(builder'.args) = k + 1 /\ DOMAIN builder'.args = 1..(k + 1)
        /\ \E S : builder'.args \in Seq(S)
        /\ \A i \in 1..(k + 1) : builder'.args[i] = m.args[i]
    BY <2>4, <1>3, ArgumentKept DEF k, n, arg, l
  <2>6. pos' + 1 = place[(k + 1) + 1]
    <3>1. (k + 1) + 1 = k + 2
      BY <1>4
    <3>2. pos' + 1 = place[k + 1] + Len(arg) + 1
      <4>1. pos' = pos + 1 /\ pos = place[k + 1] + l /\ Len(arg) = l + 1
        BY <2>1, <2>4, <1>4, Zenon
      <4>2. place[k + 1] \in Nat /\ l \in Nat
        BY <1>4
      <4> QED
        BY <4>1, <4>2
    <3> QED
      BY <3>1, <3>2, <1>4, Zenon
  <2>7. k + 1 \in Nat /\ k + 1 <= n /\ k + 1 > 0
    BY <1>4
  <2> QED
    BY <1>1, <1>2, <2>4, <2>5, <2>6, <2>7 DEF SoFar, k, n, arg, l
<1>6. CASE Peek(pos) # "]"
  <2>1. l + 1 # Len(arg)
    <3>1. arg[Len(arg)] = "]"
      BY <1>2 DEF IsVector
    <3> QED
      BY <3>1, <1>3, <1>6
  <2>2. Text(Peek(pos)) = <<arg[l + 1]>>
    BY <1>3 DEF Text
  <2>3. Advance("bracket", token \o <<arg[l + 1]>>, builder)
    BY <2>2, <1>6 DEF ParseBracket
  <2>4. /\ pos' = pos + 1 /\ phase' = "bracket" /\ builder' = builder
        /\ token' = token \o <<arg[l + 1]>>
    BY <2>3, <1>3, AdvanceStep
  <2>5. /\ token' \in Seq(STRING) /\ Len(token') = l + 1
        /\ \A j \in 1..(l + 1) : token'[j] = arg[j]
    <3>1. /\ arg \in Seq(STRING) /\ token \in Seq(STRING) /\ Len(token) < Len(arg)
          /\ \A j \in 1..Len(token) : token[j] = arg[j]
      BY <1>2, <1>3 DEF l
    <3>2. /\ token \o <<arg[l + 1]>> \in Seq(STRING) /\ Len(token \o <<arg[l + 1]>>) = l + 1
          /\ \A j \in 1..(l + 1) : (token \o <<arg[l + 1]>>)[j] = arg[j]
      BY <3>1, TokenGrows DEF l
    <3> QED
      BY <2>4, <3>2, Zenon
  <2>6. pos' = place[k + 1] + (l + 1) /\ l + 1 \in 1..Len(arg) /\ l + 1 < Len(arg)
    <3>1. pos' = pos + 1
      BY <2>4
    <3>2. PICK a \in Nat : a = Len(arg)
      BY <1>4
    <3>3. /\ l < a /\ l + 1 # a /\ l \in 1..a
          /\ place[k + 1] \in Nat /\ pos = place[k + 1] + l
      BY <2>1, <3>2, <1>2, <1>4
    <3>4. pos' = place[k + 1] + (l + 1) /\ l + 1 \in 1..a /\ l + 1 < a
      BY <3>1, <3>3
    <3> QED
      BY <3>2, <3>4
  <2> QED
    BY <1>1, <1>2, <1>3, <2>4, <2>5, <2>6 DEF SoFar, k, n, arg, l
<1> QED
  BY <1>5, <1>6

LEMMA ScalarUnderstood ==
    ASSUME NEW m, NEW place, Reading(m, place), ParseScalar, phase' # "idle"
    PROVE  SoFar(m, place)'
<1> DEFINE k == Len(builder.args)
           n == Len(m.args)
           arg == m.args[k + 1]
           l == Len(token)
<1>1. phase = "scalar" /\ SoFar(m, place)
  BY DEF Reading, ParseScalar
<1>2. IsScalar(arg) /\ Len(builder.types) = Len(m.types) /\ builder.name = m.name
  BY <1>1 DEF SoFar
<1>3. /\ k \in Nat /\ n \in Nat /\ k < n
      /\ arg \in Seq(STRING) /\ Len(arg) \in Nat
      /\ token \in Seq(STRING) /\ l \in 1..Len(arg)
      /\ \A j \in 1..l : token[j] = arg[j]
      /\ Len(cmd.call) \in Nat /\ pos \in 1..Len(cmd.call)
      /\ place[k + 1] \in Nat /\ pos = place[k + 1] + l
      /\ place[k + 2] = place[k + 1] + Len(arg) + 1
      /\ l < Len(arg) => Peek(pos) = arg[l + 1] /\ Peek(pos) # "EOF"
      /\ l = Len(arg) => Peek(pos) = IF k + 1 = n THEN ")" ELSE Comma
  BY <1>1, WithinArgument
<1> HIDE DEF k, n, arg, l
<1>4. ASSUME l = Len(arg), builder' = WithArg(arg)
      PROVE  /\ builder'.name = m.name /\ builder'.types = builder.types
             /\ Len(builder'.args) = k + 1 /\ DOMAIN builder'.args = 1..(k + 1)
             /\ \E S : builder'.args \in Seq(S)
             /\ \A i \in 1..(k + 1) : builder'.args[i] = m.args[i]
             /\ k + 1 \in Nat /\ k + 1 <= n /\ k + 1 > 0
  <2>1. Len(builder.args) < Len(m.args) /\ builder' = WithArg(m.args[Len(builder.args) + 1])
    BY <1>3, <1>4 DEF k, n, arg
  <2>2. /\ builder'.name = builder.name /\ builder'.types = builder.types
        /\ Len(builder'.args) = k + 1 /\ DOMAIN builder'.args = 1..(k + 1)
        /\ \E S : builder'.args \in Seq(S)
        /\ \A i \in 1..(k + 1) : builder'.args[i] = m.args[i]
    BY <2>1, ArgumentKept, Zenon DEF k
  <2> QED
    BY <1>2, <1>3, <2>2
<1>5. CASE l = Len(arg)
  <2>1. token = arg
    BY <1>3, <1>5, SeqEqual DEF l
  <2>2. CASE k + 1 = n
    <3>1. Peek(pos) = ")"
      BY <2>2, <1>3, <1>5
    <3>2. ArgumentsDone(WithArg(arg))
      BY <2>1, <3>1, CommaFacts DEF ParseScalar
    <3>3. phase' = "options" /\ builder' = WithArg(arg)
      BY <3>2 DEF ArgumentsDone
    <3> QED
      BY <1>1, <1>2, <1>4, <1>5, <2>2, <3>3 DEF SoFar, k, n, arg, l
  <2>3. CASE k + 1 # n
    <3>1. Peek(pos) = Comma
      BY <2>3, <1>3, <1>5
    <3>2. Advance("args", <<>>, WithArg(arg))
      BY <2>1, <3>1, CommaFacts DEF ParseScalar
    <3>3. pos' = pos + 1 /\ phase' = "args" /\ builder' = WithArg(arg)
      BY <3>2, <1>3, AdvanceStep
    <3>4. pos' = place[(k + 1) + 1] /\ k + 1 < n
      BY <3>3, <1>3, <1>5, <2>3
    <3> QED
      BY <1>1, <1>2, <1>4, <1>5, <3>3, <3>4 DEF SoFar, k, n, arg, l
  <2> QED
    BY <2>2, <2>3
<1>6. CASE l # Len(arg)
  <2>1. l < Len(arg) /\ l + 1 \in 1..Len(arg) /\ l + 1 \in DOMAIN arg
    BY <1>3, <1>6
  <2>2. Peek(pos) = arg[l + 1] /\ Peek(pos) # "EOF" /\ Peek(pos) \notin {Comma, ")"}
    BY <2>1, <1>2, <1>3 DEF IsScalar
  <2>3. Text(Peek(pos)) = <<arg[l + 1]>>
    BY <2>2 DEF Text
  <2>4. Advance("scalar", token \o <<arg[l + 1]>>, builder)
    BY <2>2, <2>3 DEF ParseScalar
  <2>5. /\ pos' = pos + 1 /\ phase' = "scalar" /\ builder' = builder
        /\ token' = token \o <<arg[l + 1]>>
    BY <2>4, <1>3, AdvanceStep
  <2>6. /\ token' \in Seq(STRING) /\ Len(token') = l + 1
        /\ \A j \in 1..(l + 1) : token'[j] = arg[j]
    <3>1. /\ arg \in Seq(STRING) /\ token \in Seq(STRING) /\ Len(token) < Len(arg)
          /\ \A j \in 1..Len(token) : token[j] = arg[j]
      BY <2>1, <1>3 DEF l
    <3>2. /\ token \o <<arg[l + 1]>> \in Seq(STRING) /\ Len(token \o <<arg[l + 1]>>) = l + 1
          /\ \A j \in 1..(l + 1) : (token \o <<arg[l + 1]>>)[j] = arg[j]
      BY <3>1, TokenGrows DEF l
    <3> QED
      BY <2>5, <3>2, Zenon
  <2>7. pos' = place[k + 1] + (l + 1)
    <3>1. pos = place[k + 1] + l /\ place[k + 1] \in Nat /\ l \in 1..Len(arg) /\ Len(arg) \in Nat
      BY <1>3
    <3>2. pos' = pos + 1
      BY <2>5
    <3> QED
      BY <3>1, <3>2
  <2> QED
    BY <1>1, <1>2, <1>3, <2>1, <2>5, <2>6, <2>7 DEF SoFar, k, n, arg, l
<1> QED
  BY <1>5, <1>6

\* A step that reads the call.
LEMMA ParseUnderstood ==
    ASSUME IInv, Understanding, Parse
    PROVE  Understanding'
<1> SUFFICES ASSUME (phase \in Parsing \cup {"options"})', (cmd.call # None)', (cmd.meant # None)'
             PROVE  \E place \in Places' : ArgumentsAt(cmd.call, cmd.meant, place)' /\ SoFar(cmd.meant, place)'
  BY DEF Understanding
<1>1. phase \in Parsing
  BY DEF Parse, ParseName, ParseOpen, ParseTypes, ParseArgs, ParseBracket, ParseScalar, Parsing
<1>2. phase' # "idle"
  BY DEF Parsing
<1>3. cmd' = cmd
  BY DEF Parse, ParseName, ParseOpen, ParseTypes, ParseArgs, ParseBracket, ParseScalar, Advance, Fail,
         ArgumentsDone
<1>4. cmd.call # None /\ cmd.meant # None /\ cmd \in Commands
  BY <1>1, <1>3 DEF IInv, Shapes, Parsing
<1>5. PICK m : m = cmd.meant
  OBVIOUS
<1>6. PICK place \in Places : ArgumentsAt(cmd.call, m, place) /\ SoFar(m, place)
  BY <1>1, <1>4, <1>5 DEF Understanding
<1>7. Reading(m, place)
  <2>1. cmd.call \in Seq(STRING \ {"EOF"}) /\ Written(cmd.call, m)
    BY <1>4, <1>5, CommandsAssumption, MeantAssumption
  <2>2. /\ pos \in Nat \ {0}
        /\ builder = [name |-> builder.name, types |-> builder.types, args |-> builder.args]
    BY DEF IInv, TypeOK, Shapes
  <2>3. place \in [1..(Len(m.args) + 1) -> 1..(Len(cmd.call) + 1)]
    BY <1>5 DEF Places
  <2> QED
    BY <1>1, <1>6, <2>1, <2>2, <2>3 DEF Reading
<1>8. SoFar(m, place)'
  BY <1>2, <1>7, NameUnderstood, OpenUnderstood, TypesUnderstood, ArgsUnderstood, BracketUnderstood,
     ScalarUnderstood DEF Parse
<1>9. m = cmd'.meant /\ cmd'.call = cmd.call /\ place \in Places'
  BY <1>3, <1>5 DEF Places
<1>10. ArgumentsAt(cmd'.call, cmd'.meant, place)
  BY <1>6, <1>9
<1>11. SoFar(cmd.meant, place)'
  BY <1>8, <1>9 DEF SoFar
<1> QED
  BY <1>9, <1>10, <1>11

\* Every step keeps what was understood.
LEMMA NextUnderstanding == IInv /\ Understanding /\ [Next]_vars => Understanding'
<1> SUFFICES ASSUME IInv, Understanding, [Next]_vars PROVE Understanding'
  OBVIOUS
<1>1. CASE Parse
  BY <1>1, ParseUnderstood
<1>2. ASSUME NEW c \in Commands, Start(c) PROVE Understanding'
  <2>1. /\ cmd' = c /\ pos' = 1 /\ phase' = IF c.call = None THEN "options" ELSE "name"
        /\ builder' = [name |-> None, types |-> <<>>, args |-> <<>>]
    BY <1>2 DEF Start
  <2> SUFFICES ASSUME c.call # None, c.meant # None
               PROVE  \E place \in Places' : ArgumentsAt(c.call, c.meant, place) /\ SoFar(c.meant, place)'
    BY <2>1 DEF Understanding, ArgumentsAt
  <2>2. Written(c.call, c.meant)
    BY MeantAssumption
  <2>3. PICK place \in [1..(Len(c.meant.args) + 1) -> 1..(Len(c.call) + 1)] : ArgumentsAt(c.call, c.meant, place)
    BY <2>2 DEF Written
  <2>4. c.meant.args \in Seq(Seq(STRING)) /\ c.meant.types \in Seq({"type"})
    BY <2>2 DEF Written
  <2>5. Len(c.meant.args) \in Nat /\ Len(c.meant.types) \in Nat
    BY <2>4
  <2>6. /\ phase' = "name" /\ builder'.args = <<>> /\ builder'.types = <<>>
        /\ <<>> \in Seq({"type"}) /\ Len(<<>>) = 0 /\ DOMAIN <<>> = 1..0
    BY <2>1
  <2>7. SoFar(c.meant, place)'
    BY <2>1, <2>5, <2>6 DEF SoFar
  <2> QED
    BY <2>1, <2>3, <2>7 DEF Places
<1>3. CASE Edit
  BY <1>3 DEF Edit, Understanding, Parsing
<1>4. CASE Kill
  BY <1>4 DEF Kill, Understanding, Parsing
<1>5. CASE Build
  <2>1. phase' \notin Parsing \cup {"options"}
    BY <1>5 DEF Build, Options, TypeOption, Fail, LookupByFile, LookupByName, LookupOnly, Found, Compile,
           CheckTypes, TakeSigner, TakeArgument, Taken, ArgumentsTaken, RemoveOld, CreateNew, StoreTransaction,
           StorageFails, Parsing
  <2> QED
    BY <2>1 DEF Understanding
<1>6. CASE UNCHANGED vars
  <2>1. UNCHANGED <<phase, cmd, pos, token, builder>>
    BY <1>6 DEF vars
  <2>2. Places' = Places
    BY <2>1 DEF Places
  <2>3. ASSUME NEW place, SoFar(cmd.meant, place) PROVE SoFar(cmd.meant, place)'
    BY <2>1, <2>3 DEF SoFar
  <2>4. ASSUME NEW place, ArgumentsAt(cmd.call, cmd.meant, place)
        PROVE  ArgumentsAt(cmd.call, cmd.meant, place)'
    BY <2>1, <2>4 DEF ArgumentsAt
  <2> QED
    BY <2>1, <2>2, <2>3, <2>4 DEF Understanding
<1> QED
  BY <1>1, <1>2, <1>3, <1>4, <1>5, <1>6 DEF Next

LEMMA AlwaysUnderstanding == Spec => []Understanding
<1>1. Init => Understanding
  BY DEF Init, Understanding, Parsing
<1> QED
  BY AlwaysIInv, NextUnderstanding, <1>1, PTL DEF Spec

-----------------------------------------------------------------------------
(* The theorems *)

(***************************************************************************)
(* For every directory and command: the variables keep their types, and    *)
(* only an identifier becomes the name of the script (ct.rs:103).          *)
(***************************************************************************)
THEOREM TypeCorrect == Spec => []TypeOK
BY AlwaysIInv, PTL DEF IInv

(***************************************************************************)
(* For every directory and sequence of commands, edits and interruptions:  *)
(* a transaction that is stored is a call of the script it carries, with   *)
(* as many signers, types and arguments as that has, each argument read as *)
(* the type of its parameter (prepare_arguments and build, ct.rs:377).     *)
(***************************************************************************)
THEOREM StoredIsCallableTheorem == Spec => []StoredIsCallable
BY AlwaysIInv, PTL DEF IInv

(***************************************************************************)
(* For every directory: a command that gives a name and no file stores a   *)
(* transaction only for the one script of that name (lookup_script).       *)
(***************************************************************************)
THEOREM NameIsUniqueTheorem == Spec => []NameIsUnique
<1>1. IInv => NameIsUnique
  BY DEF IInv, NamedOnce, NameIsUnique, Building, Storing
<1> QED
  BY AlwaysIInv, <1>1, PTL

(***************************************************************************)
(* For every command: one that ends well stores one transaction, and one   *)
(* that fails, panics or is killed harms at most the transaction it was    *)
(* about to replace, and that only once every check has passed, whichever  *)
(* step of store_transaction is refused or cut off (ct.rs:613-627).        *)
(***************************************************************************)
THEOREM FailureKeepsTransactionsTheorem == Spec => []FailureKeepsTransactions
BY AlwaysIInv, PTL DEF IInv

(***************************************************************************)
(* For every call that is written out as name<types>(arguments), with any  *)
(* number of types and arguments and vectors of any length: what the       *)
(* parser has when it comes to the options is what the call stands for,    *)
(* every argument whole and in its place (parse_call, ct.rs:103).          *)
(***************************************************************************)
THEOREM CallUnderstoodTheorem == Spec => []CallUnderstood
<1>1. IInv /\ Understanding => CallUnderstood
  <2> SUFFICES ASSUME IInv, Understanding, phase = "options", cmd.call # None, cmd.meant # None
               PROVE  builder = cmd.meant
    BY DEF CallUnderstood
  <2>1. PICK place : SoFar(cmd.meant, place)
    BY DEF Understanding
  <2>2. Written(cmd.call, cmd.meant)
    BY MeantAssumption DEF IInv, Shapes
  <2>3. /\ cmd.meant = [name |-> cmd.meant.name, types |-> cmd.meant.types, args |-> cmd.meant.args]
        /\ cmd.meant.types \in Seq({"type"}) /\ cmd.meant.args \in Seq(Seq(STRING))
    BY <2>2 DEF Written
  <2>4. /\ builder.name = cmd.meant.name
        /\ builder.types \in Seq({"type"}) /\ Len(builder.types) = Len(cmd.meant.types)
        /\ \E S : builder.args \in Seq(S)
        /\ Len(builder.args) = Len(cmd.meant.args)
        /\ \A i \in 1..Len(cmd.meant.args) : builder.args[i] = cmd.meant.args[i]
    BY <2>1 DEF SoFar
  <2>5. builder.types = cmd.meant.types
    <3>1. \A i \in 1..Len(cmd.meant.types) : builder.types[i] = "type" /\ cmd.meant.types[i] = "type"
      BY <2>3, <2>4
    <3> QED
      BY <2>3, <2>4, <3>1, SeqEqual
  <2>6. builder.args = cmd.meant.args
    <3>1. PICK S : builder.args \in Seq(S)
      BY <2>4
    <3>2. PICK T : T = S \cup Seq(STRING)
      OBVIOUS
    <3>3. builder.args \in Seq(T) /\ cmd.meant.args \in Seq(T)
      BY <2>3, <3>1, <3>2
    <3> QED
      BY <2>4, <3>3, SeqEqual
  <2> QED
    BY <2>3, <2>4, <2>5, <2>6 DEF IInv, Shapes
<1> QED
  BY AlwaysIInv, AlwaysUnderstanding, <1>1, PTL
=============================================================================
