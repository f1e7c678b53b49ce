-------------------------- MODULE TransactionBuilder --------------------------
(***************************************************************************)
(* dove ct (dove/src/cmd/ct.rs): a call such as name<types>(arguments) is  *)
(* parsed token by token, options override its parts, a script is looked   *)
(* up, compiled, its parameters are matched with the arguments, and the    *)
(* transaction is stored under the name of the script.                     *)
(*                                                                         *)
(* A token is one of the punctuation strings below, "name", a type         *)
(* ("type"), or a value: "n" a number, "t" a truth value, "a" an address,  *)
(* "h" hexadecimal digits; "bad" is a character that is no token.  An      *)
(* argument is the sequence of tokens whose texts the code concatenates.   *)
(***************************************************************************)
EXTENDS Naturals, Sequences, SequencesExt, FiniteSetsExt

CONSTANTS
    Commands,       \* [call, meant, name, file, types, args]; meant is what the call stands for, if it is well formed
    Dirs,           \* contents of the script directory: functions from files to [parses, compiles, scripts]
    Names,          \* names of scripts
    None,           \* Option::None
    Damaged,        \* a transaction file whose write was cut off
    Budget          \* bound on the commands

VARIABLES
    dir,            \* the script directory
    tx,             \* target/transactions: the transaction stored for each name
    cmd, phase,     \* the command that runs and where it is
    pos,            \* position of the lexer in cmd.call
    token,          \* the text of the argument that is being read
    builder,        \* [name, types, args] of the TransactionBuilder
    script,         \* [file, meta] of the script that was found
    prepared,       \* [signers, values] of the parameters that prepare_arguments has folded
    outcome,        \* how the last command ended
    before,         \* history: tx when the command began
    budget

vars == <<dir, tx, cmd, phase, pos, token, builder, script, prepared, outcome, before, budget>>

ASSUME BudgetAssumption == Budget \in Nat

ASSUME NoneAssumption == None \notin Names \cup {"ok", "error", "panic", "killed"}

\* A directory has finitely many files, a file a list of scripts, and a script that compiles
\* at most 255 parameters, since the bytecode numbers its locals by one byte.
ASSUME DirsAssumption ==
    \A d \in Dirs :
        /\ IsFiniteSet(DOMAIN d)
        /\ \A file \in DOMAIN d :
              /\ d[file].scripts \in Seq([name : Names, types : Nat, params : Seq(STRING)])
              /\ d[file].compiles => \A i \in DOMAIN d[file].scripts : Len(d[file].scripts[i].params) <= 255

\* A call is a list of tokens, none of them the end of the input, and an option names a script
\* by an identifier.
ASSUME CommandsAssumption ==
    \A c \in Commands : /\ c.call = None \/ c.call \in Seq(STRING \ {"EOF"})
                        /\ c.name \in Names \cup {None}

Comma == ","

\* An argument, written out: a vector is in brackets, any other has neither comma nor parenthesis.
IsVector(arg) ==
    /\ Len(arg) >= 2 /\ arg[1] = "[" /\ arg[Len(arg)] = "]"
    /\ \A j \in 2..(Len(arg) - 1) : arg[j] # "]"
IsScalar(arg) == /\ arg # <<>> /\ arg[1] # "["
                 /\ \A j \in DOMAIN arg : arg[j] \notin {Comma, ")"}

\* The place of the parenthesis after name or name<type, ..., type>.
OpenAt(m) == IF m.types = <<>> THEN 2 ELSE 2 * Len(m.types) + 3

\* The call has argument i of m at place[i], with a comma or the closing parenthesis after it.
ArgumentsAt(call, m, place) ==
    LET n == Len(m.args)
    IN  /\ place[1] = OpenAt(m) + 1
        /\ n = 0 => call[place[1]] = ")"
        /\ \A i \in 1..n :
              /\ place[i + 1] = place[i] + Len(m.args[i]) + 1
              /\ place[i] + Len(m.args[i]) <= Len(call)
              /\ \A j \in 1..Len(m.args[i]) : call[place[i] + j - 1] = m.args[i][j]
              /\ call[place[i] + Len(m.args[i])] = IF i = n THEN ")" ELSE Comma

\* The call is name<types>(arguments), written out for m.
Written(call, m) ==
    /\ m = [name |-> m.name, types |-> m.types, args |-> m.args]
    /\ m.name \in Names /\ m.types \in Seq({"type"}) /\ m.args \in Seq(Seq(STRING))
    /\ \A i \in DOMAIN m.args : IsVector(m.args[i]) \/ IsScalar(m.args[i])
    /\ Len(call) > OpenAt(m)
    /\ call[1] = m.name /\ call[OpenAt(m)] = "("
    /\ m.types # <<>> => call[2] = "<"
    /\ \A k \in 1..Len(m.types) :
          call[2 * k + 1] = "type" /\ call[2 * k + 2] = IF k = Len(m.types) THEN ">" ELSE Comma
    /\ \E place \in [1..(Len(m.args) + 1) -> 1..(Len(call) + 1)] : ArgumentsAt(call, m, place)

\* What a command's call stands for is what is written out in it.
ASSUME MeantAssumption ==
    \A c \in Commands : c.call # None /\ c.meant # None => Written(c.call, c.meant)

-----------------------------------------------------------------------------
(* The command line *)

\* The token at a position; the lexer, external, stays at the end once it is there.
Peek(p) == IF p > Len(cmd.call) THEN "EOF" ELSE cmd.call[p]

Fail == /\ phase' = "idle" /\ outcome' = "error"
        /\ UNCHANGED <<dir, tx, cmd, pos, token, builder, script, prepared, before, budget>>

\* Moves the lexer and changes the parser; a character that is no token ends the command.
Advance(ph, tk, b) ==
    \/ /\ Peek(pos + 1) # "bad"
       /\ pos' = Min({pos + 1, Len(cmd.call) + 1})
       /\ phase' = ph /\ token' = tk /\ builder' = b
       /\ UNCHANGED <<dir, tx, cmd, script, prepared, outcome, before, budget>>
    \/ Peek(pos + 1) = "bad" /\ Fail

\* The options that are given replace what the call says.  A new lexer is before its first
\* token, and parse_type is called on it without an advance (ct.rs:83), so that it fails.
Options ==
    /\ phase = "options"
    /\ cmd.types = None
    /\ phase' = "lookup"
    /\ builder' = [builder EXCEPT !.name = IF cmd.name = None THEN @ ELSE cmd.name,
                                  !.args = IF cmd.args = None THEN @ ELSE cmd.args]
    /\ UNCHANGED <<dir, tx, cmd, pos, token, script, prepared, outcome, before, budget>>

TypeOption ==
    /\ phase = "options"
    /\ cmd.types # None
    /\ Fail

\* Mutant: any token is taken for the name.
ParseAnyName ==
    /\ phase = "name"
    /\ Advance("open", <<>>, [builder EXCEPT !.name = Peek(pos)])

ParseName ==
    /\ phase = "name"
    /\ IF Peek(pos) \in Names THEN Advance("open", <<>>, [builder EXCEPT !.name = Peek(pos)]) ELSE Fail

ParseOpen ==
    /\ phase \in {"open", "paren"}
    /\ CASE Peek(pos) = "<" /\ phase = "open" -> Advance("types", <<>>, builder)
         [] Peek(pos) = "("                   -> Advance("args", <<>>, builder)
         [] OTHER                             -> Fail

\* parse_type, external, reads one type.
ParseTypes ==
    /\ phase = "types"
    /\ CASE Peek(pos) = ">"    -> Advance("paren", <<>>, builder)
         [] Peek(pos) = Comma    -> Advance("types", <<>>, builder)
         [] Peek(pos) = "type" -> Advance("types", <<>>, [builder EXCEPT !.types = Append(@, "type")])
         [] OTHER              -> Fail

WithArg(arg) == [builder EXCEPT !.args = Append(@, arg)]

ArgumentsDone(b) ==
    /\ phase' = "options" /\ builder' = b /\ token' = <<>>
    /\ UNCHANGED <<dir, tx, cmd, pos, script, prepared, outcome, before, budget>>

ParseArgs ==
    /\ phase = "args"
    /\ CASE Peek(pos) = ")"   -> ArgumentsDone(builder)
         [] Peek(pos) = "EOF" -> Fail
         [] Peek(pos) = Comma   -> Advance("args", <<>>, builder)
         [] Peek(pos) = "["   -> Advance("bracket", <<"[">>, builder)
         [] OTHER             -> Advance("scalar", <<Peek(pos)>>, builder)

\* The text of the end of the input is empty.
Text(t) == IF t = "EOF" THEN <<>> ELSE <<t>>

\* Mutant: a comma ends a vector.
ParseBracketToComma ==
    /\ phase = "bracket"
    /\ IF Peek(pos) \in {"]", Comma} THEN Advance("args", <<>>, WithArg(Append(token, "]")))
                                   ELSE Advance("bracket", token \o Text(Peek(pos)), builder)

ParseBracket ==
    /\ phase = "bracket"
    /\ IF Peek(pos) = "]" THEN Advance("args", <<>>, WithArg(Append(token, "]")))
                          ELSE Advance("bracket", token \o Text(Peek(pos)), builder)

\* Mutant: the last argument is not ended by the closing parenthesis.
ParseScalarToComma ==
    /\ phase = "scalar"
    /\ IF Peek(pos) = Comma THEN Advance("args", <<>>, WithArg(token))
                          ELSE Advance("scalar", token \o Text(Peek(pos)), builder)

ParseScalar ==
    /\ phase = "scalar"
    /\ CASE Peek(pos) = ")" -> ArgumentsDone(WithArg(token))
         [] Peek(pos) = Comma -> Advance("args", <<>>, WithArg(token))
         [] OTHER           -> Advance("scalar", token \o Text(Peek(pos)), builder)

-----------------------------------------------------------------------------
(* The script *)

Found(f, meta) ==
    /\ script' = [file |-> f, meta |-> meta]
    /\ phase' = "compile"
    /\ UNCHANGED <<dir, tx, cmd, pos, token, builder, prepared, outcome, before, budget>>

Scripts(f) == IF dir[f].parses THEN dir[f].scripts ELSE <<>>

Named(f, name) == {i \in DOMAIN Scripts(f) : Scripts(f)[i].name = name}

\* The only script of the file, whatever its name, or the only one of the name.
LookupByFile ==
    /\ phase = "lookup" /\ cmd.file # None
    /\ LET given == cmd.file
           same  == Named(given, builder.name)
       IN  IF given \notin DOMAIN dir \/ Scripts(given) = <<>> THEN Fail
           ELSE CASE Len(Scripts(given)) = 1 -> Found(given, Scripts(given)[1])
                  [] Len(Scripts(given)) > 1 /\ Cardinality(same) > 1 -> Fail
                  [] Len(Scripts(given)) > 1 /\ Cardinality(same) = 1 -> Found(given, Scripts(given)[Min(same)])
                  [] OTHER ->    \* remove(0) of an empty vector
                       /\ phase' = "idle" /\ outcome' = "panic"
                       /\ UNCHANGED <<dir, tx, cmd, pos, token, builder, script, prepared, before, budget>>

\* Mutant: the first file that has the name is taken.
LookupFirst ==
    /\ phase = "lookup" /\ cmd.file = None /\ builder.name # None
    /\ LET files == {f \in DOMAIN dir : Named(f, builder.name) # {}} IN
       IF files # {} THEN \E f \in files : Found(f, Scripts(f)[1]) ELSE Fail

\* The files that cannot be parsed are passed over.
LookupByName ==
    /\ phase = "lookup" /\ cmd.file = None /\ builder.name # None
    /\ LET files == {f \in DOMAIN dir : Named(f, builder.name) # {}} IN
       IF Cardinality(files) = 1 /\ \A f \in files : Len(Scripts(f)) = 1
       THEN \E f \in files : Found(f, Scripts(f)[1])
       ELSE Fail

LookupOnly ==
    /\ phase = "lookup" /\ cmd.file = None /\ builder.name = None
    /\ IF Cardinality(DOMAIN dir) = 1 /\ \A f \in DOMAIN dir : Len(Scripts(f)) = 1
       THEN \E f \in DOMAIN dir : Found(f, Scripts(f)[1])
       ELSE Fail

\* Mutant: the old transaction is removed before the arguments are checked.
CompileAndRemove ==
    /\ phase = "compile"
    /\ IF dir[script.file].compiles
       THEN /\ phase' = "check"
            /\ tx' = [tx EXCEPT ![script.meta.name] = None]
            /\ UNCHANGED <<dir, cmd, pos, token, builder, script, prepared, outcome, before, budget>>
       ELSE Fail

Compile ==
    /\ phase = "compile"
    /\ IF dir[script.file].compiles
       THEN /\ phase' = "check"
            /\ UNCHANGED <<dir, tx, cmd, pos, token, builder, script, prepared, outcome, before, budget>>
       ELSE Fail

-----------------------------------------------------------------------------
(* The arguments *)

Numbers  == {"u8", "u64", "u128"}
Scalars  == Numbers \cup {"bool", "address"}
ElementOf == [t \in {"vector<u8>", "vector<u64>", "vector<u128>", "vector<address>"} |->
                CASE t = "vector<u8>" -> "u8" [] t = "vector<u64>" -> "u64"
                  [] t = "vector<u128>" -> "u128" [] OTHER -> "address"]

\* FromStr of a text made of the tokens of an argument.
ReadsAs(type, arg) ==
    CASE type \in Numbers   -> arg # <<>> /\ \A i \in DOMAIN arg : arg[i] = "n"
      [] type = "bool"      -> arg = <<"t">>
      [] type = "address"   -> arg = <<"a">>

\* parse_vec: elements up to the first bracket, commas or not.
ParseVec(arg, type) ==
    /\ arg # <<>> /\ arg[1] = "["
    /\ \E k \in DOMAIN arg :
         /\ arg[k] = "]"
         /\ \A i \in 2..(k - 1) : arg[i] = Comma \/ (arg[i] # "]" /\ ReadsAs(type, <<arg[i]>>))

IsHex(arg) == arg # <<>> /\ \A i \in DOMAIN arg : arg[i] = "h"

Accepts(type, arg) ==
    CASE type \in Scalars          -> ReadsAs(type, arg)
      [] type = "vector<u8>"       -> IF "[" \in ToSet(arg) THEN ParseVec(arg, "u8") ELSE IsHex(arg)
      [] type \in DOMAIN ElementOf -> ParseVec(arg, ElementOf[type])
      [] OTHER                     -> FALSE

CheckTypes ==
    /\ phase = "check"
    /\ IF script.meta.types = Len(builder.types)
       THEN /\ phase' = "arguments"
            /\ prepared' = [signers |-> 0, values |-> <<>>]
            /\ UNCHANGED <<dir, tx, cmd, pos, token, builder, script, outcome, before, budget>>
       ELSE Fail

\* The parameter that the fold of prepare_arguments comes to next.
Parameter == prepared.signers + Len(prepared.values) + 1

Taken(p) ==
    /\ prepared' = p
    /\ UNCHANGED <<dir, tx, cmd, phase, pos, token, builder, script, outcome, before, budget>>

\* Signers are counted; they take no argument.
TakeSigner ==
    /\ phase = "arguments" /\ Parameter <= Len(script.meta.params)
    /\ script.meta.params[Parameter] = "&signer"
    /\ Taken([prepared EXCEPT !.signers = @ + 1])

\* Mutant: the argument is taken whatever its text is.
TakeAnyArgument ==
    /\ phase = "arguments" /\ Parameter <= Len(script.meta.params)
    /\ script.meta.params[Parameter] # "&signer"
    /\ LET type == script.meta.params[Parameter]
           next == Len(prepared.values) + 1
       IN  IF next <= Len(builder.args)
           THEN Taken([prepared EXCEPT !.values = Append(@, [type |-> type, text |-> builder.args[next]])])
           ELSE Fail

\* Any other parameter takes the next argument, which has to be there and to read as its type.
TakeArgument ==
    /\ phase = "arguments" /\ Parameter <= Len(script.meta.params)
    /\ script.meta.params[Parameter] # "&signer"
    /\ LET type == script.meta.params[Parameter]
           next == Len(prepared.values) + 1
       IN  IF next <= Len(builder.args) /\ Accepts(type, builder.args[next])
           THEN Taken([prepared EXCEPT !.values = Append(@, [type |-> type, text |-> builder.args[next]])])
           ELSE Fail

\* An argument that is left over is an error.
ArgumentsTaken ==
    /\ phase = "arguments" /\ Parameter > Len(script.meta.params)
    /\ IF Len(builder.args) = Len(prepared.values)
       THEN /\ phase' = "remove"
            /\ UNCHANGED <<dir, tx, cmd, pos, token, builder, script, prepared, outcome, before, budget>>
       ELSE Fail

\* The number of signers is cut to one byte.
Transaction ==
    [code |-> script.meta, signers |-> prepared.signers % 256, args |-> prepared.values, types |-> builder.types]

\* store_transaction: an old file is removed, the new one is created, then written.
RemoveOld ==
    /\ phase = "remove"
    /\ tx' = [tx EXCEPT ![script.meta.name] = None]
    /\ phase' = "create"
    /\ UNCHANGED <<dir, cmd, pos, token, builder, script, prepared, outcome, before, budget>>

CreateNew ==
    /\ phase = "create"
    /\ tx' = [tx EXCEPT ![script.meta.name] = Damaged]
    /\ phase' = "write"
    /\ UNCHANGED <<dir, cmd, pos, token, builder, script, prepared, outcome, before, budget>>

StoreTransaction ==
    /\ phase = "write"
    /\ tx' = [tx EXCEPT ![script.meta.name] = Transaction]
    /\ phase' = "idle" /\ outcome' = "ok"
    /\ UNCHANGED <<dir, cmd, pos, token, builder, script, prepared, before, budget>>

\* Each step may be refused, and what it was to replace is not put back: the folder is not
\* made or the old file not removed; the transaction is not serialised or the file not
\* created; the file is not written to its end.
StorageFails == phase \in {"remove", "create", "write"} /\ Fail

-----------------------------------------------------------------------------

Start(c) ==
    /\ phase = "idle" /\ budget > 0
    /\ budget' = budget - 1
    /\ cmd' = c
    /\ phase' = IF c.call = None THEN "options" ELSE "name"
    /\ pos' = 1 /\ token' = <<>>
    /\ builder' = [name |-> None, types |-> <<>>, args |-> <<>>]
    /\ outcome' = None
    /\ before' = tx
    /\ UNCHANGED <<dir, tx, script, prepared>>

\* The user edits the scripts between two commands.
Edit ==
    /\ phase = "idle" /\ budget > 0
    /\ dir' \in Dirs
    /\ UNCHANGED <<tx, cmd, phase, pos, token, builder, script, prepared, outcome, before, budget>>

Kill ==
    /\ phase # "idle"
    /\ phase' = "idle" /\ outcome' = "killed"
    /\ UNCHANGED <<dir, tx, cmd, pos, token, builder, script, prepared, before, budget>>

Init ==
    /\ dir \in Dirs
    /\ tx = [n \in Names |-> None]
    /\ cmd = None /\ phase = "idle" /\ pos = 1 /\ token = <<>>
    /\ builder = [name |-> None, types |-> <<>>, args |-> <<>>]
    /\ script = None /\ prepared = [signers |-> 0, values |-> <<>>]
    /\ outcome = None /\ before = tx
    /\ budget = Budget

Parse == ParseName \/ ParseOpen \/ ParseTypes \/ ParseArgs \/ ParseBracket \/ ParseScalar

Build == \/ Options \/ TypeOption
         \/ LookupByFile \/ LookupByName \/ LookupOnly
         \/ Compile \/ CheckTypes
         \/ TakeSigner \/ TakeArgument \/ ArgumentsTaken
         \/ RemoveOld \/ CreateNew \/ StoreTransaction \/ StorageFails

Next == (\E c \in Commands : Start(c)) \/ Edit \/ Kill \/ Parse \/ Build

Spec == Init /\ [][Next]_vars

\* A command that runs goes on.
FairSpec == Spec /\ WF_vars(Parse \/ Build)

-----------------------------------------------------------------------------
(* Properties *)

Phases == {"idle", "name", "open", "types", "paren", "args", "bracket", "scalar", "options",
           "lookup", "compile", "check", "arguments", "remove", "create", "write"}

\* Every variable keeps its type, whatever tokens the call has: only an identifier becomes
\* the name of the script (parse_call, ct.rs).
TypeOK ==
    /\ phase \in Phases
    /\ DOMAIN tx = Names
    /\ pos \in Nat \ {0}
    /\ builder.name \in Names \cup {None}
    /\ prepared.signers \in Nat
    /\ outcome \in {None, "ok", "error", "panic", "killed"}
    /\ budget \in 0..Budget

\* A call that is written name<types>(arguments) is taken apart into just these, vectors with
\* the commas inside their brackets included (parse_call, ct.rs:103).
CallUnderstood ==
    phase = "options" /\ cmd.call # None /\ cmd.meant # None => builder = cmd.meant

\* The place of parameter k among the parameters that take an argument.
Rank(params, k) == Cardinality({j \in 1..k : params[j] # "&signer"})

\* The first m parameters got their arguments: each that is no signer the one of its rank, read
\* as its type.
Matched(params, m, args) ==
    /\ Len(args) = Rank(params, m)
    /\ \A k \in 1..m : params[k] # "&signer" =>
          LET arg == args[Rank(params, k)]
          IN  Rank(params, k) \in DOMAIN args /\ arg.type = params[k] /\ Accepts(params[k], arg.text)

\* A transaction that is stored whole is a call of the script it carries: as many signers, types and
\* arguments as the script has, and each argument read as the type of its parameter, whatever
\* was stored, edited or cut off before (prepare_arguments and build, ct.rs:377, 475).
StoredIsCallable ==
    \A n \in Names : tx[n] \notin {None, Damaged} =>
        LET params == tx[n].code.params
        IN  /\ tx[n].code.name = n
            /\ tx[n].signers + Len(tx[n].args) = Len(params)
            /\ Len(tx[n].types) = tx[n].code.types
            /\ Matched(params, Len(params), tx[n].args)

\* A command that gives a name and no file stores a transaction only if the directory has one
\* script of that name, in files that parse, and then for that script (README.md:74).
NameIsUnique ==
    phase = "remove" /\ cmd.file = None /\ builder.name # None =>
        /\ script.file \in DOMAIN dir /\ script.meta = Scripts(script.file)[1]
        /\ \A f \in DOMAIN dir : Named(f, builder.name) = IF f = script.file THEN {1} ELSE {}

\* The call is one of the script: types, signers and arguments are as many as they should be.
CallAccepted ==
    /\ script.meta.types = Len(builder.types)
    /\ prepared.signers + Len(prepared.values) = Len(script.meta.params)
    /\ Len(builder.args) = Len(prepared.values)

\* A command touches no transaction but that of its script: it stores this one if it ends
\* well.  If it does not, by an error, a panic or a kill, everything that was stored is still
\* there, except that a call that was accepted in every part may have lost the transaction it
\* was to replace, or have left a damaged one, because the old file is removed before the new
\* one is written (ct.rs:622-626).
FailureKeepsTransactions ==
    /\ outcome = "ok" => tx = [before EXCEPT ![script.meta.name] = Transaction]
    /\ outcome \in {"error", "panic", "killed"} =>
          \/ tx = before
          \/ /\ CallAccepted
             /\ \E left \in {None, Damaged} : tx = [before EXCEPT ![script.meta.name] = left]

\* A command without a call, or whose call is well formed, comes to an end.  (The loops over
\* the arguments do not look for the end of the input, so that a call with an open bracket or
\* parenthesis is read for ever: ct.rs:168, 178.)
CommandEnds ==
    phase # "idle" /\ (cmd.call = None \/ cmd.meant # None) ~> phase = "idle"
=============================================================================
