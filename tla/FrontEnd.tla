------------------------------ MODULE FrontEnd ------------------------------
(***************************************************************************)
(* The compiler front end (lang/src/compiler): a file is normalised (line  *)
(* ends, the placeholder of the sender, addresses in the format of the     *)
(* dialect), parsed, checked and translated, and the errors, which point   *)
(* into the normalised text, are taken back to the text of the user by an  *)
(* offset map that the normalisation has recorded.                         *)
(*                                                                         *)
(* A text is a sequence of tokens, each with its width in bytes.           *)
(***************************************************************************)
EXTENDS Integers, FiniteSets, SequencesExt

CONSTANTS
    Jobs,       \* [dialect, flow, sender, targets, deps]; a file is [name, text]
    Addresses,  \* the addresses
    Digits      \* how many hex digits an address has without leading zeros

None == "none"
NoAddress == [form |-> None, of |-> None]

ASSUME DigitsType == Digits \in [Addresses -> 1..32]

Dialects == {"libra", "dfinance", "polkadot"}
\* MoveChecker, the builder of dove, and the reader of script metadata.
Flows == {"check", "build", "meta"}

Kinds  == {"cr", "lf", "word", "sender", "address"}
\* The ways to write an address: 0x1, 0x with 32 digits, 0x with 40, 0x with 64, two
\* formats of wallets.
Forms  == {"trimmed", "short", "long", "public_key", "bech32", "ss58"}
WalletForms == {"bech32", "ss58"}
\* The two spellings of the placeholder: {{sender}} and {{ sender }}.
Templates == {"template", "spaced_template"}
\* In which phase the compiler refuses a token.
Faults == {None, "char", "syntax", "type", "bytecode"}

Width(form, a) ==
    CASE form = "trimmed"         -> 2 + Digits[a]
      [] form = "short"           -> 34
      [] form = "long"            -> 42
      [] form = "public_key"      -> 66
      [] form = "bech32"          -> 45
      [] form = "ss58"            -> 47
      [] form = "template"        -> 10
      [] form = "spaced_template" -> 12

\* spaced: white space or "=" stands right before the token.
Token(k, form, of, width, spaced, fault) ==
    [k |-> k, form |-> form, of |-> of, width |-> width, spaced |-> spaced, fault |-> fault]
LF == Token("lf", None, None, 1, FALSE, None)

Tokens == [k : Kinds, form : Forms \cup Templates \cup {None}, of : Addresses \cup {None},
           width : Nat, spaced : BOOLEAN, fault : Faults]

\* Placeholders and addresses have a form, which gives an address its width, and the ends of
\* lines are one byte each.
WellFormed(t) ==
    /\ t \in Tokens
    /\ t.k = "sender" <=> t.form \in Templates
    /\ t.k = "address" <=> t.form \in Forms
    /\ t.k = "address" => t.of \in Addresses /\ t.width = Width(t.form, t.of)
    /\ t.k \in {"cr", "lf"} => t.width = 1 /\ t.fault = None

Text(tokens) == tokens \in Seq(ToSet(tokens)) /\ \A t \in ToSet(tokens) : WellFormed(t)

\* The addresses that can be given as a sender, with or without one.
Senders == [form : Forms, of : Addresses] \cup {NoAddress}

SourceFiles(j) == ToSet(j.targets) \cup ToSet(j.deps)

\* A name stands for one file, whether it is compiled or a dependency.
ASSUME JobsAssumption ==
    \A j \in Jobs :
        /\ j.dialect \in Dialects /\ j.flow \in Flows /\ j.sender \in Senders
        /\ j.targets \in Seq(ToSet(j.targets)) /\ j.deps \in Seq(ToSet(j.deps))
        /\ \A f \in SourceFiles(j) : Text(f.text)
        /\ \A f, g \in SourceFiles(j) : f.name = g.name => f = g

VARIABLES
    job,
    sender,     \* the normalised sender: [form, of], or NoAddress
    todo,       \* the files still to parse
    files,      \* source_map: the normalised text of each file parsed
    offsets,    \* offsets_map: the layers and the replaced addresses of each file parsed
    errors,     \* the errors found, as places in the normalised texts
    pc,         \* the step that comes next
    report      \* the errors as the user sees them

vars == <<job, sender, todo, files, offsets, errors, pc, report>>

-----------------------------------------------------------------------------
(* Texts and offset maps.                                                  *)

\* Where each token ends.
Ends(text) ==
    LET end[n \in 0..Len(text)] == IF n = 0 THEN 0 ELSE end[n - 1] + text[n].width
    IN end

\* Where the token at i begins.
Offset(text, i) == Ends(text)[i - 1]
Size(text) == Offset(text, Len(text) + 1)

Layer(pos, offset) == [pos |-> pos, offset |-> offset]

TranslateLayer(layer, pos) == IF pos < layer.pos THEN pos ELSE pos + layer.offset

\* Mutant: the layers undone in the order of their recording.
TranslateAhead(map, pos) == FoldLeft(LAMBDA p, layer : TranslateLayer(layer, p), pos, map.layers)

\* The places on the way back: the layers are undone last to first.
Undo(layers, pos) ==
    LET back[n \in 0..Len(layers)] ==
            IF n = 0 THEN pos ELSE TranslateLayer(layers[Len(layers) + 1 - n], back[n - 1])
    IN back

TranslatePos(map, pos) == Undo(map.layers, pos)[Len(map.layers)]

\* The address that a message names, in the form the user wrote.
TranslateMessage(map, name) ==
    FoldRight(LAMBDA r, n : IF n = r.replacement THEN r.orig ELSE n, map.replaced, name)

-----------------------------------------------------------------------------
(* Normalisation: each step maps a record [text, layers, replaced] to the  *)
(* next one.                                                               *)

\* Mutant: line ends are left as they are.
KeepLineEnds(text) == [text |-> text, layers |-> <<>>, replaced |-> <<>>]

\* CR and CR LF become LF. A layer is recorded for each CR LF, at its place in the
\* text of the user.
NextCharacter(s, t) ==
    IF t.k = "lf" /\ s.was_cr
    THEN [s EXCEPT !.was_cr = FALSE, !.pos = @ + 1,
                   !.layers = Append(@, Layer(s.pos + 1 - 2, 1))]
    ELSE [s EXCEPT !.was_cr = t.k = "cr", !.pos = @ + t.width,
                   !.text = Append(@, IF t.k = "cr" THEN LF ELSE t)]

LineEnds(text) ==
    LET done[n \in 0..Len(text)] ==
            IF n = 0 THEN [text |-> <<>>, layers |-> <<>>, was_cr |-> FALSE, pos |-> 0]
            ELSE NextCharacter(done[n - 1], text[n])
    IN done

NormalizeLineEnds(text) ==
    LET done == LineEnds(text)[Len(text)]
    IN [text |-> done.text, layers |-> done.layers, replaced |-> <<>>]

\* A copy of token t that writes an address.
Written(t, form, a) ==
    [t EXCEPT !.k = "address", !.form = form, !.of = a, !.width = Width(form, a)]

\* The token at i becomes the address of the sender if it is the template.
ReplaceTemplate(template, addr, r, i) ==
    IF r.text[i].form # template THEN r
    ELSE LET new == Written(r.text[i], addr.form, addr.of)
         IN [r EXCEPT !.text[i] = new,
                      !.layers = Append(@, Layer(Offset(r.text, i) + new.width,
                                                 r.text[i].width - new.width))]

TemplatePass(template, addr, s) ==
    LET done[n \in 0..Len(s.text)] ==
            IF n = 0 THEN s ELSE ReplaceTemplate(template, addr, done[n - 1], n)
    IN done

Replaced(template, addr, s) == TemplatePass(template, addr, s)[Len(s.text)]

\* Each placeholder becomes the address of the sender, first the ones without spaces.
ReplaceSenderPlaceholder(s, addr) ==
    IF addr = NoAddress THEN s
    ELSE Replaced("spaced_template", addr, Replaced("template", addr, s))

SameString(t, u) == t.k = "address" /\ <<t.form, t.of>> = <<u.form, u.of>>

\* Mutant: the shift has the wrong sign.
AddressLayerAway(s, end, old, new) ==
    [s EXCEPT !.layers = Append(@, Layer(end, new.width - old.width))]

\* A layer at the end of the old address, and the pair of addresses for the messages.
AddressLayer(s, end, old, new) ==
    [s EXCEPT !.layers = Append(@, Layer(end, old.width - new.width)),
              !.replaced = Append(@, [orig |-> <<old.form, old.of>>,
                                      replacement |-> <<new.form, new.of>>])]

\* An address of at most 32 digits is padded to 40, at its place in the text so far. An
\* address at the very end of the text is not seen.
PadAddress(r, i) ==
    LET old == r.text[i]
        new == Written(old, "long", old.of)
    IN IF old.form \in {"trimmed", "short"} /\ i < Len(r.text)
       THEN [AddressLayer(r, Offset(r.text, i) + old.width, old, new) EXCEPT !.text[i] = new]
       ELSE r

PadPass(s) ==
    LET done[n \in 0..Len(s.text)] == IF n = 0 THEN s ELSE PadAddress(done[n - 1], n)
    IN done

ReplaceLibraAddress(s) == PadPass(s)[Len(s.text)]

\* A wallet address becomes hex: the match at i and its place are those of the text of s,
\* and every occurrence of its string is replaced.
ReplaceWallet(s, to, matches, r, i) ==
    LET old == s.text[i]
        new == Written(old, to, old.of)
    IN IF i \in matches
       THEN [AddressLayer(r, Offset(s.text, i) + old.width, old, new) EXCEPT
                !.text = [j \in DOMAIN @ |-> IF SameString(@[j], old)
                                             THEN Written(@[j], to, old.of) ELSE @[j]]]
       ELSE r

WalletPass(s, to, matches) ==
    LET done[n \in 0..Len(s.text)] ==
            IF n = 0 THEN s ELSE ReplaceWallet(s, to, matches, done[n - 1], n)
    IN done

ReplaceWallets(s, to, matches) == WalletPass(s, to, matches)[Len(s.text)]

\* The pattern for bech32 wants white space or "=" before the address.
ReplaceBech32Addresses(s) ==
    ReplaceWallets(s, "trimmed", {i \in DOMAIN s.text : s.text[i].form = "bech32" /\ s.text[i].spaced})

ReplaceSs58Addresses(s) ==
    ReplaceWallets(s, "public_key", {i \in DOMAIN s.text : s.text[i].form = "ss58"})

ReplaceAddresses(dialect, s) ==
    CASE dialect = "libra"    -> ReplaceLibraAddress(s)
      [] dialect = "dfinance" -> ReplaceBech32Addresses(s)
      [] dialect = "polkadot" -> ReplaceSs58Addresses(s)

NormalizeSourceText(dialect, text, addr) ==
    ReplaceAddresses(dialect, ReplaceSenderPlaceholder(NormalizeLineEnds(text), addr))

HexForms == {"trimmed", "short", "long"}

\* The sender as a dialect writes it, or NoAddress if it is no address of the dialect.
LibraSender(given) ==
    IF given.form \in HexForms \ {"long"} THEN [given EXCEPT !.form = "short"] ELSE NoAddress
DfinanceSender(given) ==
    CASE given.form = "bech32"    -> given
      [] given.form \in HexForms -> [given EXCEPT !.form = "long"]
      [] OTHER                    -> NoAddress
PolkadotSender(given) ==
    CASE given.form = "ss58"      -> given
      [] given.form \in HexForms -> [given EXCEPT !.form = "long"]
      [] OTHER                    -> NoAddress

NormalizeAccountAddress(dialect, given) ==
    CASE dialect = "libra"    -> LibraSender(given)
      [] dialect = "dfinance" -> DfinanceSender(given)
      [] dialect = "polkadot" -> PolkadotSender(given)

Zero == "zero"
\* What the language server takes when its settings give no valid sender.
DefaultSender == [form |-> "short", of |-> Zero]
SenderOrDefault(addr) == IF addr = NoAddress THEN DefaultSender ELSE addr

ASSUME ZeroType == Zero \in Addresses

-----------------------------------------------------------------------------
(* The Move compiler.                                                      *)

\* An error about the token at i. A message writes addresses without leading zeros.
ErrorAt(file, text, i) ==
    [file |-> file, start |-> Offset(text, i), end |-> Offset(text, i + 1),
     name |-> IF text[i].k = "address" /\ text[i].fault = "type"
              THEN <<"trimmed", text[i].of>> ELSE <<None>>]

\* A placeholder and a wallet address are no tokens of Move.
Unreadable(text) ==
    {i \in DOMAIN text :
        text[i].fault = "syntax" \/ text[i].k = "sender" \/ text[i].form \in WalletForms}

\* The first token the lexer refuses, otherwise the first one the parser refuses.
FirstRefused(text, bad) ==
    LET odd == {i \in DOMAIN text : text[i].fault = "char"}
    IN IF odd # {} THEN {Min(odd)} ELSE IF bad # {} THEN {Min(bad)} ELSE {}

FaultsOf(names, fault) ==
    UNION {{ErrorAt(f, files[f], i) : i \in {j \in DOMAIN files[f] : files[f][j].fault = fault}} :
              f \in names}

TargetNames == {f.name : f \in ToSet(job.targets)}

-----------------------------------------------------------------------------
Init ==
    /\ job \in Jobs
    /\ todo = job.targets \o job.deps
    /\ pc = "sender"
    /\ sender = NoAddress
    /\ files = <<>> /\ offsets = <<>> /\ errors = {} /\ report = {}

\* The language server falls back to a default sender, the commands of dove fail, and the
\* reader of script metadata has none.
TakeSender ==
    /\ pc = "sender"
    /\ LET addr == NormalizeAccountAddress(job.dialect, job.sender)
       IN CASE job.flow = "meta" -> sender' = NoAddress /\ pc' = "parse"
            [] job.flow = "check" ->
                  sender' = SenderOrDefault(addr) /\ pc' = "parse"
            [] OTHER -> sender' = addr /\ pc' = (IF addr = NoAddress THEN "refused" ELSE "parse")
    /\ UNCHANGED <<job, todo, files, offsets, errors, report>>

\* One file of parse_program: its normalised text and its map are kept whether or not it
\* parses, and the errors of all files are collected.
ParseFile ==
    /\ pc = "parse" /\ todo # <<>>
    /\ LET f == Head(todo)
           n == NormalizeSourceText(job.dialect, f.text, sender)
       IN /\ files' = [g \in DOMAIN files \cup {f.name} |-> IF g = f.name THEN n.text ELSE files[g]]
          /\ offsets' = [g \in DOMAIN files \cup {f.name} |->
                            IF g = f.name THEN [layers |-> n.layers, replaced |-> n.replaced]
                            ELSE offsets[g]]
          /\ errors' = errors \cup {ErrorAt(f.name, n.text, i) :
                                       i \in FirstRefused(n.text, Unreadable(n.text))}
    /\ todo' = Tail(todo)
    /\ UNCHANGED <<job, sender, pc, report>>

\* MoveChecker stops at errors of the parser, the reader of metadata stops in any case,
\* the others hand the errors on.
AfterParsing ==
    /\ pc = "parse" /\ todo = <<>>
    /\ pc' = IF job.flow = "meta" \/ (job.flow = "check" /\ errors # {}) THEN "transform" ELSE "check"
    /\ UNCHANGED <<job, sender, todo, files, offsets, errors, report>>

\* Mutant: the errors of the parser are dropped.
CheckProgramAnyway ==
    /\ pc = "check"
    /\ errors' = FaultsOf(DOMAIN files, "type")
    /\ pc' = IF job.flow = "check" THEN "transform" ELSE "translate"
    /\ UNCHANGED <<job, sender, todo, files, offsets, report>>

\* check_program, and MoveChecker's stop after it.
CheckProgram ==
    /\ pc = "check"
    /\ errors' = IF errors # {} THEN errors ELSE FaultsOf(DOMAIN files, "type")
    /\ pc' = IF job.flow = "check" THEN "transform" ELSE "translate"
    /\ UNCHANGED <<job, sender, todo, files, offsets, report>>

Translate ==
    /\ pc = "translate"
    /\ errors' = IF errors # {} THEN errors ELSE FaultsOf(TargetNames, "bytecode")
    /\ pc' = "transform"
    /\ UNCHANGED <<job, sender, todo, files, offsets, report>>

\* The errors as places in the texts of the user. A span whose ends are exchanged is put
\* in order.
Transform ==
    /\ pc = "transform"
    /\ errors' = {LET map == offsets[e.file]
                      ends == {TranslatePos(map, e.start), TranslatePos(map, e.end)}
                  IN [e EXCEPT !.start = Min(ends), !.end = Max(ends),
                               !.name = TranslateMessage(map, @)] : e \in errors}
    /\ pc' = "show"
    /\ UNCHANGED <<job, sender, todo, files, offsets, report>>

LineStarts(text) == {0} \cup {Offset(text, i + 1) : i \in {j \in DOMAIN text : text[j].k = "lf"}}

Position(text, pos) ==
    LET starts == {s \in LineStarts(text) : s <= pos}
    IN [line |-> Cardinality(starts) - 1, column |-> pos - Max(starts)]

ContentOf(name) == (CHOOSE f \in SourceFiles(job) : f.name = name).text

\* The language server finds line and column in its own copy of the file, dove prints the
\* place of the normalised text that the compiler has kept. A place behind the end of
\* the file panics.
Show ==
    /\ pc = "show"
    /\ LET Shown(e) == IF job.flow = "check" THEN ContentOf(e.file) ELSE files[e.file]
       IN IF job.flow = "check" /\ \E e \in errors : e.start < 0 \/ e.end > Size(Shown(e))
          THEN pc' = "panic" /\ UNCHANGED report
          ELSE /\ pc' = "shown"
               /\ report' = {[file |-> e.file, from |-> Position(Shown(e), e.start),
                              to |-> Position(Shown(e), e.end), name |-> e.name] : e \in errors}
    /\ UNCHANGED <<job, sender, todo, files, offsets, errors>>

Next ==
    \/ TakeSender \/ ParseFile \/ AfterParsing \/ CheckProgram \/ Translate \/ Transform \/ Show

Spec == Init /\ [][Next]_vars

-----------------------------------------------------------------------------
(* What the user should see, read off the texts of the user.               *)

\* The texts stay texts under normalisation, each parsed file has its text and its map,
\* and no carriage return is left (line_endings.rs, parser.rs:26-76).
TypeOK ==
    /\ pc \in {"sender", "refused", "parse", "check", "translate", "transform", "show",
               "shown", "panic"}
    /\ DOMAIN files = DOMAIN offsets
    /\ \A f \in DOMAIN files :
          /\ \A i \in DOMAIN files[f] : files[f][i] \in Tokens /\ files[f][i].k # "cr"
          /\ \A i \in DOMAIN offsets[f].layers : offsets[f].layers[i] \in [pos : Nat, offset : Int]

Wallet(dialect) == CASE dialect = "dfinance" -> "bech32" [] dialect = "polkadot" -> "ss58" [] OTHER -> None

\* The form of the address that the token stands for.
FormOf(t) == IF t.k = "sender" /\ sender # NoAddress THEN sender.form ELSE t.form
AddressOf(t) == IF t.k = "sender" THEN sender.of ELSE t.of

\* The tokens that are at fault in the text of the user.
WronglyWritten(text) ==
    {i \in DOMAIN text :
        \/ text[i].fault = "syntax"
        \/ text[i].k = "sender" /\ sender = NoAddress
        \/ FormOf(text[i]) \in WalletForms \ {Wallet(job.dialect)}}

At(file, is) == {<<file, i>> : i \in is}
WithFault(fs, fault) ==
    UNION {At(f, {i \in DOMAIN f.text : f.text[i].fault = fault}) : f \in fs}

\* The tokens to report: those of the first phase that refuses one.
Expected ==
    LET all == SourceFiles(job)
        unread == UNION {At(f, FirstRefused(f.text, WronglyWritten(f.text))) : f \in all}
        typed == IF job.flow = "meta" THEN {} ELSE WithFault(all, "type")
    IN CASE unread # {} -> unread
         [] unread = {} /\ typed # {} -> typed
         [] OTHER -> IF job.flow = "build" THEN WithFault(ToSet(job.targets), "bytecode") ELSE {}

\* Line and column of token i, counted in tokens.
Place(text, i) ==
    LET ends == {j \in 1..(i - 1) : text[j].k = "lf"}
    IN [line |-> Cardinality(ends),
        column |-> Offset(text, i) - IF ends = {} THEN 0 ELSE Offset(text, Max(ends) + 1)]

EndsLine(text, i) == i + 2 <= Len(text) /\ text[i + 1].k = "cr" /\ text[i + 2].k = "lf"

\* An error from the first to the last byte of the token, or to the CR right behind it.
Reported(f, i) ==
    LET from == Place(f.text, i)
        end == from.column + f.text[i].width
    IN \E e \in report :
          /\ e.file = f.name /\ e.from = from
          /\ e.to.line = from.line
          /\ e.to.column \in IF EndsLine(f.text, i) THEN {end, end + 1} ELSE {end}

TwoByteEnds(text, i) ==
    {j \in 2..(i - 1) : text[j].k = "lf" /\ text[j - 1].k = "cr"}
Wallets(text) == {j \in DOMAIN text : FormOf(text[j]) \in WalletForms \cap {Wallet(job.dialect)}}

\* Where the layers are known to be too far to the right: their places are those of the
\* text before the replacements. Line ends from the third on, several wallet addresses,
\* a wallet address that becomes shorter and the bytes behind it.
Drifts(text, i) ==
    \/ Cardinality(TwoByteEnds(text, i)) > 2
    \/ Cardinality(Wallets(text)) > 1
    \/ /\ job.dialect = "dfinance"
       /\ \E j \in Wallets(text) :
             /\ j <= i
             /\ Offset(text, i) - Offset(text, j + 1)
                  < Width("bech32", AddressOf(text[j])) - Width("trimmed", AddressOf(text[j]))

\* The pattern for bech32 does not see an address right behind a bracket.
UnseenWallet ==
    /\ job.dialect = "dfinance"
    /\ \E f \in SourceFiles(job) : \E j \in Wallets(f.text) : ~f.text[j].spaced

\* An error is shown at the token that causes it, in the file of the user, except where
\* the layers drift: the layers of line ends, placeholders and addresses undo each
\* other's shifts. A message about a wallet address names the wallet
\* (source_map.rs:52-80, parser.rs:107-143, location.rs:31-60).
ErrorsInPlace ==
    pc = "shown" /\ ~UnseenWallet =>
        \A e \in Expected :
            LET f == e[1]
                t == e[1].text[e[2]]
            IN /\ (job.flow = "check" \/ files[f.name] = f.text) /\ ~Drifts(f.text, e[2])
                     => Reported(f, e[2])
               /\ job.dialect = "dfinance" /\ t.fault = "type" /\ FormOf(t) = "bech32"
                     => \E r \in report : r.file = f.name /\ r.name = <<"bech32", AddressOf(t)>>

\* Without addresses and placeholders, errors are shown at the tokens that cause them
\* whatever the line ends are.
LineEndsDoNotOffset ==
    pc = "shown" /\ job.flow = "check" =>
        \A e \in Expected :
            (\A i \in DOMAIN e[1].text : e[1].text[i].k \in {"word", "cr", "lf"})
                => Reported(e[1], e[2])

\* The compiler accepts exactly the programs without a fault: no error of any file or
\* phase is lost on the way, and the normalisation adds none, except that a bech32
\* address is seen only behind white space (parser.rs:26-76, compiler/mod.rs:48-72,
\* bech32.rs:10).
VerdictRight ==
    pc = "shown" =>
        /\ Expected # {} => report # {}
        /\ report # {} => Expected # {} \/ UnseenWallet

\* Where the layers do not drift, no place lies outside the file: the language server
\* panics only when a wallet address right before the error has become shorter
\* (source_map.rs:17-24, db.rs:108-124, analysis.rs:49-56).
SpansInFile == pc = "panic" => \E e \in Expected : Drifts(e[1].text, e[2]) /\ Wallets(e[1].text) # {}
=============================================================================
