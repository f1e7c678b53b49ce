# A TLA+ model of the Move language server, dove and its tools

This directory holds TLA+ modules that model the core of this repository, the
configurations with which TLC checks them, and theorems that TLAPS proves about
them. Source paths are relative to the root of the repository.

## The system

| part | state | operations | talks to |
|---|---|---|---|
| main loop, `language_server/src/main_loop.rs`, `server.rs` | `LoopState`: opened files, request counter, id of the awaited settings answer; three channels; a `ThreadPool` of one thread | one turn per message, file event or batch of diagnostics | editor (messages), file database (calls), worker (jobs, batches) |
| file database, `global_state.rs`, `inner/db.rs`, `inner/config.rs` | `available_files`, settings | apply a change, reload from disk, snapshot | main loop; disk |
| analysis, `inner/analysis.rs`, `lang/src/checker.rs` | the snapshot of a job | check a file with its dependencies, place its errors | compiler; disk (standard library) |
| dispatcher, `dispatcher.rs` | - | not reached from `run_server` | - |
| dependency index, `dove/src/index/` | `.Dove.man` on disk, `Index` in memory | load, build, resolve imports, store | resolvers, manifest |
| git and chain resolvers, `dove/src/index/resolver/` | clones and files under `target/.external` | clone and check out, download a module tree | git remotes, node |
| commands, `dove/src/cmd/` | `target/` | fetch, build, test, run, ct, clean, new, init, metadata | index, compiler, executor |
| source metadata, `dove/src/index/meta.rs` | - | walk a syntax tree, collect the modules it names | index |
| transaction builder, `dove/src/cmd/ct.rs` | `target/transactions` | parse a call, find the script, match arguments, store | index, compiler |
| executor, `executor/src/`, `dove test`, `dove run` | data store of a pipeline of scripts, results of the steps | read doc comments, execute, collect effects, explain, judge | VM |
| compiler front end, `lang/src/compiler/` | offset maps | normalise line endings, substitute addresses, parse, map errors back | Move compiler |
| disassembler, `lang/disassembler` | bytecode iterator, list of expressions, nested blocks | translate opcodes into expressions, print them | - |
| bytecode compatibility, `lang/compat` | - | mutate bytecode | - |
| resource viewer, node client, version hash | - | one request each | node, git |

Hard to test: the interleavings of the four queues of the language server, the
answers of the editor that arrive late or out of order, and a worker that reads
files which change; a dove command that is killed between two of its writes, and
what the index, the cache and the manifest say of each other after a sequence of
commands; which effects and values of a script the scripts after it see, and whether
an error in the middle of a pipeline reaches the verdict; a call whose tokens come in
an unexpected order; nested translators that share one iterator; an offset map whose
layers come from three rewritings of a text. The list is in
`PROJECT.json` under `hazards`, with the properties that cover each entry.

What makes the parts correct:

* language server: what the editor shows in the end is what the present texts call
  for (`ShownIsCurrent`), it never goes back (`InOrder`, `NeverOlder`), no edit is
  lost (`BuffersInDatabase`, `BrokenReported`), the settings chosen last are in
  force (`SettingsInForce`, `StaleAnswerIgnored`), the worker survives
  (`PoolDrains`);
* index: the files a build is compiled against hold every module the sources need
  (`DependencySetClosed`), come from the right source (`LocalFirst`,
  `CloneAtRequest`) and exist (`DependenciesExist`); the index has what is in the cache
  (`CacheIndexed`), and the cache survives a kill (`ImportsCachedFirst`);
* source metadata: no module that a source names is left out (`ImportsComplete`);
* executor: the store holds what was committed and nothing else (`StoreIsCommitted`,
  `SeesCommitted`), an error is accepted only where it is announced
  (`ExpectedIsDeclared`), a good verdict hides nothing (`OkMeansAllRan`),
  reports of new resources are right (`AddedOnce`);
* transaction builder: a call is taken apart as it is meant (`CallUnderstood`), what is
  stored is a call of its script (`StoredIsCallable`) and of the one that was named
  (`NameIsUnique`), a failure loses no stored transaction but the one that was to be
  replaced (`FailureKeepsTransactions`), the command ends (`CommandEnds`);
* disassembler: blocks nest (`BlocksNest`), the translation ends (`Translated`), and the
  restored source does what the bytecode does (`SameMeaning`, which is violated, and
  `MeaningKept`, which says for which functions it holds);
* front end: an error is shown at the token that causes it (`ErrorsInPlace`), no error is
  lost or made up (`VerdictRight`), no place lies outside the file (`SpansInFile`).

## Modules

* `LanguageServer.tla`: editor, main loop, database and worker in one module, for they
  share the channels; `MCLanguageServer.tla` has its instances.
* `LanguageServerProofs.tla`: its types and the order of the diagnostics;
  `DeliveryProofs.tla`, which extends it: settings and buffers reach the server, and what
  the editor shows is right.
* `DoveIndex.tla`: index, resolvers and the commands that use them;
  `DoveIndexProofs.tla` the theorems, `MCDoveIndex.tla` its instances.
* `SourceMeta.tla`: the walk that gives the imports `DoveIndex` takes as a constant;
  `SourceMetaProofs.tla` the theorems, `MCSourceMeta.tla` its instances.
* `Executor.tla`: sessions, scripts and the commands that run them; `Ledger.tla` is what
  they promise, `ExecutorProofs.tla` the theorems, `MCExecutor.tla` the instances.
* `TransactionBuilder.tla`: `dove ct`; `TransactionBuilderProofs.tla` the theorems,
  `MCTransactionBuilder.tla` the instances.
* `Translator.tla`: the translation of a function body; `MCTranslator.tla`.
* `FrontEnd.tla`: from the text of a file to the errors the user sees;
  `FrontEndProofs.tla` the theorems, `MCFrontEnd.tla` its instances.
* `SequenceFacts.tla`: lemmas about sequences and numbers that several proofs use, with
  induction over numbers and the existence of functions defined by recursion on `0..n`.

Operators under a comment that begins with `Mutant` are wrong versions of the definition
that follows them; no specification uses them.

### LanguageServer

State and code:

| variable | code |
|---|---|
| `inbox` | `connection.receiver`; the end of the sequence is what was sent last |
| `fs_events`, `resp_events` | the two channels of `main_loop` |
| `jobs` | the queue of the `ThreadPool`; a job has its snapshot, the files still to check and the diagnostics so far |
| `opened`, `next_request_id`, `configuration_request_id` | `LoopState` (0 is `None`) |
| `db`, `config` | `RootDatabase` |
| `server` | `running`, `stopped` after the shutdown handshake, `failed` when a turn returns an error |
| `disk`, `buf`, `settings`, `asked`, `shown`, `budget` | the editor and its user, external |
| `latest`, `published` | history: the job scheduled last, the number of the batch published last |

An action of the loop is one turn of `loop_turn`, with everything the turn does: a
file event is applied and the check is scheduled in one action. The worker is split
finer, one file of the job at a time, since it runs beside the loop and reads the
disk. `OnDidOpen`, `OnDidChange`, `OnDidClose`, `OnDidChangeWatchedFiles` and
`OnDidChangeConfiguration` are the arms of `on_notification`; `OnResponse`, `OnRequest`,
`OnShutdown` and `OnHangup` the other messages. `CheckUntracked`, `CheckTracked`,
`CheckPanics` and `SendBatch` are `compute_file_diagnostics`. `Panics` says when
`make_diagnostic` does: an error lies in a file that the snapshot does not have, or has
with another text than the disk, which can only be a library file. The batch is lost with
the reports of all its files, also of those that have nothing to do with the library;
`BrokenReported` names this exception (`BatchMayPanic`).

A text is a value of which only two things matter: whether it parses (`Broken`) and
which files it imports. A diagnostic is the text it was computed for. Settings are the
set of library files, the set of files in module folders and the set of files whose
path begins with the name of a module folder: `is_fpath_for_a_module` compares strings.
The pool is a queue of which the first `PoolSize` jobs run.

The editor sends what an editor may: it opens, edits, closes, saves and deletes files,
changes settings, answers requests late, out of order or with an error, sends a few
messages the loop does not expect, and leaves with or without the handshake. How often
it takes each kind of step is bounded by `Budget`, the only bound of the model.
`PromptClient` says whether the registration request is answered before anything else.

### DoveIndex

| variable | code |
|---|---|
| `manifest`, `pathDir`, `paths`, `wants` | the project: dependencies of `Dove.toml`, the directory of the path dependency and the file of each module in it, what the sources use |
| `git`, `chain` | `target/.external`: for a git dependency `absent`, `partial` (directory without files), `head` or `requested`; for a module `absent`, `empty` or `written` |
| `index` | `.Dove.man`; truncated and not written yet it is `unreadable` |
| `modules`, `keys`, `depNames`, `grown` | `Index`; a key whose last entry was removed still counts in `modules.len()` |
| `todo`, `scan`, `stack` | the work of `load_deps`, of the loop over the directory and of `load_tree` |
| `imports`, `used`, `deps` | `resolve_imports`: modules to visit and visited, and the set of files found for them |
| `resolved`, `outcome`, `budget` | history and bounds |

`Start` is `Index::load`; `VisitPath`, `VisitCached`, `BeginClone`, `EndClone`, `Checkout`
are `load_deps` and `git::resolve`; `BeginScan`, `ScanGit`, `ScanChain`, `IndexPaths` the
rest of `Index::build`; `Truncate` and `Store` are `Index::store`; `Resolve`,
`ResolveCached`, `Download`, `DownloadImport`, `OpenFile`, `WriteFile`, `EndResolve` are
`make_dependency_set`; `LoadDependencies` reads the files. `Crash` ends a command between
any two of these steps and keeps what is on disk. A write of a file is one step after
its creation or truncation, and `clean` is one step. `Fault` stands for a failing network or
remote and for a source that does not parse. Only one command runs at a time.

`resolve_imports` is a recursion over imports; the model keeps the set of modules still
to visit, in any order, and the set of those it has visited. The code has no visited set;
a second visit of a module finds the same file again, so that the result is the same set,
as long as the imports have no cycle (`AcyclicImports`, which the Move verifier guarantees
for published modules).

What is collected are files. A file of the path dependency or of a repository may hold
several modules: `Tree[d][r]` has the file of each module in the repository `d` at its
head or at the revision asked for, and files that hold none are left out. An index entry
keeps what was read, with the revision that was checked out then (`GitEntry`; the revision
is not in `.Dove.man` and only the properties look at it). `Holds` is what a file of the set
has when it is read. The code stores the imports of a module with its entry; in the model
a module has the same imports wherever it is found.

Which project the commands work in is chosen at the start from `Scenarios`: its
manifests, directories, sources, whether a node is configured, and the bounds.

### SourceMeta

One step is one node of the tree. A node has its kind, the module it names, and its
types, expressions, patterns, statements and uses; `Parts` says which of them the code
goes into, kind by kind (`type_usages`, `bind_usages`, `block_usages`,
`expresion_usages`, `function`). `DefinitionAddress`, `Enter` and `NoAddressForModule` are
`from_definition`; each module of an address block is a definition of its own.

The trees are constants: `Nodes` with their parts, and `Tree(n)`, the nodes of the tree of
`n`, of which only `TreeAssumption` is known: `n` and the trees of its children. A model
with finite trees computes it by recursion (`MCSourceMeta`); the specification and its
proofs do without.

### Executor

| variable | code |
|---|---|
| `project` | the arguments of `dove test`, `dove run` or the executor binary, with the files |
| `queue`, `test` | the loop over the test files |
| `units` | what is left of `units` in `ExecutionSession::execute`, as a set; `Upcoming` is the next one by the end of its span, which is the order they are sorted in |
| `script_args`, `steps` | `script_args` and `step_results` of `ExecutionSession::execute` |
| `store` | `data_store`; a resource that is not there is `Absent` |
| `has_failures`, `outcome`, `history` | the verdict; the steps of the tests that are done |

A file is a sequence of lines, and a line is a doc comment, a script, a constant, the
head of a module or code: what matters of the text is which comment stands right above
which script. the loops over the comments are functions
defined by recursion (`CommentSearch`, `MetaAfter`).
`NoCoins`, `Succeed`, `Abort`, `Fail`, `TypeMismatch` and `OtherError` are the exits of
`execute_script`; `SkipTest`, `BuildError` (a test that does not compile, or arguments that cannot be read), `MetaPanic`, `StartTest`, `FinishTest`,
`EndCommand` the loop around it. The virtual machine is external: a script is what it
needs, asserts and writes (`RunScript`). Gas, layout of the output and the resource
values beyond equality are abstracted.

`Ledger` is the promise without files and scripts: pipelines start on an empty store, a
step commits or leaves the store alone, a broken pipeline commits nothing more, and a
strict command ends well only if none was broken. The refinement maps `store` to the
data, an open pipeline to `test # 0`, and a broken one to a last step with an error.

### TransactionBuilder

| variable | code |
|---|---|
| `dir`, `tx` | the script directory and `target/transactions` |
| `cmd`, `phase`, `pos`, `token` | the command line, the place in `parse_call` or `build`, the lexer, the argument read so far |
| `builder`, `script` | `TransactionBuilder` and the result of `lookup_script` |
| `prepared` | the accumulator of the fold in `prepare_arguments`: signers counted and arguments taken; `TakeSigner` and `TakeArgument` are one step for each parameter |
| `outcome`, `before`, `budget` | history and the bound on commands |

A call is a sequence of tokens, an argument the tokens whose texts are put together.
The lexer is external; at the end of the input it stays there. `store_transaction`
is three steps, `RemoveOld`, `CreateNew` and `StoreTransaction`; each of them may be refused
(`StorageFails`: the folder, the removal, the serialisation, the creation, the write), which
ends the command with an error and puts nothing back, and `Kill` may come between any two
steps. A file that was created and not written to its end is `Damaged`. A command carries, for the properties only, what its call is meant to say.

### Translator

The state is `BytecodeIterator.index` (`at`), the translators in progress with their list of
expressions and their end (`frames`), and the locals marked as used. A nested
`translate_block` is a frame on top; its `then` says what its caller does with the block.
One action per group of opcodes that the code treats alike, and one per way a block
ends. `Compile` lays out source as the Move compiler does, with and without jumps to the
next opcode; it is external and gives the bytecode to start from.

`SameMeaning` compares two definitions of runs: `RunCode` executes the opcodes on a stack
of terms, `RunSource` executes the restored body as the compiler would read it, with the
places where the printed text is read differently from the tree (`Read`). A run is the
sequence of assignments, writes, calls, conditions and its end, both outcomes of each
condition, cut at `Horizon` events. `MeaningKept` is `SameMeaning` for functions without an
assert inside a branch or a loop (`AssertInBranch`). `BlocksNest` covers those too: only the
block of what follows such an assert (`Overruns`) may end behind its container, and then at
the end of the function.

A call returns at most one value, so that the assignment to a tuple (`lt.rs:20`) does not
occur. Separators are not modelled, such as the `;` that is printed behind a `continue`
(`block.rs:62`). Whether a printed body is accepted again by the compiler is not a question
the model asks; the round trips `test_if`, `test_loop` and `test_while` of
`disassembler/src/lib.rs:286` are ignored in the repository.

### FrontEnd

A text is a sequence of tokens, each with its width in bytes: line ends, words, the two
spellings of the placeholder, and addresses in six ways to write them. The three
rewritings of `normalize_source_text` (`NormalizeLineEnds`, `ReplaceSenderPlaceholder`, and one
of `ReplaceLibraAddress`, `ReplaceBech32Addresses`, `ReplaceSs58Addresses`) are functions
defined by recursion over the tokens (`LineEnds`, `TemplatePass`, `PadPass`, `WalletPass`) that
record the layers of `FileOffsetMap` as the code does; `TranslatePos` undoes them (`Undo`).

| variable | code |
|---|---|
| `job` | dialect, sender, targets and dependencies of a compilation, and the flow: `check` of the language server, `build` of dove, `meta` of the reader of script metadata |
| `sender` | the normalised sender |
| `todo`, `files`, `offsets` | the files of `parse_program`, `source_map`, `offsets_map` |
| `errors`, `report` | the errors with places in bytes, and with lines and columns |

`TakeSender`, `ParseFile`, `AfterParsing`, `CheckProgram`, `Translate`, `Transform`, `Show` are the
steps of a flow. The Move compiler is external: a token carries the phase that refuses it.
`Expected` and `Place` say what the user should see, read off the text of the user and not
through the layers. `Drifts` and `UnseenWallet` are the cases in which the code is known to
be off; the properties hold in all others, and the list below has the cases.

## Runs

`tlc -config <cfg> <module>` in this directory; none of the passing runs takes more
than about two and a half minutes with two workers.

| run | what it shows |
|---|---|
| `LanguageServer_edits` | three edits and a deletion of two files, from a disk without errors, and from one with errors where scripts count as modules by the prefix of their path, so that one check reports the error of another file: `InOrder`, `NeverOlder`, `ShownIsCurrent`, `BuffersInDatabase` |
| `LanguageServer_settings` | four steps of up to three changes of settings, three edits of a script and a library file, a save, a deletion and an exit: `SettingsInForce`, `StaleAnswerIgnored`, and `BrokenReported` under fairness |
| `LanguageServer_faults` | an unexpected message or a failed answer, a save of a library file that the snapshot does not have, two edits: `TypeOK`, and `PoolDrains` under fairness |
| `DoveIndex_commands` | three commands with two kills, a network failure, edits, `clean`, repositories with two revisions, with two modules in a file, and that fail, with a node and without: `TypeOK`, `ImportsCachedFirst`, `DependencySetClosed`, `LocalFirst`, `DependenciesExist`, `CacheIndexed` |
| `SourceMeta_files` | all trees of the grammar in `MCSourceMeta` to a depth of four: `TypeOK`, `ImportsComplete` |
| `Executor_pipelines` | all files of five lines over eight kinds of lines, and smaller families with prices, times, dependencies, several tests and arguments: `TypeOK`, `StoreIsCommitted`, `SeesCommitted`, `ExpectedIsDeclared`, `OkMeansAllRan`, `AddedOnce`, and the refinement `ImplementsLedger` |
| `TransactionBuilder_commands` | commands with calls, options and odd token sequences over seven directories, with kills, failing writes and edits: `TypeOK`, `CallUnderstood`, `StoredIsCallable`, `NameIsUnique`, `FailureKeepsTransactions`, `CommandEnds` |
| `Translator_functions` | functions with up to two nested branches or loops, with and without asserts inside of them: `TypeOK`, `MeaningKept`, `BlocksNest`, `Translated` |
| `FrontEnd_files` | files of two lines with placeholders and addresses in three dialects and four senders, files of three lines with three kinds of line ends, and programs of three files in all flows: `TypeOK`, `ErrorsInPlace`, `VerdictRight`, `SpansInFile` |

The bounds are enough for the cases that matter: three edits let two jobs wait behind
one that runs and put an open, an edit and another edit or close of one file in one
queue; two editable files and the library make one check report the error of another
file; three settings make an answer overtake two others. Three commands are what it
takes for an index to be written, to be made stale and to be used, or to be read from the
head of a clone that was killed, cleaned and cloned again at its revision; two kills allow
one in the clone and one in the store. The two revisions of a repository have a module
that moves to another file, or a second module in the same file. With `settings`, `edits`,
`saves` and `deletes` in one run, a library file saved with an error, its buffer repaired
and a script broken meet in one batch, which panics. The imports `a` to `b` and `c`, `b` to `c` have a
diamond and a chain of length two. Five lines hold two scripts with their comments and a
gap, or five scripts; the effect of a step on a later one needs two, a removal in between
three. Two commands of `ct` are what it takes to replace a stored transaction. A loop in
a branch, a branch in a loop and both after an assert are the ways blocks nest in the
translator; its code does not look further than one level up. Two lines with up to
four tokens each put an error before, between and behind two rewritings of any two kinds,
and an address of 1 and one of 32 digits make a text longer and shorter.

Fairness: `LspTurn`, `FileSystemTurn`, `ResponseTurn` and `Worker` are weakly fair.
`crossbeam_channel::select!` picks at random among the channels that are ready, the loop
runs in its own thread, and the pool runs every job that was queued and replaces a
thread that panics. Nothing is assumed of the editor. `TransactionBuilder` and
`Translator` are sequential programs, for which weak fairness of their steps only says
that a program that runs goes on; commands, edits and kills are not fair. Deadlock is not
checked: when the editor has nothing left to say, or a command has ended, the system may
rest.

### Runs that end in a violation

Each states what a comment or a test of the repository says, and TLC shows a behaviour
of the code that does otherwise (`findings` in `PROJECT.json`).

| run | property | what happens |
|---|---|---|
| `DoveIndex_v_checkout` | `CloneAtRequest` | a kill between clone and checkout is never repaired (`git.rs:22`) |
| `Translator_v_meaning` | `SameMeaning` | `!(x == y)` is printed without brackets (`operators.rs:180`), a field of a field with `&&` (`rf.rs:64`), an assert in a branch takes in the rest of the function (`branching/mod.rs:28`), a return in an else branch loses its keyword (`branching/mod.rs:39`) |
| `FrontEnd_v_windows` | `LineEndsDoNotOffset` | from the third CR LF on, an error close to the start of its line is shown too far left (`line_endings.rs:24`); `test_windows_line_endings_do_not_offset_errors` (`language_server/tests/test_compilation_check.rs:769`) holds because a space follows its three line ends |

More that the models show and no run states:

* registration and the first settings request share the id 1 (`server.rs:72`,
  `main_loop.rs:145`): when the registration is answered late (`PromptClient = FALSE`), its
  answer is taken for the settings, and `SettingsInForce` fails;
* new settings replace the database by the content of the disk, open buffers included
  (`main_loop.rs:199`), and the diagnostics of a deleted file are never cleared
  (`main_loop.rs:346`);
* a shutdown can overtake a queued deletion, on which the assertion at
  `language_server/tests/test_lsp.rs:203` depends;
* after a change of revision the commands alternate between the old clone and the new one
  (`index/mod.rs:63`), and `dove clean` leaves an index that points at removed chain files
  (`clean.rs:13`; `DependenciesExist` and `DependencySetClosed` make this exception);
* a command killed before the checkout, a second one that indexes the head, `dove clean`, and
  a third one that clones again at the revision asked for: the clone is skipped by its name
  (`store.rs:60`, `index/mod.rs:63`), so that the index keeps what the head had and lacks
  modules of the revision; `CacheIndexed` makes this exception (`UpToDate`);
* the dependency set is a set of files (`index/mod.rs:160`): what other modules of these files
  import is not resolved, and a module can come in twice, from a local file and from a
  file of a repository taken for another of its modules;
* a command that is killed between truncation and write of the index (`store.rs:105`) leaves
  one that no command can read until the user deletes it;
* a kill between creation and write of a chain file (`chain/mod.rs:56`) leaves an empty
  file that later commands take for a downloaded one, so that they fail until `clean`;
* the walk for imports does not visit the type of an annotation (`meta.rs:373`), the
  fields of a pattern without type arguments (`meta.rs:241`) and the constants of a script
  (`meta.rs:434`); `ImportsComplete` makes these exceptions;
* `ct`: a call with an open bracket or parenthesis is read for ever (`ct.rs:168`, `178`),
  which `CommandEnds` excepts; with `--file` the only script of the file is taken whatever
  name is given (`ct.rs:235`), and a name that is not in a file of several scripts panics
  (`ct.rs:232`); the option for type parameters always fails, since its lexer is not
  advanced (`ct.rs:83`); `vector<bool>`, which `README.md:102` lists, is refused
  (`ct.rs:464`); a kill, or a failing creation or write, after the removal loses the stored
  transaction (`ct.rs:622`), which `FailureKeepsTransactions` excepts; files that do not
  parse are passed over in the search by name (`ct.rs:265`);
* a test file that does not compile ends `dove test` without running the files after it
  (`cmd/test.rs:52`), and a test without scripts counts as good (`executor.rs:93`);
* front end: with several wallet addresses in a file the layers behind the first are off
  (`bech32.rs:50`, `ss58.rs:52`), and so are the bytes right behind a bech32 address, which
  becomes shorter; when such a place lies behind the end of the file the language server
  panics (`analysis.rs:50`); a bech32 address right behind a bracket is not seen
  (`bech32.rs:12`); the end of a token before a CR LF is shown one column too far; dove
  prints translated places against the normalised text (`builder.rs:39`).

Each property of a passing run has a mutant in `PROJECT.json`: a changed definition, such
as a pool of two threads, under which TLC finds the property violated.

## Proofs

`tlapm <module>` in this directory checks a module. The theorems hold for all constants
that satisfy the assumptions named in the model, and so for any number of files, texts,
modules, scripts and steps: every bound of a run is a constant. Each inductive invariant
was checked by TLC on the instances of the runs before it was proved.

What a loop over data computes is written in the model as a recursive function on `0..n`.
The induction theorems of the library take a predicate, which the provers cannot
instantiate; `SequenceFacts.tla` states induction for a set (`NatInduct`, `InductTo`: the numbers
with the property are a set that has 0 and the successor of each member) and proves that a
recursive function on `0..n` exists and unfolds (`RecursionTo`). With these the loops over
comments, tokens, characters and layers are proved correct for data of any length.

### Language server

From `ConstantsAssumption`. `LanguageServerProofs.tla`:

* `TypeCorrect`: `Spec => []TypeOK`. One lemma for each group of actions; queues are
  sequences of records, and the lemmas about messages and bodies say which fields a
  message of each kind has.
* `OrderTheorem`: `Spec => []InOrder`. `InOrder` is inductive together with `TypeOK`: it
  orders the published number, the finished batches, the jobs and the last snapshot in
  one chain. The worker only finishes the first job, because `PoolSize` is 1
  (`FinishIsTail`), and that is where the proof fails for a larger pool.
* `NeverOlderTheorem`: `Spec => NeverOlder`, from `InOrder`: the only step that changes
  `shown` publishes the head of `resp_events`.
* `StaleAnswerTheorem`: `Spec => StaleAnswerIgnored`. The strengthening is `AwaitsLast`:
  the awaited id is 0 or the last one given out.

`DeliveryProofs.tla`:

* `SettingsTheorem`: `PromptClient /\ Spec => [](Faultless => SettingsInForce)`. The invariant
  `Settled` follows the settings chosen last: they are in force, or in the answer that
  waits for the last request, or that request is still to be answered, or the
  notification that will cause it is still in the inbox (`OnTheWay`); no request or answer
  has a number that was not given out yet (`Numbered`). Both hypotheses are needed. A late
  answer to the registration has the number of the first settings request
  (`server.rs:72`), and after an answer without settings the old ones stay
  (`main_loop.rs:185`).
* `BuffersTheorem`: `Spec => [](SettingsKept => BuffersInDatabase)`. The invariant `Delivered`
  follows the text of each open buffer: the last message about the file that waits in the
  inbox carries it, or, without such a message, the last file event about it does, or
  the database has it. `SettingsKept`, that the user has not changed the settings yet, is
  needed because new settings reload the database from disk (`main_loop.rs:199`).

* `ShownTheorem`: `LibraryKept /\ Spec => []ShownIsCurrent`. The invariant `Feed` has three
  parts. The library is in every snapshot as it is on disk (`LibraryInSync`). An opened
  file is in the last snapshot or has an event that waits (`OpenCovered`). The last
  snapshot is on its way to the editor as a job, then as a batch, then as what is shown,
  and at each station the diagnostics are right about the files that are checked
  (`OnItsWay`, `Right`): each one is the error of a file that a check of the snapshot finds,
  and the last one of a file that does not parse says so, in whatever order the files
  are checked. For this it matters that a check clears its target before it adds the error
  it found. `LibraryKept`, that the user edits no library file, is needed because
  the worker reads the library from disk while a job runs: a job that meets a changed
  file panics and its diagnostics are lost (`analysis.rs:50`), as `CheckPanics` models.

### Dependency index

`DoveIndexProofs.tla`, from `DoveAssumption`; the proofs do not use `AcyclicImports`. One
invariant, `IInv`, is inductive over all steps of a command, kills and edits included, and
each theorem names one of its consequences:

* `TypeCorrect` and `ImportsCachedFirstTheorem`. `StackCovers` is about the calls of
  `load_tree` in progress: an import of a module on the stack is still to be visited, is
  the module of the next call, or is written. Hence the imports are written when a call
  comes to write its own file, and a kill loses the stack only.
* `DependencySetClosedTheorem`. `Resolving`: a visited module has its file in the set, what the
  visited modules import is visited or still to be visited, and both are needed. At the end
  nothing is left to visit, so that the visited modules are complete, and those that are
  needed (`NeededBy`, the least complete set) are among them. `FilesExist` (below) says that
  their files hold them; therefore the theorem is about a cache that was not removed.
* `LocalFirstTheorem`. `LocalsIndexed`: the local entries are replaced by those of the path
  dependency before anything is resolved, and `get_module` looks at them first. Both
  directions need that the visited modules are the needed ones.
* `CacheIndexedTheorem`. `Scanned`: an entry that the scan has passed, or that it skips
  because the stored index knows it, is indexed. For a clone that is skipped, an index with
  one entry of a repository at a revision has all modules of that revision (`GitClosed`),
  hence the hypothesis `UpToDate` of the property.
* `DependenciesExistTheorem`. `FilesExist`: until `dove clean` runs, every entry of both
  indexes is backed by the file it names, at the revision it was read from (`Backed`), a
  clone that is not indexed yet may still change its revision (`Unread`), and it fails only
  before it holds a file.

### Executor

`ExecutorProofs.tla`, from `ResourceAssumption`, `ProjectsAssumption` (tests and dependencies
are lists) and `ScriptsAssumption` (what a script writes and what its comments declare are
resources). `IInv` has two halves.

`Ordered` is about the loops: what is to be run belongs to the test (`UnitsOfTest`), an error
is the last step and ends the pipeline (`ErrorIsLast`), steps come in the order of the
sort and before what is left (`StepsInOrder`), a script is a step or left (`NoneIsLost`), a
selected test is in the queue, running or done (`NoTestIsLost`), errors of finished
pipelines are noted (`ErrorIsNoted`, `DoneInOrder`) and the verdict goes by that
(`VerdictIsNoted`). It gives `OkMeansAllRanTheorem`; `ErrorIsLast` is
needed because `render_test_result` looks at the last step only.

`Kept` is about the data: `StoreIsCommitted`, `SeesCommitted`, `AddedOnce`, and `AbsentIsRemoved`,
the part that makes `AddedOnce` inductive: what a pipeline has stored and is gone was
removed by a later step. It gives `StoreIsCommittedTheorem`, `SeesCommittedTheorem` and
`AddedOnceTheorem`. `StepIsRecord` reduces the six actions that run a script to the one
effect they share, and `LeftByAppended` says what one more step changes of what the
steps have left.

`ExpectedIsDeclaredTheorem` has an invariant of its own, `Announced`: an error that was accepted is
one that the metadata of its script accepts. `Declared` reads the block of comments above
a script off the file, by its last line that is no comment; the lemmas show by induction
over the lines that the search from the end of the file (`CommentSearch`), which moves its
candidate with every hit, finds just this block, and by induction over the comments that
the last one of a kind prevails (`MetaAfter`). `StatusAssumption` says that `MissingData` is a
status.

`ImplementsLedgerTheorem`: `Spec => ImplementsLedger`. A step of a script is a `Commit` or a
`Break`: it can only happen while the pipeline is whole, an error leaves the store alone,
and a commit keeps its domain. The steps of the loop map to the other actions of `Ledger`.

### Transaction builder

`TransactionBuilderProofs.tla`, from `NoneAssumption`, `BudgetAssumption`, `CommandsAssumption`
and `DirsAssumption`: directories are finite, and a script that compiles has at most 255
parameters, since the bytecode numbers the locals of a function by a byte. The last one
is needed because `ct.rs` counts signers in a `u8`. `IInv` says which script was found
(`ScriptFound`), that a name without a file stands for one script (`NamedOnce`), that the
parameters taken so far have the arguments taken so far, by place and type (`Preparing`),
and that the stored transactions are untouched until the old one is removed (`Untouched`) and
differ from then on only at the name of the script.
It gives `TypeCorrect`, `StoredIsCallableTheorem`, `NameIsUniqueTheorem` and
`FailureKeepsTransactionsTheorem`.

`CallUnderstoodTheorem` uses `MeantAssumption`: a command that is meant as a call is written out as
one (`Written`: name, types, and each argument at its place, scalars without a comma,
vectors to their first closing bracket). The invariant `Understanding` says how much was read:
the name, types and arguments so far are those that are meant, and the lexer stands at the
place of the next argument or inside of it, with its first tokens read (`SoFar`).

### Source metadata

`SourceMetaProofs.tla`, from `NodesAssumption`, `FilesAssumption`, `NoAddressAssumption` and
`TreeAssumption`. The invariant `Walk` says what the walk still owes. Its `Shape` keeps one
entry for each definition passed (`TypeCorrect`). Nothing is collected or waits in `todo` that the
definition does not name (`Sound`), and as long as the definition has none of the three gaps,
each module it names is collected or named under a node of `todo` (`Owed`). A step takes one
node off and puts its parts on; the lemmas go through the kinds of nodes and show that its
parts are all of its children that name anything. At the end of a definition `todo` is empty,
hence `ImportsCompleteTheorem`: `Spec => []ImportsComplete`.

### Front end

`FrontEndProofs.tla`, from `JobsAssumption`, `DigitsType` and `ZeroType`. The lemmas about the
four passes come first: a pass maps texts to texts, token by token; what each token becomes
(`Becomes`) and how its layers take the places behind it back.

* `TypeCorrect` and `VerdictRightTheorem`: `Spec => []TypeOK` and `Spec => []VerdictRight`. `IInv` is
  `Parsing`, each file is still to be parsed or has its normalised text and the layers of
  that normalisation, and `Judging`, after each phase there is an error exactly if the
  phases so far find one. A fault of the user survives the normalisation (`Traced`), and the
  normalisation adds none but an unseen wallet.
* `SpansTheorem`: `Spec => []((\A f \in SourceFiles(job) : Wallets(f.text) = {}) => SpansInFile)`.
  The invariant `Located` has every error between two tokens of its normalised text, and the
  layers of line ends, placeholders and padded addresses, undone last to first, take such a
  place into the file of the user: it may be off by some bytes, but not outside the file.
  Line ends of any kind are covered.
* `PlacesTheorem`: `Spec => []((\A f \in SourceFiles(job) : Straight(f.text)) => ErrorsInPlace)`. A
  file is `Straight` if its line ends have one byte and it has no wallet address of the
  dialect. The invariant `Complete` says exactly which errors there are after each phase and
  where. `Aligned` is what a pass over a straight text keeps: undoing the layers takes the end
  of each new token to the end of the old one. `PlaceIsPosition` adds that the search for the
  line of a byte (`Position`) finds the line and column of the token (`Place`).

The hypotheses of the last two are about the text of the user and hold in most files.
They are there because outside of them the layers of the code drift: those of CR LF from the
third on (`FrontEnd_v_windows`), those of wallet addresses from the second on and those of one
that becomes shorter. `SpansInFile` and `ErrorsInPlace` say more, with `Drifts` place by
place; what they say of the other files is checked by TLC.

### Only model-checked

* `TypeOK`, `BlocksNest` and `MeaningKept` of `Translator`: the layout of the compiled code and the
  runs of both languages are RECURSIVE operators over nested terms, which TLAPS does not
  take.
* `ErrorsInPlace` and `SpansInFile` of `FrontEnd` in programs with wallet addresses of the
  dialect, and `ErrorsInPlace` in those with CR LF.
* The liveness properties `BrokenReported`, `PoolDrains`, `CommandEnds` and `Translated`: TLAPS
  does not reason about fairness.

## Not modelled

* Wording of diagnostics, logs. In the front end comments, text that is not ASCII,
  checksums of addresses, and the reading of files (`file.rs`).
* A panic of the loop itself while settings are applied (`global_state.rs:72`) and
  relative paths in settings (`main_loop.rs:248`).
* Two dove processes at once; manifests that depend on each other in a cycle.
* The compilation that follows `LoadDependencies`, and the artifacts it writes.
* In the disassembler the headers of units, aliases of imports, generics and types.
* Gas, and the text of what the executor prints.
* `lang/compat`: a pure function, planned below. Manifest and the commands `new`, `init`, `metadata`: writing
  of files without state. The resource viewer and the node client: one request and the
  formatting of its answer. The dispatcher: not reached from `run_server`. The version
  hash: runs at compile time.

## Plan

1. An abstract specification of the diagnostics feed (the editor shows, for each
   snapshot in order, what the snapshot calls for) and `LanguageServer` as a refinement;
   `Feed` of `DeliveryProofs` is most of the mapping.
2. `Mutator` of `lang/compat`: `adapt` and `mutate` on short sequences against a reference.
3. Artifacts of a build and two concurrent dove processes in `DoveIndex`; the bytecode
   cache of `Loader`.
4. Aliases of imports in the disassembler: no two modules under one name.
5. Proofs: the types and `BlocksNest` of `Translator`, for which the recursive definitions have
   to move to a module that only TLC uses; `PlacesTheorem` for files with one wallet address
   and with up to two CR LF.
