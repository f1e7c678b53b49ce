------------------------------ MODULE Executor ------------------------------
(***************************************************************************)
(* The script executor (executor/src) and the loops that drive it: the     *)
(* test runner, dove test, dove run and the executor binary.  A session is *)
(* compiled from one file and its dependencies; its scripts run in the     *)
(* order of their positions over one data store, each on a copy to which   *)
(* the values of its own doc comments are added.                           *)
(*                                                                         *)
(* A file is a sequence of lines.  A line is code, a doc comment with a    *)
(* key and a value, a constant of a module, the head of a module, or a     *)
(* script; the end of the span of a script is its line.  A script is the   *)
(* record that the virtual machine, external, acts on (see RunScript).     *)
(***************************************************************************)
EXTENDS Naturals, Sequences, SequencesExt, FiniteSetsExt

CONSTANTS
    Projects,       \* what a command is started with: [mode, tests, skipped, deps, args]
    Resource,       \* pairs of an address and a struct tag
    Val,            \* values of resources
    Sender,         \* the account of the command line
    Status,         \* names of status codes
    TimeResource, BlockResource, Coins, MissingData,
    Absent,         \* no resource
    None            \* Option::None

ASSUME ResourceAssumption ==
    /\ TimeResource \in Resource /\ BlockResource \in Resource
    /\ 100 \in Val /\ Absent \notin Val

ASSUME StatusAssumption == MissingData \in Status /\ None \notin Status

\* The tests and the dependencies are lists of files, and a file is a list of lines.
ASSUME ProjectsAssumption ==
    \A p \in Projects : \A s \in {p.tests, p.deps} :
        /\ Len(s) \in Nat /\ s = [i \in 1..Len(s) |-> s[i]]
        /\ \A f \in DOMAIN s : Len(s[f]) \in Nat /\ s[f] = [l \in 1..Len(s[f]) |-> s[f][l]]

VARIABLES
    project,        \* the arguments of the command
    queue,          \* the tests that are still to be run, as indices of project.tests
    test,           \* the test that is being run, 0 if none is
    units,          \* the set of the scripts of the session that are still to be run
    store,          \* data_store
    script_args,    \* the arguments for the next script
    steps,          \* step_results
    has_failures,
    outcome,        \* how the command ended
    history         \* the step results of the tests that are done

vars == <<project, queue, test, units, store, script_args, steps, has_failures, outcome, history>>

-----------------------------------------------------------------------------
(* Doc comments *)

IsDoc(line)    == line.is = "doc"
IsScript(line) == line.is = "script"

\* Mutant: the comments above the script, with or without a gap.
ExtractAllAbove(file, s) == SelectSeq(SubSeq(file, 1, s - 1), IsDoc)

\* A comment on the line looked for moves that line up by one.
LookAt(file, l, before) ==
    IF IsDoc(file[l]) /\ l = before.candidate
    THEN [candidate |-> l - 1, found |-> <<file[l]>> \o before.found]
    ELSE before

\* The list of all comments is read from its end: what is found when k lines are read.
CommentSearch(file, s) ==
    LET Read[k \in 0..Len(file)] ==
            IF k = 0 THEN [candidate |-> s - 1, found |-> <<>>]
            ELSE LookAt(file, Len(file) + 1 - k, Read[k - 1])
    IN  Read

\* The comments that belong to the script in line s.
ExtractScriptDocComments(file, s) == CommentSearch(file, s)[Len(file)].found

DefaultMeta == [signers |-> <<>>, balances |-> <<>>, prices |-> <<>>, time |-> None, block |-> None,
                aborts_with |-> None, status |-> None, dry_run |-> FALSE, panicked |-> FALSE]

\* A value that cannot be parsed ends the process; an unknown status or key is only reported.
ApplyMetaComment(meta, doc) ==
    IF doc.form = "unparsable" /\ doc.key # "status" THEN [meta EXCEPT !.panicked = TRUE]
    ELSE IF doc.form = "incomplete" THEN meta
    ELSE CASE doc.key = "signers"      -> [meta EXCEPT !.signers = doc.val]
           [] doc.key = "balance"      -> [meta EXCEPT !.balances = Append(@, doc.val)]
           [] doc.key = "price"        -> [meta EXCEPT !.prices = Append(@, doc.val)]
           [] doc.key = "current_time" -> [meta EXCEPT !.time = doc.val]
           [] doc.key = "aborts_with"  -> [meta EXCEPT !.aborts_with = doc.val]
           [] doc.key = "status"       -> [meta EXCEPT !.status = IF doc.val \in Status THEN doc.val ELSE None]
           [] doc.key = "block"        -> [meta EXCEPT !.block = doc.val]
           [] doc.key = "dry_run"      -> [meta EXCEPT !.dry_run = doc.val]
           [] OTHER                    -> meta

\* The metadata when k comments are applied.
MetaAfter(docs) ==
    LET After[k \in 0..Len(docs)] ==
            IF k = 0 THEN DefaultMeta ELSE ApplyMetaComment(After[k - 1], docs[k])
    IN  After

ScriptMeta(file, s) ==
    LET docs == ExtractScriptDocComments(file, s)
        meta == MetaAfter(docs)[Len(docs)]
    IN  IF meta.signers = <<>> THEN [meta EXCEPT !.signers = <<Sender>>] ELSE meta

-----------------------------------------------------------------------------
(* The session *)

Sources(t) == <<project.tests[t]>> \o project.deps

AllLines(t) == UNION {ToSet(Sources(t)[f]) : f \in DOMAIN Sources(t)}

\* The scripts of a session, as units.
SessionUnits(t) ==
    LET src == Sources(t)
    IN  UNION {{[file |-> f, line |-> l, prog |-> src[f][l].prog, meta |-> ScriptMeta(src[f], l)] :
                   l \in {k \in DOMAIN src[f] : IsScript(src[f][k])}} : f \in DOMAIN src}

\* The units are sorted by the end of their spans.
Before(u, v) == u.line < v.line \/ (u.line = v.line /\ u.file < v.file)

\* The unit that is run next.
Upcoming == {u \in units : \A v \in units \ {u} : Before(u, v)}

\* The modules that FakeRemoteCache::new stores.
HasModule(t, m) == \E line \in AllLines(t) : line.is = "module" /\ line.name = m

\* The names of the constants that begin with ERR_, by module and value; where two have one
\* value the later one stays.
ErrorName(t, module, code) ==
    LET src   == FlattenSeq(Sources(t))
        Named == {i \in DOMAIN src : /\ src[i].is = "const" /\ src[i].err
                                     /\ src[i].module = module /\ src[i].code = code}
    IN  IF Named = {} THEN None ELSE src[Max(Named)].name

Compiles(t) == \A line \in AllLines(t) : line.is # "broken"

\* The arguments, None if one of them cannot be read, are read before anything is compiled.
Builds(t) == project.args # None /\ Compiles(t)

-----------------------------------------------------------------------------
(* One script *)

\* What the doc comments put into the copy of the store, in this order.
Injected(meta) ==
    (IF meta.time = None THEN <<>> ELSE <<[res |-> TimeResource, val |-> meta.time]>>)
      \o <<[res |-> BlockResource, val |-> IF meta.block = None THEN 100 ELSE meta.block]>>
      \o meta.prices \o meta.balances

\* The virtual machine writes resources, and the values of doc comments are resources, too.
ASSUME ScriptsAssumption ==
    \A p \in Projects : \A file \in ToSet(p.tests) \cup ToSet(p.deps) :
        \A l \in {k \in DOMAIN file : IsScript(file[k])} :
            LET writes == file[l].prog.writes
                meta   == ScriptMeta(file, l)
            IN  /\ DOMAIN writes \subseteq Resource
                /\ \A r \in DOMAIN writes : writes[r] \in Val \cup {Absent}
                /\ {meta.time, meta.block} \subseteq Val \cup {None}
                /\ {meta.prices, meta.balances} \subseteq Seq([res : Resource, val : Val])

\* The copy of the store that a script runs on; a later value replaces an earlier one.
View(meta) ==
    [r \in Resource |->
        LET W == {i \in DOMAIN Injected(meta) : Injected(meta)[i].res = r}
        IN  IF W = {} THEN store[r] ELSE Injected(meta)[Max(W)].val]

\* The virtual machine, external.  A script takes p.signers signers and arguments of the
\* types p.args, needs the resources p.needs, asserts that resources have the values
\* p.asserts, aborting with p.code in p.module if not, and writes p.writes.
RunScript(p, ds, signers, args) ==
    CASE ~p.links                                     -> [kind |-> "error"]
      [] Len(signers) # p.signers \/ args # p.args    -> [kind |-> "type_mismatch"]
      [] \E r \in p.needs : ds[r] = Absent            -> [kind |-> "failure", code |-> MissingData]
      [] \E r \in DOMAIN p.asserts : ds[r] # p.asserts[r] -> [kind |-> "abort", code |-> p.code]
      [] OTHER                                        -> [kind |-> "executed"]

\* explain_type_error; the caller passes no arguments (execution.rs:262).
ExplainTypeError(p, signers) ==
    CASE p.signers # Len(signers) -> "number of signers"
      [] Len(p.args) # 0          -> "number of arguments"
      [] OTHER                    -> "type arguments"

\* Mutant: every value written counts as added.
LabelByValue(ds, writes, r) == IF writes[r] = Absent THEN "Changed" ELSE "Added"

\* explain_effects, against the copy of the store.
Label(ds, writes, r) == IF writes[r] # Absent /\ ds[r] # Absent THEN "Changed" ELSE "Added"

\* Mutant: the effects replace the store.
MergeNothing(ds, writes) == [r \in DOMAIN writes |-> writes[r]]

MergeEffects(ds, writes) == [r \in Resource |-> IF r \in DOMAIN writes THEN writes[r] ELSE ds[r]]

\* Mutant: an error does not end the pipeline.
RecordAndGoOn(u, result, why, writes, ds) ==
    /\ steps' = Append(steps, [unit |-> u, result |-> result, why |-> why, args |-> script_args,
                               seen |-> ds, writes |-> writes,
                               labels |-> [r \in DOMAIN writes |-> Label(ds, writes, r)]])
    /\ units' = units \ {u}
    /\ script_args' = <<>>
    /\ UNCHANGED <<project, queue, test, has_failures, outcome, history>>

\* The result of a step is recorded, the arguments are used up, and an error ends the
\* pipeline.
Record(u, result, why, writes, ds) ==
    /\ steps' = Append(steps, [unit |-> u, result |-> result, why |-> why, args |-> script_args,
                               seen |-> ds, writes |-> writes,
                               labels |-> [r \in DOMAIN writes |-> Label(ds, writes, r)]])
    /\ units' = IF result = "Error" THEN {} ELSE units \ {u}
    /\ script_args' = <<>>
    /\ UNCHANGED <<project, queue, test, has_failures, outcome, history>>

Running == outcome = "running" /\ test # 0

\* Prices are declared and 0x1::Coins is not there.
NoCoins(u) ==
    /\ Running
    /\ u.meta.prices # <<>> /\ ~HasModule(test, Coins)
    /\ Record(u, "Error", "no Coins module", <<>>, store)
    /\ UNCHANGED store

Executes(u, kind) ==
    /\ Running
    /\ u.meta.prices = <<>> \/ HasModule(test, Coins)
    /\ RunScript(u.prog, View(u.meta), u.meta.signers, script_args).kind = kind

\* Mutant: the effects of a dry run are merged.
SucceedAlways(u) ==
    /\ Executes(u, "executed")
    /\ Record(u, "Success", None, u.prog.writes, View(u.meta))
    /\ store' = MergeEffects(store, u.prog.writes)

\* Mutant: the script runs on the data store and not on a copy.
SucceedInPlace(u) ==
    /\ Executes(u, "executed")
    /\ Record(u, "Success", None, u.prog.writes, View(u.meta))
    /\ store' = IF u.meta.dry_run THEN store ELSE MergeEffects(View(u.meta), u.prog.writes)

Succeed(u) ==
    /\ Executes(u, "executed")
    /\ Record(u, "Success", None, u.prog.writes, View(u.meta))
    /\ store' = IF u.meta.dry_run THEN store ELSE MergeEffects(store, u.prog.writes)

Abort(u) ==
    /\ Executes(u, "abort")
    /\ Record(u, IF u.meta.aborts_with = u.prog.code THEN "ExpectedError" ELSE "Error",
              ErrorName(test, u.prog.module, u.prog.code), <<>>, View(u.meta))
    /\ UNCHANGED store

Fail(u) ==
    /\ Executes(u, "failure")
    /\ Record(u, IF u.meta.status = MissingData THEN "ExpectedError" ELSE "Error",
              MissingData, <<>>, View(u.meta))
    /\ UNCHANGED store

TypeMismatch(u) ==
    /\ Executes(u, "type_mismatch")
    /\ Record(u, "Error", ExplainTypeError(u.prog, u.meta.signers), <<>>, View(u.meta))
    /\ UNCHANGED store

OtherError(u) ==
    /\ Executes(u, "error")
    /\ Record(u, "Error", "unexpected", <<>>, View(u.meta))
    /\ UNCHANGED store

-----------------------------------------------------------------------------
(* The loop over the files *)

EmptyStore == [r \in Resource |-> Absent]

NextTest == outcome = "running" /\ test = 0 /\ queue # <<>>

\* The name does not match the pattern.
SkipTest ==
    /\ NextTest
    /\ Head(queue) \in project.skipped
    /\ queue' = Tail(queue)
    /\ UNCHANGED <<project, test, units, store, script_args, steps, has_failures, outcome, history>>

\* A session that cannot be built ends the command, tests to come included.
BuildError ==
    /\ NextTest
    /\ Head(queue) \notin project.skipped
    /\ ~Builds(Head(queue))
    /\ outcome' = "error"
    /\ UNCHANGED <<project, queue, test, units, store, script_args, steps, has_failures, history>>

MetaPanic ==
    /\ NextTest
    /\ Head(queue) \notin project.skipped
    /\ Builds(Head(queue))
    /\ \E u \in SessionUnits(Head(queue)) : u.meta.panicked
    /\ outcome' = "panic"
    /\ UNCHANGED <<project, queue, test, units, store, script_args, steps, has_failures, history>>

StartTest ==
    /\ NextTest
    /\ Head(queue) \notin project.skipped
    /\ Builds(Head(queue))
    /\ \A u \in SessionUnits(Head(queue)) : ~u.meta.panicked
    /\ test' = Head(queue)
    /\ queue' = Tail(queue)
    /\ units' = SessionUnits(Head(queue))
    /\ store' = EmptyStore
    /\ script_args' = project.args
    /\ steps' = <<>>
    /\ UNCHANGED <<project, has_failures, outcome, history>>

\* render_test_result: the last step decides, and a file without scripts is no failure.
FinishTest ==
    /\ outcome = "running" /\ test # 0 /\ units = {}
    /\ has_failures' = (has_failures \/ (steps # <<>> /\ Last(steps).result = "Error"))
    /\ history' = Append(history, [test |-> test, steps |-> steps])
    /\ test' = 0
    /\ UNCHANGED <<project, queue, units, store, script_args, steps, outcome>>

Verdict == IF project.mode = "test" /\ has_failures THEN "failed" ELSE "ok"

\* dove run and the executor print the steps and succeed whatever they are.
EndCommand ==
    /\ outcome = "running" /\ test = 0 /\ queue = <<>>
    /\ outcome' = Verdict
    /\ UNCHANGED <<project, queue, test, units, store, script_args, steps, has_failures, history>>

Init ==
    /\ project \in Projects
    /\ queue = [i \in DOMAIN project.tests |-> i]
    /\ test = 0
    /\ units = {}
    /\ store = EmptyStore
    /\ script_args = <<>>
    /\ steps = <<>>
    /\ has_failures = FALSE
    /\ outcome = "running"
    /\ history = <<>>

Next ==
    \/ \E u \in Upcoming :
          NoCoins(u) \/ Succeed(u) \/ Abort(u) \/ Fail(u) \/ TypeMismatch(u) \/ OtherError(u)
    \/ SkipTest \/ BuildError \/ MetaPanic \/ StartTest \/ FinishTest \/ EndCommand

Spec == Init /\ [][Next]_vars

-----------------------------------------------------------------------------
(* Properties *)

\* Every variable keeps its type, whatever the scripts write: in particular the data store
\* stays a total map when effects are merged into it (merge_effects, execution.rs:96).
TypeOK ==
    /\ queue \in Seq(DOMAIN project.tests)
    /\ test \in {0} \cup DOMAIN project.tests
    /\ store \in [Resource -> Val \cup {Absent}]
    /\ \A i \in DOMAIN steps : steps[i].result \in {"Success", "Error", "ExpectedError"}
    /\ has_failures \in BOOLEAN
    /\ outcome \in {"running", "ok", "failed", "error", "panic"}

\* The step has changed the store: it succeeded and is not a dry run.
Committed(step) == step.result = "Success" /\ ~step.unit.meta.dry_run

\* The value that the steps before step n leave for resource r.
LeftBy(n, r) ==
    LET W == {i \in 1..(n - 1) : Committed(steps[i]) /\ r \in DOMAIN steps[i].writes}
    IN  IF W = {} THEN Absent ELSE steps[Max(W)].writes[r]

\* The data store of a pipeline holds for each resource what the last step that committed it
\* wrote: nothing of a dry run, of an aborted script, of another test, or of the values that
\* doc comments put in, which execute_script adds to a copy (execution.rs:171).
StoreIsCommitted == test # 0 => \A r \in Resource : store[r] = LeftBy(Len(steps) + 1, r)

\* Each script saw what the scripts before it committed, and besides only values that its own
\* doc comments declare; the block height is there in any case (execution.rs:199).
SeesCommitted ==
    \A n \in DOMAIN steps : steps[n].why # "no Coins module" =>
        LET own == {w.res : w \in ToSet(Injected(steps[n].unit.meta))}
        IN  /\ BlockResource \in own
            /\ \A r \in Resource \ own : steps[n].seen[r] = LeftBy(n, r)

\* The doc block of a script, by its meaning: the comments on the lines right above it,
\* without a gap.
DocBlock(file, s) == {l \in 1..(s - 1) : \A k \in l..(s - 1) : IsDoc(file[k])}

\* What the last comment of the block that is complete says for a key, if one does.
Declared(file, s, key) ==
    LET D == {l \in DocBlock(file, s) : file[l].key = key /\ file[l].form # "incomplete"}
    IN  IF D = {} THEN None ELSE file[Max(D)].val

\* An error is accepted only if the doc block right above the script that raised it, and not
\* the block of another script of the file, announces it (execution.rs:238, session.rs:101).
ExpectedIsDeclared ==
    \A n \in DOMAIN steps : steps[n].result = "ExpectedError" =>
        LET u == steps[n].unit
            file == Sources(test)[u.file]
        IN  test # 0 => \/ Declared(file, u.line, "aborts_with") = u.prog.code
                        \/ Declared(file, u.line, "status") = MissingData

\* When a test command ends well, every test that its pattern selects was run, the scripts
\* of each of them and of the dependencies were all executed, in the order of their positions,
\* and none ended with an error, although only the last step of a pipeline is looked at
\* (session.rs:41, executor.rs:92).
OkMeansAllRan ==
    outcome = "ok" /\ project.mode = "test" =>
        \A t \in DOMAIN project.tests \ project.skipped :
            \E h \in ToSet(history) :
                /\ h.test = t
                /\ {s.unit : s \in ToSet(h.steps)} = SessionUnits(t)
                /\ \A i, j \in DOMAIN h.steps : i < j => Before(h.steps[i].unit, h.steps[j].unit)
                /\ \A i \in DOMAIN h.steps : h.steps[i].result # "Error"

\* A resource is reported as added once: before it is reported so again, a committed step
\* has removed it, or the first report is one of a dry run (explain.rs:245).
AddedOnce ==
    \A i, j \in DOMAIN steps : \A r \in DOMAIN steps[i].writes \cap DOMAIN steps[j].writes :
        (/\ i < j /\ Committed(steps[i])
         /\ steps[i].writes[r] # Absent
         /\ steps[j].writes[r] # Absent /\ steps[j].labels[r] = "Added")
           => \E k \in (i + 1)..(j - 1) : /\ Committed(steps[k]) /\ r \in DOMAIN steps[k].writes
                                          /\ steps[k].writes[r] = Absent

Broken == test # 0 /\ steps # <<>> /\ Last(steps).result = "Error"

Pipelines == INSTANCE Ledger WITH
    Empty <- EmptyStore, strict <- (project.mode = "test"), data <- store, open <- (test # 0),
    broken <- Broken, bad <- has_failures, verdict <- outcome

\* The executor and the loops around it keep the promise of Ledger.
ImplementsLedger == Pipelines!Spec
=============================================================================
