--------------------------- MODULE ExecutorProofs ---------------------------
(***************************************************************************)
(* What is proved about Executor for every set of projects, resources and  *)
(* values: the store of a pipeline holds what its scripts committed, each  *)
(* script sees just that besides its own doc comments, nothing is reported *)
(* as added twice, errors are never hidden and accepted only where the     *)
(* comments of a script announce them, a test command that ends well has   *)
(* run every script, and the executor implements Ledger.                   *)
(***************************************************************************)
EXTENDS Executor, SequenceFacts

Results == {"Success", "Error", "ExpectedError"}

\* The sequences are sequences, of what does not matter.
AreSequences ==
    /\ \E S : steps \in Seq(S)
    /\ \E S : history \in Seq(S)

\* The project is one of the projects, and what is to be run is of the test that runs.
UnitsOfTest ==
    /\ project \in Projects
    /\ test # 0 => units \subseteq SessionUnits(test)

\* An error is the last step of its pipeline, which it ends.
ErrorIsLast ==
    test # 0 => \A i \in DOMAIN steps :
        steps[i].result = "Error" => i = Len(steps) /\ units = {}

\* The steps are in the order of the scripts, and come before what is still to be run.
StepsInOrder ==
    test # 0 => /\ \A i, j \in DOMAIN steps : i < j => Before(steps[i].unit, steps[j].unit)
                /\ \A i \in DOMAIN steps : \A v \in units : Before(steps[i].unit, v)

\* While there is no error, each script of the session is a step or still to be run.
NoneIsLost ==
    test # 0 /\ (\A i \in DOMAIN steps : steps[i].result # "Error") =>
        {s.unit : s \in ToSet(steps)} \cup units = SessionUnits(test)

\* The error of a pipeline that is done has been noted.
ErrorIsNoted ==
    \A h \in DOMAIN history : \A i \in DOMAIN history[h].steps :
        history[h].steps[i].result = "Error" => has_failures

\* A pipeline that is done without an error has run its scripts in order.
DoneInOrder ==
    \A h \in DOMAIN history :
        (\A i \in DOMAIN history[h].steps : history[h].steps[i].result # "Error") =>
            /\ {s.unit : s \in ToSet(history[h].steps)} = SessionUnits(history[h].test)
            /\ \A i, j \in DOMAIN history[h].steps :
                  i < j => Before(history[h].steps[i].unit, history[h].steps[j].unit)

\* A test that is selected is still to come, runs, or is done.
NoTestIsLost ==
    \A t \in DOMAIN project.tests \ project.skipped :
        \/ t = test
        \/ \E i \in DOMAIN queue : queue[i] = t
        \/ \E h \in DOMAIN history : history[h].test = t

\* A test command judges by what was noted, and nothing is noted afterwards.
VerdictIsNoted ==
    outcome = "ok" => /\ queue = <<>> /\ test = 0
                      /\ project.mode = "test" => ~has_failures

\* A resource that a pipeline put into the store and that is not there was removed by a step.
AbsentIsRemoved ==
    test # 0 => \A r \in Resource : store[r] = Absent =>
        \A i \in DOMAIN steps :
            Committed(steps[i]) /\ r \in DOMAIN steps[i].writes /\ steps[i].writes[r] # Absent
              => \E k \in (i + 1)..Len(steps) : /\ Committed(steps[k]) /\ r \in DOMAIN steps[k].writes
                                               /\ steps[k].writes[r] = Absent

\* The loop over the tests and the order of what it runs.
Ordered == /\ UnitsOfTest /\ ErrorIsLast /\ StepsInOrder /\ NoneIsLost
           /\ ErrorIsNoted /\ DoneInOrder /\ NoTestIsLost /\ VerdictIsNoted

\* The store and what the scripts see of it.
Kept == StoreIsCommitted /\ SeesCommitted /\ AbsentIsRemoved /\ AddedOnce

IInv == TypeOK /\ AreSequences /\ Ordered /\ Kept

-----------------------------------------------------------------------------
(* Lemmas *)

\* What doc comments put into the copy of the store are resources, one of them the block.
LEMMA InjectedFacts ==
    ASSUME NEW meta, {meta.time, meta.block} \subseteq Val \cup {None},
           {meta.prices, meta.balances} \subseteq Seq([res : Resource, val : Val])
    PROVE  /\ Injected(meta) \in Seq([res : Resource, val : Val])
           /\ BlockResource \in {w.res : w \in ToSet(Injected(meta))}
<1> DEFINE R == [res : Resource, val : Val]
           b == [res |-> BlockResource, val |-> IF meta.block = None THEN 100 ELSE meta.block]
           A == IF meta.time = None THEN <<>> ELSE <<[res |-> TimeResource, val |-> meta.time]>>
<1>1. b \in R /\ b.res = BlockResource
  BY ResourceAssumption
<1>2. A \in Seq(R)
  <2>1. CASE meta.time = None
    BY <2>1
  <2>2. CASE meta.time # None
    <3>1. [res |-> TimeResource, val |-> meta.time] \in R
      BY <2>2, ResourceAssumption
    <3> QED
      BY <2>2, <3>1
  <2> QED
    BY <2>1, <2>2
<1>3. meta.prices \in Seq(R) /\ meta.balances \in Seq(R)
  OBVIOUS
<1>4. Injected(meta) = A \o <<b>> \o meta.prices \o meta.balances
  BY DEF Injected
<1> HIDE DEF R, b, A
<1>5. /\ A \o <<b>> \in Seq(R) /\ Len(A) \in Nat
      /\ Len(A \o <<b>>) = Len(A) + 1 /\ (A \o <<b>>)[Len(A) + 1] = b
  BY <1>1, <1>2
<1>6. /\ A \o <<b>> \o meta.prices \in Seq(R)
      /\ Len(A \o <<b>> \o meta.prices) >= Len(A) + 1
      /\ (A \o <<b>> \o meta.prices)[Len(A) + 1] = b
  <2> DEFINE B == A \o <<b>>
  <2> HIDE DEF B
  <2>1. B \in Seq(R) /\ Len(B) = Len(A) + 1 /\ B[Len(A) + 1] = b
    BY <1>5 DEF B
  <2>2. /\ B \o meta.prices \in Seq(R) /\ Len(B \o meta.prices) >= Len(A) + 1
        /\ (B \o meta.prices)[Len(A) + 1] = b
    BY <2>1, <1>3, <1>5
  <2> QED
    BY <2>2 DEF B
<1>7. /\ Injected(meta) \in Seq(R)
      /\ Len(Injected(meta)) >= Len(A) + 1
      /\ Injected(meta)[Len(A) + 1] = b
  <2> DEFINE B == A \o <<b>> \o meta.prices
  <2> HIDE DEF B
  <2>1. B \in Seq(R) /\ Len(B) >= Len(A) + 1 /\ B[Len(A) + 1] = b
    BY <1>6 DEF B
  <2>2. /\ B \o meta.balances \in Seq(R) /\ Len(B \o meta.balances) >= Len(A) + 1
        /\ (B \o meta.balances)[Len(A) + 1] = b
    BY <2>1, <1>3, <1>5
  <2> QED
    BY <2>2, <1>4 DEF B
<1>8. Len(A) + 1 \in DOMAIN Injected(meta)
  BY <1>5, <1>7
<1>9. b \in ToSet(Injected(meta))
  BY <1>7, <1>8 DEF ToSet
<1> QED
  BY <1>1, <1>7, <1>9 DEF R

\* What a unit of a session writes and declares are resources.
LEMMA UnitFacts ==
    ASSUME project \in Projects, NEW t \in DOMAIN project.tests, NEW u \in SessionUnits(t)
    PROVE  /\ DOMAIN u.prog.writes \subseteq Resource
           /\ \A r \in DOMAIN u.prog.writes : u.prog.writes[r] \in Val \cup {Absent}
           /\ Injected(u.meta) \in Seq([res : Resource, val : Val])
           /\ BlockResource \in {w.res : w \in ToSet(Injected(u.meta))}
<1> DEFINE src == Sources(t)
           F == ToSet(project.tests) \cup ToSet(project.deps)
<1>0. PICK f \in DOMAIN src : \E l \in {k \in DOMAIN src[f] : IsScript(src[f][k])} :
        u = [file |-> f, line |-> l, prog |-> src[f][l].prog, meta |-> ScriptMeta(src[f], l)]
  BY DEF SessionUnits
<1>1. PICK l \in {k \in DOMAIN src[f] : IsScript(src[f][k])} :
        u = [file |-> f, line |-> l, prog |-> src[f][l].prog, meta |-> ScriptMeta(src[f], l)]
  BY <1>0
<1>2. src[f] \in F
  <2>1. /\ Len(project.deps) \in Nat /\ project.deps = [i \in 1..Len(project.deps) |-> project.deps[i]]
        /\ Len(project.tests) \in Nat /\ project.tests = [i \in 1..Len(project.tests) |-> project.tests[i]]
    BY ProjectsAssumption
  <2>2. \A i \in DOMAIN project.deps : project.deps[i] \in F
    BY DEF ToSet
  <2>3. project.tests[t] \in F
    BY DEF ToSet
  <2> HIDE DEF F
  <2>4. project.deps \in Seq(F)
    BY <2>1, <2>2
  <2>5. <<project.tests[t]>> \in Seq(F)
    BY <2>3
  <2>6. src \in Seq(F)
    BY <2>4, <2>5, ConcatProperties DEF Sources
  <2> QED
    BY <2>6
<1>3. /\ u.prog = src[f][l].prog /\ u.meta = ScriptMeta(src[f], l)
      /\ l \in {k \in DOMAIN src[f] : IsScript(src[f][k])}
  BY <1>1
<1> HIDE DEF src
<1>4. /\ DOMAIN u.prog.writes \subseteq Resource
      /\ \A r \in DOMAIN u.prog.writes : u.prog.writes[r] \in Val \cup {Absent}
      /\ {u.meta.time, u.meta.block} \subseteq Val \cup {None}
      /\ {u.meta.prices, u.meta.balances} \subseteq Seq([res : Resource, val : Val])
  <2> DEFINE m == ScriptMeta(src[f], l)
             w == src[f][l].prog.writes
  <2>1. /\ DOMAIN w \subseteq Resource
        /\ \A r \in DOMAIN w : w[r] \in Val \cup {Absent}
        /\ {m.time, m.block} \subseteq Val \cup {None}
        /\ {m.prices, m.balances} \subseteq Seq([res : Resource, val : Val])
    BY <1>2, <1>3, ScriptsAssumption, Zenon
  <2> QED
    BY <2>1, <1>3
<1> QED
  BY <1>4, InjectedFacts

\* The actions that run the script u.
Step(u) == NoCoins(u) \/ Succeed(u) \/ Abort(u) \/ Fail(u) \/ TypeMismatch(u) \/ OtherError(u)

\* What such an action does to the store, by its result.
Effect(u, result, why, writes, ds) ==
    /\ result \in Results
    /\ why # "no Coins module" => ds = View(u.meta)
    /\ \/ result # "Success" /\ writes = <<>> /\ store' = store
       \/ /\ result = "Success" /\ writes = u.prog.writes /\ ds = View(u.meta)
          /\ store' = IF u.meta.dry_run THEN store ELSE MergeEffects(store, writes)

\* Every action that runs a script records one step, and only a success changes the store.
LEMMA StepIsRecord ==
    ASSUME NEW u, Step(u)
    PROVE  /\ Running
           /\ \E result, why, writes, ds : /\ Record(u, result, why, writes, ds)
                                           /\ Effect(u, result, why, writes, ds)
<1>1. CASE NoCoins(u)
  <2>1. Running /\ Record(u, "Error", "no Coins module", <<>>, store)
    BY <1>1 DEF NoCoins
  <2>2. Effect(u, "Error", "no Coins module", <<>>, store)
    BY <1>1 DEF NoCoins, Effect, Results
  <2> QED
    BY <2>1, <2>2
<1>2. CASE Succeed(u)
  <2>1. Running /\ Record(u, "Success", None, u.prog.writes, View(u.meta))
    BY <1>2 DEF Succeed, Executes
  <2>2. Effect(u, "Success", None, u.prog.writes, View(u.meta))
    BY <1>2 DEF Succeed, Effect, Results
  <2> QED
    BY <2>1, <2>2
<1>3. CASE Abort(u)
  <2>1. Running /\ Record(u, IF u.meta.aborts_with = u.prog.code THEN "ExpectedError" ELSE "Error",
                ErrorName(test, u.prog.module, u.prog.code), <<>>, View(u.meta))
    BY <1>3 DEF Abort, Executes
  <2>2. Effect(u, IF u.meta.aborts_with = u.prog.code THEN "ExpectedError" ELSE "Error",
                ErrorName(test, u.prog.module, u.prog.code), <<>>, View(u.meta))
    BY <1>3 DEF Abort, Effect, Results
  <2> QED
    BY <2>1, <2>2
<1>4. CASE Fail(u)
  <2>1. Running /\ Record(u, IF u.meta.status = MissingData THEN "ExpectedError" ELSE "Error",
                MissingData, <<>>, View(u.meta))
    BY <1>4 DEF Fail, Executes
  <2>2. Effect(u, IF u.meta.status = MissingData THEN "ExpectedError" ELSE "Error",
                MissingData, <<>>, View(u.meta))
    BY <1>4 DEF Fail, Effect, Results
  <2> QED
    BY <2>1, <2>2
<1>5. CASE TypeMismatch(u)
  <2>1. Running /\ Record(u, "Error", ExplainTypeError(u.prog, u.meta.signers), <<>>, View(u.meta))
    BY <1>5 DEF TypeMismatch, Executes
  <2>2. Effect(u, "Error", ExplainTypeError(u.prog, u.meta.signers), <<>>, View(u.meta))
    BY <1>5 DEF TypeMismatch, Effect, Results
  <2> QED
    BY <2>1, <2>2
<1>6. CASE OtherError(u)
  <2>1. Running /\ Record(u, "Error", "unexpected", <<>>, View(u.meta))
    BY <1>6 DEF OtherError, Executes
  <2>2. Effect(u, "Error", "unexpected", <<>>, View(u.meta))
    BY <1>6 DEF OtherError, Effect, Results
  <2> QED
    BY <2>1, <2>2
<1> QED
  BY <1>1, <1>2, <1>3, <1>4, <1>5, <1>6 DEF Step

\* The units of a session do not change while a command runs.
LEMMA SameUnits ==
    ASSUME project' = project
    PROVE  \A t : SessionUnits(t)' = SessionUnits(t)
BY DEF SessionUnits, Sources

\* The set of the steps before n that committed r.
Writers(n, r) == {i \in 1..(n - 1) : Committed(steps[i]) /\ r \in DOMAIN steps[i].writes}

\* LeftBy by that set.
LEMMA LeftByWriters ==
    ASSUME NEW n, NEW r
    PROVE  LeftBy(n, r) = IF Writers(n, r) = {} THEN Absent ELSE steps[Max(Writers(n, r))].writes[r]
BY DEF LeftBy, Writers

\* A step that is appended does not change what the steps before it leave.
LEMMA LeftByKept ==
    ASSUME \E S : steps \in Seq(S), NEW e, steps' = Append(steps, e),
           NEW n \in 1..(Len(steps) + 1), NEW r
    PROVE  LeftBy(n, r)' = LeftBy(n, r)
<1>1. /\ Len(steps) \in Nat
      /\ \A i \in 1..Len(steps) : steps'[i] = steps[i]
  BY AppendKeeps
<1>2. \A i \in 1..(n - 1) : i \in 1..Len(steps) /\ steps'[i] = steps[i]
  BY <1>1
<1>3. Writers(n, r)' = Writers(n, r)
  BY <1>2 DEF Writers, Committed
<1>4. CASE Writers(n, r) = {}
  BY <1>3, <1>4 DEF LeftBy, Writers
<1>5. CASE Writers(n, r) # {}
  <2>1. Writers(n, r) \subseteq 1..(n - 1) /\ n - 1 \in Nat
    BY DEF Writers
  <2>2. Max(Writers(n, r)) \in Writers(n, r)
    BY <2>1, <1>5, MaxIsIn
  <2>3. steps'[Max(Writers(n, r))] = steps[Max(Writers(n, r))]
    BY <2>1, <2>2, <1>2
  <2>4. LeftBy(n, r) = steps[Max(Writers(n, r))].writes[r]
    BY <1>5 DEF LeftBy, Writers
  <2>5. LeftBy(n, r)' = steps'[Max(Writers(n, r)')].writes[r]
    BY <1>3, <1>5 DEF LeftBy, Writers
  <2> QED
    BY <2>3, <2>4, <2>5, <1>3
<1> QED
  BY <1>4, <1>5

\* What is left after a step: what it committed, and otherwise what was left before it.
LEMMA LeftByAppended ==
    ASSUME \E S : steps \in Seq(S), NEW e, steps' = Append(steps, e), NEW r,
           NEW n \in Nat, n = Len(steps)
    PROVE  LeftBy(n + 2, r)' = IF Committed(e) /\ r \in DOMAIN e.writes
                               THEN e.writes[r] ELSE LeftBy(n + 1, r)
<1> DEFINE W == Writers(n + 1, r)
           V == Writers(n + 2, r)'
<1>1. /\ n \in Nat
      /\ \A i \in 1..n : steps'[i] = steps[i]
      /\ steps'[n + 1] = e
  BY AppendKeeps
<1>2. W = {i \in 1..n : Committed(steps[i]) /\ r \in DOMAIN steps[i].writes}
  BY <1>1 DEF Writers
<1>3. V = {i \in 1..(n + 1) : Committed(steps'[i]) /\ r \in DOMAIN steps'[i].writes}
  BY <1>1 DEF Writers, Committed
<1>4. CASE Committed(e) /\ r \in DOMAIN e.writes
  <2>1. n + 1 \in V /\ V \subseteq 1..(n + 1)
    BY <1>1, <1>3, <1>4
  <2>2. Max(V) \in V /\ n + 1 <= Max(V)
    BY <2>1, <1>1, MaxIsIn
  <2>3. Max(V) = n + 1
    BY <2>1, <2>2, <1>1
  <2>4. LeftBy(n + 2, r)' = steps'[Max(V)].writes[r]
    BY <2>1 DEF LeftBy, Writers
  <2> QED
    BY <2>3, <2>4, <1>1, <1>4
<1>5. CASE ~(Committed(e) /\ r \in DOMAIN e.writes)
  <2>1. V = W
    <3>1. \A i \in 1..(n + 1) : i \in 1..n \/ i = n + 1
      BY <1>1
    <3>2. \A i \in 1..n : i \in 1..(n + 1)
      BY <1>1
    <3>3. n + 1 \notin V
      BY <1>1, <1>3, <1>5
    <3>4. \A i \in 1..n : i \in V <=> i \in W
      BY <1>1, <1>2, <1>3, <3>2
    <3>5. V \subseteq 1..(n + 1) /\ W \subseteq 1..n
      BY <1>2, <1>3
    <3> HIDE DEF V, W
    <3> QED
      BY <3>1, <3>2, <3>3, <3>4, <3>5
  <2>2. CASE W = {}
    BY <2>1, <2>2, <1>5 DEF LeftBy, Writers
  <2>3. CASE W # {}
    <3>1. W \subseteq 1..n
      BY <1>2
    <3>2. Max(W) \in 1..n
      BY <3>1, <2>3, <1>1, MaxIsIn
    <3>3. LeftBy(n + 2, r)' = steps'[Max(V)].writes[r]
      BY <2>1, <2>3 DEF LeftBy, Writers
    <3>4. LeftBy(n + 1, r) = steps[Max(W)].writes[r]
      BY <2>3 DEF LeftBy, Writers
    <3> QED
      BY <3>2, <3>3, <3>4, <2>1, <1>1, <1>5
  <2> QED
    BY <2>2, <2>3
<1> QED
  BY <1>4, <1>5

-----------------------------------------------------------------------------
(* The invariant *)

\* The invariant holds when a command starts.
LEMMA InitIInv == Init => IInv
<1> SUFFICES ASSUME Init PROVE IInv
  OBVIOUS
<1>0. /\ project \in Projects
      /\ Len(project.tests) \in Nat
      /\ project.tests = [i \in 1..Len(project.tests) |-> project.tests[i]]
  BY ProjectsAssumption DEF Init
<1>1. steps \in Seq({}) /\ history \in Seq({}) /\ steps = <<>> /\ history = <<>>
  BY EmptySeq, Zenon DEF Init
<1>2. DOMAIN project.tests = 1..Len(project.tests) /\ queue = [i \in 1..Len(project.tests) |-> i]
  BY <1>0 DEF Init
<1>3. queue \in Seq(DOMAIN project.tests)
  BY <1>0, <1>2
<1>4. TypeOK
  <2>1. store \in [Resource -> Val \cup {Absent}]
    BY DEF Init, EmptyStore
  <2>2. DOMAIN steps = {}
    BY <1>1
  <2> QED
    BY <2>1, <2>2, <1>3 DEF Init, TypeOK
<1>5. Ordered
  <2>1. \A t \in DOMAIN project.tests : t \in DOMAIN queue /\ queue[t] = t
    BY <1>2
  <2>2. NoTestIsLost
    BY <2>1 DEF NoTestIsLost
  <2>3. UnitsOfTest /\ ErrorIsLast /\ StepsInOrder /\ NoneIsLost
    BY DEF Init, UnitsOfTest, ErrorIsLast, StepsInOrder, NoneIsLost
  <2>4. ErrorIsNoted /\ DoneInOrder /\ VerdictIsNoted
    BY <1>1 DEF Init, ErrorIsNoted, DoneInOrder, VerdictIsNoted
  <2> QED
    BY <2>2, <2>3, <2>4 DEF Ordered
<1>6. Kept
  BY <1>1 DEF Init, Kept, StoreIsCommitted, SeesCommitted, AbsentIsRemoved, AddedOnce
<1> QED
  BY <1>1, <1>4, <1>5, <1>6 DEF IInv, AreSequences

\* Running a script keeps the types.
LEMMA StepTypeOK ==
    ASSUME IInv, NEW u \in Upcoming, Step(u)
    PROVE  TypeOK' /\ AreSequences'
<1>1. PICK result, why, writes, ds : /\ Record(u, result, why, writes, ds)
                                     /\ Effect(u, result, why, writes, ds)
  BY StepIsRecord
<1> DEFINE e == [unit |-> u, result |-> result, why |-> why, args |-> script_args,
                 seen |-> ds, writes |-> writes,
                 labels |-> [r \in DOMAIN writes |-> Label(ds, writes, r)]]
<1>2. /\ steps' = Append(steps, e) /\ e.result = result
      /\ UNCHANGED <<project, queue, test, has_failures, outcome, history>>
  BY <1>1 DEF Record
<1> HIDE DEF e
<1>3. Running
  BY StepIsRecord
<1>4. \E S : steps \in Seq(S)
  BY DEF IInv, AreSequences
<1>5. AreSequences'
  BY <1>2, <1>4, AppendKeeps DEF IInv, AreSequences
<1>6. u \in SessionUnits(test) /\ test \in DOMAIN project.tests /\ project \in Projects
  BY <1>3 DEF IInv, TypeOK, Ordered, UnitsOfTest, Upcoming, Running
<1>7. store' \in [Resource -> Val \cup {Absent}]
  <2>0. store \in [Resource -> Val \cup {Absent}]
    BY DEF IInv, TypeOK
  <2>1. CASE store' = store
    BY <2>0, <2>1
  <2>2. CASE writes = u.prog.writes /\ store' = MergeEffects(store, writes)
    <3>1. \A r \in DOMAIN writes : writes[r] \in Val \cup {Absent}
      BY <1>6, <2>2, UnitFacts
    <3> QED
      BY <2>0, <2>2, <3>1 DEF MergeEffects
  <2> QED
    BY <2>1, <2>2, <1>1 DEF Effect
<1>8. \A i \in DOMAIN steps' : steps'[i].result \in Results
  <2>1. \A i \in DOMAIN steps : steps[i].result \in Results
    BY DEF IInv, TypeOK, Results
  <2>2. \A i \in DOMAIN steps' : (i \in DOMAIN steps /\ steps'[i] = steps[i]) \/ steps'[i] = e
    BY <1>2, <1>4, AppendKeeps
  <2> QED
    BY <2>1, <2>2, <1>1, <1>2 DEF Effect
<1>9. TypeOK'
  BY <1>2, <1>7, <1>8 DEF IInv, TypeOK, Results
<1> QED
  BY <1>5, <1>9

\* Running a script keeps the order of the steps, and loses none.
LEMMA StepOrdered ==
    ASSUME IInv, NEW u \in Upcoming, Step(u)
    PROVE  Ordered'
<1>1. PICK result, why, writes, ds : Record(u, result, why, writes, ds)
  BY StepIsRecord
<1> DEFINE e == [unit |-> u, result |-> result, why |-> why, args |-> script_args,
                 seen |-> ds, writes |-> writes,
                 labels |-> [r \in DOMAIN writes |-> Label(ds, writes, r)]]
           n == Len(steps)
<1>2. /\ steps' = Append(steps, e) /\ e.result = result /\ e.unit = u
      /\ units' = IF result = "Error" THEN {} ELSE units \ {u}
      /\ UNCHANGED <<project, queue, test, has_failures, outcome, history>>
  BY <1>1 DEF Record
<1> HIDE DEF e
<1>3. Running /\ test # 0
  BY StepIsRecord DEF Running
<1>4. \E S : steps \in Seq(S)
  BY DEF IInv, AreSequences
<1>5. /\ n \in Nat /\ DOMAIN steps = 1..n /\ Len(steps') = n + 1 /\ DOMAIN steps' = 1..(n + 1)
      /\ \A i \in 1..n : steps'[i] = steps[i]
      /\ steps'[n + 1] = e
      /\ \A i \in 1..(n + 1) : i \in 1..n \/ i = n + 1
      /\ \A i \in 1..n : i \in 1..(n + 1)
  BY <1>2, <1>4, AppendKeeps
<1>6. /\ u \in units /\ \A v \in units \ {u} : Before(u, v)
  BY DEF Upcoming
<1>7. \A i \in 1..n : steps[i].result # "Error"
  BY <1>3, <1>5, <1>6 DEF IInv, Ordered, ErrorIsLast
<1> HIDE DEF n
<1>8. UnitsOfTest'
  <2>1. units' \subseteq SessionUnits(test)
    BY <1>2, <1>3 DEF IInv, Ordered, UnitsOfTest
  <2>2. \A t : SessionUnits(t)' = SessionUnits(t)
    BY <1>2, SameUnits
  <2> QED
    BY <1>2, <2>1, <2>2 DEF IInv, Ordered, UnitsOfTest
<1>9. ErrorIsLast'
  BY <1>2, <1>5, <1>7 DEF ErrorIsLast
<1>10. StepsInOrder'
  <2>1. /\ \A i, j \in 1..n : i < j => Before(steps[i].unit, steps[j].unit)
        /\ \A i \in 1..n : \A v \in units : Before(steps[i].unit, v)
    BY <1>3, <1>5 DEF IInv, Ordered, StepsInOrder
  <2>2. \A i \in 1..(n + 1) : \A v \in units' : Before(steps'[i].unit, v)
    BY <1>2, <1>5, <1>6, <2>1
  <2>3. ASSUME NEW i \in 1..(n + 1), NEW j \in 1..(n + 1), i < j
        PROVE  Before(steps'[i].unit, steps'[j].unit)
    <3>1. i \in 1..n
      BY <2>3, <1>5
    <3>2. CASE j \in 1..n
      BY <2>1, <2>3, <3>1, <3>2, <1>5
    <3>3. CASE j = n + 1
      BY <2>1, <3>1, <3>3, <1>2, <1>5, <1>6
    <3> QED
      BY <3>2, <3>3, <1>5
  <2>4. \A a, b : Before(a, b)' = Before(a, b)
    BY DEF Before
  <2> QED
    BY <2>2, <2>3, <1>5 DEF StepsInOrder, Before
<1>11. NoneIsLost'
  <2> SUFFICES ASSUME \A i \in DOMAIN steps' : steps'[i].result # "Error"
               PROVE  {s.unit : s \in ToSet(steps')} \cup units' = SessionUnits(test)
    BY <1>2, SameUnits DEF NoneIsLost
  <2>1. {s.unit : s \in ToSet(steps)} \cup units = SessionUnits(test)
    BY <1>3, <1>5, <1>7 DEF IInv, Ordered, NoneIsLost
  <2>2. result # "Error"
    BY <1>2, <1>5
  <2>3. ToSet(steps) = {steps[i] : i \in 1..n}
    BY <1>5 DEF ToSet
  <2>4. ToSet(steps') = {steps'[i] : i \in 1..(n + 1)}
    BY <1>5 DEF ToSet
  <2>5. ToSet(steps') = ToSet(steps) \cup {e}
    BY <2>3, <2>4, <1>5
  <2>6. {s.unit : s \in ToSet(steps')} = {s.unit : s \in ToSet(steps)} \cup {u}
    BY <2>5, <1>2
  <2>7. units' \cup {u} = units
    BY <2>2, <1>2, <1>6
  <2> QED
    BY <2>1, <2>6, <2>7
<1>12. ErrorIsNoted' /\ NoTestIsLost' /\ VerdictIsNoted'
  BY <1>2 DEF IInv, Ordered, ErrorIsNoted, NoTestIsLost, VerdictIsNoted
<1>13. DoneInOrder'
  <2>1. \A t : SessionUnits(t)' = SessionUnits(t)
    BY <1>2, SameUnits
  <2>2. DoneInOrder /\ UNCHANGED history
    BY <1>2 DEF IInv, Ordered
  <2> QED
    BY <2>1, <2>2 DEF DoneInOrder, Before
<1> QED
  BY <1>8, <1>9, <1>10, <1>11, <1>12, <1>13 DEF Ordered

\* What a script sees where its doc comments declare nothing, and where they do.
LEMMA ViewFacts ==
    ASSUME NEW meta, Injected(meta) \in Seq([res : Resource, val : Val]), NEW r \in Resource
    PROVE  /\ r \notin {w.res : w \in ToSet(Injected(meta))} => View(meta)[r] = store[r]
           /\ View(meta)[r] = Absent => store[r] = Absent
<1> DEFINE I == Injected(meta)
           W == {i \in DOMAIN I : I[i].res = r}
<1>1. View(meta)[r] = IF W = {} THEN store[r] ELSE I[Max(W)].val
  BY DEF View
<1>2. r \notin {w.res : w \in ToSet(I)} => W = {}
  BY DEF ToSet
<1>3. W # {} => I[Max(W)].val # Absent
  <2> SUFFICES ASSUME W # {} PROVE I[Max(W)].val # Absent
    OBVIOUS
  <2> HIDE DEF I
  <2>1. I \in Seq([res : Resource, val : Val])
    BY DEF I
  <2>2. Len(I) \in Nat /\ W \subseteq 1..Len(I)
    BY <2>1
  <2>3. Max(W) \in W
    BY <2>2, MaxIsIn
  <2>4. Max(W) \in 1..Len(I)
    BY <2>2, <2>3
  <2> HIDE DEF W
  <2>5. I[Max(W)] \in [res : Resource, val : Val]
    BY <2>1, <2>4, ElementOfSeq
  <2> QED
    BY <2>5, ResourceAssumption
<1> QED
  BY <1>1, <1>2, <1>3

\* Running a script: the store holds what was committed, and the script saw that.
LEMMA StepKept ==
    ASSUME IInv, NEW u \in Upcoming, Step(u)
    PROVE  Kept'
<1>1. PICK result, why, writes, ds : /\ Record(u, result, why, writes, ds)
                                     /\ Effect(u, result, why, writes, ds)
  BY StepIsRecord
<1> DEFINE e == [unit |-> u, result |-> result, why |-> why, args |-> script_args,
                 seen |-> ds, writes |-> writes,
                 labels |-> [r \in DOMAIN writes |-> Label(ds, writes, r)]]
<1>2. /\ steps' = Append(steps, e) /\ e.result = result /\ e.unit = u /\ e.why = why
      /\ e.seen = ds /\ e.writes = writes /\ e.labels = [r \in DOMAIN writes |-> Label(ds, writes, r)]
      /\ UNCHANGED <<project, test>>
  BY <1>1 DEF Record
<1> HIDE DEF e
<1>3. Running /\ test # 0
  BY StepIsRecord DEF Running
<1>4. \E S : steps \in Seq(S)
  BY DEF IInv, AreSequences
<1>5. PICK n \in Nat : n = Len(steps)
  BY <1>4, AppendKeeps
<1>6. /\ DOMAIN steps = 1..n /\ Len(steps') = n + 1 /\ DOMAIN steps' = 1..(n + 1)
      /\ \A i \in 1..n : steps'[i] = steps[i]
      /\ steps'[n + 1] = e
      /\ \A i \in 1..(n + 1) : i \in 1..n \/ i = n + 1
      /\ \A i \in 1..n : i \in 1..(n + 1)
  BY <1>2, <1>4, <1>5, AppendKeeps
<1>7. u \in SessionUnits(test) /\ test \in DOMAIN project.tests /\ project \in Projects
  BY <1>3 DEF IInv, TypeOK, Ordered, UnitsOfTest, Upcoming, Running
<1>8. /\ DOMAIN u.prog.writes \subseteq Resource
      /\ Injected(u.meta) \in Seq([res : Resource, val : Val])
      /\ BlockResource \in {w.res : w \in ToSet(Injected(u.meta))}
  BY <1>7, UnitFacts
<1>9. \A r \in Resource : store[r] = LeftBy(n + 1, r)
  BY <1>3, <1>5 DEF IInv, Kept, StoreIsCommitted
<1>10. ASSUME NEW r \in Resource
       PROVE  store'[r] = IF Committed(e) /\ r \in DOMAIN writes THEN writes[r] ELSE store[r]
  <2>1. CASE result # "Success"
    BY <2>1, <1>1, <1>2 DEF Effect, Committed
  <2>2. CASE result = "Success" /\ u.meta.dry_run
    BY <2>2, <1>1, <1>2 DEF Effect, Committed
  <2>3. CASE result = "Success" /\ ~u.meta.dry_run
    BY <2>3, <1>1, <1>2 DEF Effect, Committed, MergeEffects
  <2> QED
    BY <2>1, <2>2, <2>3
<1>11. StoreIsCommitted'
  <2> SUFFICES ASSUME NEW r \in Resource PROVE store'[r] = LeftBy(Len(steps) + 1, r)'
    BY DEF StoreIsCommitted
  <2>1. LeftBy(Len(steps) + 1, r)' = LeftBy(n + 2, r)'
    <3>1. Len(steps') + 1 = n + 2
      BY <1>6
    <3> QED
      BY <3>1 DEF LeftBy
  <2>2. LeftBy(n + 2, r)' = IF Committed(e) /\ r \in DOMAIN e.writes
                            THEN e.writes[r] ELSE LeftBy(n + 1, r)
    BY <1>2, <1>4, <1>5, LeftByAppended
  <2> QED
    BY <2>1, <2>2, <1>2, <1>9, <1>10
<1>12. SeesCommitted'
  <2> DEFINE own(k) == {w.res : w \in ToSet(Injected(steps'[k].unit.meta))}
  <2> SUFFICES ASSUME NEW k \in 1..(n + 1), steps'[k].why # "no Coins module"
               PROVE  /\ BlockResource \in own(k)
                      /\ \A r \in Resource \ own(k) : steps'[k].seen[r] = LeftBy(k, r)'
    BY <1>6 DEF SeesCommitted
  <2>1. \A r : LeftBy(k, r)' = LeftBy(k, r)
    BY <1>2, <1>4, <1>5, LeftByKept
  <2>2. CASE k \in 1..n
    <3>1. steps'[k] = steps[k] /\ k \in DOMAIN steps
      BY <2>2, <1>6
    <3>2. own(k) = {w.res : w \in ToSet(Injected(steps[k].unit.meta))}
      BY <3>1
    <3> HIDE DEF own
    <3>3. /\ BlockResource \in own(k)
          /\ \A r \in Resource \ own(k) : steps[k].seen[r] = LeftBy(k, r)
      BY <3>1, <3>2 DEF IInv, Kept, SeesCommitted
    <3> QED
      BY <2>1, <3>1, <3>3
  <2>3. CASE k = n + 1
    <3>1. ds = View(u.meta) /\ steps'[k] = e
      BY <2>3, <1>1, <1>2, <1>6 DEF Effect
    <3>a. own(k) = {w.res : w \in ToSet(Injected(u.meta))}
      BY <3>1, <1>2
    <3> HIDE DEF own
    <3>2. \A r \in Resource \ own(k) : ds[r] = store[r]
      BY <3>1, <3>a, <1>8, ViewFacts
    <3>3. BlockResource \in own(k)
      BY <3>a, <1>8
    <3>4. \A r \in Resource : store[r] = LeftBy(k, r)
      BY <2>3, <1>9
    <3> QED
      BY <2>1, <3>1, <3>2, <3>3, <3>4, <1>2
  <2> QED
    BY <2>2, <2>3, <1>6
<1>13. AbsentIsRemoved'
  <2> SUFFICES ASSUME NEW r \in Resource, store'[r] = Absent, NEW i \in 1..(n + 1),
                      Committed(steps'[i]), r \in DOMAIN steps'[i].writes,
                      steps'[i].writes[r] # Absent
               PROVE  \E k \in (i + 1)..(n + 1) : /\ Committed(steps'[k]) /\ r \in DOMAIN steps'[k].writes
                                                  /\ steps'[k].writes[r] = Absent
    BY <1>6 DEF AbsentIsRemoved, Committed
  <2>1. i \in 1..n
    BY <1>2, <1>6, <1>10
  <2>2. CASE Committed(e) /\ r \in DOMAIN writes
    <3>1. writes[r] = Absent
      BY <2>2, <1>10
    <3>2. n + 1 \in (i + 1)..(n + 1)
      BY <2>1
    <3> QED
      BY <2>2, <3>1, <3>2, <1>2, <1>6
  <2>3. CASE ~(Committed(e) /\ r \in DOMAIN writes)
    <3>1. store[r] = Absent
      BY <2>3, <1>10
    <3>2. PICK k \in (i + 1)..n : /\ Committed(steps[k]) /\ r \in DOMAIN steps[k].writes
                                  /\ steps[k].writes[r] = Absent
      BY <2>1, <3>1, <1>3, <1>5, <1>6 DEF IInv, Kept, AbsentIsRemoved
    <3>3. k \in 1..n /\ k \in (i + 1)..(n + 1)
      BY <2>1, <3>2
    <3> QED
      BY <3>2, <3>3, <1>6
  <2> QED
    BY <2>2, <2>3
<1>14. AddedOnce'
  <2> SUFFICES ASSUME NEW i \in 1..(n + 1), NEW j \in 1..(n + 1),
                      NEW r \in DOMAIN steps'[i].writes \cap DOMAIN steps'[j].writes,
                      i < j, Committed(steps'[i]), steps'[i].writes[r] # Absent,
                      steps'[j].writes[r] # Absent, steps'[j].labels[r] = "Added"
               PROVE  \E k \in (i + 1)..(j - 1) : /\ Committed(steps'[k]) /\ r \in DOMAIN steps'[k].writes
                                                  /\ steps'[k].writes[r] = Absent
    BY <1>6 DEF AddedOnce, Committed
  <2>1. i \in 1..n /\ steps'[i] = steps[i]
    BY <1>6
  <2>2. CASE j \in 1..n
    <3>1. steps'[j] = steps[j]
      BY <2>2, <1>6
    <3>2. PICK k \in (i + 1)..(j - 1) : /\ Committed(steps[k]) /\ r \in DOMAIN steps[k].writes
                                        /\ steps[k].writes[r] = Absent
      BY <2>1, <2>2, <3>1, <1>6 DEF IInv, Kept, AddedOnce
    <3>3. k \in 1..n
      BY <2>1, <2>2, <3>2
    <3> QED
      BY <3>2, <3>3, <1>6
  <2>3. CASE j = n + 1
    <3>1. r \in DOMAIN writes /\ writes[r] # Absent /\ Label(ds, writes, r) = "Added"
      BY <2>3, <1>2, <1>6
    <3>2. ds[r] = Absent
      BY <3>1 DEF Label
    <3>3. ds = View(u.meta) /\ writes = u.prog.writes
      <4>1. writes # <<>>
        BY <3>1
      <4> QED
        BY <4>1, <1>1 DEF Effect
    <3>4. r \in Resource /\ store[r] = Absent
      BY <3>1, <3>2, <3>3, <1>8, ViewFacts
    <3>5. PICK k \in (i + 1)..n : /\ Committed(steps[k]) /\ r \in DOMAIN steps[k].writes
                                  /\ steps[k].writes[r] = Absent
      BY <2>1, <3>4, <1>3, <1>5, <1>6 DEF IInv, Kept, AbsentIsRemoved
    <3>6. k \in 1..n /\ k \in (i + 1)..(j - 1)
      BY <2>1, <2>3, <3>5
    <3> QED
      BY <3>5, <3>6, <1>6
  <2> QED
    BY <2>2, <2>3, <1>6
<1> QED
  BY <1>11, <1>12, <1>13, <1>14 DEF Kept

\* What a step that leaves the pipeline alone keeps.
LEMMA SamePipeline ==
    ASSUME IInv, UNCHANGED <<project, store, steps>>, test' = test \/ test' = 0
    PROVE  Kept'
<1>1. \A n, r : LeftBy(n, r)' = LeftBy(n, r)
  BY DEF LeftBy
<1>2. StoreIsCommitted'
  <2> SUFFICES ASSUME test # 0, NEW r \in Resource PROVE store[r] = LeftBy(Len(steps) + 1, r)'
    BY DEF StoreIsCommitted
  <2>1. LeftBy(Len(steps) + 1, r)' = LeftBy(Len(steps) + 1, r)
    BY DEF LeftBy
  <2> QED
    BY <2>1 DEF IInv, Kept, StoreIsCommitted
<1>3. SeesCommitted'
  BY <1>1 DEF IInv, Kept, SeesCommitted
<1>4. AbsentIsRemoved' /\ AddedOnce'
  BY DEF IInv, Kept, AbsentIsRemoved, AddedOnce, Committed
<1> QED
  BY <1>2, <1>3, <1>4 DEF Kept

\* What the queue of tests loses when its first test is taken.
LEMMA QueueTail ==
    ASSUME NEW S, NEW q \in Seq(S), q # <<>>
    PROVE  /\ Head(q) \in S /\ Tail(q) \in Seq(S)
           /\ \A i \in DOMAIN q : q[i] = Head(q) \/ \E k \in DOMAIN Tail(q) : Tail(q)[k] = q[i]
<1>1. /\ Len(q) \in Nat \ {0} /\ DOMAIN q = 1..Len(q) /\ Head(q) = q[1] /\ q[1] \in S
      /\ Tail(q) \in Seq(S) /\ Len(Tail(q)) = Len(q) - 1
      /\ \A k \in 1..(Len(q) - 1) : Tail(q)[k] = q[k + 1]
  BY HeadTailProperties
<1>2. DOMAIN Tail(q) = 1..(Len(q) - 1)
  BY <1>1
<1>3. ASSUME NEW i \in DOMAIN q, i # 1
      PROVE  \E k \in DOMAIN Tail(q) : Tail(q)[k] = q[i]
  <2>1. i - 1 \in 1..(Len(q) - 1) /\ (i - 1) + 1 = i
    BY <1>1, <1>3
  <2> QED
    BY <2>1, <1>1, <1>2
<1> QED
  BY <1>1, <1>3

\* A test is skipped.
LEMMA SkipIInv ==
    ASSUME IInv, SkipTest
    PROVE  IInv'
<1>1. /\ UNCHANGED <<project, test, units, store, steps, has_failures, outcome, history>>
      /\ queue' = Tail(queue) /\ queue # <<>> /\ Head(queue) \in project.skipped /\ outcome = "running"
  BY DEF SkipTest, NextTest
<1>2. queue \in Seq(DOMAIN project.tests)
  BY DEF IInv, TypeOK
<1>3. TypeOK' /\ AreSequences'
  BY <1>1, <1>2, QueueTail DEF IInv, TypeOK, AreSequences
<1>4. NoTestIsLost'
  <2> SUFFICES ASSUME NEW t \in DOMAIN project.tests \ project.skipped
               PROVE  \/ t = test
                      \/ \E i \in DOMAIN queue' : queue'[i] = t
                      \/ \E h \in DOMAIN history : history[h].test = t
    BY <1>1 DEF NoTestIsLost
  <2>1. CASE \E i \in DOMAIN queue : queue[i] = t
    BY <2>1, <1>1, <1>2, QueueTail
  <2> QED
    BY <2>1 DEF IInv, Ordered, NoTestIsLost
<1>5. UnitsOfTest' /\ ErrorIsLast' /\ StepsInOrder' /\ NoneIsLost'
  BY <1>1 DEF IInv, Ordered, UnitsOfTest, ErrorIsLast, StepsInOrder, NoneIsLost,
              SessionUnits, Sources, Before
<1>6. ErrorIsNoted' /\ DoneInOrder' /\ VerdictIsNoted'
  BY <1>1 DEF IInv, Ordered, ErrorIsNoted, DoneInOrder, VerdictIsNoted, SessionUnits, Sources, Before
<1> QED
  BY <1>1, <1>3, <1>4, <1>5, <1>6, SamePipeline DEF IInv, Ordered

\* The command ends.
LEMMA EndIInv ==
    ASSUME IInv, BuildError \/ MetaPanic \/ EndCommand
    PROVE  IInv'
<1>1. /\ UNCHANGED <<project, queue, test, units, store, steps, has_failures, history>>
      /\ outcome' \in {"ok", "failed", "error", "panic"}
      /\ outcome' = "ok" => /\ queue = <<>> /\ test = 0
                            /\ project.mode = "test" => ~has_failures
  BY DEF BuildError, MetaPanic, EndCommand, Verdict
<1>2. TypeOK' /\ AreSequences'
  BY <1>1 DEF IInv, TypeOK, AreSequences
<1>3. UnitsOfTest' /\ ErrorIsLast' /\ StepsInOrder' /\ NoneIsLost'
  BY <1>1 DEF IInv, Ordered, UnitsOfTest, ErrorIsLast, StepsInOrder, NoneIsLost,
              SessionUnits, Sources, Before
<1>4. ErrorIsNoted' /\ DoneInOrder' /\ NoTestIsLost' /\ VerdictIsNoted'
  BY <1>1 DEF IInv, Ordered, ErrorIsNoted, DoneInOrder, NoTestIsLost, VerdictIsNoted,
              SessionUnits, Sources, Before
<1> QED
  BY <1>1, <1>2, <1>3, <1>4, SamePipeline DEF IInv, Ordered

\* A test starts: its scripts are all to be run, on an empty store.
LEMMA StartIInv ==
    ASSUME IInv, StartTest
    PROVE  IInv'
<1>1. /\ UNCHANGED <<project, has_failures, outcome, history>>
      /\ queue # <<>> /\ queue' = Tail(queue) /\ test = 0 /\ test' = Head(queue)
      /\ outcome = "running" /\ steps' = <<>> /\ units' = SessionUnits(Head(queue))
      /\ store' = EmptyStore
  BY DEF StartTest, NextTest
<1>2. queue \in Seq(DOMAIN project.tests)
  BY DEF IInv, TypeOK
<1>3. steps' \in Seq({}) /\ DOMAIN steps' = {} /\ Len(steps') = 0
  BY <1>1, EmptySeq
<1>4. store' \in [Resource -> Val \cup {Absent}] /\ \A r \in Resource : store'[r] = Absent
  BY <1>1 DEF EmptyStore
<1>5. TypeOK' /\ AreSequences'
  <2>1. Head(queue) \in DOMAIN project.tests /\ queue' \in Seq(DOMAIN project.tests)
    BY <1>1, <1>2, QueueTail
  <2> QED
    BY <1>1, <1>3, <1>4, <2>1 DEF IInv, TypeOK, AreSequences
<1>6. SessionUnits(test)' = SessionUnits(Head(queue))
  BY <1>1 DEF SessionUnits, Sources
<1>7. UnitsOfTest' /\ ErrorIsLast' /\ StepsInOrder'
  BY <1>1, <1>3, <1>6 DEF IInv, Ordered, UnitsOfTest, ErrorIsLast, StepsInOrder
<1>8. NoneIsLost'
  <2>1. {s.unit : s \in ToSet(steps')} = {}
    BY <1>3 DEF ToSet
  <2> QED
    BY <2>1, <1>1, <1>6 DEF NoneIsLost
<1>9. NoTestIsLost'
  <2> SUFFICES ASSUME NEW t \in DOMAIN project.tests \ project.skipped
               PROVE  \/ t = test'
                      \/ \E i \in DOMAIN queue' : queue'[i] = t
                      \/ \E h \in DOMAIN history : history[h].test = t
    BY <1>1 DEF NoTestIsLost
  <2>1. t # 0
    <3>1. Len(project.tests) \in Nat /\ project.tests = [i \in 1..Len(project.tests) |-> project.tests[i]]
      BY ProjectsAssumption DEF IInv, Ordered, UnitsOfTest
    <3> QED
      BY <3>1
  <2>2. CASE \E i \in DOMAIN queue : queue[i] = t
    BY <2>2, <1>1, <1>2, QueueTail
  <2> QED
    BY <2>1, <2>2, <1>1 DEF IInv, Ordered, NoTestIsLost
<1>10. ErrorIsNoted' /\ DoneInOrder' /\ VerdictIsNoted'
  <2>1. ErrorIsNoted'
    BY <1>1 DEF IInv, Ordered, ErrorIsNoted
  <2>2. DoneInOrder'
    <3>1. DoneInOrder
      BY DEF IInv, Ordered
    <3>2. \A t : SessionUnits(t)' = SessionUnits(t)
      BY <1>1 DEF SessionUnits, Sources
    <3>3. \A u, v : Before(u, v)' <=> Before(u, v)
      BY DEF Before
    <3> QED
      BY <1>1, <3>1, <3>2, <3>3, Zenon DEF DoneInOrder
  <2>3. VerdictIsNoted'
    BY <1>1 DEF VerdictIsNoted
  <2> QED
    BY <2>1, <2>2, <2>3
<1>11. Kept'
  <2>1. StoreIsCommitted'
    <3> SUFFICES ASSUME NEW r \in Resource PROVE store'[r] = LeftBy(Len(steps) + 1, r)'
      BY DEF StoreIsCommitted
    <3>1. 1..((Len(steps') + 1) - 1) = {}
      BY <1>3
    <3>2. LeftBy(Len(steps) + 1, r)' = Absent
      BY <3>1 DEF LeftBy
    <3> QED
      BY <3>2, <1>4
  <2> QED
    BY <2>1, <1>3 DEF Kept, SeesCommitted, AbsentIsRemoved, AddedOnce
<1> QED
  BY <1>5, <1>7, <1>8, <1>9, <1>10, <1>11 DEF IInv, Ordered

\* A test is done: what is read from the last step is whether the pipeline has an error.
LEMMA FinishIInv ==
    ASSUME IInv, FinishTest
    PROVE  IInv'
<1> DEFINE p == [test |-> test, steps |-> steps]
           n == Len(history)
<1>1. /\ UNCHANGED <<project, queue, units, store, steps, outcome>>
      /\ outcome = "running" /\ test # 0 /\ test' = 0 /\ units = {}
      /\ has_failures' = (has_failures \/ (steps # <<>> /\ Last(steps).result = "Error"))
      /\ history' = Append(history, p) /\ p.steps = steps /\ p.test = test
  BY DEF FinishTest
<1> HIDE DEF p
<1>2. /\ n \in Nat /\ DOMAIN history = 1..n /\ DOMAIN history' = 1..(n + 1)
      /\ \A h \in 1..n : history'[h] = history[h]
      /\ history'[n + 1] = p
      /\ \A h \in 1..(n + 1) : h \in 1..n \/ h = n + 1
      /\ \A h \in 1..n : h \in 1..(n + 1)
      /\ n + 1 \in 1..(n + 1)
      /\ \E S : history' \in Seq(S)
  <2>1. \E S : history \in Seq(S)
    BY DEF IInv, AreSequences
  <2>2. /\ n \in Nat /\ DOMAIN history = 1..n /\ DOMAIN history' = 1..(n + 1)
        /\ \A h \in 1..n : history'[h] = history[h]
        /\ history'[n + 1] = p
    BY <1>1, <2>1, AppendKeeps
  <2>3. \E S : history' \in Seq(S)
    BY <1>1, <2>1, AppendKeeps, Zenon
  <2> HIDE DEF n
  <2> QED
    BY <2>2, <2>3
<1> HIDE DEF n
<1>3. has_failures' \in BOOLEAN /\ (has_failures => has_failures')
  BY <1>1
<1>4. TypeOK' /\ AreSequences'
  BY <1>1, <1>2, <1>3 DEF IInv, TypeOK, AreSequences
<1>5. UnitsOfTest' /\ ErrorIsLast' /\ StepsInOrder' /\ NoneIsLost'
  BY <1>1 DEF IInv, Ordered, UnitsOfTest, ErrorIsLast, StepsInOrder, NoneIsLost
<1>6. ASSUME NEW i \in DOMAIN steps, steps[i].result = "Error"
      PROVE  has_failures'
  <2>1. i = Len(steps) /\ steps # <<>>
    BY <1>1, <1>6 DEF IInv, Ordered, ErrorIsLast
  <2> QED
    BY <1>1, <1>6, <2>1 DEF Last
<1>7. ErrorIsNoted'
  <2> SUFFICES ASSUME NEW h \in 1..(n + 1), NEW i \in DOMAIN history'[h].steps,
                      history'[h].steps[i].result = "Error"
               PROVE  has_failures'
    BY <1>2 DEF ErrorIsNoted
  <2>1. CASE h \in 1..n
    BY <2>1, <1>2, <1>3 DEF IInv, Ordered, ErrorIsNoted
  <2>2. CASE h = n + 1
    BY <2>2, <1>1, <1>2, <1>6
  <2> QED
    BY <2>1, <2>2, <1>2
<1>8. DoneInOrder'
  <2> SUFFICES ASSUME NEW h \in DOMAIN history',
                      \A i \in DOMAIN history'[h].steps : history'[h].steps[i].result # "Error"
               PROVE  /\ {s.unit : s \in ToSet(history'[h].steps)} = SessionUnits(history[h].test)'
                      /\ \A i, j \in DOMAIN history'[h].steps :
                            i < j => Before(history'[h].steps[i].unit, history'[h].steps[j].unit)
    BY DEF DoneInOrder, Before
  <2>0. SessionUnits(history[h].test)' = SessionUnits(history'[h].test)
    BY <1>1 DEF SessionUnits, Sources
  <2>1. CASE h \in 1..n
    BY <2>0, <2>1, <1>2 DEF IInv, Ordered, DoneInOrder
  <2>2. CASE h = n + 1
    <3>1. history'[h].steps = steps /\ history'[h].test = test
      BY <2>2, <1>1, <1>2
    <3>2. {s.unit : s \in ToSet(steps)} = SessionUnits(test)
      BY <3>1, <1>1 DEF IInv, Ordered, NoneIsLost
    <3>3. \A i, j \in DOMAIN steps : i < j => Before(steps[i].unit, steps[j].unit)
      BY <1>1 DEF IInv, Ordered, StepsInOrder
    <3> QED
      BY <2>0, <3>1, <3>2, <3>3
  <2> QED
    BY <2>1, <2>2, <1>2
<1>9. NoTestIsLost'
  <2> SUFFICES ASSUME NEW t \in DOMAIN project.tests \ project.skipped
               PROVE  \/ \E i \in DOMAIN queue : queue[i] = t
                      \/ \E h \in DOMAIN history' : history'[h].test = t
    BY <1>1 DEF NoTestIsLost
  <2>1. CASE t = test
    BY <2>1, <1>1, <1>2
  <2>2. CASE \E h \in DOMAIN history : history[h].test = t
    BY <2>2, <1>2
  <2> QED
    BY <2>1, <2>2 DEF IInv, Ordered, NoTestIsLost
<1>10. VerdictIsNoted'
  BY <1>1 DEF VerdictIsNoted
<1> QED
  BY <1>1, <1>4, <1>5, <1>7, <1>8, <1>9, <1>10, SamePipeline DEF IInv, Ordered

\* Every step of a command keeps the invariant.
LEMMA NextIInv == IInv /\ [Next]_vars => IInv'
<1> SUFFICES ASSUME IInv, [Next]_vars PROVE IInv'
  OBVIOUS
<1>1. CASE \E u \in Upcoming : Step(u)
  BY <1>1, StepTypeOK, StepOrdered, StepKept DEF IInv
<1>2. CASE SkipTest \/ BuildError \/ MetaPanic \/ StartTest \/ FinishTest \/ EndCommand
  BY <1>2, SkipIInv, EndIInv, StartIInv, FinishIInv
<1>3. CASE UNCHANGED vars
  <2>1. TypeOK' /\ AreSequences'
    BY <1>3 DEF vars, IInv, TypeOK, AreSequences
  <2>2. UnitsOfTest' /\ ErrorIsLast' /\ StepsInOrder' /\ NoneIsLost'
    BY <1>3 DEF vars, IInv, Ordered, UnitsOfTest, ErrorIsLast, StepsInOrder, NoneIsLost,
                SessionUnits, Sources, Before
  <2>3. ErrorIsNoted' /\ DoneInOrder' /\ NoTestIsLost' /\ VerdictIsNoted'
    BY <1>3 DEF vars, IInv, Ordered, ErrorIsNoted, DoneInOrder, NoTestIsLost, VerdictIsNoted,
                SessionUnits, Sources, Before
  <2> QED
    BY <1>3, <2>1, <2>2, <2>3, SamePipeline DEF vars, IInv, Ordered
<1> QED
  BY <1>1, <1>2, <1>3 DEF Next, Step

\* The invariant, of every behaviour.
LEMMA AlwaysIInv == Spec => []IInv
BY InitIInv, NextIInv, PTL DEF Spec

-----------------------------------------------------------------------------
(* The doc block of a script.  Its two recursive definitions have values by RecursionTo, *)
(* and what they compute is shown by induction over the lines and the comments.          *)

\* A file is a list of lines.
IsFile(file) == file \in Seq(ToSet(file))

\* The state of the search when the lines after line l are read: the comments from just below
\* the candidate down to the script are found, and a candidate that was passed is no comment.
Searched(file, s, l, r) ==
    /\ r.candidate \in 0..(s - 1)
    /\ \A k \in (r.candidate + 1)..(s - 1) : IsDoc(file[k])
    /\ r.found \in Seq(ToSet(file))
    /\ Len(r.found) = s - 1 - r.candidate
    /\ \A j \in 1..(s - 1 - r.candidate) : r.found[j] = file[r.candidate + j]
    /\ r.candidate > l => ~IsDoc(file[r.candidate])

\* The recursive definition of the search has its value for every file.
LEMMA SearchUnfolds ==
    ASSUME NEW file, IsFile(file), NEW s \in 1..Len(file)
    PROVE  /\ CommentSearch(file, s)[0] = [candidate |-> s - 1, found |-> <<>>]
           /\ \A k \in 1..Len(file) :
                CommentSearch(file, s)[k] = LookAt(file, Len(file) + 1 - k, CommentSearch(file, s)[k - 1])
<1> DEFINE n == Len(file)
           S == [candidate : Int, found : Seq(ToSet(file))]
           s0 == [candidate |-> s - 1, found |-> <<>>]
           op == [x \in Nat \X S |-> IF x[1] \in 1..n THEN LookAt(file, n + 1 - x[1], x[2]) ELSE x[2]]
<1>1. n \in Nat /\ s0 \in S
  BY DEF IsFile
<1>2. ASSUME NEW k \in 1..n, NEW before \in S PROVE LookAt(file, n + 1 - k, before) \in S
  <2>1. n + 1 - k \in 1..n /\ n + 1 - k - 1 \in Int
    BY <1>1
  <2>2. file[n + 1 - k] \in ToSet(file)
    BY <2>1 DEF IsFile
  <2>3. <<file[n + 1 - k]>> \o before.found \in Seq(ToSet(file))
    BY <2>2
  <2> QED
    BY <2>1, <2>3 DEF LookAt
<1>3. op \in [Nat \X S -> S]
  BY <1>2
<1> HIDE DEF S, op
<1>4. Recursion(S, s0, op, n)
  BY <1>1, <1>3, RecursionTo, Zenon
<1>5. PICK g \in [0..n -> S] : g[0] = s0 /\ \A k \in 1..n : g[k] = op[<<k, g[k - 1]>>]
  BY <1>4, Zenon DEF Recursion
<1> HIDE DEF s0
<1>6. ASSUME NEW k \in 1..n PROVE g[k] = LookAt(file, n + 1 - k, g[k - 1])
  <2>1. k \in Nat /\ k - 1 \in 0..n /\ g[k - 1] \in S
    BY <1>1
  <2> QED
    BY <1>5, <2>1 DEF op
<1>7. g = [k \in 0..n |-> IF k = 0 THEN s0 ELSE LookAt(file, n + 1 - k, g[k - 1])]
  BY <1>1, <1>5, <1>6
<1>8. CommentSearch(file, s) = [k \in 0..n |-> IF k = 0 THEN s0
                                  ELSE LookAt(file, n + 1 - k, CommentSearch(file, s)[k - 1])]
  BY <1>7, Zenon DEF CommentSearch, s0
<1>9. CommentSearch(file, s)[0] = s0
  BY <1>1, <1>8
<1>10. ASSUME NEW k \in 1..n
       PROVE  CommentSearch(file, s)[k] = LookAt(file, n + 1 - k, CommentSearch(file, s)[k - 1])
  BY <1>1, <1>8
<1> QED
  BY <1>9, <1>10 DEF s0

LEMMA LookAtKeeps ==
    ASSUME NEW file, IsFile(file), NEW s \in 1..Len(file), NEW l \in 1..Len(file), NEW r,
           Searched(file, s, l, r)
    PROVE  Searched(file, s, l - 1, LookAt(file, l, r))
<1> DEFINE c == r.candidate
<1>0. Len(file) \in Nat /\ c \in 0..(s - 1) /\ file[l] \in ToSet(file) /\ r.found \in Seq(ToSet(file))
  BY DEF Searched, IsFile
<1>1. CASE IsDoc(file[l]) /\ l = c
  <2> DEFINE f == <<file[l]>> \o r.found
  <2>1. /\ LookAt(file, l, r).candidate = c - 1 /\ LookAt(file, l, r).found = f
    BY <1>1 DEF LookAt
  <2>2. f \in Seq(ToSet(file)) /\ Len(f) = Len(r.found) + 1 /\ f[1] = file[l]
          /\ \A j \in 1..Len(r.found) : f[j + 1] = r.found[j]
    BY <1>0
  <2>3. Len(r.found) = s - 1 - c /\ \A j \in 1..(s - 1 - c) : r.found[j] = file[c + j]
    BY DEF Searched
  <2>4. c - 1 \in 0..(s - 1) /\ Len(f) = s - 1 - (c - 1)
    BY <1>0, <1>1, <2>2, <2>3
  <2> HIDE DEF f
  <2>5. ASSUME NEW j \in 1..(s - 1 - (c - 1)) PROVE f[j] = file[(c - 1) + j]
    <3>1. CASE j = 1
      BY <3>1, <1>0, <1>1, <2>2
    <3>2. CASE j # 1
      <4>1. j - 1 \in 1..(s - 1 - c) /\ (j - 1) + 1 = j /\ c + (j - 1) = (c - 1) + j
        <5> HIDE DEF c
        <5>1. c \in Nat /\ s \in Nat /\ j \in Nat /\ j >= 1 /\ j <= s - 1 - (c - 1)
          BY <1>0
        <5> QED
          BY <5>1, <3>2
      <4>2. f[(j - 1) + 1] = r.found[j - 1] /\ r.found[j - 1] = file[c + (j - 1)]
        BY <4>1, <2>2, <2>3
      <4> QED
        BY <4>1, <4>2
    <3> QED
      BY <3>1, <3>2
  <2>6. ASSUME NEW k \in ((c - 1) + 1)..(s - 1) PROVE IsDoc(file[k])
    <3>1. k = c \/ k \in (c + 1)..(s - 1)
      BY <1>0
    <3> QED
      BY <3>1, <1>1 DEF Searched
  <2>7. ~(c - 1 > l - 1)
    BY <1>0, <1>1
  <2> QED
    BY <2>1, <2>2, <2>4, <2>5, <2>6, <2>7 DEF Searched
<1>2. CASE ~(IsDoc(file[l]) /\ l = c)
  <2>1. LookAt(file, l, r) = r
    BY <1>2 DEF LookAt
  <2>2. c > l - 1 => c = l \/ c > l
    BY <1>0
  <2>3. c > l - 1 => ~IsDoc(file[c])
    BY <1>2, <2>2 DEF Searched
  <2> QED
    BY <2>1, <2>3 DEF Searched
<1> QED
  BY <1>1, <1>2

LEMMA SearchFinds ==
    ASSUME NEW file, IsFile(file), NEW s \in 1..Len(file)
    PROVE  Searched(file, s, 0, CommentSearch(file, s)[Len(file)])
<1> DEFINE n == Len(file)
           T == {k \in 0..n : Searched(file, s, n - k, CommentSearch(file, s)[k])}
<1>0. n \in Nat
  BY DEF IsFile
<1>1. 0 \in T
  <2>1. CommentSearch(file, s)[0] = [candidate |-> s - 1, found |-> <<>>]
    BY SearchUnfolds
  <2>2. Searched(file, s, n, [candidate |-> s - 1, found |-> <<>>])
    BY <1>0 DEF Searched
  <2> QED
    BY <1>0, <2>1, <2>2
<1>2. ASSUME NEW k \in 1..n, k - 1 \in T PROVE k \in T
  <2>1. CommentSearch(file, s)[k] = LookAt(file, n + 1 - k, CommentSearch(file, s)[k - 1])
    BY SearchUnfolds
  <2>2. n + 1 - k \in 1..n /\ n + 1 - k = n - (k - 1) /\ (n + 1 - k) - 1 = n - k /\ k \in 0..n
    BY <1>0
  <2>3. Searched(file, s, n + 1 - k, CommentSearch(file, s)[k - 1])
    BY <1>2, <2>2
  <2>4. Searched(file, s, (n + 1 - k) - 1, CommentSearch(file, s)[k])
    BY <2>1, <2>2, <2>3, LookAtKeeps
  <2> QED
    BY <2>2, <2>4
<1> HIDE DEF T
<1>3. \A k \in 0..n : k \in T
  BY <1>0, <1>1, <1>2, InductTo
<1>4. n \in 0..n /\ n - n = 0
  BY <1>0
<1> QED
  BY <1>3, <1>4 DEF T

\* The comments of a script are the lines right above it, down from the first that is no comment.
LEMMA ExtractedBlock ==
    ASSUME NEW file, IsFile(file), NEW s \in 1..Len(file)
    PROVE  LET docs == ExtractScriptDocComments(file, s)
           IN  \E c \in 0..(s - 1) : /\ docs \in Seq(ToSet(file)) /\ Len(docs) = s - 1 - c
                                     /\ \A j \in 1..(s - 1 - c) : docs[j] = file[c + j]
                                     /\ DocBlock(file, s) = (c + 1)..(s - 1)
<1> DEFINE r == CommentSearch(file, s)[Len(file)]
           c == r.candidate
<1>1. Searched(file, s, 0, r)
  BY SearchFinds
<1>2. ExtractScriptDocComments(file, s) = r.found
  BY DEF ExtractScriptDocComments
<1> HIDE DEF r
<1>3. c \in 0..(s - 1) /\ Len(file) \in Nat
  BY <1>1 DEF Searched, IsFile
<1>4. c > 0 => ~IsDoc(file[c])
  BY <1>1 DEF Searched
<1>5. \A k \in (c + 1)..(s - 1) : IsDoc(file[k])
  BY <1>1 DEF Searched
<1> HIDE DEF c
<1>6. ASSUME NEW l \in DocBlock(file, s) PROVE l \in (c + 1)..(s - 1)
  <2>1. l \in 1..(s - 1) /\ \A k \in l..(s - 1) : IsDoc(file[k])
    BY DEF DocBlock
  <2>2. l <= c => c > 0 /\ c \in l..(s - 1)
    BY <1>3, <2>1
  <2>3. ~(l <= c)
    BY <1>4, <2>1, <2>2
  <2> QED
    BY <1>3, <2>1, <2>3
<1>7. ASSUME NEW l \in (c + 1)..(s - 1) PROVE l \in DocBlock(file, s)
  <2>1. l \in 1..(s - 1) /\ \A k \in l..(s - 1) : k \in (c + 1)..(s - 1)
    BY <1>3
  <2> QED
    BY <2>1, <1>5 DEF DocBlock
<1>8. DocBlock(file, s) = (c + 1)..(s - 1)
  BY <1>6, <1>7
<1> QED
  BY <1>1, <1>2, <1>3, <1>8 DEF Searched, c

\* The values of metadata that a list of comments can give.
Metas(V) == [signers : V \cup {<<>>}, balances : Seq(V), prices : Seq(V), time : V \cup {None},
             block : V \cup {None}, aborts_with : V \cup {None}, status : V \cup {None},
             dry_run : V \cup {FALSE}, panicked : BOOLEAN]

\* A comment says something for a key.
Says(doc, key) == doc.key = key /\ doc.form # "incomplete"

\* A comment ends the process.
Ends(doc) == doc.form = "unparsable" /\ doc.key # "status"

\* What one comment does to the metadata.
LEMMA ApplyFacts ==
    ASSUME NEW V, NEW m \in Metas(V), NEW doc, doc.val \in V
    PROVE  /\ ApplyMetaComment(m, doc) \in Metas(V)
           /\ Ends(doc) \/ m.panicked => ApplyMetaComment(m, doc).panicked
           /\ ~Ends(doc) =>
                /\ ApplyMetaComment(m, doc).aborts_with
                     = IF Says(doc, "aborts_with") THEN doc.val ELSE m.aborts_with
                /\ ApplyMetaComment(m, doc).status
                     = IF Says(doc, "status") THEN IF doc.val \in Status THEN doc.val ELSE None ELSE m.status
<1> USE DEF Says, Ends
<1> DEFINE a == ApplyMetaComment(m, doc)
           bad == Ends(doc)
           says == doc.form # "incomplete"
<1>0. /\ m.balances \in Seq(V) /\ m.prices \in Seq(V)
      /\ Append(m.balances, doc.val) \in Seq(V) /\ Append(m.prices, doc.val) \in Seq(V)
  BY DEF Metas
<1>1. CASE bad
  BY <1>1 DEF ApplyMetaComment, Metas
<1>2. CASE ~bad /\ ~says
  BY <1>2 DEF ApplyMetaComment, Metas
<1>3. CASE ~bad /\ says
  <2>1. CASE doc.key = "signers"
    BY <1>3, <2>1 DEF ApplyMetaComment, Metas
  <2>2. CASE doc.key = "balance"
    <3>1. a = [m EXCEPT !.balances = Append(m.balances, doc.val)]
      BY <1>3, <2>2 DEF ApplyMetaComment, Metas
    <3>2. ASSUME NEW x \in Seq(V)
          PROVE  LET c == [m EXCEPT !.balances = x]
                 IN  /\ c \in Metas(V) /\ c.panicked = m.panicked
                     /\ c.aborts_with = m.aborts_with /\ c.status = m.status
      BY DEF Metas
    <3> QED
      BY <1>0, <1>3, <2>2, <3>1, <3>2
  <2>3. CASE doc.key = "price"
    <3>1. a = [m EXCEPT !.prices = Append(m.prices, doc.val)]
      BY <1>3, <2>3 DEF ApplyMetaComment, Metas
    <3>2. ASSUME NEW x \in Seq(V)
          PROVE  LET c == [m EXCEPT !.prices = x]
                 IN  /\ c \in Metas(V) /\ c.panicked = m.panicked
                     /\ c.aborts_with = m.aborts_with /\ c.status = m.status
      BY DEF Metas
    <3> QED
      BY <1>0, <1>3, <2>3, <3>1, <3>2
  <2>4. CASE doc.key = "current_time"
    BY <1>3, <2>4 DEF ApplyMetaComment, Metas
  <2>5. CASE doc.key = "aborts_with"
    BY <1>3, <2>5 DEF ApplyMetaComment, Metas
  <2>6. CASE doc.key = "status"
    BY <1>3, <2>6 DEF ApplyMetaComment, Metas
  <2>7. CASE doc.key = "block"
    BY <1>3, <2>7 DEF ApplyMetaComment, Metas
  <2>8. CASE doc.key = "dry_run"
    BY <1>3, <2>8 DEF ApplyMetaComment, Metas
  <2>9. CASE doc.key \notin {"signers", "balance", "price", "current_time", "aborts_with", "status",
                             "block", "dry_run"}
    BY <1>3, <2>9 DEF ApplyMetaComment, Metas
  <2> QED
    BY <2>1, <2>2, <2>3, <2>4, <2>5, <2>6, <2>7, <2>8, <2>9
<1> QED
  BY <1>1, <1>2, <1>3

\* The recursive definition of the metadata has its value for every list of comments.
LEMMA MetaUnfolds ==
    ASSUME NEW D, NEW docs \in Seq(D)
    PROVE  /\ MetaAfter(docs)[0] = DefaultMeta
           /\ \A k \in 1..Len(docs) : MetaAfter(docs)[k] = ApplyMetaComment(MetaAfter(docs)[k - 1], docs[k])
<1> DEFINE n == Len(docs)
           V == {docs[i].val : i \in 1..n}
           S == Metas(V)
           op == [x \in Nat \X S |-> IF x[1] \in 1..n THEN ApplyMetaComment(x[2], docs[x[1]]) ELSE x[2]]
<1>1. n \in Nat
  OBVIOUS
<1>2. DefaultMeta \in S
  BY DEF DefaultMeta, Metas
<1>3. ASSUME NEW k \in 1..n, NEW m \in S PROVE ApplyMetaComment(m, docs[k]) \in S
  <2>1. docs[k].val \in V
    OBVIOUS
  <2> HIDE DEF V
  <2> QED
    BY <2>1, ApplyFacts
<1> HIDE DEF S
<1>4. op \in [Nat \X S -> S]
  BY <1>3
<1> HIDE DEF op
<1>5. Recursion(S, DefaultMeta, op, n)
  BY <1>1, <1>2, <1>4, RecursionTo, Zenon
<1>6. PICK g \in [0..n -> S] : g[0] = DefaultMeta /\ \A k \in 1..n : g[k] = op[<<k, g[k - 1]>>]
  BY <1>5, Zenon DEF Recursion
<1>7. ASSUME NEW k \in 1..n PROVE g[k] = ApplyMetaComment(g[k - 1], docs[k])
  <2>1. k \in Nat /\ k - 1 \in 0..n /\ g[k - 1] \in S
    BY <1>1
  <2> QED
    BY <1>6, <2>1 DEF op
<1>8. g = [k \in 0..n |-> IF k = 0 THEN DefaultMeta ELSE ApplyMetaComment(g[k - 1], docs[k])]
  BY <1>1, <1>6, <1>7
<1>9. MetaAfter(docs) = [k \in 0..n |-> IF k = 0 THEN DefaultMeta
                                        ELSE ApplyMetaComment(MetaAfter(docs)[k - 1], docs[k])]
  BY <1>8, Zenon DEF MetaAfter
<1>10. MetaAfter(docs)[0] = DefaultMeta
  BY <1>1, <1>9
<1>11. ASSUME NEW k \in 1..n PROVE MetaAfter(docs)[k] = ApplyMetaComment(MetaAfter(docs)[k - 1], docs[k])
  BY <1>1, <1>9
<1> QED
  BY <1>10, <1>11

\* v is what the last of the first k comments that says something for a key says.
LastSaid(docs, k, key, v) ==
    /\ (\A j \in 1..k : ~Says(docs[j], key)) => v = None
    /\ \A j \in 1..k : Says(docs[j], key) /\ (\A i \in (j + 1)..k : ~Says(docs[i], key)) => v = docs[j].val

LEMMA LastSaidStep ==
    ASSUME NEW docs, NEW key, NEW n \in Nat, NEW k \in 1..n, NEW v, LastSaid(docs, k - 1, key, v)
    PROVE  LastSaid(docs, k, key, IF Says(docs[k], key) THEN docs[k].val ELSE v)
<1>1. CASE Says(docs[k], key)
  <2>1. \A j \in 1..k : j = k \/ k \in (j + 1)..k
    OBVIOUS
  <2>2. k \in 1..k
    OBVIOUS
  <2> QED
    BY <1>1, <2>1, <2>2 DEF LastSaid
<1>2. CASE ~Says(docs[k], key)
  <2>1. \A j \in 1..k : j = k \/ j \in 1..(k - 1)
    OBVIOUS
  <2>2. \A j \in 1..k : \A i \in (j + 1)..(k - 1) : i \in (j + 1)..k
    OBVIOUS
  <2>3. \A j \in 1..(k - 1) : j \in 1..k
    OBVIOUS
  <2> QED
    BY <1>2, <2>1, <2>2, <2>3 DEF LastSaid
<1> QED
  BY <1>1, <1>2

\* When no comment ends the process, the metadata holds what was said last.
LEMMA MetaSaid ==
    ASSUME NEW D, NEW docs \in Seq(D), NEW m, m = MetaAfter(docs)[Len(docs)]
    PROVE  /\ m \in Metas({docs[i].val : i \in 1..Len(docs)})
           /\ ~m.panicked =>
                /\ LastSaid(docs, Len(docs), "aborts_with", m.aborts_with)
                /\ \E v : /\ LastSaid(docs, Len(docs), "status", v)
                          /\ m.status = IF v \in Status THEN v ELSE None
<1> DEFINE n == Len(docs)
           V == {docs[i].val : i \in 1..n}
           M == MetaAfter(docs)
           Good(k) == /\ M[k] \in Metas(V)
                      /\ ~M[k].panicked =>
                           /\ LastSaid(docs, k, "aborts_with", M[k].aborts_with)
                           /\ \E v : LastSaid(docs, k, "status", v)
                                     /\ M[k].status = IF v \in Status THEN v ELSE None
           T == {k \in 0..n : Good(k)}
<1>0. n \in Nat
  OBVIOUS
<1>1. 0 \in T
  <2>1. M[0] = DefaultMeta
    BY MetaUnfolds
  <2>2. DefaultMeta \in Metas(V) /\ DefaultMeta.aborts_with = None /\ DefaultMeta.status = None
    BY DEF DefaultMeta, Metas
  <2>3. \A key : LastSaid(docs, 0, key, None)
    BY DEF LastSaid
  <2>4. DefaultMeta.status = IF None \in Status THEN None ELSE None
    BY <2>2
  <2> HIDE DEF M, V
  <2>5. Good(0)
    BY <2>1, <2>2, <2>3, <2>4
  <2> QED
    BY <1>0, <2>5
<1>2. ASSUME NEW k \in 1..n, k - 1 \in T PROVE k \in T
  <2> DEFINE p == M[k - 1]
             doc == docs[k]
  <2>1. M[k] = ApplyMetaComment(p, doc)
    BY MetaUnfolds
  <2>2. Good(k - 1)
    BY <1>2
  <2>3. doc.val \in V /\ p \in Metas(V)
    BY <2>2
  <2> HIDE DEF M, V, p, doc
  <2>4. /\ M[k] \in Metas(V)
        /\ Ends(doc) \/ p.panicked => M[k].panicked
        /\ ~Ends(doc) =>
             /\ M[k].aborts_with = IF Says(doc, "aborts_with") THEN doc.val ELSE p.aborts_with
             /\ M[k].status = IF Says(doc, "status")
                              THEN IF doc.val \in Status THEN doc.val ELSE None
                              ELSE p.status
    BY <2>1, <2>3, ApplyFacts
  <2>5. ASSUME ~M[k].panicked
        PROVE  /\ LastSaid(docs, k, "aborts_with", M[k].aborts_with)
               /\ \E v : LastSaid(docs, k, "status", v)
                         /\ M[k].status = IF v \in Status THEN v ELSE None
    <3>1. /\ ~p.panicked
          /\ M[k].aborts_with = IF Says(doc, "aborts_with") THEN doc.val ELSE p.aborts_with
          /\ M[k].status = IF Says(doc, "status")
                           THEN IF doc.val \in Status THEN doc.val ELSE None
                           ELSE p.status
      BY <2>4, <2>5
    <3>2. LastSaid(docs, k - 1, "aborts_with", p.aborts_with)
      BY <2>2, <3>1 DEF p
    <3>3. LastSaid(docs, k, "aborts_with", IF Says(docs[k], "aborts_with") THEN docs[k].val ELSE p.aborts_with)
      BY <1>0, <3>2, LastSaidStep
    <3>4. PICK v : LastSaid(docs, k - 1, "status", v) /\ p.status = IF v \in Status THEN v ELSE None
      BY <2>2, <3>1 DEF p
    <3> DEFINE w == IF Says(docs[k], "status") THEN docs[k].val ELSE v
    <3>5. LastSaid(docs, k, "status", w)
      BY <1>0, <3>4, LastSaidStep
    <3>6. M[k].status = IF w \in Status THEN w ELSE None
      BY <3>1, <3>4 DEF doc
    <3> QED
      BY <3>1, <3>3, <3>5, <3>6 DEF doc
  <2>6. Good(k)
    BY <2>4, <2>5
  <2> QED
    BY <1>0, <2>6
<1> HIDE DEF T
<1>3. \A k \in 0..n : k \in T
  BY <1>0, <1>1, <1>2, InductTo
<1>4. n \in T
  BY <1>0, <1>3
<1> QED
  BY <1>4 DEF T

\* What the comments of a block say last is what the block declares.
LEMMA SaidIsDeclared ==
    ASSUME NEW file, NEW s \in Nat, NEW c \in 0..(s - 1), NEW docs, NEW key, NEW v,
           \A j \in 1..(s - 1 - c) : docs[j] = file[c + j],
           DocBlock(file, s) = (c + 1)..(s - 1),
           LastSaid(docs, s - 1 - c, key, v)
    PROVE  v = Declared(file, s, key)
<1> DEFINE D == {l \in DocBlock(file, s) : Says(file[l], key)}
<1>1. Declared(file, s, key) = IF D = {} THEN None ELSE file[Max(D)].val
  BY DEF Declared, Says
<1>2. \A j \in 1..(s - 1 - c) : c + j \in (c + 1)..(s - 1)
  OBVIOUS
<1>3. CASE D = {}
  <2>1. \A j \in 1..(s - 1 - c) : ~Says(docs[j], key)
    BY <1>2, <1>3
  <2> QED
    BY <1>1, <1>3, <2>1 DEF LastSaid
<1>4. CASE D # {}
  <2>1. D \subseteq 1..s
    OBVIOUS
  <2> HIDE DEF D
  <2>2. Max(D) \in D /\ \A y \in D : y <= Max(D)
    BY <1>4, <2>1, MaxIsIn
  <2>3. PICK m : m = Max(D)
    OBVIOUS
  <2>4. m \in (c + 1)..(s - 1) /\ Says(file[m], key)
    BY <2>2, <2>3 DEF D
  <2>5. m - c \in 1..(s - 1 - c) /\ c + (m - c) = m
    BY <2>4
  <2>6. docs[m - c] = file[m]
    BY <2>5
  <2>7. ASSUME NEW i \in ((m - c) + 1)..(s - 1 - c) PROVE ~Says(docs[i], key)
    <3>1. i \in 1..(s - 1 - c) /\ c + i \in (c + 1)..(s - 1) /\ ~(c + i <= m)
      BY <2>4
    <3>2. c + i \notin D
      BY <2>2, <2>3, <3>1
    <3> QED
      BY <3>1, <3>2 DEF D
  <2>8. v = docs[m - c].val
    BY <2>4, <2>5, <2>6, <2>7 DEF LastSaid
  <2> QED
    BY <1>1, <1>4, <2>3, <2>6, <2>8
<1> QED
  BY <1>3, <1>4

\* The errors that the metadata of a script accepts are those its doc block declares.
LEMMA MetaIsDeclared ==
    ASSUME NEW file, IsFile(file), NEW s \in 1..Len(file), ~ScriptMeta(file, s).panicked
    PROVE  /\ ScriptMeta(file, s).aborts_with = Declared(file, s, "aborts_with")
           /\ ScriptMeta(file, s).status = MissingData => Declared(file, s, "status") = MissingData
<1> DEFINE docs == ExtractScriptDocComments(file, s)
           m == MetaAfter(docs)[Len(docs)]
<1>0. s \in Nat
  BY DEF IsFile
<1>1. PICK c \in 0..(s - 1) : /\ docs \in Seq(ToSet(file)) /\ Len(docs) = s - 1 - c
                              /\ \A j \in 1..(s - 1 - c) : docs[j] = file[c + j]
                              /\ DocBlock(file, s) = (c + 1)..(s - 1)
  BY ExtractedBlock
<1>2. ScriptMeta(file, s) = IF m.signers = <<>> THEN [m EXCEPT !.signers = <<Sender>>] ELSE m
  BY DEF ScriptMeta
<1> HIDE DEF docs
<1>3. PICK V : m \in Metas(V)
  BY <1>1, MetaSaid
<1>4. ~m.panicked => /\ LastSaid(docs, Len(docs), "aborts_with", m.aborts_with)
                     /\ \E v : /\ LastSaid(docs, Len(docs), "status", v)
                               /\ m.status = IF v \in Status THEN v ELSE None
  BY <1>1, MetaSaid
<1> HIDE DEF m
<1>5. /\ ScriptMeta(file, s).panicked = m.panicked /\ ScriptMeta(file, s).status = m.status
      /\ ScriptMeta(file, s).aborts_with = m.aborts_with
  BY <1>2, <1>3 DEF Metas
<1>6. LastSaid(docs, s - 1 - c, "aborts_with", m.aborts_with)
  BY <1>1, <1>4, <1>5
<1>7. PICK v : LastSaid(docs, s - 1 - c, "status", v) /\ m.status = IF v \in Status THEN v ELSE None
  BY <1>1, <1>4, <1>5
<1>8. m.aborts_with = Declared(file, s, "aborts_with")
  <2>1. PICK a : a = m.aborts_with
    OBVIOUS
  <2>2. LastSaid(docs, s - 1 - c, "aborts_with", a)
    BY <1>6, <2>1
  <2>3. a = Declared(file, s, "aborts_with")
    BY <1>0, <1>1, <2>2, SaidIsDeclared
  <2> QED
    BY <2>1, <2>3
<1>9. v = Declared(file, s, "status")
  <2>1. LastSaid(docs, s - 1 - c, "status", v)
    BY <1>7, Zenon
  <2> QED
    BY <1>0, <1>1, <2>1, SaidIsDeclared
<1> QED
  BY <1>5, <1>7, <1>8, <1>9, StatusAssumption

\* The file and the line of a unit, and where its metadata is from.
LEMMA UnitFile ==
    ASSUME project \in Projects, NEW t \in DOMAIN project.tests, NEW u \in SessionUnits(t)
    PROVE  /\ IsFile(Sources(t)[u.file])
           /\ u.line \in 1..Len(Sources(t)[u.file])
           /\ u.meta = ScriptMeta(Sources(t)[u.file], u.line)
<1> DEFINE src == Sources(t)
           F == ToSet(project.tests) \cup ToSet(project.deps)
<1>1. PICK f \in DOMAIN src : \E l \in {k \in DOMAIN src[f] : IsScript(src[f][k])} :
        u = [file |-> f, line |-> l, prog |-> src[f][l].prog, meta |-> ScriptMeta(src[f], l)]
  BY DEF SessionUnits
<1>2. PICK l \in DOMAIN src[f] :
        u = [file |-> f, line |-> l, prog |-> src[f][l].prog, meta |-> ScriptMeta(src[f], l)]
  BY <1>1
<1>3. /\ Len(project.deps) \in Nat /\ project.deps = [i \in 1..Len(project.deps) |-> project.deps[i]]
      /\ Len(project.tests) \in Nat /\ project.tests = [i \in 1..Len(project.tests) |-> project.tests[i]]
      /\ \A i \in DOMAIN project.deps :
            /\ Len(project.deps[i]) \in Nat
            /\ project.deps[i] = [k \in 1..Len(project.deps[i]) |-> project.deps[i][k]]
      /\ \A i \in DOMAIN project.tests :
            /\ Len(project.tests[i]) \in Nat
            /\ project.tests[i] = [k \in 1..Len(project.tests[i]) |-> project.tests[i][k]]
  BY ProjectsAssumption
<1>4. ASSUME NEW g, Len(g) \in Nat, g = [k \in 1..Len(g) |-> g[k]]
      PROVE  IsFile(g)
  <2>1. \A k \in 1..Len(g) : g[k] \in ToSet(g)
    BY <1>4 DEF ToSet
  <2> QED
    BY <1>4, <2>1 DEF IsFile
<1>5. \A g \in F : IsFile(g)
  BY <1>3, <1>4 DEF ToSet
<1>6. src[f] \in F
  <2>1. \A i \in DOMAIN project.deps : project.deps[i] \in F
    BY DEF ToSet
  <2>2. project.tests[t] \in F
    BY DEF ToSet
  <2> HIDE DEF F
  <2>3. project.deps \in Seq(F)
    BY <1>3, <2>1
  <2>4. <<project.tests[t]>> \in Seq(F)
    BY <2>2
  <2>5. src \in Seq(F)
    BY <2>3, <2>4, ConcatProperties DEF Sources
  <2> QED
    BY <2>5
<1> HIDE DEF src, F
<1>7. u.file = f /\ u.line = l /\ u.meta = ScriptMeta(src[f], l)
  BY <1>2
<1>8. IsFile(src[f])
  BY <1>5, <1>6
<1>9. l \in 1..Len(src[f])
  BY <1>8 DEF IsFile
<1> QED
  BY <1>7, <1>8, <1>9 DEF src

\* No script of the test that runs has a comment that ends the process, and an error that is
\* accepted is one that the metadata of its script accepts.
Announced ==
    test # 0 =>
        /\ \A u \in SessionUnits(test) : ~u.meta.panicked
        /\ \A i \in DOMAIN steps :
              /\ steps[i].unit \in SessionUnits(test)
              /\ steps[i].result = "ExpectedError" =>
                    \/ steps[i].unit.meta.aborts_with = steps[i].unit.prog.code
                    \/ steps[i].unit.meta.status = MissingData

\* The result of a step that is recorded.
LEMMA StepAccepts ==
    ASSUME NEW u, Step(u)
    PROVE  \E result, why, writes, ds :
              /\ Record(u, result, why, writes, ds)
              /\ result = "ExpectedError" => \/ u.meta.aborts_with = u.prog.code
                                             \/ u.meta.status = MissingData
<1>1. CASE NoCoins(u)
  <2>1. Record(u, "Error", "no Coins module", <<>>, store)
    BY <1>1 DEF NoCoins
  <2>2. \E result : result # "ExpectedError" /\ Record(u, result, "no Coins module", <<>>, store)
    BY <2>1
  <2> QED
    BY <2>2, Zenon
<1>2. CASE Succeed(u)
  <2>1. Record(u, "Success", None, u.prog.writes, View(u.meta))
    BY <1>2 DEF Succeed
  <2> QED
    BY <2>1
<1>3. CASE Abort(u)
  <2>1. Record(u, IF u.meta.aborts_with = u.prog.code THEN "ExpectedError" ELSE "Error",
               ErrorName(test, u.prog.module, u.prog.code), <<>>, View(u.meta))
    BY <1>3 DEF Abort
  <2> QED
    BY <2>1
<1>4. CASE Fail(u)
  <2>1. Record(u, IF u.meta.status = MissingData THEN "ExpectedError" ELSE "Error",
               MissingData, <<>>, View(u.meta))
    BY <1>4 DEF Fail
  <2> QED
    BY <2>1
<1>5. CASE TypeMismatch(u)
  <2>1. Record(u, "Error", ExplainTypeError(u.prog, u.meta.signers), <<>>, View(u.meta))
    BY <1>5 DEF TypeMismatch
  <2> QED
    BY <2>1
<1>6. CASE OtherError(u)
  <2>1. Record(u, "Error", "unexpected", <<>>, View(u.meta))
    BY <1>6 DEF OtherError
  <2> QED
    BY <2>1
<1> QED
  BY <1>1, <1>2, <1>3, <1>4, <1>5, <1>6 DEF Step

LEMMA NextAnnounced == IInv /\ Announced /\ [Next]_vars => Announced'
<1> SUFFICES ASSUME IInv, Announced, [Next]_vars PROVE Announced'
  OBVIOUS
<1>1. ASSUME NEW u \in Upcoming, Step(u) PROVE Announced'
  <2>1. PICK result, why, writes, ds :
           /\ Record(u, result, why, writes, ds)
           /\ result = "ExpectedError" => \/ u.meta.aborts_with = u.prog.code
                                          \/ u.meta.status = MissingData
    BY <1>1, StepAccepts
  <2> DEFINE e == [unit |-> u, result |-> result, why |-> why, args |-> script_args,
                   seen |-> ds, writes |-> writes,
                   labels |-> [r \in DOMAIN writes |-> Label(ds, writes, r)]]
  <2>2. steps' = Append(steps, e) /\ e.result = result /\ e.unit = u
          /\ project' = project /\ test' = test
    BY <2>1 DEF Record
  <2> HIDE DEF e
  <2>3. Running
    BY <1>1, StepIsRecord
  <2>4. u \in SessionUnits(test) /\ test # 0
    BY <1>1, <2>3 DEF IInv, Ordered, UnitsOfTest, Upcoming, Running
  <2>5. \E S : steps \in Seq(S)
    BY DEF IInv, AreSequences
  <2>6. \A i \in DOMAIN steps' : (i \in DOMAIN steps /\ steps'[i] = steps[i]) \/ steps'[i] = e
    BY <2>2, <2>5, AppendKeeps
  <2>7. SessionUnits(test') = SessionUnits(test) /\ SessionUnits(test)' = SessionUnits(test)
    BY <2>2, SameUnits
  <2> QED
    BY <2>1, <2>2, <2>4, <2>6, <2>7 DEF Announced
<1>2. CASE StartTest
  <2>1. steps' = <<>> /\ project' = project /\ test' = Head(queue)
          /\ \A u \in SessionUnits(Head(queue)) : ~u.meta.panicked
    BY <1>2 DEF StartTest
  <2>2. SessionUnits(test)' = SessionUnits(Head(queue))
    BY <2>1 DEF SessionUnits, Sources
  <2> QED
    BY <2>1, <2>2 DEF Announced
<1>3. CASE FinishTest
  BY <1>3 DEF FinishTest, Announced
<1>4. CASE SkipTest \/ BuildError \/ MetaPanic \/ EndCommand \/ UNCHANGED vars
  <2>1. steps' = steps /\ project' = project /\ test' = test
    BY <1>4 DEF SkipTest, BuildError, MetaPanic, EndCommand, vars
  <2>2. SessionUnits(test)' = SessionUnits(test)
    BY <2>1 DEF SessionUnits, Sources
  <2> QED
    BY <2>1, <2>2 DEF Announced
<1> QED
  BY <1>1, <1>2, <1>3, <1>4 DEF Next, Step

-----------------------------------------------------------------------------
(* The theorems *)

(***************************************************************************)
(* For every project, set of resources and virtual machine: the data store *)
(* stays a total map whatever the scripts write (execution.rs:96).         *)
(***************************************************************************)
THEOREM TypeCorrect == Spec => []TypeOK
BY AlwaysIInv, PTL DEF IInv

(***************************************************************************)
(* For every project: the store of a pipeline holds for each resource what *)
(* the last step that committed it wrote, and nothing of dry runs, aborted *)
(* scripts, other tests or doc comments (execution.rs:171).                *)
(***************************************************************************)
THEOREM StoreIsCommittedTheorem == Spec => []StoreIsCommitted
BY AlwaysIInv, PTL DEF IInv, Kept

(***************************************************************************)
(* For every project: a script sees what the scripts before it committed,  *)
(* and besides only what its own doc comments declare (execution.rs:199).  *)
(***************************************************************************)
THEOREM SeesCommittedTheorem == Spec => []SeesCommitted
BY AlwaysIInv, PTL DEF IInv, Kept

(***************************************************************************)
(* For every project: between two reports of a resource as added, a        *)
(* committed step has removed it, or the first one is of a dry run         *)
(* (explain.rs:245).                                                       *)
(***************************************************************************)
THEOREM AddedOnceTheorem == Spec => []AddedOnce
BY AlwaysIInv, PTL DEF IInv, Kept

(***************************************************************************)
(* For every project: a test command that ends well has run every test     *)
(* that was selected, and of each of them all scripts, in order and        *)
(* without an error (session.rs:41, cmd/test.rs:40).                       *)
(***************************************************************************)
THEOREM OkMeansAllRanTheorem == Spec => []OkMeansAllRan
<1>1. IInv => OkMeansAllRan
  <2> SUFFICES ASSUME IInv, outcome = "ok", project.mode = "test",
                      NEW t \in DOMAIN project.tests \ project.skipped
               PROVE  \E h \in ToSet(history) :
                        /\ h.test = t
                        /\ {s.unit : s \in ToSet(h.steps)} = SessionUnits(t)
                        /\ \A i, j \in DOMAIN h.steps : i < j => Before(h.steps[i].unit, h.steps[j].unit)
                        /\ \A i \in DOMAIN h.steps : h.steps[i].result # "Error"
    BY DEF OkMeansAllRan
  <2>1. queue = <<>> /\ test = 0 /\ ~has_failures
    BY DEF IInv, Ordered, VerdictIsNoted
  <2>2. t # test
    <3>1. Len(project.tests) \in Nat /\ project.tests = [i \in 1..Len(project.tests) |-> project.tests[i]]
      BY ProjectsAssumption DEF IInv, Ordered, UnitsOfTest
    <3> QED
      BY <2>1, <3>1
  <2>3. PICK k \in DOMAIN history : history[k].test = t
    BY <2>1, <2>2 DEF IInv, Ordered, NoTestIsLost
  <2>4. \A i \in DOMAIN history[k].steps : history[k].steps[i].result # "Error"
    BY <2>1 DEF IInv, Ordered, ErrorIsNoted
  <2>5. /\ {s.unit : s \in ToSet(history[k].steps)} = SessionUnits(t)
        /\ \A i, j \in DOMAIN history[k].steps :
              i < j => Before(history[k].steps[i].unit, history[k].steps[j].unit)
    BY <2>3, <2>4 DEF IInv, Ordered, DoneInOrder
  <2>6. history[k] \in ToSet(history)
    BY DEF ToSet
  <2> QED
    BY <2>3, <2>4, <2>5, <2>6
<1> QED
  BY AlwaysIInv, <1>1, PTL

(***************************************************************************)
(* For every file: an error is accepted only if the doc block right above  *)
(* the script that raised it announces it.  The search for the comments,   *)
(* from the end of the file (session.rs:101), finds just that block, and   *)
(* of several comments the last one counts (meta.rs:43).                   *)
(***************************************************************************)
THEOREM ExpectedIsDeclaredTheorem == Spec => []ExpectedIsDeclared
<1>1. Init => Announced
  BY DEF Init, Announced
<1>2. Spec => []Announced
  BY <1>1, NextAnnounced, AlwaysIInv, PTL DEF Spec
<1>3. IInv /\ Announced => ExpectedIsDeclared
  <2> SUFFICES ASSUME IInv, Announced, NEW n \in DOMAIN steps, steps[n].result = "ExpectedError", test # 0
               PROVE  LET u == steps[n].unit
                          file == Sources(test)[u.file]
                      IN  \/ Declared(file, u.line, "aborts_with") = u.prog.code
                          \/ Declared(file, u.line, "status") = MissingData
    BY DEF ExpectedIsDeclared
  <2>1. PICK u : u = steps[n].unit
    OBVIOUS
  <2>2. /\ u \in SessionUnits(test) /\ ~u.meta.panicked
        /\ u.meta.aborts_with = u.prog.code \/ u.meta.status = MissingData
    BY <2>1 DEF Announced
  <2>3. project \in Projects /\ test \in DOMAIN project.tests
    BY DEF IInv, TypeOK, Ordered, UnitsOfTest
  <2>4. /\ IsFile(Sources(test)[u.file]) /\ u.line \in 1..Len(Sources(test)[u.file])
        /\ u.meta = ScriptMeta(Sources(test)[u.file], u.line)
    BY <2>2, <2>3, UnitFile
  <2>5. /\ u.meta.aborts_with = Declared(Sources(test)[u.file], u.line, "aborts_with")
        /\ u.meta.status = MissingData => Declared(Sources(test)[u.file], u.line, "status") = MissingData
    BY <2>2, <2>4, MetaIsDeclared, Zenon
  <2> QED
    BY <2>1, <2>2, <2>5
<1> QED
  BY <1>2, <1>3, AlwaysIInv, PTL

\* While a script is to be run, the pipeline is whole.
LEMMA RunningIsWhole ==
    ASSUME IInv, Running, units # {}
    PROVE  ~Broken
<1> SUFFICES ASSUME Broken PROVE FALSE
  OBVIOUS
<1>1. steps # <<>> /\ steps[Len(steps)].result = "Error" /\ test # 0
  BY DEF Broken, Last
<1>2. PICK S : steps \in Seq(S)
  BY DEF IInv, AreSequences
<1>3. Len(steps) \in DOMAIN steps
  BY <1>1, <1>2
<1> QED
  BY <1>1, <1>3 DEF IInv, Ordered, ErrorIsLast, Running

\* Running a script commits to the ledger or breaks its pipeline.
LEMMA StepRefines ==
    ASSUME IInv, NEW u \in Upcoming, Step(u)
    PROVE  Pipelines!Commit \/ Pipelines!Break
<1>1. PICK result, why, writes, ds : /\ Record(u, result, why, writes, ds)
                                     /\ Effect(u, result, why, writes, ds)
  BY StepIsRecord
<1> DEFINE e == [unit |-> u, result |-> result, why |-> why, args |-> script_args,
                 seen |-> ds, writes |-> writes,
                 labels |-> [r \in DOMAIN writes |-> Label(ds, writes, r)]]
<1>2. /\ steps' = Append(steps, e) /\ e.result = result
      /\ UNCHANGED <<project, test, has_failures, outcome>>
  BY <1>1 DEF Record
<1> HIDE DEF e
<1>3. Running /\ DOMAIN store' = DOMAIN store
  BY StepIsRecord, StepTypeOK DEF IInv, TypeOK
<1>4. test # 0 /\ ~Broken
  BY <1>3, RunningIsWhole DEF Running, Upcoming
<1>5. Last(steps') = e /\ steps' # <<>>
  BY <1>2, AppendKeeps DEF IInv, AreSequences, Last
<1>6. Broken' <=> result = "Error"
  BY <1>2, <1>4, <1>5 DEF Broken
<1>7. CASE result = "Error"
  <2>1. Broken' = TRUE
    BY <1>6, <1>7 DEF Broken
  <2>2. store' = store
    BY <1>1, <1>7 DEF Effect
  <2> QED
    BY <1>2, <1>4, <2>1, <2>2 DEF Pipelines!Break
<1>8. CASE result # "Error"
  <2>1. Broken' = Broken
    BY <1>4, <1>6, <1>8 DEF Broken
  <2>2. DOMAIN store' = DOMAIN store
    BY <1>3
  <2> QED
    BY <1>2, <1>4, <2>1, <2>2 DEF Pipelines!Commit
<1> QED
  BY <1>7, <1>8

\* Every step of a command is one of the ledger, or changes nothing of it.
LEMMA NextRefines ==
    ASSUME IInv, [Next]_vars
    PROVE  [Pipelines!Next]_Pipelines!vars
<1> USE DEF Pipelines!vars
<1>1. CASE \E u \in Upcoming : Step(u)
  BY <1>1, StepRefines DEF Pipelines!Next
<1>2. CASE SkipTest \/ UNCHANGED vars
  <2>1. UNCHANGED <<project, test, store, steps, has_failures, outcome>>
    BY <1>2 DEF SkipTest, vars
  <2> QED
    BY <2>1 DEF Broken
<1>3. CASE BuildError \/ MetaPanic
  <2>1. /\ UNCHANGED <<project, test, store, steps, has_failures>>
        /\ outcome = "running" /\ test = 0 /\ outcome' \in {"error", "panic"}
    BY <1>3 DEF BuildError, MetaPanic, NextTest
  <2>2. Pipelines!GiveUp
    BY <2>1 DEF Pipelines!GiveUp, Broken
  <2> QED
    BY <2>2 DEF Pipelines!Next
<1>4. CASE StartTest
  <2>1. /\ UNCHANGED <<project, has_failures, outcome>>
        /\ outcome = "running" /\ test = 0
        /\ test' = Head(queue) /\ store' = EmptyStore /\ steps' = <<>>
    BY <1>4 DEF StartTest, NextTest
  <2>2. test' # 0
    <3>1. queue # <<>> /\ queue \in Seq(DOMAIN project.tests)
      BY <1>4 DEF StartTest, NextTest, IInv, TypeOK
    <3>2. Head(queue) \in DOMAIN project.tests
      BY <3>1, QueueTail
    <3>3. Len(project.tests) \in Nat /\ project.tests = [i \in 1..Len(project.tests) |-> project.tests[i]]
      BY ProjectsAssumption DEF IInv, Ordered, UnitsOfTest
    <3> QED
      BY <2>1, <3>2, <3>3
  <2>3. Pipelines!Begin
    BY <2>1, <2>2 DEF Pipelines!Begin, Broken
  <2> QED
    BY <2>3 DEF Pipelines!Next
<1>5. CASE FinishTest
  <2>1. /\ UNCHANGED <<project, store, steps, outcome>>
        /\ test # 0 /\ test' = 0
        /\ has_failures' = (has_failures \/ (steps # <<>> /\ Last(steps).result = "Error"))
    BY <1>5 DEF FinishTest
  <2>2. Pipelines!Finish
    BY <2>1 DEF Pipelines!Finish, Broken
  <2> QED
    BY <2>2 DEF Pipelines!Next
<1>6. CASE EndCommand
  <2>1. /\ UNCHANGED <<project, test, store, steps, has_failures>>
        /\ outcome = "running" /\ test = 0
        /\ outcome' = IF project.mode = "test" /\ has_failures THEN "failed" ELSE "ok"
    BY <1>6 DEF EndCommand, Verdict
  <2>2. Pipelines!Judge
    BY <2>1 DEF Pipelines!Judge, Broken
  <2> QED
    BY <2>2 DEF Pipelines!Next
<1> QED
  BY <1>1, <1>2, <1>3, <1>4, <1>5, <1>6 DEF Next, Step

(***************************************************************************)
(* For every project, set of resources and virtual machine: the executor   *)
(* and the loops that drive it (testrunner.rs, cmd/test.rs, cmd/run.rs)    *)
(* implement Ledger.  A pipeline starts on an empty store, an error is the  *)
(* last thing that happens in it and leaves the store alone, and a test    *)
(* command ends well only if there was none.                               *)
(***************************************************************************)
THEOREM ImplementsLedgerTheorem == Spec => ImplementsLedger
<1>1. Init => Pipelines!Init
  BY DEF Init, Pipelines!Init, Broken
<1>2. IInv /\ [Next]_vars => [Pipelines!Next]_Pipelines!vars
  BY NextRefines
<1> QED
  BY AlwaysIInv, <1>1, <1>2, PTL DEF Spec, ImplementsLedger, Pipelines!Spec
=============================================================================
