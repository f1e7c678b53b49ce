--------------------------- MODULE DoveIndexProofs ---------------------------
(* What is proved about DoveIndex for all modules, repositories, projects    *)
(* and bounds: the invariants that the runs check, each from the part of     *)
(* one inductive invariant that says how it comes about.                     *)
EXTENDS DoveIndex, SequenceTheorems, TLAPS

-----------------------------------------------------------------------------
(* The inductive invariant *)

\* The steps of a command up to the first Index::store.
Early == {"idle", "deps", "clone", "checkout", "scan", "truncate", "store"}

\* What a command has not begun with is empty, and what it has worked off, too.
Phases ==
    /\ pc \notin {"tree", "write"} => stack = <<>>
    /\ pc = "write" => Top.todo = {}
    /\ pc \in Early => deps = {} /\ imports = {} /\ used = {}
    /\ pc = "truncate" => scan = {}
    /\ pc \in {"retruncate", "restore", "load"} => imports = {}

\* An import of a module that load_tree works on is still to be visited, is being
\* visited by the next call, or is written.
StackCovers ==
    \A k \in DOMAIN stack : \A i \in Imports[stack[k].module] :
        \/ i \in stack[k].todo
        \/ chain[i] = "written"
        \/ k < Len(stack) /\ stack[k + 1].module = i

\* What the sources and the visited modules use is visited or still to be, and never both,
\* and nothing is that the sources do not need; the set has the file of each visited module.
Resolving ==
    pc \notin Early =>
        /\ wants \cup UNION {Imports[m] : m \in used} \subseteq imports \cup used
        /\ imports \cap used = {}
        /\ imports \cup used \subseteq NeededBy(wants)
        /\ \A m \in used : HasModule(modules, m)
        /\ deps = {GetFile(modules, m) : m \in used}

\* The local entries are those of the path dependency, from the moment they are indexed.
LocalsIndexed ==
    /\ pc = "scan" => modules.locals = NoLocals
    /\ pc \notin Early \ {"truncate", "store"} =>
          modules.locals = IF Contains(manifest, PathDep) THEN paths ELSE NoLocals

\* An entry names the file that has the module at the revision it was read from, and an
\* index that has one module of a revision has an entry for each of them.
GitClosed(x) ==
    \A m \in Module : x.gits[m] # NoEntry =>
        /\ Tree[x.gits[m].dep][x.gits[m].rev][m] = x.gits[m].path
        /\ \A i \in Provides(x.gits[m].dep, x.gits[m].rev) : x.gits[i] # NoEntry

\* What the stored index knows, and what the scan has passed, is in the index in memory.
Scanned ==
    /\ GitClosed(modules) /\ GitClosed(index.modules)
    /\ pc \in {"deps", "clone", "checkout", "scan"} =>
          /\ \A d \in GitDep : GitName(d) \in depNames => \E m \in Module : index.modules.gits[m].dep = d
          /\ \A m \in Module : index.modules.gits[m] # NoEntry => modules.gits[m] # NoEntry
          /\ \A m \in Module : ChainName(m) \in depNames => m \in modules.chains
    /\ pc \in {"scan", "truncate"} =>
          /\ \A d \in GitDep : git[d] \in Revision /\ UpToDate(d) /\ GitName(d) \notin scan =>
                \A m \in Provides(d, git[d]) : modules.gits[m] # NoEntry
          /\ \A m \in Module : chain[m] = "written" /\ ChainName(m) \notin scan =>
                m \in modules.chains

\* The clone of every git entry of an index is at the revision that was read, and every
\* chain entry has its file.
Backed(x) ==
    /\ \A m \in Module : x.gits[m] # NoEntry => git[x.gits[m].dep] = x.gits[m].rev
    /\ \A m \in x.chains : chain[m] = "written"

\* Neither index has a module of d.
Unread(d) == \A m \in Module : modules.gits[m].dep # d /\ index.modules.gits[m].dep # d

\* While the cache was never removed, both indexes are backed by it.  A clone fails only
\* before it holds a file, and is checked out before any index knows it.
FilesExist ==
    /\ budget["cleans"] <= scenario.budget["cleans"]
    /\ pc = "clone" => git[Head(todo)] = "partial"
    /\ pc = "checkout" => git[Head(todo)] = "head"
    /\ pc = "scan" => scan \subseteq Cached
    /\ CacheKept => /\ Backed(modules) /\ Backed(index.modules)
                    /\ pc = "checkout" => Unread(Head(todo))

IInv == /\ TypeOK /\ Phases /\ ImportsCachedFirst /\ StackCovers /\ Resolving
        /\ LocalsIndexed /\ Scanned /\ FilesExist

-----------------------------------------------------------------------------
(* The first state, and the end of a command *)

\* The empty index and the memory of a process that has not begun.
LEMMA NoModulesType == NoModules \in ModulesIndex /\ GitClosed(NoModules) /\ Backed(NoModules)
BY DEF NoModules, NoLocals, Paths, ModulesIndex, GitClosed, Backed

\* An entry that is not empty comes from a repository.
LEMMA EntryType ==
    ASSUME NEW x \in ModulesIndex, NEW m \in Module
    PROVE  /\ x.gits[m] # NoEntry => x.gits[m] \in GitEntry
           /\ x.gits[m].dep \in GitDep \cup {NoDep}
           /\ x.gits[m].dep # NoDep <=> x.gits[m] # NoEntry
BY DoveAssumption DEF ModulesIndex, GitEntry, NoEntry

\* What w needs is w and what the modules of the set use, and is in every such set.
LEMMA NeededProperties ==
    ASSUME NEW w \in SUBSET Module
    PROVE  /\ w \subseteq NeededBy(w) /\ NeededBy(w) \subseteq Module
           /\ \A m \in NeededBy(w) : Imports[m] \subseteq NeededBy(w)
           /\ \A S \in SUBSET Module : Complete(S, w) => NeededBy(w) \subseteq S
<1>1. w \subseteq NeededBy(w) /\ NeededBy(w) \subseteq Module
  BY DEF NeededBy, Complete
<1>2. ASSUME NEW m \in NeededBy(w), NEW i \in Imports[m] PROVE i \in NeededBy(w)
  <2>1. i \in Module
    BY <1>1, DoveAssumption
  <2>2. ASSUME NEW S \in SUBSET Module, Complete(S, w) PROVE i \in S
    <3>1. m \in S
      BY <2>2 DEF NeededBy
    <3> QED
      BY <2>2, <3>1 DEF Complete
  <2> QED
    BY <2>1, <2>2 DEF NeededBy
<1>3. ASSUME NEW S \in SUBSET Module, Complete(S, w) PROVE NeededBy(w) \subseteq S
  BY <1>3 DEF NeededBy
<1> QED
  BY <1>1, <1>2, <1>3

\* The invariant holds for a new project.
LEMMA InitIInv == Init => IInv
<1> SUFFICES ASSUME Init PROVE IInv
  OBVIOUS
<1>1. TypeOK
  <2>1. /\ manifest \in DepSeq /\ paths \in Paths /\ wants \in SUBSET Module
        /\ budget \in [Steps -> Nat]
    BY DoveAssumption DEF Init
  <2>2. todo \in DepSeq /\ stack \in Seq(Frames)
    BY EmptySeq, Zenon DEF Init, DepSeq
  <2>3. /\ git \in [GitDep -> {"absent", "partial"} \cup Revision]
        /\ chain \in [Module -> {"absent", "empty", "written"}]
        /\ index \in [state : {"absent", "unreadable", "stored"}, modules : ModulesIndex]
    BY NoModulesType DEF Init
  <2> QED
    BY <2>1, <2>2, <2>3, NoModulesType DEF Init, TypeOK
<1>2. Phases /\ StackCovers
  BY DEF Init, Phases, StackCovers, Early
<1>3. ImportsCachedFirst /\ Resolving /\ LocalsIndexed
  BY DEF Init, ImportsCachedFirst, Resolving, LocalsIndexed, Early
<1>4. Scanned
  BY NoModulesType DEF Init, Scanned
<1>5. FilesExist
  BY NoModulesType, DoveAssumption DEF Init, FilesExist, Steps
<1> QED
  BY <1>1, <1>2, <1>3, <1>4, <1>5 DEF IInv

\* A step that spends part of the budget leaves the number of cleans alone, unless it cleans.
LEMMA SpendType ==
    ASSUME TypeOK, NEW step \in Steps, Spend(step)
    PROVE  /\ budget' \in [Steps -> Nat]
           /\ step # "cleans" => budget'["cleans"] = budget["cleans"]
BY DEF TypeOK, Spend, Steps

\* A command that returns, fails or is killed leaves a state in which the invariant holds,
\* whatever it was doing: complete clones and chain files are kept.
LEMMA ReturnIInv ==
    ASSUME IInv,
           NEW r \in {"none", "ok", "error", "missing", "killed"}, Return(r),
           chain' = chain,
           git' \in [GitDep -> {"absent", "partial"} \cup Revision],
           \A d \in GitDep : git[d] \in Revision => git'[d] = git[d],
           budget' \in [Steps -> Nat], budget'["cleans"] = budget["cleans"]
    PROVE  IInv'
<1> USE DEF IInv, Return, Exit, project
<1>1. TypeOK'
  <2>1. todo' \in DepSeq /\ stack' \in Seq(Frames)
    BY EmptySeq, Zenon DEF DepSeq
  <2> QED
    BY <2>1, NoModulesType DEF TypeOK
<1>2. Phases' /\ StackCovers'
  BY DEF Phases, StackCovers
<1>3. ImportsCachedFirst'
  BY DEF ImportsCachedFirst
<1>4. Resolving' /\ LocalsIndexed'
  BY DEF Resolving, LocalsIndexed, Early
<1>5. Scanned'
  BY NoModulesType DEF Scanned, GitClosed, NoModules
<1>6. FilesExist'
  <2>1. CacheKept' => CacheKept
    BY DEF CacheKept
  <2>2. Backed(NoModules)'
    BY DEF Backed, NoModules
  <2>3. ASSUME Backed(index.modules) PROVE Backed(index.modules)'
    <3>1. index'.modules = index.modules /\ index.modules \in ModulesIndex
      BY DEF TypeOK
    <3>2. \A m \in Module : index.modules.gits[m] # NoEntry =>
             index.modules.gits[m].dep \in GitDep /\ index.modules.gits[m].rev \in Revision
      BY <3>1, EntryType DEF GitEntry
    <3> QED
      BY <2>3, <3>1, <3>2 DEF Backed
  <2> QED
    BY <2>1, <2>2, <2>3 DEF FilesExist
<1> QED
  BY <1>1, <1>2, <1>3, <1>4, <1>5, <1>6

\* The ways to fail.
LEMMA FailIInv ==
    ASSUME IInv, Fail \/ Fault \/ Crash
    PROVE  IInv'
<1>1. CASE Fail
  BY <1>1, ReturnIInv DEF Fail, cache, IInv, TypeOK
<1>2. CASE Fault
  <2>1. budget' \in [Steps -> Nat] /\ budget'["cleans"] = budget["cleans"]
    BY <1>2, SpendType DEF Fault, IInv, Steps
  <2> QED
    BY <1>2, <2>1, ReturnIInv DEF Fault, cache, IInv, TypeOK
<1>3. CASE Crash
  <2>1. budget' \in [Steps -> Nat] /\ budget'["cleans"] = budget["cleans"]
    BY <1>3, SpendType DEF Crash, IInv, Steps
  <2> QED
    BY <1>3, <2>1, ReturnIInv DEF Crash, cache, IInv, TypeOK
<1> QED
  BY <1>1, <1>2, <1>3

-----------------------------------------------------------------------------
(* The user *)

\* An edit between two commands keeps the invariant, which says nothing of the project then.
LEMMA EditIInv ==
    ASSUME IInv, Edit,
           manifest' \in DepSeq, pathDir' \in BOOLEAN,
           paths' \in Paths, wants' \in SUBSET Module
    PROVE  IInv'
<1> USE DEF IInv, Edit, cache, memory, work
<1>1. budget' \in [Steps -> Nat] /\ budget'["cleans"] = budget["cleans"]
  BY SpendType DEF Steps
<1>2. TypeOK'
  BY <1>1 DEF TypeOK
<1>3. Phases' /\ StackCovers' /\ ImportsCachedFirst'
  BY DEF Phases, StackCovers, ImportsCachedFirst, Top
<1>4. Resolving' /\ LocalsIndexed'
  BY DEF Resolving, LocalsIndexed, Early, Phases
<1>5. Scanned'
  BY DEF Scanned, GitClosed
<1>6. FilesExist'
  BY <1>1 DEF FilesExist, CacheKept, Backed, Phases, Early
<1> QED
  BY <1>2, <1>3, <1>4, <1>5, <1>6

\* Removing the cache makes no promise about files any more, and breaks no other.
LEMMA CleanIInv ==
    ASSUME IInv, Clean
    PROVE  IInv'
<1> USE DEF IInv, Clean, project, memory, work
<1>1. budget' \in [Steps -> Nat] /\ budget'["cleans"] < budget["cleans"]
  BY DEF Spend, TypeOK, Steps
<1>2. TypeOK'
  BY <1>1 DEF TypeOK
<1>3. Phases' /\ StackCovers' /\ ImportsCachedFirst'
  BY DEF Phases, StackCovers, ImportsCachedFirst, TypeOK
<1>4. Resolving' /\ LocalsIndexed'
  BY DEF Resolving, LocalsIndexed, Early, Phases
<1>5. Scanned'
  BY DEF Scanned, GitClosed
<1>6. FilesExist'
  <2>1. scenario.budget["cleans"] \in Nat /\ budget["cleans"] \in Nat /\ budget'["cleans"] \in Nat
    BY <1>1, DoveAssumption DEF TypeOK, Steps
  <2>2. ~CacheKept' /\ budget'["cleans"] <= scenario'.budget["cleans"]
    BY <1>1, <2>1 DEF FilesExist, CacheKept
  <2> QED
    BY <2>2 DEF FilesExist
<1> QED
  BY <1>2, <1>3, <1>4, <1>5, <1>6

\* Deleting an index that cannot be read leaves one without entries.
LEMMA DeleteIndexIInv ==
    ASSUME IInv, DeleteIndex
    PROVE  IInv'
<1> USE DEF IInv, DeleteIndex, project, cache, memory, work
<1>1. TypeOK'
  BY NoModulesType DEF TypeOK
<1>2. Phases' /\ StackCovers' /\ ImportsCachedFirst'
  BY DEF Phases, StackCovers, ImportsCachedFirst
<1>3. Resolving' /\ LocalsIndexed'
  BY DEF Resolving, LocalsIndexed, Early, Phases
<1>4. Scanned'
  BY NoModulesType DEF Scanned, GitClosed
<1>5. FilesExist'
  BY DEF FilesExist, CacheKept, Backed, NoModules, Phases, Early
<1> QED
  BY <1>1, <1>2, <1>3, <1>4, <1>5

\* A command begins with the index that is stored; the dependencies it counts as known are
\* those that have an entry.
LEMMA StartIInv ==
    ASSUME IInv, NEW c \in {"fetch", "build"}, Start(c)
    PROVE  IInv'
<1> USE DEF IInv, project, cache, memory, work
<1>1. /\ budget' \in [Steps -> Nat] /\ budget'["cleans"] = budget["cleans"]
      /\ pc = "idle" /\ cmd' = c
      /\ UNCHANGED <<project, cache, index>>
  BY SpendType DEF Start, Steps
<1>2. CASE /\ outcome' = "error" /\ UNCHANGED <<pc, memory, work>>
  <2>1. TypeOK'
    BY <1>1, <1>2 DEF TypeOK
  <2>2. Phases' /\ StackCovers' /\ ImportsCachedFirst'
    BY <1>1, <1>2 DEF Phases, StackCovers, ImportsCachedFirst
  <2>3. Resolving' /\ LocalsIndexed'
    BY <1>1, <1>2 DEF Resolving, LocalsIndexed, Early, Phases
  <2>4. Scanned'
    BY <1>1, <1>2 DEF Scanned, GitClosed
  <2>5. FilesExist'
    BY <1>1, <1>2 DEF FilesExist, CacheKept, Backed, Phases, Early
  <2> QED
    BY <2>1, <2>2, <2>3, <2>4, <2>5
<1>3. CASE /\ pc' = "deps"
           /\ modules' = index.modules
           /\ keys' = {m \in Module : HasModule(index.modules, m)}
           /\ depNames' = DepNames(index.modules)
           /\ todo' = manifest
           /\ outcome' = "none"
           /\ UNCHANGED <<grown, scan, imports, used, deps, stack, resolved>>
  <2>1. TypeOK'
    <3>1. depNames' \in SUBSET Names
      <4>1. /\ \A m \in Module : index.modules.gits[m].dep \in GitDep \cup {NoDep}
            /\ index.modules.chains \in SUBSET Module
        BY EntryType DEF TypeOK, ModulesIndex
      <4> QED
        BY <1>3, <4>1 DEF DepNames, Names
    <3> QED
      BY <1>1, <1>3, <3>1 DEF TypeOK
  <2>2. Phases' /\ StackCovers' /\ ImportsCachedFirst'
    BY <1>1, <1>3 DEF Phases, StackCovers, ImportsCachedFirst, Early
  <2>3. Resolving' /\ LocalsIndexed'
    BY <1>1, <1>3 DEF Resolving, LocalsIndexed, Early, Phases
  <2>4. Scanned'
    <3>1. GitClosed(index.modules)
      BY DEF Scanned
    <3>2. ASSUME NEW d \in GitDep, GitName(d) \in DepNames(index.modules)
          PROVE  \E m \in Module : index.modules.gits[m].dep = d
      BY <3>2 DEF DepNames, GitName, ChainName
    <3>3. ASSUME NEW m \in Module, ChainName(m) \in DepNames(index.modules)
          PROVE  m \in index.modules.chains
      BY <3>3 DEF DepNames, GitName, ChainName
    <3> QED
      BY <1>1, <1>3, <3>1, <3>2, <3>3 DEF Scanned, GitClosed
  <2>5. FilesExist'
    BY <1>1, <1>3 DEF FilesExist, CacheKept, Backed, Phases, Early
  <2> QED
    BY <2>1, <2>2, <2>3, <2>4, <2>5
<1> QED
  BY <1>2, <1>3 DEF Start

\* Everything the user does keeps the invariant.
LEMMA UserIInv ==
    ASSUME IInv, User
    PROVE  IInv'
<1> USE DEF IInv
<1>1. ASSUME NEW s \in scenario.manifests, EditManifest(s) PROVE IInv'
  <2>1. s \in DepSeq
    BY <1>1, DoveAssumption DEF TypeOK
  <2> QED
    BY <1>1, <2>1, EditIInv DEF EditManifest, TypeOK, FilesExist
<1>2. ASSUME NEW m \in Module, NEW p \in Path \cup {NoPath}, EditPaths(m, p) PROVE IInv'
  <2>1. paths' \in Paths
    BY <1>2 DEF EditPaths, TypeOK, Paths
  <2> QED
    BY <1>2, <2>1, EditIInv DEF EditPaths, TypeOK
<1>3. ASSUME NEW m \in Module, EditSources(m) PROVE IInv'
  <2>1. wants' \in SUBSET Module
    BY <1>3 DEF EditSources, SymDiff, TypeOK
  <2> QED
    BY <1>3, <2>1, EditIInv DEF EditSources, TypeOK, FilesExist
<1>4. CASE RemoveDir
  BY <1>4, EditIInv DEF RemoveDir, TypeOK, NoLocals, Paths
<1> QED
  BY <1>1, <1>2, <1>3, <1>4, CleanIInv, DeleteIndexIInv, StartIInv DEF User

-----------------------------------------------------------------------------
(* load_deps and git::resolve *)

\* While the dependencies are loaded, a step that keeps the index in memory, the stored one
\* and the chain files, and changes no complete clone that an index knows, keeps the
\* invariant.
LEMMA LoadingIInv ==
    ASSUME IInv, pc \in {"deps", "clone", "checkout"}, pc' \in {"deps", "clone", "checkout"},
           git' \in [GitDep -> {"absent", "partial"} \cup Revision],
           \A d \in GitDep : git[d] \in Revision /\ git'[d] # git[d] => (CacheKept => Unread(d)),
           todo' \in DepSeq, resolved' \in SUBSET GitDep,
           pc' \in {"clone", "checkout"} => todo' # <<>>,
           pc' = "clone" => git'[Head(todo')] = "partial",
           pc' = "checkout" => /\ git'[Head(todo')] = "head"
                               /\ CacheKept => Unread(Head(todo')),
           UNCHANGED <<project, chain, index, cmd, memory, scan, imports, used, deps, stack, outcome, budget>>
    PROVE  IInv'
<1> USE DEF IInv, project, memory
<1>1. TypeOK'
  BY DEF TypeOK
<1>2. Phases' /\ StackCovers' /\ ImportsCachedFirst'
  BY DEF Phases, StackCovers, ImportsCachedFirst, Early
<1>3. Resolving' /\ LocalsIndexed'
  BY DEF Resolving, LocalsIndexed, Early, Phases
<1>4. Scanned'
  BY DEF Scanned, GitClosed
<1>5. FilesExist'
  <2>1. /\ \A m \in Module : modules.gits[m] # NoEntry => modules.gits[m] \in GitEntry
        /\ \A m \in Module : index.modules.gits[m] # NoEntry => index.modules.gits[m] \in GitEntry
    BY EntryType DEF TypeOK
  <2>2. ASSUME CacheKept, Backed(modules) PROVE Backed(modules)'
    BY <2>1, <2>2 DEF Backed, Unread, GitEntry
  <2>3. ASSUME CacheKept, Backed(index.modules) PROVE Backed(index.modules)'
    BY <2>1, <2>3 DEF Backed, Unread, GitEntry
  <2>4. CacheKept' = CacheKept /\ \A d : Unread(d)' <=> Unread(d)
    BY DEF CacheKept, Unread
  <2>5. CacheKept /\ pc' = "checkout" => Unread(Head(todo))'
    BY DEF Unread
  <2> QED
    BY <2>2, <2>3, <2>4, <2>5 DEF FilesExist
<1> QED
  BY <1>1, <1>2, <1>3, <1>4, <1>5

\* The dependencies of a repository come before the rest of the list.
LEMMA LoadNestedType ==
    ASSUME TypeOK, todo # <<>>, NEW d \in GitDep, LoadNested(d)
    PROVE  todo' \in DepSeq /\ resolved' \in SUBSET GitDep
<1> DEFINE nested == IF git'[d] \in Revision THEN Nested[d][git'[d]] ELSE <<>>
<1>1. nested \in Seq(GitDep \cup {PathDep})
  BY DoveAssumption, EmptySeq DEF DepSeq
<1>2. Tail(todo) \in Seq(GitDep \cup {PathDep})
  BY HeadTailProperties DEF TypeOK, DepSeq
<1>3. todo' = nested \o Tail(todo) /\ resolved' = resolved \cup {d}
  BY DEF LoadNested
<1> QED
  BY <1>1, <1>2, <1>3, ConcatProperties DEF TypeOK, DepSeq

\* Loading the dependencies keeps the invariant: only a directory without files is removed.
LEMMA LoadDepsIInv ==
    ASSUME IInv,
           VisitPath \/ \E d \in GitDep : VisitCached(d) \/ BeginClone(d) \/ EndClone(d) \/ Checkout(d)
    PROVE  IInv'
<1> USE DEF IInv
<1>1. CASE VisitPath
  <2>1. CASE Fail
    BY <2>1, FailIInv
  <2>2. CASE todo' = Tail(todo) /\ UNCHANGED <<project, cache, index, pc, cmd, memory, scan, imports, used,
                                               deps, stack, resolved, outcome, budget>>
    <3>1. todo' \in DepSeq
      BY <1>1, <2>2, HeadTailProperties DEF VisitPath, TypeOK, DepSeq
    <3> QED
      BY <1>1, <2>2, <3>1, LoadingIInv DEF VisitPath, TypeOK, cache
  <2> QED
    BY <1>1, <2>1, <2>2 DEF VisitPath
<1>2. ASSUME NEW d \in GitDep, VisitCached(d) PROVE IInv'
  <2>1. todo' \in DepSeq /\ resolved' \in SUBSET GitDep
    BY <1>2, LoadNestedType DEF VisitCached
  <2> QED
    BY <1>2, <2>1, LoadingIInv DEF VisitCached, TypeOK
<1>3. ASSUME NEW d \in GitDep, BeginClone(d) PROVE IInv'
  <2>1. /\ git' \in [GitDep -> {"absent", "partial"} \cup Revision]
        /\ \A e \in GitDep : git[e] \in Revision => git'[e] = git[e]
        /\ pc' = "clone" /\ todo' = todo /\ todo # <<>> /\ git'[Head(todo)] = "partial"
    BY <1>3 DEF BeginClone, TypeOK, work, Revision
  <2> QED
    BY <1>3, <2>1, LoadingIInv DEF BeginClone, TypeOK, work
<1>4. ASSUME NEW d \in GitDep, EndClone(d) PROVE IInv'
  <2>1. pc = "clone" /\ todo # <<>> /\ Head(todo) = d /\ git[d] = "partial" /\ chain' = chain
    BY <1>4 DEF EndClone, TypeOK, FilesExist
  <2> USE DEF Revision
  <2>2. CASE git' = [git EXCEPT ![d] = "absent"] /\ Spend("faults") /\ Return("error")
    <3>1. budget' \in [Steps -> Nat] /\ budget'["cleans"] = budget["cleans"]
      BY <2>2, SpendType DEF Steps
    <3> QED
      BY <2>1, <2>2, <3>1, ReturnIInv DEF TypeOK
  <2>3. CASE /\ git' = [git EXCEPT ![d] = "head"] /\ pc' = "deps" /\ LoadNested(d)
             /\ UNCHANGED <<project, index, cmd, memory, scan, imports, used, deps, stack, outcome, budget>>
    <3>1. todo' \in DepSeq /\ resolved' \in SUBSET GitDep
      BY <2>1, <2>3, LoadNestedType
    <3> QED
      BY <2>1, <2>3, <3>1, LoadingIInv DEF TypeOK
  <2>4. CASE /\ git' = [git EXCEPT ![d] = "head"] /\ pc' = "checkout" /\ UNCHANGED <<todo, resolved>>
             /\ UNCHANGED <<project, index, cmd, memory, scan, imports, used, deps, stack, outcome, budget>>
    <3>1. CacheKept => Unread(d)
      <4>1. /\ \A m \in Module : modules.gits[m] # NoEntry => modules.gits[m] \in GitEntry
            /\ \A m \in Module : index.modules.gits[m] # NoEntry => index.modules.gits[m] \in GitEntry
        BY EntryType DEF TypeOK
      <4>2. d \in GitDep /\ NoEntry.dep # d
        BY DoveAssumption DEF NoEntry
      <4> QED
        BY <2>1, <4>1, <4>2 DEF FilesExist, Backed, Unread, GitEntry
    <3> QED
      BY <2>1, <2>4, <3>1, LoadingIInv DEF TypeOK
  <2> QED
    BY <1>4, <2>2, <2>3, <2>4 DEF EndClone
<1>5. ASSUME NEW d \in GitDep, Checkout(d) PROVE IInv'
  <2> USE DEF Revision
  <2>1. pc = "checkout" /\ todo # <<>> /\ Head(todo) = d /\ git[d] = "head" /\ (CacheKept => Unread(d))
    BY <1>5 DEF Checkout, TypeOK, FilesExist
  <2>2. CASE Fail
    BY <2>2, FailIInv
  <2>3. CASE /\ git' = IF Kind[d] = "rev" THEN [git EXCEPT ![d] = "requested"] ELSE git
             /\ pc' = "deps" /\ LoadNested(d)
             /\ UNCHANGED <<project, chain, index, cmd, memory, scan, imports, used, deps, stack, outcome, budget>>
    <3>1. todo' \in DepSeq /\ resolved' \in SUBSET GitDep
      BY <2>1, <2>3, LoadNestedType
    <3> QED
      BY <2>1, <2>3, <3>1, LoadingIInv DEF TypeOK
  <2> QED
    BY <1>5, <2>2, <2>3 DEF Checkout
<1> QED
  BY <1>1, <1>2, <1>3, <1>4, <1>5

-----------------------------------------------------------------------------
(* Index::build and Index::store *)

\* A step of Index::build keeps what does not depend on the entries in memory.
LEMMA BuildingIInv ==
    ASSUME IInv, pc \in Early, pc' \in Early \ {"idle", "clone", "checkout"},
           modules' \in ModulesIndex, keys' \in SUBSET Module, depNames' \in SUBSET Names,
           scan' \in SUBSET Names, pc' = "truncate" => scan' = {}, todo' = todo,
           UNCHANGED <<project, cache, index, cmd, grown, imports, used, deps, stack, resolved, outcome, budget>>
    PROVE  TypeOK' /\ Phases' /\ ImportsCachedFirst' /\ StackCovers' /\ Resolving'
<1> USE DEF IInv, project, cache
<1>1. TypeOK'
  BY DEF TypeOK, Early
<1>2. Phases' /\ StackCovers' /\ ImportsCachedFirst'
  BY DEF Phases, StackCovers, ImportsCachedFirst, Early
<1>3. Resolving'
  BY DEF Resolving, Early
<1> QED
  BY <1>1, <1>2, <1>3

\* The listing of the directory has every clone and every chain file.
LEMMA BeginScanIInv ==
    ASSUME IInv, BeginScan
    PROVE  IInv'
<1> USE DEF IInv, BeginScan, project, cache
<1>1. modules' \in ModulesIndex /\ modules'.gits = modules.gits /\ modules'.chains = modules.chains
      /\ modules'.locals = NoLocals
  BY DEF TypeOK, ModulesIndex, NoLocals, Paths
<1>2. Cached \in SUBSET Names
  BY DEF Cached, Names
<1>3. TypeOK' /\ Phases' /\ ImportsCachedFirst' /\ StackCovers' /\ Resolving'
  BY <1>1, <1>2, BuildingIInv DEF TypeOK, Early
<1>4. LocalsIndexed'
  BY <1>1 DEF LocalsIndexed, Phases, Early
<1>5. Scanned'
  <2>1. \A d \in GitDep : git[d] \in Revision => GitName(d) \in Cached
    BY DEF Cached, Revision
  <2>2. \A m \in Module : chain[m] = "written" => ChainName(m) \in Cached
    BY DEF Cached
  <2> QED
    BY <1>1, <2>1, <2>2 DEF Scanned, GitClosed, UpToDate
<1>6. FilesExist'
  BY <1>1 DEF FilesExist, CacheKept, Backed, Cached, Phases, Early
<1> QED
  BY <1>3, <1>4, <1>5, <1>6

\* Names of different entries differ.
LEMMA NamesDiffer ==
    /\ \A d, e \in GitDep : GitName(d) = GitName(e) => d = e
    /\ \A m, i \in Module : ChainName(m) = ChainName(i) => m = i
    /\ \A d \in GitDep, m \in Module : GitName(d) # ChainName(m)
BY DEF GitName, ChainName

\* Entries of a repository are added for all of its modules at once.
LEMMA StoreGitType ==
    ASSUME NEW x \in ModulesIndex, NEW d \in GitDep, NEW r \in Revision
    PROVE  /\ StoreGit(x, d, r) \in ModulesIndex
           /\ StoreGit(x, d, r).locals = x.locals /\ StoreGit(x, d, r).chains = x.chains
           /\ \A m \in Module :
                 StoreGit(x, d, r).gits[m] =
                    IF m \in Provides(d, r) THEN [dep |-> d, rev |-> r, path |-> Tree[d][r][m]]
                    ELSE x.gits[m]
           /\ \A m \in Provides(d, r) : [dep |-> d, rev |-> r, path |-> Tree[d][r][m]] # NoEntry
<1>1. Tree[d][r] \in Paths
  BY DoveAssumption
<1>2. \A m \in Provides(d, r) : [dep |-> d, rev |-> r, path |-> Tree[d][r][m]] \in GitEntry
  BY <1>1 DEF Provides, Paths, GitEntry
<1>3. \A m \in Provides(d, r) : [dep |-> d, rev |-> r, path |-> Tree[d][r][m]] # NoEntry
  BY DoveAssumption DEF NoEntry
<1> QED
  BY <1>2, <1>3 DEF StoreGit, ModulesIndex

LEMMA StoreChainType ==
    ASSUME NEW x \in ModulesIndex, NEW m \in Module
    PROVE  /\ StoreChain(x, m) \in ModulesIndex
           /\ StoreChain(x, m).locals = x.locals /\ StoreChain(x, m).gits = x.gits
           /\ StoreChain(x, m).chains = x.chains \cup {m}
BY DEF StoreChain, ModulesIndex

\* The scan passes a clone when its modules are indexed, now or by an earlier command that
\* read the same revision.
LEMMA ScanGitIInv ==
    ASSUME IInv, NEW d \in GitDep, ScanGit(d)
    PROVE  IInv'
<1> USE DEF IInv, project, cache
<1>1. CASE Fail
  BY <1>1, FailIInv
<1>2. CASE ~Fail
  <2> DEFINE entry(m) == [dep |-> d, rev |-> git[d], path |-> Tree[d][git[d]][m]]
  <2>1. /\ pc = "scan" /\ pc' = "scan" /\ GitName(d) \in scan
        /\ scan' = scan \ {GitName(d)}
        /\ UNCHANGED <<project, cache, index, cmd, grown, depNames, todo, imports, used, deps, stack,
                       resolved, outcome, budget>>
        /\ ScanKnown(d) \/ ScanNew(d)
    BY <1>2 DEF ScanGit
  <2>2. modules \in ModulesIndex /\ index.modules \in ModulesIndex /\ keys \in SUBSET Module
    BY DEF TypeOK
  <2>3. CASE ScanKnown(d)
    <3>1. UNCHANGED <<modules, keys>>
      BY <2>3 DEF ScanKnown
    <3>2. TypeOK' /\ Phases' /\ ImportsCachedFirst' /\ StackCovers' /\ Resolving'
      BY <2>1, <2>2, <3>1, BuildingIInv DEF TypeOK, Early
    <3>3. LocalsIndexed'
      BY <2>1, <3>1 DEF LocalsIndexed, Early
    <3>4. ASSUME git[d] \in Revision, UpToDate(d), NEW m \in Provides(d, git[d])
          PROVE  modules.gits[m] # NoEntry
      <4>1. GitName(d) \in depNames
        BY <2>3, <3>4 DEF ScanKnown, Revision
      <4>2. PICK i \in Module : index.modules.gits[i].dep = d
        BY <2>1, <4>1 DEF Scanned
      <4>3. index.modules.gits[i] # NoEntry /\ index.modules.gits[i].rev = git[d]
        BY <3>4, <4>2, DoveAssumption DEF NoEntry, UpToDate
      <4>4. index.modules.gits[m] # NoEntry
        BY <4>2, <4>3 DEF Scanned, GitClosed
      <4> QED
        BY <2>1, <4>4 DEF Scanned, Provides
    <3>5. Scanned'
      <4>1. \A e \in GitDep : git[e] \in Revision /\ UpToDate(e) /\ GitName(e) \notin scan' =>
               \A m \in Provides(e, git[e]) : modules.gits[m] # NoEntry
        BY <2>1, <3>4, NamesDiffer DEF Scanned
      <4>2. \A m \in Module : chain[m] = "written" /\ ChainName(m) \notin scan' => m \in modules.chains
        BY <2>1, NamesDiffer DEF Scanned
      <4> QED
        BY <2>1, <3>1, <4>1, <4>2 DEF Scanned, GitClosed, UpToDate
    <3>6. FilesExist'
      BY <2>1, <3>1 DEF FilesExist, CacheKept, Backed, Cached
    <3> QED
      BY <3>2, <3>3, <3>5, <3>6
  <2>4. CASE ScanNew(d)
    <3>1. /\ modules' = StoreGit(modules, d, git[d]) /\ keys' = keys \cup Provides(d, git[d])
          /\ git[d] \in Revision
      <4>1. git[d] # "absent"
        BY <2>1, NamesDiffer DEF FilesExist, Cached
      <4> QED
        BY <2>4, <4>1 DEF ScanNew, TypeOK
    <3>2. /\ modules' \in ModulesIndex /\ modules'.locals = modules.locals
          /\ modules'.chains = modules.chains
          /\ \A m \in Module : modules'.gits[m] = IF m \in Provides(d, git[d]) THEN entry(m)
                                                 ELSE modules.gits[m]
          /\ \A m \in Provides(d, git[d]) : entry(m) # NoEntry
          /\ Provides(d, git[d]) \subseteq Module
          /\ keys' \in SUBSET Module
      BY <2>2, <3>1, StoreGitType DEF Provides
    <3>3. TypeOK' /\ Phases' /\ ImportsCachedFirst' /\ StackCovers' /\ Resolving'
      BY <2>1, <3>2, BuildingIInv DEF TypeOK, Early
    <3>4. LocalsIndexed'
      BY <2>1, <3>2 DEF LocalsIndexed, Early
    <3>5. \A m \in Module : modules.gits[m] # NoEntry => modules'.gits[m] # NoEntry
      BY <3>2
    <3>6. GitClosed(modules)'
      <4> SUFFICES ASSUME NEW m \in Module, modules'.gits[m] # NoEntry
                   PROVE  LET e == modules'.gits[m] IN
                          /\ Tree[e.dep][e.rev][m] = e.path
                          /\ \A i \in Provides(e.dep, e.rev) : modules'.gits[i] # NoEntry
        BY DEF GitClosed
      <4>1. CASE m \in Provides(d, git[d])
        <5>1. modules'.gits[m] = entry(m)
          BY <3>2, <4>1
        <5>2. \A i \in Provides(d, git[d]) : modules'.gits[i] # NoEntry
          BY <3>2
        <5> QED
          BY <5>1, <5>2
      <4>2. CASE m \notin Provides(d, git[d])
        <5>1. modules'.gits[m] = modules.gits[m] /\ modules.gits[m] # NoEntry
          BY <3>2, <4>2
        <5>2. /\ Tree[modules.gits[m].dep][modules.gits[m].rev][m] = modules.gits[m].path
              /\ \A i \in Provides(modules.gits[m].dep, modules.gits[m].rev) : modules.gits[i] # NoEntry
          BY <5>1 DEF Scanned, GitClosed
        <5>3. Provides(modules.gits[m].dep, modules.gits[m].rev) \subseteq Module
          BY DEF Provides
        <5> QED
          BY <3>5, <5>1, <5>2, <5>3
      <4> QED
        BY <4>1, <4>2
    <3>7. Scanned'
      <4>1. GitClosed(index.modules)'
        BY <2>1 DEF Scanned, GitClosed
      <4>2. \A e \in GitDep : git[e] \in Revision /\ UpToDate(e) /\ GitName(e) \notin scan' =>
               \A m \in Provides(e, git[e]) : modules'.gits[m] # NoEntry
        <5> SUFFICES ASSUME NEW e \in GitDep, git[e] \in Revision, UpToDate(e), GitName(e) \notin scan',
                            NEW m \in Provides(e, git[e])
                     PROVE  modules'.gits[m] # NoEntry
          OBVIOUS
        <5>1. CASE e = d
          BY <3>2, <5>1
        <5>2. CASE e # d
          <6>1. GitName(e) \notin scan /\ m \in Module
            BY <2>1, <5>2, NamesDiffer DEF Provides
          <6> QED
            BY <2>1, <3>5, <6>1 DEF Scanned
        <5> QED
          BY <5>1, <5>2
      <4>3. \A m \in Module : chain[m] = "written" /\ ChainName(m) \notin scan' => m \in modules'.chains
        BY <2>1, <3>2, NamesDiffer DEF Scanned
      <4>4. \A m \in Module : index.modules.gits[m] # NoEntry => modules'.gits[m] # NoEntry
        BY <2>1, <3>5 DEF Scanned
      <4> QED
        BY <2>1, <3>2, <3>6, <4>1, <4>2, <4>3, <4>4 DEF Scanned, UpToDate
    <3>8. FilesExist'
      <4>1. ASSUME Backed(modules) PROVE Backed(modules)'
        <5>1. ASSUME NEW m \in Module, modules'.gits[m] # NoEntry
              PROVE  git[modules'.gits[m].dep] = modules'.gits[m].rev
          <6>1. CASE m \in Provides(d, git[d])
            <7>1. modules'.gits[m] = entry(m)
              BY <3>2, <6>1
            <7>2. entry(m).dep = d /\ entry(m).rev = git[d]
              OBVIOUS
            <7> QED
              BY <7>1, <7>2, Zenon
          <6>2. CASE m \notin Provides(d, git[d])
            BY <3>2, <4>1, <5>1, <6>2 DEF Backed
          <6> QED
            BY <6>1, <6>2
        <5> QED
          BY <2>1, <3>2, <4>1, <5>1 DEF Backed
      <4> QED
        BY <2>1, <4>1 DEF FilesExist, CacheKept, Backed, Cached
    <3> QED
      BY <3>3, <3>4, <3>7, <3>8
  <2> QED
    BY <2>1, <2>3, <2>4
<1> QED
  BY <1>1, <1>2

\* Likewise for a chain file.
LEMMA ScanChainIInv ==
    ASSUME IInv, NEW m \in Module, ScanChain(m)
    PROVE  IInv'
<1> USE DEF IInv, project, cache
<1>1. /\ pc = "scan" /\ pc' = "scan" /\ ChainName(m) \in scan
      /\ scan' = scan \ {ChainName(m)}
      /\ UNCHANGED <<project, cache, index, cmd, grown, depNames, todo, imports, used, deps, stack,
                     resolved, outcome, budget>>
      /\ \/ (ChainName(m) \in depNames \/ chain[m] = "empty") /\ UNCHANGED <<modules, keys>>
         \/ /\ chain[m] = "written"
            /\ modules' = StoreChain(modules, m) /\ keys' = keys \cup {m}
  BY DEF ScanChain
<1>2. /\ modules' \in ModulesIndex /\ modules'.locals = modules.locals
      /\ modules'.gits = modules.gits
      /\ modules.chains \subseteq modules'.chains /\ modules'.chains \subseteq modules.chains \cup {m}
      /\ keys' \in SUBSET Module
  BY <1>1, StoreChainType DEF TypeOK
<1>3. TypeOK' /\ Phases' /\ ImportsCachedFirst' /\ StackCovers' /\ Resolving'
  BY <1>1, <1>2, BuildingIInv DEF TypeOK, Early
<1>4. LocalsIndexed'
  BY <1>1, <1>2 DEF LocalsIndexed, Phases, Early
<1>5. Scanned'
  <2>1. chain[m] = "written" => m \in modules'.chains
    BY <1>1, StoreChainType DEF Scanned, TypeOK
  <2>2. \A i \in Module : chain[i] = "written" /\ ChainName(i) \notin scan' => i \in modules'.chains
    BY <1>1, <1>2, <2>1, NamesDiffer DEF Scanned
  <2>3. \A d \in GitDep : git[d] \in Revision /\ UpToDate(d) /\ GitName(d) \notin scan' =>
           \A i \in Provides(d, git[d]) : modules'.gits[i] # NoEntry
    BY <1>1, <1>2, NamesDiffer DEF Scanned
  <2> QED
    BY <1>1, <1>2, <2>2, <2>3 DEF Scanned, GitClosed, UpToDate
<1>6. FilesExist'
  <2>1. ASSUME Backed(modules) PROVE Backed(modules)'
    <3>1. modules' = modules \/ chain[m] = "written"
      BY <1>1
    <3> QED
      BY <1>1, <1>2, <2>1, <3>1 DEF Backed
  <2> QED
    BY <1>1, <2>1 DEF FilesExist, CacheKept, Backed, Cached, Phases, Early
<1> QED
  BY <1>3, <1>4, <1>5, <1>6

\* When the scan is over, the local entries are those of the path dependency.
LEMMA IndexPathsIInv ==
    ASSUME IInv, IndexPaths
    PROVE  IInv'
<1> USE DEF IInv, project, cache
<1>1. CASE Fault
  BY <1>1, FailIInv
<1>2. CASE ~Fault
  <2> DEFINE found == IF Contains(manifest, PathDep) THEN paths ELSE NoLocals
  <2>1. /\ pc = "scan" /\ pc' = "truncate" /\ scan = {}
        /\ modules' = [modules EXCEPT !.locals = IF Contains(manifest, PathDep) THEN paths ELSE @]
        /\ keys' = keys \cup {m \in Module : modules'.locals[m] # NoPath}
        /\ depNames' = Cached \ depNames
        /\ UNCHANGED <<project, cache, index, cmd, grown, work, outcome, budget>>
    BY <1>2 DEF IndexPaths
  <2>2. found \in Paths /\ Cached \in SUBSET Names
    BY DEF TypeOK, Cached, Names, NoLocals, Paths
  <2>3. modules.locals = NoLocals
    BY <2>1 DEF LocalsIndexed
  <2>4. modules' = [modules EXCEPT !.locals = found]
    BY <2>1, <2>3
  <2> HIDE DEF found
  <2>9. /\ modules' \in ModulesIndex /\ modules'.gits = modules.gits
        /\ modules'.chains = modules.chains /\ modules'.locals = found
        /\ keys' \in SUBSET Module
    BY <2>1, <2>2, <2>4 DEF TypeOK, ModulesIndex
  <2>5. TypeOK' /\ Phases' /\ ImportsCachedFirst' /\ StackCovers' /\ Resolving'
    BY <2>1, <2>2, <2>9, BuildingIInv DEF TypeOK, Early, work
  <2>6. LocalsIndexed'
    BY <2>1, <2>9 DEF LocalsIndexed, Phases, Early, found, work
  <2>7. Scanned'
    BY <2>1, <2>9 DEF Scanned, GitClosed, UpToDate
  <2>8. FilesExist'
    BY <2>1, <2>9 DEF FilesExist, CacheKept, Backed, Phases, Early, work
  <2> QED
    BY <2>5, <2>6, <2>7, <2>8
<1> QED
  BY <1>1, <1>2

\* Between truncation and write the stored index has no entries.
LEMMA TruncateIInv ==
    ASSUME IInv, Truncate
    PROVE  IInv'
<1> USE DEF IInv, Truncate, project, cache, memory, work
<1>1. TypeOK'
  BY NoModulesType DEF TypeOK
<1>2. Phases' /\ StackCovers' /\ ImportsCachedFirst'
  BY DEF Phases, StackCovers, ImportsCachedFirst, Early
<1>3. Resolving' /\ LocalsIndexed'
  BY DEF Resolving, LocalsIndexed, Early
<1>4. Scanned'
  BY NoModulesType DEF Scanned, GitClosed
<1>5. FilesExist'
  BY DEF FilesExist, CacheKept, Backed, NoModules, FileExists
<1> QED
  BY <1>1, <1>2, <1>3, <1>4, <1>5

\* The index that is stored is the one in memory, so it promises the same.
LEMMA StoreIInv ==
    ASSUME IInv, Store
    PROVE  IInv'
<1> USE DEF IInv, project, cache, memory, work
<1>1. /\ pc \in {"store", "restore"}
      /\ index' = [state |-> "stored", modules |-> modules]
      /\ UNCHANGED <<project, cache, cmd, budget>>
  BY DEF Store
<1>2. CASE Exit /\ outcome' = "ok"
  <2> USE DEF Exit
  <2>1. TypeOK'
    <3>1. todo' \in DepSeq /\ stack' \in Seq(Frames)
      BY <1>2, EmptySeq, Zenon DEF DepSeq
    <3> QED
      BY <1>1, <1>2, <3>1, NoModulesType DEF TypeOK
  <2>2. Phases' /\ StackCovers' /\ ImportsCachedFirst'
    BY <1>1, <1>2 DEF Phases, StackCovers, ImportsCachedFirst
  <2>3. Resolving' /\ LocalsIndexed'
    BY <1>1, <1>2 DEF Resolving, LocalsIndexed, Early
  <2>4. Scanned'
    BY <1>1, <1>2, NoModulesType DEF Scanned, GitClosed
  <2>5. FilesExist'
    BY <1>1, <1>2 DEF FilesExist, CacheKept, Backed, NoModules
  <2> QED
    BY <2>1, <2>2, <2>3, <2>4, <2>5
<1>3. CASE /\ pc = "store" /\ pc' = "resolve" /\ imports' = wants
           /\ UNCHANGED <<memory, todo, scan, used, deps, stack, resolved, outcome>>
  <2>1. TypeOK'
    BY <1>1, <1>3 DEF TypeOK
  <2>2. Phases' /\ StackCovers' /\ ImportsCachedFirst'
    BY <1>1, <1>3 DEF Phases, StackCovers, ImportsCachedFirst, Early
  <2>3. Resolving' /\ LocalsIndexed'
    <3>1. wants \subseteq NeededBy(wants)
      BY NeededProperties DEF TypeOK
    <3> QED
      BY <1>1, <1>3, <3>1 DEF Resolving, LocalsIndexed, Early, Phases
  <2>4. Scanned'
    BY <1>1, <1>3 DEF Scanned, GitClosed
  <2>5. FilesExist'
    BY <1>1, <1>3 DEF FilesExist, CacheKept, Backed, Phases, Early
  <2> QED
    BY <2>1, <2>2, <2>3, <2>4, <2>5
<1>4. CASE pc = "restore" /\ pc' = "load" /\ UNCHANGED <<memory, work, outcome>>
  <2>1. TypeOK'
    BY <1>1, <1>4 DEF TypeOK
  <2>2. Phases' /\ StackCovers' /\ ImportsCachedFirst'
    BY <1>1, <1>4 DEF Phases, StackCovers, ImportsCachedFirst, Early
  <2>3. Resolving' /\ LocalsIndexed'
    BY <1>1, <1>4 DEF Resolving, LocalsIndexed, Early
  <2>4. Scanned'
    BY <1>1, <1>4 DEF Scanned, GitClosed
  <2>5. FilesExist'
    BY <1>1, <1>4 DEF FilesExist, CacheKept, Backed
  <2> QED
    BY <2>1, <2>2, <2>3, <2>4, <2>5
<1> QED
  BY <1>2, <1>3, <1>4 DEF Store

-----------------------------------------------------------------------------
(* make_dependency_set *)

\* What the lookup of a module returns: the file of a local entry if there is one, and then
\* that of an entry that the index has.
LEMMA GetFileType ==
    ASSUME NEW x \in ModulesIndex, NEW m \in Module, HasModule(x, m)
    PROVE  /\ GetFile(x, m) \in Files
           /\ x.locals[m] # NoPath => GetFile(x, m) = LocalFile(x.locals[m])
           /\ GetFile(x, m).source = "Local" =>
                 x.locals[m] # NoPath /\ GetFile(x, m).at = x.locals[m]
           /\ GetFile(x, m).source = "Git" =>
                 /\ x.gits[m] # NoEntry
                 /\ GetFile(x, m).dep = x.gits[m].dep /\ GetFile(x, m).at = x.gits[m].path
           /\ GetFile(x, m).source = "Chain" => m \in x.chains /\ GetFile(x, m).at = m
<1>1. CASE x.locals[m] # NoPath
  BY <1>1 DEF GetFile, LocalFile, Files, ModulesIndex, Paths
<1>2. CASE x.locals[m] = NoPath /\ x.gits[m] # NoEntry
  BY <1>2, EntryType DEF GetFile, GitFile, Files, GitEntry
<1>3. CASE x.locals[m] = NoPath /\ x.gits[m] = NoEntry
  BY <1>3 DEF GetFile, ChainFile, Files, HasModule
<1> QED
  BY <1>1, <1>2, <1>3

\* The file that the lookup returns has the module, once the local entries are those of the
\* path dependency and as long as the cache was not removed.
LEMMA GetFileHolds ==
    ASSUME IInv, CacheKept, pc \notin Early, NEW m \in Module, HasModule(modules, m)
    PROVE  m \in Holds(GetFile(modules, m))
<1> DEFINE f == GetFile(modules, m)
<1>1. modules \in ModulesIndex /\ Backed(modules) /\ GitClosed(modules)
  BY DEF IInv, TypeOK, FilesExist, Scanned
<1>2. /\ f \in Files
      /\ f.source = "Local" => modules.locals[m] # NoPath /\ f.at = modules.locals[m]
      /\ f.source = "Git" =>
            modules.gits[m] # NoEntry /\ f.dep = modules.gits[m].dep /\ f.at = modules.gits[m].path
      /\ f.source = "Chain" => m \in modules.chains /\ f.at = m
  BY <1>1, GetFileType
<1> HIDE DEF f
<1>3. CASE f.source = "Local"
  <2>1. modules.locals = IF Contains(manifest, PathDep) THEN paths ELSE NoLocals
    BY DEF IInv, LocalsIndexed
  <2>2. paths[m] = f.at
    BY <1>2, <1>3, <2>1 DEF NoLocals
  <2> QED
    BY <1>3, <2>2 DEF Holds, f
<1>4. CASE f.source = "Git"
  <2>1. git[f.dep] = modules.gits[m].rev /\ modules.gits[m].rev \in Revision
    BY <1>1, <1>2, <1>4, EntryType DEF Backed, GitEntry
  <2>2. Tree[f.dep][git[f.dep]][m] = f.at
    BY <1>1, <1>2, <1>4, <2>1 DEF GitClosed
  <2> QED
    BY <1>4, <2>1, <2>2 DEF Holds, f
<1>5. CASE f.source = "Chain"
  <2>1. chain[m] = "written" /\ f.at = m
    BY <1>1, <1>2, <1>5 DEF Backed
  <2> QED
    BY <1>5, <2>1 DEF Holds, f
<1> QED
  BY <1>2, <1>3, <1>4, <1>5 DEF Files

\* The file of a module enters the set together with the duty to visit what it imports.
LEMMA ResolveIInv ==
    ASSUME IInv, NEW m \in Module, Resolve(m)
    PROVE  IInv'
<1> USE DEF IInv, Resolve, project, cache, memory
<1>1. GetFile(modules, m) \in Files
  BY GetFileType DEF TypeOK
<1>2. TypeOK'
  <2>1. imports' \in SUBSET Module /\ used' \in SUBSET Module
    BY DoveAssumption DEF TypeOK
  <2> QED
    BY <1>1, <2>1 DEF TypeOK
<1>3. Phases' /\ StackCovers' /\ ImportsCachedFirst'
  BY DEF Phases, StackCovers, ImportsCachedFirst, Early
<1>4. Resolving'
  <2>1. /\ wants \cup UNION {Imports[i] : i \in used} \subseteq imports \cup used
        /\ imports \cup used \subseteq NeededBy(wants)
        /\ \A i \in used : HasModule(modules, i)
        /\ deps = {GetFile(modules, i) : i \in used}
    BY DEF Resolving, Early
  <2>2. /\ m \in imports /\ HasModule(modules, m)
        /\ used' = used \cup {m} /\ imports' = (imports \cup Imports[m]) \ used'
        /\ deps' = deps \cup {GetFile(modules, m)}
        /\ wants' = wants /\ modules' = modules
    OBVIOUS
  <2>3. Imports[m] \subseteq NeededBy(wants)
    BY <2>1, <2>2, NeededProperties DEF TypeOK
  <2>4. wants \cup UNION {Imports[i] : i \in used'} \subseteq imports' \cup used'
    BY <2>1, <2>2
  <2>5. imports' \cap used' = {} /\ imports' \cup used' \subseteq NeededBy(wants)
    BY <2>1, <2>2, <2>3
  <2>6. deps' = {GetFile(modules, i) : i \in used'} /\ \A i \in used' : HasModule(modules, i)
    BY <2>1, <2>2
  <2> QED
    BY <2>2, <2>4, <2>5, <2>6 DEF Resolving
<1>5. LocalsIndexed'
  BY DEF LocalsIndexed
<1>6. Scanned'
  BY DEF Scanned, GitClosed
<1>7. FilesExist'
  BY DEF FilesExist, CacheKept, Backed
<1> QED
  BY <1>2, <1>3, <1>4, <1>5, <1>6, <1>7

\* A chain file that the index did not know is indexed.
LEMMA ResolveCachedIInv ==
    ASSUME IInv, NEW m \in Module, ResolveCached(m)
    PROVE  IInv'
<1> USE DEF IInv, project, cache, work
<1>1. CASE Fail
  BY <1>1, FailIInv
<1>2. CASE ~Fail
  <2>1. /\ pc = "resolve" /\ pc' = "resolve" /\ chain[m] = "written"
        /\ modules' = StoreChain(modules, m)
        /\ keys' = keys \cup {m} /\ grown' = (grown \/ m \notin keys)
        /\ UNCHANGED <<project, cache, index, cmd, depNames, work, outcome, budget>>
    BY <1>2 DEF ResolveCached
  <2>2. /\ modules' \in ModulesIndex /\ modules'.locals = modules.locals
        /\ modules'.gits = modules.gits /\ modules'.chains = modules.chains \cup {m}
    BY <2>1, StoreChainType DEF TypeOK
  <2>3. TypeOK'
    BY <2>1, <2>2 DEF TypeOK
  <2>4. Phases' /\ StackCovers' /\ ImportsCachedFirst'
    BY <2>1 DEF Phases, StackCovers, ImportsCachedFirst, Early
  <2>5. Resolving'
    <3>1. \A i \in used : HasModule(modules, i) /\ i # m
      BY <1>2 DEF Resolving, ResolveCached, Early
    <3>2. \A i \in used : HasModule(modules', i) /\ GetFile(modules', i) = GetFile(modules, i)
      BY <2>2, <3>1 DEF HasModule, GetFile
    <3> QED
      BY <2>1, <3>2 DEF Resolving, Early
  <2>6. LocalsIndexed'
    BY <2>1, <2>2 DEF LocalsIndexed, Early
  <2>7. Scanned'
    BY <2>1, <2>2 DEF Scanned, GitClosed
  <2>8. FilesExist'
    BY <2>1, <2>2 DEF FilesExist, CacheKept, Backed
  <2> QED
    BY <2>3, <2>4, <2>5, <2>6, <2>7, <2>8
<1> QED
  BY <1>1, <1>2

\* The steps of load_tree change the stack and the chain files only: what is promised of the
\* indexes and of the set is kept as long as no module goes away.
LEMMA TreeIInv ==
    ASSUME IInv, pc \in {"resolve", "tree", "write"}, pc' \in {"resolve", "tree", "write"},
           chain' \in [Module -> {"absent", "empty", "written"}],
           \A m \in Module : chain[m] = "written" => chain'[m] = "written",
           stack' \in Seq(Frames), pc' \in {"tree", "write"} <=> stack' # <<>>,
           pc' = "write" => Top'.todo = {},
           StackCovers', ImportsCachedFirst',
           UNCHANGED <<project, git, index, cmd, memory, todo, scan, imports, used, deps, resolved, outcome, budget>>
    PROVE  IInv'
<1> USE DEF IInv, project, memory
<1>1. TypeOK'
  BY DEF TypeOK
<1>2. Phases'
  BY DEF Phases, Early
<1>3. Resolving' /\ LocalsIndexed'
  BY DEF Resolving, LocalsIndexed, Early
<1>4. Scanned'
  BY DEF Scanned, GitClosed
<1>5. FilesExist'
  BY DEF FilesExist, CacheKept, Backed, TypeOK, ModulesIndex
<1> QED
  BY <1>1, <1>2, <1>3, <1>4, <1>5

\* The last call of the stack, and the stack below it.
LEMMA StackTop ==
    ASSUME TypeOK, stack # <<>>
    PROVE  /\ Len(stack) \in Nat \ {0} /\ DOMAIN stack = 1..Len(stack)
           /\ Top = stack[Len(stack)] /\ Top \in Frames
           /\ Front(stack) \in Seq(Frames) /\ Len(Front(stack)) = Len(stack) - 1
           /\ DOMAIN Front(stack) = 1..(Len(stack) - 1)
           /\ \A k \in 1..(Len(stack) - 1) : Front(stack)[k] = stack[k]
<1>1. stack \in Seq(Frames) /\ Len(stack) \in Nat \ {0} /\ DOMAIN stack = 1..Len(stack)
  BY EmptySeq, LenProperties DEF TypeOK
<1>2. \A k \in 1..Len(stack) : stack[k] \in Frames
  BY <1>1, ElementOfSeq
<1>3. Top = stack[Len(stack)] /\ Top \in Frames
  BY <1>1, <1>2 DEF Top, Last
<1>4. Front(stack) = SubSeq(stack, 1, Len(stack) - 1)
  BY DEF Front
<1>5. /\ Front(stack) \in Seq(Frames) /\ Len(Front(stack)) = Len(stack) - 1
      /\ \A k \in 1..(Len(stack) - 1) : Front(stack)[k] = stack[k]
  BY <1>1, <1>2, <1>4, SubSeqProperties
<1>6. DOMAIN Front(stack) = 1..(Len(stack) - 1)
  BY <1>5, LenProperties
<1> QED
  BY <1>1, <1>3, <1>5, <1>6

\* A call of load_tree begins with all imports to visit.
LEMMA LoadTreeIInv ==
    ASSUME IInv, pc \in {"resolve", "tree"},
           NEW m \in Module, NEW rest \in Seq(Frames), LoadTree(m, rest),
           \A k \in DOMAIN rest : \A i \in Imports[rest[k].module] :
              \/ i \in rest[k].todo
              \/ chain[i] = "written"
              \/ k < Len(rest) /\ rest[k + 1].module = i
              \/ k = Len(rest) /\ i = m
    PROVE  IInv'
<1>1. CASE Fail \/ Fault
  BY <1>1, FailIInv
<1>2. CASE /\ stack' = Append(rest, Frame(m)) /\ pc' = "tree"
           /\ UNCHANGED <<project, cache, index, cmd, memory, todo, scan, imports, used, deps,
                          resolved, outcome, budget>>
  <2>1. /\ Frame(m) \in Frames /\ Frame(m).module = m /\ Frame(m).todo = Imports[m]
    BY DoveAssumption DEF Frame, Frames
  <2>2. /\ stack' \in Seq(Frames) /\ stack' # <<>> /\ Len(stack') = Len(rest) + 1
        /\ Len(rest) \in Nat /\ DOMAIN stack' = 1..(Len(rest) + 1) /\ DOMAIN rest = 1..Len(rest)
        /\ \A k \in 1..Len(rest) : stack'[k] = rest[k]
        /\ stack'[Len(rest) + 1] = Frame(m)
    BY <1>2, <2>1, AppendProperties, LenProperties
  <2>3. StackCovers'
    <3> SUFFICES ASSUME NEW k \in 1..(Len(rest) + 1), NEW i \in Imports[stack'[k].module]
                 PROVE  \/ i \in stack'[k].todo
                        \/ chain[i] = "written"
                        \/ k < Len(stack') /\ stack'[k + 1].module = i
      BY <1>2, <2>2 DEF StackCovers, cache
    <3>1. CASE k = Len(rest) + 1
      BY <2>1, <2>2, <3>1
    <3>2. CASE k \in 1..Len(rest) /\ k < Len(rest)
      BY <2>2, <3>2
    <3>3. CASE k \in 1..Len(rest) /\ k = Len(rest)
      <4>1. stack'[k] = rest[k] /\ stack'[k + 1].module = m /\ k < Len(stack') /\ k \in DOMAIN rest
        BY <2>1, <2>2, <3>3
      <4>2. i \in rest[k].todo \/ chain[i] = "written" \/ i = m
        BY <2>2, <3>3, <4>1
      <4> QED
        BY <4>1, <4>2
    <3>4. Len(rest) \in Nat
      BY <2>2
    <3>5. k = Len(rest) + 1 \/ (k \in 1..Len(rest) /\ k < Len(rest)) \/ (k \in 1..Len(rest) /\ k = Len(rest))
      BY <3>4
    <3> QED
      BY <3>1, <3>2, <3>3, <3>5, Zenon
  <2>4. ImportsCachedFirst'
    BY <1>2 DEF IInv, ImportsCachedFirst, cache
  <2> QED
    BY <1>2, <2>2, <2>3, <2>4, TreeIInv DEF cache, IInv, TypeOK
<1> QED
  BY <1>1, <1>2 DEF LoadTree

\* Downloading a module or one of its imports keeps the invariant: the import that leaves
\* the list of the call is the module of the new call.
LEMMA DownloadIInv ==
    ASSUME IInv, NEW m \in Module, Download(m) \/ DownloadImport(m)
    PROVE  IInv'
<1>1. CASE Download(m)
  <2>1. CASE Fail
    BY <2>1, FailIInv
  <2>2. CASE LoadTree(m, <<>>)
    <3>1. <<>> \in Seq(Frames) /\ DOMAIN <<>> = {} /\ pc \in {"resolve", "tree"}
      BY <1>1, EmptySeq DEF Download
    <3> QED
      BY <2>2, <3>1, LoadTreeIInv
  <2> QED
    BY <1>1, <2>1, <2>2 DEF Download
<1>2. CASE DownloadImport(m)
  <2> DEFINE call == [Top EXCEPT !.todo = @ \ {m}]
             rest == Append(Front(stack), call)
  <2>1. pc = "tree" /\ stack # <<>> /\ TypeOK
    BY <1>2 DEF DownloadImport, IInv, TypeOK
  <2>2. call \in Frames /\ call.module = Top.module /\ call.todo = Top.todo \ {m}
    BY <2>1, StackTop DEF Frames
  <2> HIDE DEF call
  <2>3. /\ rest \in Seq(Frames) /\ Len(rest) = Len(stack) /\ DOMAIN rest = 1..Len(stack)
        /\ \A k \in 1..(Len(stack) - 1) : rest[k] = stack[k]
        /\ rest[Len(stack)] = call
    <3>1. /\ Len(stack) \in Nat \ {0} /\ Front(stack) \in Seq(Frames)
          /\ Len(Front(stack)) = Len(stack) - 1
          /\ \A k \in 1..(Len(stack) - 1) : Front(stack)[k] = stack[k]
      BY <2>1, StackTop
    <3>2. /\ rest \in Seq(Frames) /\ Len(rest) = Len(Front(stack)) + 1
          /\ \A k \in 1..Len(Front(stack)) : rest[k] = Front(stack)[k]
          /\ rest[Len(Front(stack)) + 1] = call
      BY <2>2, <3>1, AppendProperties
    <3> HIDE DEF rest
    <3>3. DOMAIN rest = 1..Len(rest)
      BY <3>2, LenProperties
    <3> QED
      BY <3>1, <3>2, <3>3
  <2>4. ASSUME NEW k \in DOMAIN rest, NEW i \in Imports[rest[k].module]
        PROVE  \/ i \in rest[k].todo
               \/ chain[i] = "written"
               \/ k < Len(rest) /\ rest[k + 1].module = i
               \/ k = Len(rest) /\ i = m
    <3>1. CASE k = Len(stack)
      BY <2>1, <2>2, <2>3, <2>4, <3>1, StackTop DEF IInv, StackCovers
    <3>2. CASE k \in 1..(Len(stack) - 1)
      <4>1. \/ i \in stack[k].todo \/ chain[i] = "written" \/ stack[k + 1].module = i
        BY <2>1, <2>3, <2>4, <3>2, StackTop DEF IInv, StackCovers
      <4>2. rest[k + 1].module = stack[k + 1].module /\ k < Len(rest)
        BY <2>1, <2>2, <2>3, <3>2, StackTop
      <4> QED
        BY <2>3, <3>2, <4>1, <4>2
    <3> QED
      BY <2>1, <2>3, <2>4, <3>1, <3>2, StackTop
  <2>5. LoadTree(m, rest)
    BY <1>2 DEF DownloadImport, call
  <2> HIDE DEF rest
  <2> QED
    BY <2>1, <2>3, <2>4, <2>5, LoadTreeIInv
<1> QED
  BY <1>1, <1>2

\* A file is opened when the imports of its module are written; none is overwritten.
LEMMA OpenFileIInv ==
    ASSUME IInv, OpenFile
    PROVE  IInv'
<1> USE DEF OpenFile, work
<1>1. stack # <<>> /\ Top.module \in Module /\ TypeOK
  BY StackTop DEF IInv, TypeOK, Frames
<1>2. /\ chain' \in [Module -> {"absent", "empty", "written"}]
      /\ \A m \in Module : chain'[m] = "written" <=> chain[m] = "written"
  BY <1>1 DEF TypeOK
<1>3. StackCovers'
  BY <1>2, <1>1, DoveAssumption DEF IInv, StackCovers, TypeOK, Frames
<1>4. ImportsCachedFirst'
  BY <1>2, DoveAssumption DEF IInv, ImportsCachedFirst
<1> QED
  BY <1>1, <1>2, <1>3, <1>4, TreeIInv DEF TypeOK, Top

\* The file of a module is written when all its imports are; the call below counts it as
\* written from then on.
LEMMA WriteFileIInv ==
    ASSUME IInv, WriteFile
    PROVE  IInv'
<1> USE DEF WriteFile
<1>1. stack # <<>> /\ Top \in Frames /\ Top.module \in Module /\ TypeOK /\ Top.todo = {}
  BY StackTop DEF IInv, TypeOK, Frames, Phases
<1>2. /\ chain' \in [Module -> {"absent", "empty", "written"}]
      /\ \A m \in Module : chain'[m] = IF m = Top.module THEN "written" ELSE chain[m]
  BY <1>1 DEF TypeOK
<1>3. \A i \in Imports[Top.module] : chain[i] = "written"
  BY <1>1, StackTop DEF IInv, StackCovers
<1>4. ImportsCachedFirst'
  BY <1>1, <1>2, <1>3, DoveAssumption DEF IInv, ImportsCachedFirst
<1>5. StackCovers'
  <2> SUFFICES ASSUME NEW k \in 1..(Len(stack) - 1), NEW i \in Imports[stack[k].module]
               PROVE  \/ i \in stack[k].todo
                      \/ chain'[i] = "written"
                      \/ k < Len(stack) - 1 /\ stack[k + 1].module = i
    BY <1>1, StackTop DEF StackCovers
  <2>1. stack[k] \in Frames
    BY <1>1, StackTop DEF TypeOK
  <2>2. i \in Module
    BY <2>1, DoveAssumption DEF Frames
  <2>3. \/ i \in stack[k].todo \/ chain[i] = "written"
        \/ k < Len(stack) /\ stack[k + 1].module = i
    <3>1. k \in DOMAIN stack
      BY <1>1, StackTop
    <3> QED
      BY <3>1, Zenon DEF IInv, StackCovers
  <2>4. CASE k < Len(stack) - 1
    BY <1>2, <2>2, <2>3, <2>4
  <2>5. CASE k = Len(stack) - 1
    BY <1>1, <1>2, <2>2, <2>3, <2>5, StackTop
  <2>6. Len(stack) \in Nat
    BY <1>1, StackTop
  <2>7. k < Len(stack) - 1 \/ k = Len(stack) - 1
    BY <2>6
  <2> QED
    BY <2>4, <2>5, <2>7
<1>6. stack' \in Seq(Frames) /\ (pc' \in {"tree", "write"} <=> stack' # <<>>)
  <2>1. stack' = <<>> <=> Len(stack') = 0
    BY <1>1, StackTop, EmptySeq
  <2> QED
    BY <1>1, <2>1, StackTop
<1> QED
  BY <1>2, <1>4, <1>5, <1>6, TreeIInv DEF TypeOK

\* The set is complete when nothing is left to visit.
LEMMA EndResolveIInv ==
    ASSUME IInv, EndResolve
    PROVE  IInv'
<1> USE DEF IInv, EndResolve, project, cache, memory, work
<1>1. TypeOK'
  BY DEF TypeOK
<1>2. Phases' /\ StackCovers' /\ ImportsCachedFirst'
  BY DEF Phases, StackCovers, ImportsCachedFirst, Early
<1>3. Resolving' /\ LocalsIndexed'
  BY DEF Resolving, LocalsIndexed, Early
<1>4. Scanned'
  BY DEF Scanned, GitClosed
<1>5. FilesExist'
  BY DEF FilesExist, CacheKept, Backed
<1> QED
  BY <1>1, <1>2, <1>3, <1>4, <1>5

\* Reading the files ends the command.
LEMMA LoadDependenciesIInv ==
    ASSUME IInv, LoadDependencies
    PROVE  IInv'
BY ReturnIInv DEF LoadDependencies, cache, IInv, TypeOK

-----------------------------------------------------------------------------
\* Every step keeps the invariant.
LEMMA NextIInv == IInv /\ [Next]_vars => IInv'
<1> SUFFICES ASSUME IInv, [Next]_vars PROVE IInv'
  OBVIOUS
<1>1. CASE UNCHANGED vars
  <2> USE <1>1 DEF IInv, vars, project, cache, memory, work
  <2>1. TypeOK' /\ Phases' /\ ImportsCachedFirst' /\ StackCovers'
    BY DEF TypeOK, Phases, ImportsCachedFirst, StackCovers, Top
  <2>2. Resolving'
    <3>1. UNCHANGED <<pc, wants, used, imports, deps, modules>>
      OBVIOUS
    <3> QED
      BY <3>1 DEF Resolving
  <2>5. LocalsIndexed'
    BY DEF LocalsIndexed
  <2>3. Scanned'
    <3>1. UNCHANGED <<pc, git, chain, index, modules, depNames, scan>>
      OBVIOUS
    <3> QED
      BY <3>1 DEF Scanned, GitClosed, UpToDate
  <2>4. FilesExist'
    BY DEF FilesExist, CacheKept, Backed, Cached, Unread
  <2> QED
    BY <2>1, <2>2, <2>3, <2>4, <2>5
<1>2. CASE User
  BY <1>2, UserIInv
<1>3. CASE Build
  BY <1>3, LoadDepsIInv, ScanGitIInv, BeginScanIInv, IndexPathsIInv, TruncateIInv, StoreIInv,
     ScanChainIInv DEF Build
<1>4. CASE MakeDependencySet
  <2>1. CASE SourcesFail
    BY <2>1, FailIInv DEF SourcesFail
  <2> QED
    BY <1>4, <2>1, ResolveIInv, ResolveCachedIInv, DownloadIInv, OpenFileIInv, WriteFileIInv,
       EndResolveIInv, LoadDependenciesIInv DEF MakeDependencySet
<1>5. CASE Crash
  BY <1>5, FailIInv
<1> QED
  BY <1>1, <1>2, <1>3, <1>4, <1>5 DEF Next

\* The inductive invariant holds in every reachable state.
THEOREM Inductive == Spec => []IInv
BY InitIInv, NextIInv, PTL DEF Spec

-----------------------------------------------------------------------------
(* The properties *)

\* Every variable keeps its type through commands, kills and edits (index/mod.rs).
THEOREM TypeCorrect == Spec => []TypeOK
<1>1. IInv => TypeOK
  BY DEF IInv
<1> QED
  BY <1>1, Inductive, PTL

\* A chain file that is there never lacks the file of an import, wherever a download was cut
\* short (load_tree, resolver/chain/mod.rs:40).
THEOREM ImportsCachedFirstTheorem == Spec => []ImportsCachedFirst
<1>1. IInv => ImportsCachedFirst
  BY DEF IInv
<1> QED
  BY <1>1, Inductive, PTL

\* When the set is complete, the visited modules are those that the sources need.
LEMMA UsedIsNeeded ==
    ASSUME IInv, pc = "load"
    PROVE  used = NeededBy(wants)
<1>1. /\ wants \cup UNION {Imports[m] : m \in used} \subseteq used /\ used \subseteq NeededBy(wants)
      /\ wants \in SUBSET Module /\ used \in SUBSET Module
  BY DEF IInv, Resolving, Phases, Early, TypeOK
<1>2. Complete(used, wants)
  BY <1>1 DEF Complete
<1> QED
  BY <1>1, <1>2, NeededProperties

\* What a build is compiled against has, in its files as they are then, every module that
\* the sources need (make_dependency_set, index/mod.rs:98).
THEOREM DependencySetClosedTheorem == Spec => []DependencySetClosed
<1>1. ASSUME IInv PROVE DependencySetClosed
  <2> SUFFICES ASSUME pc = "load", CacheKept, NEW m \in NeededBy(wants)
               PROVE  m \in UNION {Holds(f) : f \in deps}
    BY DEF DependencySetClosed
  <2>1. m \in used /\ used \in SUBSET Module /\ pc \notin Early
    BY <1>1, UsedIsNeeded DEF IInv, TypeOK, Early
  <2>2. HasModule(modules, m) /\ GetFile(modules, m) \in deps
    BY <1>1, <2>1 DEF IInv, Resolving
  <2>3. m \in Holds(GetFile(modules, m))
    BY <1>1, <2>1, <2>2, GetFileHolds
  <2> QED
    BY <2>2, <2>3
<1> QED
  BY <1>1, Inductive, PTL

\* A module is used from the path dependency exactly if it is there now, whatever the stored
\* index says (Index::build, index/mod.rs:50).
THEOREM LocalFirstTheorem == Spec => []LocalFirst
<1>1. ASSUME IInv PROVE LocalFirst
  <2> SUFFICES ASSUME pc = "load"
               PROVE  /\ \A m \in NeededBy(wants) : InPaths(m) =>
                            LocalFile(paths[m]) \in deps /\ ChainFile(m) \notin deps
                      /\ \A p \in Path : LocalFile(p) \in deps =>
                            \E m \in NeededBy(wants) : InPaths(m) /\ paths[m] = p
    BY DEF LocalFirst
  <2>1. /\ used = NeededBy(wants) /\ used \in SUBSET Module /\ modules \in ModulesIndex
        /\ \A m \in used : HasModule(modules, m)
        /\ deps = {GetFile(modules, m) : m \in used}
    BY <1>1, UsedIsNeeded DEF IInv, TypeOK, Resolving, Early
  <2>2. modules.locals = IF Contains(manifest, PathDep) THEN paths ELSE NoLocals
    BY <1>1 DEF IInv, LocalsIndexed, Early
  <2>3. ASSUME NEW m \in NeededBy(wants), InPaths(m)
        PROVE  LocalFile(paths[m]) \in deps /\ ChainFile(m) \notin deps
    <3>1. modules.locals[m] = paths[m] /\ paths[m] # NoPath
      BY <2>2, <2>3 DEF InPaths
    <3>2. GetFile(modules, m) = LocalFile(paths[m])
      BY <2>1, <3>1, GetFileType
    <3>3. ASSUME ChainFile(m) \in deps PROVE FALSE
      <4>1. PICK i \in used : ChainFile(m) = GetFile(modules, i)
        BY <2>1, <3>3
      <4>2. ChainFile(m).source = "Chain" /\ ChainFile(m).at = m
        BY DEF ChainFile
      <4>3. i = m
        BY <2>1, <4>1, <4>2, GetFileType
      <4> QED
        BY <3>2, <4>1, <4>2, <4>3 DEF LocalFile
    <3> QED
      BY <2>1, <3>2, <3>3
  <2>4. ASSUME NEW p \in Path, LocalFile(p) \in deps
        PROVE  \E m \in NeededBy(wants) : InPaths(m) /\ paths[m] = p
    <3>1. PICK m \in used : LocalFile(p) = GetFile(modules, m)
      BY <2>1, <2>4
    <3>2. LocalFile(p).source = "Local" /\ LocalFile(p).at = p
      BY DEF LocalFile
    <3>3. modules.locals[m] # NoPath /\ p = modules.locals[m] /\ m \in Module
      BY <2>1, <3>1, <3>2, GetFileType
    <3> QED
      BY <2>1, <2>2, <3>3 DEF InPaths, NoLocals
  <2> QED
    BY <2>3, <2>4
<1> QED
  BY <1>1, Inductive, PTL

\* Skipping the dependencies that the stored index knows loses no module of a clone unless
\* another revision of it was read: every step up to the first store keeps what the scan has
\* passed (Index::build, index/mod.rs:63).
THEOREM CacheIndexedTheorem == Spec => []CacheIndexed
<1>1. IInv => CacheIndexed
  BY DEF IInv, CacheIndexed, Scanned, Phases
<1> QED
  BY <1>1, Inductive, PTL

\* Every file of the set is there when it is read, as long as the cache was not removed.
THEOREM DependenciesExistTheorem == Spec => []DependenciesExist
<1>1. ASSUME IInv PROVE DependenciesExist
  <2> SUFFICES ASSUME pc = "load", CacheKept, NEW f \in deps PROVE FileExists(f)
    BY DEF DependenciesExist
  <2>1. PICK m \in used : f = GetFile(modules, m) /\ HasModule(modules, m)
    BY <1>1 DEF IInv, Resolving, Early
  <2>2. m \in Holds(f)
    BY <1>1, <2>1, GetFileHolds DEF IInv, TypeOK, Early
  <2> QED
    BY <2>2 DEF FileExists
<1> QED
  BY <1>1, Inductive, PTL
=============================================================================
