------------------------------ MODULE DoveIndex ------------------------------
(***************************************************************************)
(* How dove finds the dependencies of a project: the module index kept in  *)
(* the file .Dove.man (dove/src/index/mod.rs, store.rs), the cache of      *)
(* cloned repositories and of modules downloaded from the chain under      *)
(* target/.external (index/resolver/), and the commands fetch, build and   *)
(* clean that share them.  "build" stands for run, test and ct too: they   *)
(* resolve their dependencies by the same calls.  A command may be killed  *)
(* between any two steps; the next one starts from what is left on disk.   *)
(*                                                                         *)
(* A module is a member of Module and uses the modules Imports, whatever   *)
(* file it is found in.  A file of a directory or repository may hold      *)
(* several modules, and is taken or left as a whole; files without one are *)
(* left out.  Repositories and the chain are external.                     *)
(***************************************************************************)
EXTENDS Integers, Sequences, FiniteSets, SequencesExt

CONSTANTS
    Module,
    Imports,       \* Imports[m]: the modules m uses
    OnChain,       \* modules published on the chain
    GitDep,        \* git dependencies: a url with the branch or revision asked for
    Kind,          \* Kind[d]: what the dependency asks for
    Path,          \* names of files
    Tree,          \* Tree[d][r][m]: the file of m in the repository of d at revision r
    Nested,        \* Nested[d][r]: dependencies in the manifest of d at revision r
    BrokenMeta,    \* <<d, r>> with a file or a manifest that is not accepted
    PathDep,       \* the path dependency
    NoDep, NoPath,
    Scenarios      \* projects: [manifests, manifest, paths, wants, api, budget], where manifests
                   \* are the dependency lists the user may write, api says whether there is a
                   \* blockchain_api, and budget bounds how often each kind of step happens

Kinds  == {"head", "rev", "branch", "default_branch", "no_rev"}
Revision == {"head", "requested"}   \* what a complete clone holds
Paths  == [Module -> Path \cup {NoPath}]
Steps  == {"commands", "cleans", "edits", "crashes", "faults"}
DepSeq == Seq(GitDep \cup {PathDep})

ASSUME DoveAssumption ==
    /\ Imports \in [Module -> SUBSET Module]
    /\ OnChain \subseteq Module
    /\ Kind \in [GitDep -> Kinds]
    /\ Tree \in [GitDep -> [Revision -> Paths]]
    /\ Nested \in [GitDep -> [Revision -> DepSeq]]
    /\ BrokenMeta \subseteq GitDep \X Revision
    /\ PathDep \notin GitDep /\ NoDep \notin GitDep /\ NoPath \notin Path
    /\ \A s \in Scenarios :
         /\ s.manifest \in s.manifests /\ s.manifests \subseteq DepSeq
         /\ s.paths \in Paths /\ s.wants \subseteq Module
         /\ s.api \in BOOLEAN
         /\ s.budget \in [Steps -> Nat]

\* The bytecode verifier accepts no cycle of modules; resolve_imports and load_tree
\* would not return from one.
ASSUME AcyclicImports ==
    \E rank \in [Module -> 0 .. Cardinality(Module)] :
        \A m \in Module : \A i \in Imports[m] : rank[i] < rank[m]

VARIABLES
    scenario,   \* what may happen to the project
    \* the project, edited by the user between commands
    manifest,   \* the dependencies listed
    pathDir,    \* the directory of the path dependency exists
    paths,      \* paths[m]: the file of m in it
    wants,      \* modules the sources use and do not define
    \* the disk
    git,        \* git[d]: state of the clone of d
    chain,      \* chain[m]: state of the file of m
    index,      \* .Dove.man
    \* the command that runs
    pc, cmd,
    modules,    \* Index::modules
    keys,       \* its keys: a key may have lost its last entry
    grown,      \* make_dependency_set has added a key
    depNames,   \* Index::dep_names
    todo,       \* dependencies load_deps has still to visit
    scan,       \* entries of target/.external still to visit
    imports,    \* modules resolve_imports has still to visit
    used,       \* modules it has visited; a second visit finds the same file
    deps,       \* the files found for them, the dependency set
    stack,      \* the calls of load_tree
    \* history
    resolved,   \* git dependencies load_deps has visited
    outcome,    \* of the last command
    budget

project == <<scenario, manifest, pathDir, paths, wants>>
cache   == <<git, chain>>
memory  == <<modules, keys, grown, depNames>>
work    == <<todo, scan, imports, used, deps, stack, resolved>>
vars    == <<project, cache, index, pc, cmd, memory, work, outcome, budget>>

-----------------------------------------------------------------------------
\* For each module at most one entry of each source type.  A git entry keeps what was read
\* from the revision that was there.
GitEntry     == [dep : GitDep, rev : Revision, path : Path]
NoEntry      == [dep |-> NoDep, rev |-> "head", path |-> NoPath]
NoLocals     == [m \in Module |-> NoPath]
ModulesIndex == [locals : Paths, gits : [Module -> GitEntry \cup {NoEntry}], chains : SUBSET Module]
NoModules    == [locals |-> NoLocals, gits |-> [m \in Module |-> NoEntry], chains |-> {}]

LocalFile(p)  == [source |-> "Local", dep |-> NoDep, at |-> p]
GitFile(d, p) == [source |-> "Git", dep |-> d, at |-> p]
ChainFile(m)  == [source |-> "Chain", dep |-> NoDep, at |-> m]
Files == [source : {"Local", "Git", "Chain"}, dep : GitDep \cup {NoDep},
          at : Path \cup {NoPath} \cup Module]

HasModule(x, m) == x.locals[m] # NoPath \/ x.gits[m] # NoEntry \/ m \in x.chains

\* The path of the module that get_module finds: a local file goes before git and git
\* before the chain.
GetFile(x, m) ==
    CASE x.locals[m] # NoPath                         -> LocalFile(x.locals[m])
      [] x.locals[m] = NoPath /\ x.gits[m] # NoEntry -> GitFile(x.gits[m].dep, x.gits[m].path)
      [] OTHER                                        -> ChainFile(m)

Provides(d, r) == {m \in Module : Tree[d][r][m] # NoPath}

\* Names of the entries of target/.external: one for each git dependency and module.
GitName(d)   == [kind |-> "git", of |-> d]
ChainName(m) == [kind |-> "chain", of |-> m]
Names == {GitName(d) : d \in GitDep} \cup {ChainName(m) : m \in Module}

Cached == {GitName(d) : d \in {x \in GitDep : git[x] # "absent"}}
          \cup {ChainName(m) : m \in {x \in Module : chain[x] # "absent"}}

\* Mutant of DepNames: the names are those of the directory.
DepNamesListed(x) == Cached

\* The dependencies that the entries of an index come from.
DepNames(x) == {GitName(d) : d \in {x.gits[m].dep : m \in Module} \ {NoDep}}
               \cup {ChainName(m) : m \in x.chains}

Frame(m) == [module |-> m, todo |-> Imports[m]]
Frames   == [module : Module, todo : SUBSET Module]

-----------------------------------------------------------------------------
Init ==
    /\ scenario \in Scenarios
    /\ manifest = scenario.manifest /\ pathDir = TRUE
    /\ paths = scenario.paths /\ wants = scenario.wants
    /\ git = [d \in GitDep |-> "absent"]
    /\ chain = [m \in Module |-> "absent"]
    /\ index = [state |-> "absent", modules |-> NoModules]
    /\ pc = "idle" /\ cmd = "fetch"
    /\ modules = NoModules /\ keys = {} /\ grown = FALSE /\ depNames = {}
    /\ todo = <<>> /\ scan = {} /\ imports = {} /\ used = {} /\ deps = {} /\ stack = <<>>
    /\ resolved = {}
    /\ outcome = "none"
    /\ budget = scenario.budget

Spend(step) == budget[step] > 0 /\ budget' = [budget EXCEPT ![step] = @ - 1]

(* The user, between two commands *)

Edit == pc = "idle" /\ Spend("edits") /\ UNCHANGED <<scenario, cache, index, pc, cmd, memory, work, outcome>>

EditManifest(s) == Edit /\ manifest' = s /\ UNCHANGED <<pathDir, paths, wants>>

\* A module moves to a file of the directory of the path dependency, or out of it.
EditPaths(m, p) ==
    /\ Edit /\ pathDir /\ paths[m] # p
    /\ paths' = [paths EXCEPT ![m] = p]
    /\ UNCHANGED <<manifest, pathDir, wants>>

RemoveDir == Edit /\ pathDir /\ pathDir' = FALSE /\ paths' = NoLocals /\ UNCHANGED <<manifest, wants>>

EditSources(m) == Edit /\ wants' = SymDiff(wants, {m}) /\ UNCHANGED <<manifest, pathDir, paths>>

\* dove clean: the target directory goes, and the cache in it.
Clean ==
    /\ pc = "idle"
    /\ Spend("cleans")
    /\ git' = [d \in GitDep |-> "absent"]
    /\ chain' = [m \in Module |-> "absent"]
    /\ UNCHANGED <<project, index, pc, cmd, memory, work, outcome>>

\* An index that cannot be read makes every command fail until it is deleted.
DeleteIndex ==
    /\ pc = "idle" /\ index.state = "unreadable"
    /\ index' = [state |-> "absent", modules |-> NoModules]
    /\ UNCHANGED <<project, cache, pc, cmd, memory, work, outcome, budget>>

-----------------------------------------------------------------------------
(* The end of a command: it returns, fails, or is killed. *)

\* Nothing of a process outlives it but what it wrote.
Exit ==
    /\ pc' = "idle"
    /\ modules' = NoModules /\ keys' = {} /\ grown' = FALSE /\ depNames' = {}
    /\ todo' = <<>> /\ scan' = {} /\ imports' = {} /\ used' = {} /\ deps' = {} /\ stack' = <<>>
    /\ resolved' = {}

Return(result) ==
    /\ Exit
    /\ outcome' = result
    /\ UNCHANGED <<project, index, cmd>>

Fail == Return("error") /\ UNCHANGED <<cache, budget>>

\* The network or the remote side fails, or a source of the project does not parse.
Fault == Spend("faults") /\ Return("error") /\ UNCHANGED cache

Crash == pc # "idle" /\ Spend("crashes") /\ Return("killed") /\ UNCHANGED cache

-----------------------------------------------------------------------------
(* Context::build_index *)

\* Index::load.
Start(c) ==
    /\ pc = "idle"
    /\ Spend("commands")
    /\ cmd' = c
    /\ UNCHANGED <<project, cache, index>>
    /\ \/ /\ index.state = "unreadable"
          /\ outcome' = "error"
          /\ UNCHANGED <<pc, memory, work>>
       \/ /\ index.state # "unreadable"
          /\ pc' = "deps"
          /\ modules' = index.modules
          /\ keys' = {m \in Module : HasModule(index.modules, m)}
          /\ depNames' = DepNames(index.modules)
          /\ todo' = manifest
          /\ outcome' = "none"
          /\ UNCHANGED <<grown, scan, imports, used, deps, stack, resolved>>

\* load_deps: a path dependency has to exist.
VisitPath ==
    /\ pc = "deps" /\ todo # <<>> /\ Head(todo) = PathDep
    /\ \/ /\ pathDir
          /\ todo' = Tail(todo)
          /\ UNCHANGED <<project, cache, index, pc, cmd, memory, scan, imports, used, deps,
                         stack, resolved, outcome, budget>>
       \/ ~pathDir /\ Fail

\* The dependencies of a repository are visited before the next one of the list.  A
\* clone that was cut short has no manifest yet.
LoadNested(d) ==
    /\ todo' = (IF git'[d] \in Revision THEN Nested[d][git'[d]] ELSE <<>>) \o Tail(todo)
    /\ resolved' = resolved \cup {d}

\* git::resolve: a directory that exists is taken as it is.
VisitCached(d) ==
    /\ pc = "deps" /\ todo # <<>> /\ Head(todo) = d
    /\ git[d] # "absent"
    /\ UNCHANGED git
    /\ LoadNested(d)
    /\ UNCHANGED <<project, chain, index, pc, cmd, memory, scan, imports, used, deps, stack,
                   outcome, budget>>

\* The clone first creates the directory ...
BeginClone(d) ==
    /\ pc = "deps" /\ todo # <<>> /\ Head(todo) = d
    /\ git[d] = "absent"
    /\ git' = [git EXCEPT ![d] = "partial"]
    /\ pc' = "clone"
    /\ UNCHANGED <<project, chain, index, cmd, memory, work, outcome, budget>>

\* ... and fills it with the head of the default branch; if that fails the directory
\* is removed again.
EndClone(d) ==
    /\ pc = "clone" /\ Head(todo) = d
    /\ UNCHANGED chain
    /\ \/ /\ git' = [git EXCEPT ![d] = "head"]
          /\ \/ Kind[d] = "head" /\ pc' = "deps" /\ LoadNested(d)
             \/ Kind[d] # "head" /\ pc' = "checkout" /\ UNCHANGED <<todo, resolved>>
          /\ UNCHANGED <<project, index, cmd, memory, scan, imports, used, deps, stack, outcome, budget>>
       \/ /\ Spend("faults")
          /\ git' = [git EXCEPT ![d] = "absent"]
          /\ Return("error")

\* A revision is checked out.  A branch is created at the head, whatever the remote
\* branch of that name holds; the branch the clone itself made cannot be created again,
\* and a revision may not exist.  The clone stays when this fails.
Checkout(d) ==
    /\ pc = "checkout" /\ Head(todo) = d
    /\ \/ /\ Kind[d] \in {"rev", "branch"}
          /\ git' = IF Kind[d] = "rev" THEN [git EXCEPT ![d] = "requested"] ELSE git
          /\ pc' = "deps"
          /\ LoadNested(d)
          /\ UNCHANGED <<project, chain, index, cmd, memory, scan, imports, used, deps, stack,
                         outcome, budget>>
       \/ Kind[d] \in {"default_branch", "no_rev"} /\ Fail

\* Mutant of BeginScan: local entries stay.
BeginScanKeep ==
    /\ pc = "deps" /\ todo = <<>>
    /\ pc' = "scan"
    /\ scan' = Cached
    /\ UNCHANGED <<project, cache, index, cmd, memory, todo, imports, used, deps, stack, resolved,
                   outcome, budget>>

\* Index::build once every dependency is there: local entries are dropped, the
\* directory is listed.
BeginScan ==
    /\ pc = "deps" /\ todo = <<>>
    /\ pc' = "scan"
    /\ modules' = [modules EXCEPT !.locals = NoLocals]
    /\ scan' = Cached
    /\ UNCHANGED <<project, cache, index, cmd, keys, grown, depNames, todo, imports, used, deps, stack,
                   resolved, outcome, budget>>

\* store_meta: the entry of a module for a source replaces the one it had.
StoreGit(x, d, r) ==
    [x EXCEPT !.gits = [m \in Module |->
        IF m \in Provides(d, r) THEN [dep |-> d, rev |-> r, path |-> Tree[d][r][m]] ELSE @[m]]]
StoreChain(x, m) == [x EXCEPT !.chains = @ \cup {m}]

\* A dependency that the stored index knows is not read again, whatever is there now.
ScanKnown(d) ==
    /\ GitName(d) \in depNames \/ git[d] = "partial"
    /\ UNCHANGED <<modules, keys>>

\* Any other is read as it is checked out.
ScanNew(d) ==
    /\ GitName(d) \notin depNames /\ git[d] # "partial" /\ <<d, git[d]>> \notin BrokenMeta
    /\ modules' = StoreGit(modules, d, git[d])
    /\ keys' = keys \cup Provides(d, git[d])

ScanGit(d) ==
    /\ pc = "scan" /\ GitName(d) \in scan
    /\ \/ /\ ScanKnown(d) \/ ScanNew(d)
          /\ scan' = scan \ {GitName(d)}
          /\ UNCHANGED <<project, cache, index, pc, cmd, grown, depNames, todo, imports, used, deps,
                         stack, resolved, outcome, budget>>
       \/ GitName(d) \notin depNames /\ git[d] # "partial" /\ <<d, git[d]>> \in BrokenMeta /\ Fail

\* An empty file holds no module.
ScanChain(m) ==
    /\ pc = "scan" /\ ChainName(m) \in scan
    /\ \/ /\ ChainName(m) \in depNames \/ chain[m] = "empty"
          /\ UNCHANGED <<modules, keys>>
       \/ /\ ChainName(m) \notin depNames /\ chain[m] = "written"
          /\ modules' = StoreChain(modules, m)
          /\ keys' = keys \cup {m}
    /\ scan' = scan \ {ChainName(m)}
    /\ UNCHANGED <<project, cache, index, pc, cmd, grown, depNames, todo, imports, used, deps, stack,
                   resolved, outcome, budget>>

\* index_deps_for: only the path dependencies of the project's own manifest.
IndexPaths ==
    /\ pc = "scan" /\ scan = {}
    /\ \/ /\ modules' = [modules EXCEPT !.locals = IF Contains(manifest, PathDep) THEN paths ELSE @]
          /\ keys' = keys \cup {m \in Module : modules'.locals[m] # NoPath}
          /\ depNames' = Cached \ depNames
          /\ pc' = "truncate"
          /\ UNCHANGED <<project, cache, index, cmd, grown, work, outcome, budget>>
       \/ Contains(manifest, PathDep) /\ paths # NoLocals /\ Fault

-----------------------------------------------------------------------------
(* Index::store, at the end of Index::build and of make_dependency_set *)

Truncate ==
    /\ pc \in {"truncate", "retruncate"}
    /\ index' = [state |-> "unreadable", modules |-> NoModules]
    /\ pc' = IF pc = "truncate" THEN "store" ELSE "restore"
    /\ UNCHANGED <<project, cache, cmd, memory, work, outcome, budget>>

\* fetch ends here; build goes on to resolve what the sources use.
Store ==
    /\ pc \in {"store", "restore"}
    /\ index' = [state |-> "stored", modules |-> modules]
    /\ UNCHANGED <<project, cache, cmd, budget>>
    /\ \/ pc = "store" /\ cmd = "fetch" /\ Exit /\ outcome' = "ok"
       \/ /\ pc = "store" /\ cmd = "build"
          /\ pc' = "resolve"
          /\ imports' = wants
          /\ UNCHANGED <<memory, todo, scan, used, deps, stack, resolved, outcome>>
       \/ pc = "restore" /\ pc' = "load" /\ UNCHANGED <<memory, work, outcome>>

-----------------------------------------------------------------------------
(* make_dependency_set *)

\* The sources are read for what they use, after the index was stored.
SourcesFail == pc = "resolve" /\ deps = {} /\ imports = wants /\ Fault

\* Mutant of Resolve: only what the sources use themselves.
ResolveFlat(m) ==
    /\ pc = "resolve" /\ m \in imports
    /\ HasModule(modules, m)
    /\ deps' = deps \cup {GetFile(modules, m)}
    /\ used' = used \cup {m}
    /\ imports' = imports \ {m}
    /\ UNCHANGED <<project, cache, index, pc, cmd, memory, todo, scan, stack, resolved,
                   outcome, budget>>

\* The file of a module of the index is taken, and the imports of this module are resolved
\* in turn, not those of other modules in the file.
Resolve(m) ==
    /\ pc = "resolve" /\ m \in imports
    /\ HasModule(modules, m)
    /\ deps' = deps \cup {GetFile(modules, m)}
    /\ used' = used \cup {m}
    /\ imports' = (imports \cup Imports[m]) \ used'
    /\ UNCHANGED <<project, cache, index, pc, cmd, memory, todo, scan, stack, resolved,
                   outcome, budget>>

\* Any other module is taken from the chain files, where an empty file has none.
ResolveCached(m) ==
    /\ pc = "resolve" /\ m \in imports
    /\ ~HasModule(modules, m) /\ chain[m] # "absent"
    /\ \/ /\ chain[m] = "written"
          /\ modules' = StoreChain(modules, m)
          /\ keys' = keys \cup {m}
          /\ grown' = (grown \/ m \notin keys)
          /\ UNCHANGED <<project, cache, index, pc, cmd, depNames, work, outcome, budget>>
       \/ chain[m] = "empty" /\ Fail

\* RestBytecodeLoader::load, and a call of load_tree for what it loads.
LoadTree(m, rest) ==
    \/ /\ m \in OnChain
       /\ stack' = Append(rest, Frame(m))
       /\ pc' = "tree"
       /\ UNCHANGED <<project, cache, index, cmd, memory, todo, scan, imports, used, deps,
                      resolved, outcome, budget>>
    \/ m \notin OnChain /\ Fail
    \/ m \in OnChain /\ Fault

\* A module that is in no file is downloaded with everything it imports.
Download(m) ==
    /\ pc = "resolve" /\ m \in imports
    /\ ~HasModule(modules, m) /\ chain[m] = "absent"
    /\ \/ scenario.api /\ LoadTree(m, <<>>)
       \/ ~scenario.api /\ Fail

Top == Last(stack)

DownloadImport(m) ==
    /\ pc = "tree" /\ m \in Top.todo
    /\ LoadTree(m, Append(Front(stack), [Top EXCEPT !.todo = @ \ {m}]))

\* Mutant of OpenFile: the file is written before those of the imports.
OpenFileFirst ==
    /\ pc = "tree"
    /\ chain' = [chain EXCEPT ![Top.module] = IF @ = "absent" THEN "empty" ELSE @]
    /\ pc' = "write"
    /\ UNCHANGED <<project, git, index, cmd, memory, work, outcome, budget>>

\* The file of a module is opened, without truncation, after those of its imports ...
OpenFile ==
    /\ pc = "tree" /\ Top.todo = {}
    /\ chain' = [chain EXCEPT ![Top.module] = IF @ = "absent" THEN "empty" ELSE @]
    /\ pc' = "write"
    /\ UNCHANGED <<project, git, index, cmd, memory, work, outcome, budget>>

\* Mutant of WriteFile: the last call does not return to resolve.
WriteFileStay ==
    /\ pc = "write"
    /\ chain' = [chain EXCEPT ![Top.module] = "written"]
    /\ stack' = Front(stack)
    /\ pc' = "tree"
    /\ UNCHANGED <<project, git, index, cmd, memory, todo, scan, imports, used, deps, resolved,
                   outcome, budget>>

\* ... and written.
WriteFile ==
    /\ pc = "write"
    /\ chain' = [chain EXCEPT ![Top.module] = "written"]
    /\ stack' = Front(stack)
    /\ pc' = IF Len(stack) = 1 THEN "resolve" ELSE "tree"
    /\ UNCHANGED <<project, git, index, cmd, memory, todo, scan, imports, used, deps, resolved,
                   outcome, budget>>

\* The index is stored again if it has more keys.  An entry that was added under a key
\* that had lost its last one is not counted.
EndResolve ==
    /\ pc = "resolve" /\ imports = {}
    /\ pc' = IF grown THEN "retruncate" ELSE "load"
    /\ UNCHANGED <<project, cache, index, cmd, memory, work, outcome, budget>>

\* The modules that are in a file now.
Holds(f) ==
    CASE f.source = "Local" -> {m \in Module : paths[m] = f.at}
      [] f.source = "Git"   -> {m \in Module : git[f.dep] \in Revision /\ Tree[f.dep][git[f.dep]][m] = f.at}
      [] f.source = "Chain" -> {m \in {f.at} : chain[m] = "written"}

\* The file that an entry of the index points at.
FileExists(f) == Holds(f) # {} \/ (f.source = "Chain" /\ chain[f.at] # "absent")

\* load_dependencies: every file of the set is read.
LoadDependencies ==
    /\ pc = "load"
    /\ UNCHANGED <<cache, budget>>
    /\ \/ (\A f \in deps : FileExists(f)) /\ Return("ok")
       \/ (\E f \in deps : ~FileExists(f)) /\ Return("missing")

-----------------------------------------------------------------------------
User ==
    \/ \E s \in scenario.manifests : s # manifest /\ EditManifest(s)
    \/ \E m \in Module : EditSources(m) \/ \E p \in Path \cup {NoPath} : EditPaths(m, p)
    \/ RemoveDir \/ Clean \/ DeleteIndex
    \/ \E c \in {"fetch", "build"} : Start(c)

Build ==
    \/ VisitPath
    \/ \E d \in GitDep : VisitCached(d) \/ BeginClone(d) \/ EndClone(d) \/ Checkout(d) \/ ScanGit(d)
    \/ BeginScan \/ IndexPaths \/ Truncate \/ Store
    \/ \E m \in Module : ScanChain(m)

MakeDependencySet ==
    \/ \E m \in Module : Resolve(m) \/ ResolveCached(m) \/ Download(m) \/ DownloadImport(m)
    \/ SourcesFail \/ OpenFile \/ WriteFile \/ EndResolve \/ LoadDependencies

Next == User \/ Build \/ MakeDependencySet \/ Crash

Spec == Init /\ [][Next]_vars
-----------------------------------------------------------------------------
(* Properties *)

\* Every variable keeps its type through commands, kills and edits.
TypeOK ==
    /\ scenario \in Scenarios /\ manifest \in DepSeq /\ pathDir \in BOOLEAN
    /\ paths \in Paths /\ wants \in SUBSET Module
    /\ git \in [GitDep -> {"absent", "partial"} \cup Revision]
    /\ chain \in [Module -> {"absent", "empty", "written"}]
    /\ index \in [state : {"absent", "unreadable", "stored"}, modules : ModulesIndex]
    /\ pc \in {"idle", "deps", "clone", "checkout", "scan", "truncate", "store", "resolve",
               "tree", "write", "retruncate", "restore", "load"}
    /\ cmd \in {"fetch", "build"}
    /\ modules \in ModulesIndex /\ keys \in SUBSET Module /\ grown \in BOOLEAN
    /\ depNames \in SUBSET Names
    /\ todo \in DepSeq /\ scan \in SUBSET Names /\ imports \in SUBSET Module
    /\ used \in SUBSET Module /\ deps \in SUBSET Files
    /\ stack \in Seq(Frames) /\ resolved \in SUBSET GitDep
    /\ outcome \in {"none", "ok", "error", "missing", "killed"}
    /\ budget \in [Steps -> Nat]
    /\ pc \in {"clone", "checkout"} => todo # <<>>
    /\ pc \in {"tree", "write"} => stack # <<>>

\* load_tree writes the file of a module after those of its imports, so that a file that
\* is there never lacks one of its imports, wherever a download was cut short: resolve
\* never downloads for a module that it finds in the cache.
ImportsCachedFirst ==
    \A m \in Module : chain[m] = "written" => \A i \in Imports[m] : chain[i] = "written"

\* What sources that use w need: the modules that every set with w, and with all that its
\* own modules use, has.
Complete(S, w) == w \subseteq S /\ \A m \in S : Imports[m] \subseteq S
NeededBy(w)    == {m \in Module : \A S \in SUBSET Module : Complete(S, w) => m \in S}

CacheKept   == budget["cleans"] = scenario.budget["cleans"]
InPaths(m)  == Contains(manifest, PathDep) /\ paths[m] # NoPath
UpToDate(d) == \A m \in Module : index.modules.gits[m].dep = d => index.modules.gits[m].rev = git[d]

(***************************************************************************)
(* What build compiles against is complete: every module that the sources  *)
(* need, directly or through other modules, is in a file of the set when   *)
(* load_dependencies reads it, from whichever of the three sources and     *)
(* however old the index is, as long as the cache was not removed.  It     *)
(* does not say that the set is closed: what the other modules of its      *)
(* files use is not resolved, and a module may be in two of them.          *)
(***************************************************************************)
DependencySetClosed ==
    pc = "load" /\ CacheKept => NeededBy(wants) \subseteq UNION {Holds(f) : f \in deps}

\* A module of the path dependency that is needed is taken from there and not downloaded,
\* and no file of the path dependency is taken for one that has left it, although the
\* index that earlier commands stored still says so.
LocalFirst ==
    pc = "load" =>
        /\ \A m \in NeededBy(wants) : InPaths(m) => LocalFile(paths[m]) \in deps /\ ChainFile(m) \notin deps
        /\ \A p \in Path : LocalFile(p) \in deps => \E m \in NeededBy(wants) : InPaths(m) /\ paths[m] = p

(***************************************************************************)
(* Skipping what the stored index knows loses nothing: when the index is   *)
(* stored again it has every module of every chain file, and of every      *)
(* complete clone unless the stored one was read from another revision of  *)
(* it.  That happens when a command is killed before the checkout, a later *)
(* one indexes the head, and dove clean makes the next one clone again:    *)
(* the modules of the revision asked for are then missing (store.rs:60).   *)
(***************************************************************************)
CacheIndexed ==
    pc = "truncate" =>
        /\ \A d \in GitDep : git[d] \in Revision /\ UpToDate(d) =>
              \A m \in Provides(d, git[d]) : modules.gits[m] # NoEntry
        /\ \A m \in Module : chain[m] = "written" => m \in modules.chains

(***************************************************************************)
(* Every file of the dependency set is there when load_dependencies reads  *)
(* it, whatever was edited, killed or half downloaded before, as long as   *)
(* the cache was not removed: dove clean (clean.rs:13) leaves the index    *)
(* behind, whose entries then name files that are gone, or that hold other *)
(* modules when the repository is cloned again at another revision.        *)
(***************************************************************************)
DependenciesExist == pc = "load" /\ CacheKept => \A f \in deps : FileExists(f)

\* The clone of a dependency of the manifest holds the revision or branch asked for.
CloneAtRequest ==
    pc = "load" =>
        \A d \in resolved :
            git[d] = IF Kind[d] \in {"head", "default_branch"} THEN "head" ELSE "requested"
=============================================================================
