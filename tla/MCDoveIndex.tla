----------------------------- MODULE MCDoveIndex -----------------------------
(* Small instances of DoveIndex. *)
EXTENDS DoveIndex

CONSTANTS a, b, c, old, new, fork, bad, p, q

\* a uses b and c, b uses c.
MCModule  == {a, b, c}
MCImports == [m \in MCModule |-> CASE m = a -> {b, c} [] m = b -> {c} [] m = c -> {}]

\* old and new are two revisions of a repository, which has b in one file at its head and
\* moved it, or put c beside it; fork asks for the branch that every clone has, bad has a
\* file that does not parse.
MCGitDep   == {old, new, fork, bad}
MCKind     == [d \in MCGitDep |-> CASE d = fork -> "default_branch" [] d = bad -> "head" [] OTHER -> "rev"]
MCPath     == {p, q}
In(files)  == [m \in MCModule |-> IF m \in DOMAIN files THEN files[m] ELSE NoPath]
MCTree     == [d \in MCGitDep |-> [r \in Revision |->
                 CASE d = old /\ r = "requested" -> In(b :> p @@ c :> p)
                   [] d = new /\ r = "requested" -> In(b :> q)
                   [] d \in {old, new} /\ r = "head" -> In(b :> p)
                   [] OTHER -> In(c :> p)]]
MCNested   == [d \in MCGitDep |-> [r \in Revision |->
                 IF d = new /\ r = "requested" THEN <<PathDep>> ELSE <<>>]]
MCBroken   == {<<bad, "head">>}

Old     == <<old>>
PathOld == <<PathDep, old>>
SomeManifests == {<<PathDep>>, <<PathDep, old>>, <<new>>}
AllManifests  == {<<PathDep, old>>, <<new>>, <<fork>>, <<bad>>}

NoSteps     == [s \in Steps |-> 0]
CrashBudget == [NoSteps EXCEPT !["commands"] = 3, !["crashes"] = 2, !["faults"] = 1, !["edits"] = 2]
CleanBudget == [NoSteps EXCEPT !["commands"] = 3, !["cleans"] = 1, !["edits"] = 2, !["crashes"] = 1]
KillBudget  == [NoSteps EXCEPT !["commands"] = 2, !["crashes"] = 1]

\* A project with a node, whose commands fail and are killed.
Crashes == [manifests |-> SomeManifests, manifest |-> PathOld, paths |-> In(b :> p), wants |-> {a},
            api |-> TRUE, budget |-> CrashBudget]
\* A project with every kind of dependency, without a node and with one, that is cleaned.
Cleans(api) == [manifests |-> AllManifests, manifest |-> PathOld, paths |-> In(a :> p @@ c :> p), wants |-> {a},
                api |-> api, budget |-> CleanBudget]
MCScenarios == {Crashes, Cleans(FALSE), Cleans(TRUE)}

\* A project with one git dependency, of which a command may be killed.
KillThenBuild == {[manifests |-> {Old}, manifest |-> Old, paths |-> In(<<>>), wants |-> {a},
                   api |-> TRUE, budget |-> KillBudget]}
=============================================================================
