-------------------------- MODULE MCLanguageServer --------------------------
(* Small instances of LanguageServer: a script, a module and a library file. *)
EXTENDS LanguageServer, TLC

CONSTANTS script, module, lib, ok, user, broken

\* ok parses and needs nothing, user needs the module file, broken does not parse.
MCPath == {script, module, lib}
MCText == {ok, user, broken}
PlainText == {ok, broken}
MCImports == [t \in Text |-> IF t = user THEN {module} ELSE {}]

WithLib    == [stdlib |-> {lib}, modules |-> {module}, prefixed |-> {module}]
WithoutLib == [stdlib |-> {}, modules |-> {module}, prefixed |-> {module}]
\* The scripts lie in a folder whose name begins with the name of the module folder.
Sibling    == [stdlib |-> {lib}, modules |-> {module}, prefixed |-> {module, script}]

OneConfig   == {WithLib}
TwoConfigs  == {WithLib, WithoutLib}
EditConfigs == {WithLib, Sibling}

MCDisk     == (script :> ok) @@ (module :> ok) @@ (lib :> ok)
BrokenDisk == (script :> user) @@ (module :> broken) @@ (lib :> ok)
FreshDisk  == (script :> ok) @@ (module :> ok) @@ (lib :> NoText)
\* No module file, and a script that does not parse before it is opened.
BareDisk   == (script :> broken) @@ (module :> NoText) @@ (lib :> NoText)

MCStarts    == {[disk |-> MCDisk, config |-> WithLib]}
EditStarts  == MCStarts \cup {[disk |-> BrokenDisk, config |-> Sibling]}
FreshStarts == {[disk |-> FreshDisk, config |-> WithLib]}
BareStarts  == {[disk |-> BareDisk, config |-> WithLib]}

MyFiles  == {script, module}
LibFiles == {script, lib}

NoSteps        == [s \in Steps |-> 0]
EditBudget     == [NoSteps EXCEPT !["edits"] = 3, !["deletes"] = 1, !["total"] = 4]
SettingsBudget == [NoSteps EXCEPT !["edits"] = 3, !["saves"] = 1, !["deletes"] = 1,
                                  !["settings"] = 3, !["exits"] = 1, !["total"] = 4]
FaultBudget    == [NoSteps EXCEPT !["edits"] = 2, !["saves"] = 1, !["faults"] = 1, !["total"] = 4]
=============================================================================
