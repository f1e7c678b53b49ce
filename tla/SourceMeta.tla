----------------------------- MODULE SourceMeta -----------------------------
(***************************************************************************)
(* The imports of a source file (dove/src/index/meta.rs), which decide what *)
(* dove downloads and compiles with it: source_meta walks the definitions  *)
(* of a parsed file and collects every module that is named with its       *)
(* address.  The walk below takes one node of the syntax tree per step.    *)
(*                                                                         *)
(* A node is [k, mod, types, exps, binds, seq, uses]: what it is, the      *)
(* module its access names (NoModule when the access is not qualified), and *)
(* its parts.  `bare' says that no list of type arguments was written.     *)
(***************************************************************************)
EXTENDS Integers, Sequences, FiniteSets, SequencesExt

CONSTANTS
    Files,      \* files: [parses, defs]; a definition is [k, address, name, members, others]
    Nodes,      \* the nodes of their syntax trees
    Tree(_),    \* the nodes of the tree below a node, itself among them
    Addresses,  \* account addresses
    NoAddress,  \* the project has no account address
    CoreCode,   \* CORE_CODE_ADDRESS
    NoModule

VARIABLES
    file,       \* the file
    address,    \* the address of the project
    defs,       \* the definitions still to visit
    todo,       \* the nodes of the current definition still to visit
    meta,       \* the metadata: a sequence of [id, imports]
    result      \* "walk", "ok", or why the file was refused

vars == <<file, address, defs, todo, meta, result>>

-----------------------------------------------------------------------------
(* Syntax trees.                                                           *)

PartLists == {"types", "exps", "binds", "seq", "uses"}

Children(n) == UNION {ToSet(n[p]) : p \in PartLists}

TypeKinds == {"apply", "ref", "multiple", "fun"}
BindKinds == {"var", "unpack"}
ItemKinds == {"seq", "declare", "bind"}
MemberKinds == {"function", "native", "struct", "constant", "member_spec"}
LeafKinds == {"value", "move", "copy", "unit", "break", "continue"}
SpecKinds == {"lambda", "spec", "index"}

\* The lists of parts that the grammar gives a node, the empty ones left out.
Lists(k) ==
    CASE k \in LeafKinds \cup {"use", "var"} -> {}
      [] k \in TypeKinds \cup {"native", "struct"} -> {"types"}
      [] k = "unpack" -> {"types", "binds"}
      [] k \in ItemKinds -> {"binds", "types", "exps"}
      [] k \in {"call", "pack", "name", "cast", "annotate", "constant"} -> {"types", "exps"}
      [] k = "block" -> {"uses", "seq", "exps"}
      [] k = "function" -> {"types", "uses", "seq", "exps"}
      [] k \in SpecKinds \cup {"member_spec"} -> {"binds", "types", "exps"}
      [] OTHER -> {"exps"}

AccessKinds == {"use", "apply", "unpack", "call", "pack", "name"}

\* The trees are those of the parser: a node has the parts that its kind has, and only a node
\* with an access names a module; a use always does.
ASSUME NodesAssumption ==
    \A n \in Nodes :
        /\ \A p \in PartLists : n[p] \in Seq(Nodes)
        /\ \A p \in PartLists \ Lists(n.k) : n[p] = <<>>
        /\ n.k \notin AccessKinds => n.mod = NoModule
        /\ n.k = "use" => n.mod # NoModule
        /\ n.k = "unpack" /\ n.bare => n.types = <<>>

\* A script is its uses and its function (members), and constants and specifications that
\* are kept apart (others); all that a module has is among its members.
Definitions == UNION {ToSet(f.defs) : f \in Files}

ASSUME FilesAssumption ==
    /\ \A f \in Files : f.defs \in Seq(Definitions)
    /\ \A d \in Definitions : /\ d.members \in Seq(Nodes) /\ d.others \in Seq(Nodes)
                              /\ d.k # "script" => d.others = <<>>
                              /\ d.k = "address" => d.address \in Addresses

ASSUME NoAddressAssumption == NoAddress \notin Addresses \cup {CoreCode}

ASSUME TreeAssumption ==
    \A n \in Nodes : Tree(n) = {n} \cup UNION {Tree(c) : c \in Children(n)}

-----------------------------------------------------------------------------
(* The parts of a node that the walk goes into, in its order.              *)

\* type_usages and s_type_usages: the types a type is made of.
TypeParts(n) == n.types

\* bind_usages: the fields of a pattern are visited when it has type arguments.
BindParts(n) == IF n.k = "unpack" /\ ~n.bare THEN n.types \o n.binds ELSE <<>>

\* block_usages: a declaration without a value, one with a value, an expression.
ItemParts(n) == n.binds \o n.types \o n.exps

\* expresion_usages.
Skipped == LeafKinds \cup SpecKinds
ExpParts(n) ==
    CASE n.k \in Skipped -> <<>>
      [] n.k \in {"call", "pack", "name"} -> n.types \o n.exps
      [] n.k = "cast" -> n.exps \o n.types
      [] n.k = "block" -> n.uses \o n.seq \o n.exps
      [] n.k = "annotate" -> n.exps
      [] OTHER -> n.exps      \* if, while, loop, assignments, operators, ...

\* function: the signature and the body; a native function has no body.
FunctionParts(n) == IF n.k = "native" THEN n.types ELSE n.types \o n.uses \o n.seq \o n.exps

\* constant: its type and its value.
ConstantParts(n) == n.types \o n.exps

\* The members of a module: specifications are not visited.
MemberParts(n) ==
    CASE n.k \in {"function", "native"} -> FunctionParts(n)
      [] n.k = "struct" -> n.types
      [] n.k = "constant" -> ConstantParts(n)
      [] OTHER -> <<>>

Parts(n) == CASE n.k = "use" -> <<>>
              [] n.k \in TypeKinds -> TypeParts(n)
              [] n.k \in BindKinds -> BindParts(n)
              [] n.k \in ItemKinds -> ItemParts(n)
              [] n.k \in MemberKinds -> MemberParts(n)
              [] OTHER -> ExpParts(n)

\* extract_uses and uses: a use always names its module with the address.
Uses(n) == {n.mod}

\* Mutant of Access: only what is called or built is an import.
AccessCalls(n) == IF n.k \in {"call", "pack"} THEN {n.mod} \ {NoModule} ELSE {}

\* access_usages: a module that is named with its address.
Access(n) == {n.mod} \ {NoModule}

-----------------------------------------------------------------------------

Init ==
    /\ file \in Files
    /\ address \in Addresses \cup {NoAddress}
    /\ defs = file.defs
    /\ todo = <<>> /\ meta = <<>>
    /\ result = "walk"

\* A file with syntax errors is refused before it is looked at.
Unparsed ==
    /\ result = "walk" /\ ~file.parses
    /\ result' = "syntax"
    /\ UNCHANGED <<file, address, defs, todo, meta>>

\* from_definition: the address a definition is filed under.
DefinitionAddress(d) ==
    CASE d.k = "address" -> d.address
      [] d.k = "script" /\ address = NoAddress -> CoreCode
      [] OTHER -> address

\* module: all members.  script: the uses and the function; the rest is not visited.
DefinitionParts(d) == d.members

\* Mutant of Enter: a module without an address is accepted.
EnterAnyway ==
    LET d == Head(defs)
    IN  /\ result = "walk" /\ file.parses /\ todo = <<>> /\ defs # <<>>
        /\ defs' = Tail(defs)
        /\ todo' = DefinitionParts(d)
        /\ meta' = Append(meta, [id |-> <<DefinitionAddress(d), d.name>>, imports |-> {}])
        /\ UNCHANGED <<file, address, result>>

\* DefinitionMeta::module and ::script.  Each module of an address block is a definition of
\* its own.
Enter ==
    LET d == Head(defs)
    IN  /\ result = "walk" /\ file.parses /\ todo = <<>> /\ defs # <<>>
        /\ DefinitionAddress(d) # NoAddress
        /\ defs' = Tail(defs)
        /\ todo' = DefinitionParts(d)
        /\ meta' = Append(meta, [id |-> <<DefinitionAddress(d), d.name>>, imports |-> {}])
        /\ UNCHANGED <<file, address, result>>

\* A module outside an address block needs the address of the project.
NoAddressForModule ==
    /\ result = "walk" /\ file.parses /\ todo = <<>> /\ defs # <<>>
    /\ DefinitionAddress(Head(defs)) = NoAddress
    /\ result' = "no address"
    /\ UNCHANGED <<file, address, defs, todo, meta>>

\* One node: its access, and then its parts.
Visit ==
    /\ result = "walk" /\ todo # <<>>
    /\ meta' = [meta EXCEPT ![Len(meta)].imports = @ \cup IF Head(todo).k = "use" THEN Uses(Head(todo)) ELSE Access(Head(todo))]
    /\ todo' = Parts(Head(todo)) \o Tail(todo)
    /\ UNCHANGED <<file, address, defs, result>>

Collected ==
    /\ result = "walk" /\ file.parses /\ todo = <<>> /\ defs = <<>>
    /\ result' = "ok"
    /\ UNCHANGED <<file, address, defs, todo, meta>>

Next == Unparsed \/ Enter \/ NoAddressForModule \/ Visit \/ Collected

Spec == Init /\ [][Next]_vars

-----------------------------------------------------------------------------
(* Properties.                                                             *)

\* Every definition is either still to be visited or has its entry, and no entry is filed
\* without an address (from_definition, meta.rs).
TypeOK ==
    /\ address \in Addresses \cup {NoAddress}
    /\ result \in {"walk", "ok", "syntax", "no address"}
    /\ Len(meta) + Len(defs) = Len(file.defs)
    /\ \A i \in DOMAIN meta : meta[i].id[1] \in Addresses \cup {CoreCode}

\* Every module that a tree names with its address, wherever it is named.
Named(n) == {x.mod : x \in Tree(n)} \ {NoModule}

\* Where the walk does not look: the type of an annotation (meta.rs:373), the fields of a
\* pattern that has no type arguments (meta.rs:241), and what belongs to specifications
\* (meta.rs:306, 118).
Gap(n) ==
    \/ n.k = "annotate" /\ n.types # <<>>
    \/ n.k = "unpack" /\ n.bare /\ n.binds # <<>>
    \/ n.k \in SpecKinds \cup {"member_spec"} /\ Children(n) # {}

HasGap(n) == \E x \in Tree(n) : Gap(x)

\* The constants and specifications of a script are not visited either (meta.rs:434).
NoGap(d) == /\ \A j \in DOMAIN d.members : ~HasGap(d.members[j])
            /\ d.others = <<>>

\* Every module that a definition names.
NamedIn(d) == UNION {Named(n) : n \in ToSet(d.members) \cup ToSet(d.others)}

(***************************************************************************)
(* The metadata of a file that is accepted has one entry per definition.   *)
(* Its imports are modules the definition names, and unless there is a gap *)
(* they are all of them, wherever they are named: in types, signatures,    *)
(* patterns, expressions at any depth and in the uses of inner blocks.  A  *)
(* module that is left out is neither downloaded nor compiled.             *)
(***************************************************************************)
ImportsComplete ==
    result = "ok" =>
        /\ Len(meta) = Len(file.defs)
        /\ \A i \in DOMAIN meta :
              /\ meta[i].imports \subseteq NamedIn(file.defs[i])
              /\ NoGap(file.defs[i]) => meta[i].imports = NamedIn(file.defs[i])
=============================================================================
