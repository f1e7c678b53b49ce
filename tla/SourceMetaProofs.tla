-------------------------- MODULE SourceMetaProofs --------------------------
(***************************************************************************)
(* Proofs about SourceMeta: for every file, whatever its definitions and   *)
(* however deep their trees, each definition has an entry filed under an   *)
(* address, and the imports of an accepted file are those that are named   *)
(* in it.  The invariant says what the walk still owes at each step: the   *)
(* modules that are named and not yet collected are under a node of todo.  *)
(***************************************************************************)
EXTENDS SourceMeta, SequenceFacts

-----------------------------------------------------------------------------
(* Nodes and their parts.                                                  *)

\* The elements of two sequences put together.
LEMMA ConcatElements ==
    ASSUME NEW S, NEW s \in Seq(S), NEW t \in Seq(S)
    PROVE  s \o t \in Seq(S) /\ ToSet(s \o t) = ToSet(s) \cup ToSet(t)
<1>1. s \o t \in Seq(S) /\ Len(s \o t) = Len(s) + Len(t) /\ Len(s) \in Nat /\ Len(t) \in Nat
  OBVIOUS
<1>2. DOMAIN s = 1..Len(s) /\ DOMAIN t = 1..Len(t) /\ DOMAIN (s \o t) = 1..(Len(s) + Len(t))
  BY <1>1
<1>3. \A i \in DOMAIN s : (s \o t)[i] = s[i] /\ i \in DOMAIN (s \o t)
  BY <1>1, <1>2
<1>4. \A i \in DOMAIN t : (s \o t)[Len(s) + i] = t[i] /\ Len(s) + i \in DOMAIN (s \o t)
  BY <1>1, <1>2
<1>5. \A i \in DOMAIN (s \o t) : (s \o t)[i] \in ToSet(s) \cup ToSet(t)
  <2> TAKE i \in DOMAIN (s \o t)
  <2>1. CASE i \in DOMAIN s
    BY <2>1, <1>3 DEF ToSet
  <2>2. CASE i \notin DOMAIN s
    <3>1. i - Len(s) \in DOMAIN t /\ (s \o t)[i] = t[i - Len(s)]
      BY <2>2, <1>1, <1>2
    <3> QED
      BY <3>1 DEF ToSet
  <2> QED
    BY <2>1, <2>2
<1>6. ToSet(s) \subseteq ToSet(s \o t)
  BY <1>3 DEF ToSet
<1>7. ToSet(t) \subseteq ToSet(s \o t)
  BY <1>4 DEF ToSet
<1> QED
  BY <1>1, <1>5, <1>6, <1>7 DEF ToSet

\* The elements of a sequence are its head and those of its tail.
LEMMA HeadAndTail ==
    ASSUME NEW S, NEW s \in Seq(S), s # <<>>
    PROVE  ToSet(s) = {Head(s)} \cup ToSet(Tail(s))
<1>1. /\ Len(s) \in Nat /\ DOMAIN s = 1..Len(s) /\ 1 \in DOMAIN s /\ s[1] = Head(s)
      /\ DOMAIN Tail(s) = 1..(Len(s) - 1)
      /\ \A i \in DOMAIN Tail(s) : Tail(s)[i] = s[i + 1] /\ i + 1 \in DOMAIN s
  OBVIOUS
<1>2. \A i \in DOMAIN s : i = 1 \/ (i - 1 \in DOMAIN Tail(s) /\ Tail(s)[i - 1] = s[i])
  BY <1>1
<1>3. \A i \in DOMAIN s : s[i] = Head(s) \/ s[i] \in ToSet(Tail(s))
  BY <1>1, <1>2, Zenon DEF ToSet
<1>4. ToSet(Tail(s)) \subseteq ToSet(s) /\ Head(s) \in ToSet(s)
  <2>1. \A i \in DOMAIN Tail(s) : Tail(s)[i] \in ToSet(s)
    BY <1>1 DEF ToSet
  <2>2. Head(s) \in ToSet(s)
    BY <1>1 DEF ToSet
  <2> QED
    BY <2>1, <2>2 DEF ToSet
<1> QED
  BY <1>3, <1>4, Zenon DEF ToSet

\* The children of a node, list by list.
LEMMA ChildrenOfNode ==
    ASSUME NEW n \in Nodes
    PROVE  /\ n.types \in Seq(Nodes) /\ n.exps \in Seq(Nodes) /\ n.binds \in Seq(Nodes)
           /\ n.seq \in Seq(Nodes) /\ n.uses \in Seq(Nodes)
           /\ Children(n) = ToSet(n.types) \cup ToSet(n.exps) \cup ToSet(n.binds)
                              \cup ToSet(n.seq) \cup ToSet(n.uses)
           /\ Children(n) \subseteq Nodes
           /\ "types" \notin Lists(n.k) => n.types = <<>>
           /\ "exps" \notin Lists(n.k) => n.exps = <<>>
           /\ "binds" \notin Lists(n.k) => n.binds = <<>>
           /\ "seq" \notin Lists(n.k) => n.seq = <<>>
           /\ "uses" \notin Lists(n.k) => n.uses = <<>>
           /\ n.k = "unpack" /\ n.bare => n.types = <<>>
<1>1. /\ \A p \in PartLists : n[p] \in Seq(Nodes)
      /\ \A p \in PartLists \ Lists(n.k) : n[p] = <<>>
      /\ n.k = "unpack" /\ n.bare => n.types = <<>>
  BY NodesAssumption
<1>2. \A s \in Seq(Nodes) : ToSet(s) \subseteq Nodes
  BY DEF ToSet
<1>3. Children(n) = ToSet(n["types"]) \cup ToSet(n["exps"]) \cup ToSet(n["binds"])
                      \cup ToSet(n["seq"]) \cup ToSet(n["uses"])
  BY Zenon DEF Children, PartLists
<1>4. n.types = n["types"] /\ n.exps = n["exps"] /\ n.binds = n["binds"]
        /\ n.seq = n["seq"] /\ n.uses = n["uses"]
  OBVIOUS
<1>5. n.types \in Seq(Nodes) /\ n.exps \in Seq(Nodes) /\ n.binds \in Seq(Nodes)
        /\ n.seq \in Seq(Nodes) /\ n.uses \in Seq(Nodes)
  BY <1>1 DEF PartLists
<1>6. /\ "types" \notin Lists(n.k) => n.types = <<>>
      /\ "exps" \notin Lists(n.k) => n.exps = <<>>
      /\ "binds" \notin Lists(n.k) => n.binds = <<>>
      /\ "seq" \notin Lists(n.k) => n.seq = <<>>
      /\ "uses" \notin Lists(n.k) => n.uses = <<>>
  BY <1>1 DEF PartLists
<1>7. Children(n) \subseteq Nodes
  BY <1>2, <1>3, <1>4, <1>5
<1> QED
  BY <1>1, <1>3, <1>4, <1>5, <1>6, <1>7

LEMMA NoElements == ToSet(<<>>) = {}
  BY DEF ToSet

\* The walk goes only into children, and into all of them where there is no gap.
LEMMA PartsOfNode ==
    ASSUME NEW n \in Nodes
    PROVE  /\ Parts(n) \in Seq(Nodes)
           /\ ToSet(Parts(n)) \subseteq Children(n)
           /\ ~Gap(n) => ToSet(Parts(n)) = Children(n)
<1>0. /\ n.types \in Seq(Nodes) /\ n.exps \in Seq(Nodes) /\ n.binds \in Seq(Nodes)
      /\ n.seq \in Seq(Nodes) /\ n.uses \in Seq(Nodes)
      /\ Children(n) = ToSet(n.types) \cup ToSet(n.exps) \cup ToSet(n.binds)
                         \cup ToSet(n.seq) \cup ToSet(n.uses)
  BY ChildrenOfNode
<1>1. ASSUME NEW s \in Seq(Nodes), NEW t \in Seq(Nodes)
      PROVE  s \o t \in Seq(Nodes) /\ ToSet(s \o t) = ToSet(s) \cup ToSet(t)
  BY ConcatElements
<1>2. <<>> \in Seq(Nodes) /\ ToSet(<<>>) = {}
  BY NoElements
<1>3. CASE n.k \in LeafKinds \cup SpecKinds \cup {"use", "var", "member_spec"}
  <2>1. Parts(n) = <<>>
    BY <1>3 DEF Parts, LeafKinds, SpecKinds, Skipped, TypeKinds, BindKinds, ItemKinds, MemberKinds,
                BindParts, MemberParts, ExpParts
  <2>2. CASE n.k \in LeafKinds \cup {"use", "var"}
    <3>1. Lists(n.k) = {}
      BY <2>2 DEF Lists, LeafKinds, SpecKinds, TypeKinds, BindKinds, ItemKinds, MemberKinds
    <3>2. n.types = <<>> /\ n.exps = <<>> /\ n.binds = <<>> /\ n.seq = <<>> /\ n.uses = <<>>
      BY <3>1, ChildrenOfNode
    <3> QED
      BY <2>1, <3>2, <1>0, <1>2
  <2>3. CASE n.k \in SpecKinds \cup {"member_spec"}
    <3>1. ~Gap(n) => Children(n) = {}
      BY <2>3 DEF Gap
    <3> QED
      BY <2>1, <3>1, <1>0, <1>2
  <2> QED
    BY <1>3, <2>2, <2>3
<1>4. CASE n.k \in TypeKinds \cup {"native", "struct"}
  <2>1. Parts(n) = n.types
    BY <1>4 DEF Parts, TypeKinds, BindKinds, ItemKinds, MemberKinds, TypeParts, MemberParts, FunctionParts
  <2>2. Lists(n.k) = {"types"}
    BY <1>4 DEF Lists, LeafKinds, SpecKinds, TypeKinds, BindKinds, ItemKinds, MemberKinds
  <2>3. n.exps = <<>> /\ n.binds = <<>> /\ n.seq = <<>> /\ n.uses = <<>>
    BY <2>2, ChildrenOfNode
  <2> QED
    BY <2>1, <2>3, <1>0, <1>2
<1>5. CASE n.k = "unpack"
  <2>1. Parts(n) = IF ~n.bare THEN n.types \o n.binds ELSE <<>>
    BY <1>5 DEF Parts, BindParts, LeafKinds, SpecKinds, TypeKinds, BindKinds, ItemKinds, MemberKinds
  <2>2. Lists(n.k) = {"types", "binds"}
    BY <1>5 DEF Lists, LeafKinds, SpecKinds, TypeKinds, BindKinds, ItemKinds, MemberKinds
  <2>3. n.exps = <<>> /\ n.seq = <<>> /\ n.uses = <<>>
    BY <2>2, ChildrenOfNode
  <2>4. n.bare => n.types = <<>> /\ (~Gap(n) => n.binds = <<>>)
    BY <1>5, ChildrenOfNode DEF Gap
  <2>5. n.types \o n.binds \in Seq(Nodes)
          /\ ToSet(n.types \o n.binds) = ToSet(n.types) \cup ToSet(n.binds)
    BY <1>0, <1>1
  <2> QED
    BY <2>1, <2>3, <2>4, <2>5, <1>0, <1>2
<1>6. CASE n.k \in ItemKinds
  <2>1. Parts(n) = (n.binds \o n.types) \o n.exps
    BY <1>6 DEF Parts, ItemParts, LeafKinds, SpecKinds, TypeKinds, BindKinds, ItemKinds, MemberKinds
  <2>2. Lists(n.k) = {"binds", "types", "exps"}
    BY <1>6 DEF Lists, LeafKinds, SpecKinds, TypeKinds, BindKinds, ItemKinds, MemberKinds
  <2>3. n.seq = <<>> /\ n.uses = <<>>
    BY <2>2, ChildrenOfNode
  <2>4. n.binds \o n.types \in Seq(Nodes)
          /\ ToSet(n.binds \o n.types) = ToSet(n.binds) \cup ToSet(n.types)
    BY <1>0, <1>1
  <2>5. (n.binds \o n.types) \o n.exps \in Seq(Nodes)
          /\ ToSet((n.binds \o n.types) \o n.exps) = ToSet(n.binds \o n.types) \cup ToSet(n.exps)
    BY <1>0, <2>4, <1>1
  <2> QED
    BY <2>1, <2>3, <2>4, <2>5, <1>0, <1>2
<1>7. CASE n.k \in {"call", "pack", "name", "cast", "constant"}
  <2>1. Parts(n) = n.types \o n.exps \/ Parts(n) = n.exps \o n.types
    BY <1>7 DEF Parts, TypeKinds, BindKinds, ItemKinds, MemberKinds, MemberParts, ConstantParts, ExpParts,
                Skipped, LeafKinds, SpecKinds
  <2>2. Lists(n.k) = {"types", "exps"}
    BY <1>7 DEF Lists, LeafKinds, SpecKinds, TypeKinds, BindKinds, ItemKinds, MemberKinds
  <2>3. n.binds = <<>> /\ n.seq = <<>> /\ n.uses = <<>>
    BY <2>2, ChildrenOfNode
  <2>4. /\ n.types \o n.exps \in Seq(Nodes) /\ n.exps \o n.types \in Seq(Nodes)
        /\ ToSet(n.types \o n.exps) = ToSet(n.types) \cup ToSet(n.exps)
        /\ ToSet(n.exps \o n.types) = ToSet(n.exps) \cup ToSet(n.types)
    BY <1>0, <1>1
  <2> QED
    BY <2>1, <2>3, <2>4, <1>0, <1>2
<1>8. CASE n.k = "annotate"
  <2>1. Parts(n) = n.exps
    BY <1>8 DEF Parts, TypeKinds, BindKinds, ItemKinds, MemberKinds, ExpParts, Skipped, LeafKinds, SpecKinds
  <2>2. Lists(n.k) = {"types", "exps"}
    BY <1>8 DEF Lists, LeafKinds, SpecKinds, TypeKinds, BindKinds, ItemKinds, MemberKinds
  <2>3. n.binds = <<>> /\ n.seq = <<>> /\ n.uses = <<>>
    BY <2>2, ChildrenOfNode
  <2>4. ~Gap(n) => n.types = <<>>
    BY <1>8 DEF Gap
  <2> QED
    BY <2>1, <2>3, <2>4, <1>0, <1>2
<1>9. CASE n.k = "block"
  <2>1. Parts(n) = (n.uses \o n.seq) \o n.exps
    BY <1>9 DEF Parts, TypeKinds, BindKinds, ItemKinds, MemberKinds, ExpParts, Skipped, LeafKinds, SpecKinds
  <2>2. Lists(n.k) = {"uses", "seq", "exps"}
    BY <1>9 DEF Lists, LeafKinds, SpecKinds, TypeKinds, BindKinds, ItemKinds, MemberKinds
  <2>3. n.binds = <<>> /\ n.types = <<>>
    BY <2>2, ChildrenOfNode
  <2>4. n.uses \o n.seq \in Seq(Nodes) /\ ToSet(n.uses \o n.seq) = ToSet(n.uses) \cup ToSet(n.seq)
    BY <1>0, <1>1
  <2>5. (n.uses \o n.seq) \o n.exps \in Seq(Nodes)
          /\ ToSet((n.uses \o n.seq) \o n.exps) = ToSet(n.uses \o n.seq) \cup ToSet(n.exps)
    BY <1>0, <2>4, <1>1
  <2> QED
    BY <2>1, <2>3, <2>4, <2>5, <1>0, <1>2
<1>10. CASE n.k = "function"
  <2>1. Parts(n) = ((n.types \o n.uses) \o n.seq) \o n.exps
    BY <1>10 DEF Parts, TypeKinds, BindKinds, ItemKinds, MemberKinds, MemberParts, FunctionParts
  <2>2. Lists(n.k) = {"types", "uses", "seq", "exps"}
    BY <1>10 DEF Lists, LeafKinds, SpecKinds, TypeKinds, BindKinds, ItemKinds, MemberKinds
  <2>3. n.binds = <<>>
    BY <2>2, ChildrenOfNode
  <2>4. n.types \o n.uses \in Seq(Nodes) /\ ToSet(n.types \o n.uses) = ToSet(n.types) \cup ToSet(n.uses)
    BY <1>0, <1>1
  <2>5. (n.types \o n.uses) \o n.seq \in Seq(Nodes)
          /\ ToSet((n.types \o n.uses) \o n.seq) = ToSet(n.types \o n.uses) \cup ToSet(n.seq)
    BY <1>0, <1>1, <2>4
  <2>6. ((n.types \o n.uses) \o n.seq) \o n.exps \in Seq(Nodes)
          /\ ToSet(((n.types \o n.uses) \o n.seq) \o n.exps)
               = ToSet((n.types \o n.uses) \o n.seq) \cup ToSet(n.exps)
    BY <1>0, <2>5, <1>1
  <2> QED
    BY <2>1, <2>3, <2>4, <2>5, <2>6, <1>0, <1>2
<1>11. CASE n.k \notin LeafKinds \cup SpecKinds \cup {"use", "var", "member_spec"} \cup TypeKinds
                        \cup {"native", "struct", "unpack"} \cup ItemKinds
                        \cup {"call", "pack", "name", "cast", "constant", "annotate", "block", "function"}
  <2>1. Parts(n) = n.exps
    BY <1>11 DEF Parts, TypeKinds, BindKinds, ItemKinds, MemberKinds, ExpParts, Skipped
  <2>2. Lists(n.k) = {"exps"}
    BY <1>11 DEF Lists, LeafKinds, SpecKinds, TypeKinds, BindKinds, ItemKinds, MemberKinds
  <2>3. n.types = <<>> /\ n.binds = <<>> /\ n.seq = <<>> /\ n.uses = <<>>
    BY <2>2, ChildrenOfNode
  <2> QED
    BY <2>1, <2>3, <1>0, <1>2
<1> QED
  BY <1>3, <1>4, <1>5, <1>6, <1>7, <1>8, <1>9, <1>10, <1>11

\* What the tree of a node names: its own access and what its children name.
LEMMA NamedByParts ==
    ASSUME NEW n \in Nodes
    PROVE  /\ n \in Tree(n)
           /\ Named(n) = Access(n) \cup UNION {Named(c) : c \in Children(n)}
           /\ \A c \in Children(n) : Tree(c) \subseteq Tree(n)
<1>1. Tree(n) = {n} \cup UNION {Tree(c) : c \in Children(n)}
  BY TreeAssumption
<1>2. n \in Tree(n) /\ \A c \in Children(n) : Tree(c) \subseteq Tree(n)
  BY <1>1
<1>3. ASSUME NEW m PROVE m \in Named(n) <=> m # NoModule /\ \E x \in Tree(n) : m = x.mod
  BY DEF Named
<1>4. ASSUME NEW m PROVE m \in UNION {Named(c) : c \in Children(n)}
                            <=> \E c \in Children(n) : m # NoModule /\ \E x \in Tree(c) : m = x.mod
  BY DEF Named
<1>5. ASSUME NEW m PROVE m \in Access(n) <=> m # NoModule /\ m = n.mod
  BY DEF Access
<1>6. ASSUME NEW m PROVE m \in Named(n) <=> m \in Access(n) \cup UNION {Named(c) : c \in Children(n)}
  BY <1>1, <1>3, <1>4, <1>5
<1> QED
  BY <1>2, <1>6

-----------------------------------------------------------------------------
(* What the walk still owes.                                               *)

Owners == Addresses \cup {CoreCode}
Names == {d.name : d \in Definitions}
Mentions == {n.mod : n \in Nodes}
Entry == [id : Owners \X Names, imports : SUBSET Mentions]

TreesOf(d) == UNION {Tree(n) : n \in ToSet(d.members)}

\* The nodes that the walk has still to visit for an entry: only the last one is open.
Pending(i) == IF i = Len(meta) THEN ToSet(todo) ELSE {}

Shape ==
    /\ file \in Files
    /\ address \in Addresses \cup {NoAddress}
    /\ result \in {"walk", "ok", "syntax", "no address"}
    /\ meta \in Seq(Entry) /\ todo \in Seq(Nodes) /\ defs \in Seq(Definitions)
    /\ meta = <<>> => todo = <<>>
    /\ Len(meta) + Len(defs) = Len(file.defs)
    /\ \A i \in DOMAIN defs : defs[i] = file.defs[Len(meta) + i]
    /\ result = "ok" => todo = <<>> /\ defs = <<>>

\* Nothing is collected, or will be, that the definition does not name.
Sound(d, imports, nodes) ==
    /\ imports \subseteq NamedIn(d)
    /\ \A n \in nodes : Tree(n) \subseteq TreesOf(d)

\* Without a gap, what the definition names is collected or under a node still to visit.
Owed(d, imports, nodes) ==
    NoGap(d) => NamedIn(d) \subseteq imports \cup UNION {Named(n) : n \in nodes}

Walk ==
    /\ Shape
    /\ \A i \in DOMAIN meta : /\ Sound(file.defs[i], meta[i].imports, Pending(i))
                              /\ Owed(file.defs[i], meta[i].imports, Pending(i))

\* The trees of a definition: what they name is named in it, and they have no gap if it has none.
LEMMA TreesNamed ==
    ASSUME NEW d \in Definitions, NEW x \in TreesOf(d)
    PROVE  /\ x.mod # NoModule => x.mod \in NamedIn(d)
           /\ NoGap(d) => ~Gap(x)
<1>1. PICK m \in ToSet(d.members) : x \in Tree(m)
  BY DEF TreesOf
<1>2. x.mod # NoModule => x.mod \in Named(m)
  BY <1>1 DEF Named
<1>3. Named(m) \subseteq NamedIn(d)
  BY DEF NamedIn
<1>4. NoGap(d) => ~HasGap(m)
  BY DEF NoGap, ToSet
<1> QED
  BY <1>1, <1>2, <1>3, <1>4 DEF HasGap

\* One visit pays for the node: its access is collected and its parts are owed instead.
LEMMA VisitNode ==
    ASSUME NEW d \in Definitions, NEW n \in Nodes, NEW rest \in Seq(Nodes), NEW imports,
           Sound(d, imports, {n} \cup ToSet(rest)), Owed(d, imports, {n} \cup ToSet(rest)),
           NEW found, found = IF n.k = "use" THEN Uses(n) ELSE Access(n)
    PROVE  /\ Parts(n) \o rest \in Seq(Nodes)
           /\ Sound(d, imports \cup found, ToSet(Parts(n) \o rest))
           /\ Owed(d, imports \cup found, ToSet(Parts(n) \o rest))
<1>1. /\ Parts(n) \in Seq(Nodes) /\ ToSet(Parts(n)) \subseteq Children(n)
      /\ ~Gap(n) => ToSet(Parts(n)) = Children(n)
  BY PartsOfNode
<1>2. Parts(n) \o rest \in Seq(Nodes) /\ ToSet(Parts(n) \o rest) = ToSet(Parts(n)) \cup ToSet(rest)
  BY <1>1, ConcatElements
<1>3. /\ n \in Tree(n) /\ \A c \in Children(n) : Tree(c) \subseteq Tree(n)
      /\ Named(n) = Access(n) \cup UNION {Named(c) : c \in Children(n)}
  BY NamedByParts
<1>4. found = Access(n)
  BY NodesAssumption DEF Uses, Access
<1>5. n \in TreesOf(d) /\ Tree(n) \subseteq TreesOf(d)
  BY <1>3 DEF Sound
<1>6. found \subseteq NamedIn(d)
  BY <1>4, <1>5, TreesNamed DEF Access
<1>7. \A m \in ToSet(Parts(n) \o rest) : Tree(m) \subseteq TreesOf(d)
  BY <1>1, <1>2, <1>3, <1>5 DEF Sound
<1>8. Sound(d, imports \cup found, ToSet(Parts(n) \o rest))
  BY <1>6, <1>7 DEF Sound
<1>9. Owed(d, imports \cup found, ToSet(Parts(n) \o rest))
  <2>1. SUFFICES ASSUME NoGap(d), NEW m \in NamedIn(d), m \notin imports \cup found
                 PROVE  \E x \in ToSet(Parts(n) \o rest) : m \in Named(x)
    BY DEF Owed
  <2>2. PICK y \in {n} \cup ToSet(rest) : m \in Named(y)
    BY <2>1 DEF Owed
  <2>3. CASE y = n
    <3>1. ToSet(Parts(n)) = Children(n)
      BY <1>1, <1>5, <2>1, TreesNamed
    <3>2. PICK c \in Children(n) : m \in Named(c)
      BY <1>3, <1>4, <2>1, <2>2, <2>3
    <3> QED
      BY <1>2, <3>1, <3>2
  <2> QED
    BY <1>2, <2>2, <2>3
<1> QED
  BY <1>2, <1>8, <1>9

LEMMA InitWalk == Init => Walk
<1> SUFFICES ASSUME Init PROVE Walk
  OBVIOUS
<1>1. file.defs \in Seq(Definitions)
  BY FilesAssumption DEF Init
<1>2. meta = <<>> /\ todo = <<>> /\ meta \in Seq(Entry) /\ todo \in Seq(Nodes) /\ Len(meta) = 0
        /\ DOMAIN meta = {}
  BY DEF Init
<1>3. \A i \in DOMAIN file.defs : file.defs[0 + i] = file.defs[i]
  BY <1>1
<1>4. Shape
  BY <1>1, <1>2, <1>3 DEF Shape, Init
<1> QED
  BY <1>2, <1>4 DEF Walk

\* A definition is entered with all of its parts to visit.
LEMMA EnterWalk ==
    ASSUME Walk, Enter
    PROVE  Walk'
<1> DEFINE d == Head(defs)
           e == [id |-> <<DefinitionAddress(d), d.name>>, imports |-> {}]
<1>0. Shape /\ todo = <<>> /\ defs # <<>> /\ result = "walk"
  BY DEF Walk, Enter
<1>n. PICK n \in Nat : n = Len(meta)
  BY <1>0 DEF Shape
<1>1. /\ meta \in Seq(Entry) /\ defs \in Seq(Definitions) /\ n \in Nat
      /\ DOMAIN meta = 1..n /\ DOMAIN defs = 1..Len(defs) /\ Len(defs) \in Nat \ {0}
  BY <1>0, <1>n DEF Shape
<1>2. d \in Definitions /\ d = defs[1] /\ 1 \in DOMAIN defs
  BY <1>0, <1>1
<1>3. d = file.defs[n + 1]
  BY <1>0, <1>n, <1>2 DEF Shape
<1>4. DefinitionAddress(d) \in Owners
  <2>1. d.k = "address" => d.address \in Addresses
    BY <1>2, FilesAssumption
  <2>2. DefinitionAddress(d) # NoAddress
    BY DEF Enter
  <2> QED
    BY <2>1, <2>2, <1>0 DEF DefinitionAddress, Owners, Shape
<1>5. d.name \in Names
  BY <1>2 DEF Names
<1>6. <<DefinitionAddress(d), d.name>> \in Owners \X Names
  BY <1>4, <1>5
<1>7. e \in Entry /\ e.imports = {}
  BY <1>6 DEF Entry
<1>8. /\ file' = file /\ address' = address /\ result' = result
      /\ meta' = Append(meta, e) /\ defs' = Tail(defs) /\ todo' = d.members
  BY DEF Enter, DefinitionParts
<1> HIDE DEF e, d
<1>9. /\ meta' \in Seq(Entry) /\ Len(meta') = n + 1 /\ DOMAIN meta' = 1..(n + 1)
      /\ \A i \in 1..n : meta'[i] = meta[i]
      /\ meta'[n + 1] = e
  BY <1>n, <1>1, <1>7, <1>8
<1>10. d.members \in Seq(Nodes)
  BY <1>2, FilesAssumption
<1>11. /\ Tail(defs) \in Seq(Definitions) /\ Len(Tail(defs)) = Len(defs) - 1
       /\ DOMAIN Tail(defs) = 1..(Len(defs) - 1)
       /\ \A i \in 1..(Len(defs) - 1) : Tail(defs)[i] = defs[i + 1]
  BY <1>1
<1>12. n + Len(defs) = Len(file.defs) /\ \A i \in 1..Len(defs) : defs[i] = file.defs[n + i]
  BY <1>0, <1>n, <1>1 DEF Shape
<1>13. \A i \in DOMAIN defs' : defs'[i] = file.defs[Len(meta') + i]
  <2> TAKE i \in DOMAIN defs'
  <2>1. i \in 1..(Len(defs) - 1) /\ defs'[i] = defs[i + 1]
    BY <1>8, <1>11
  <2>2. ASSUME NEW k \in Nat \ {0}, i \in 1..(k - 1)
        PROVE  i + 1 \in 1..k /\ n + (i + 1) = (n + 1) + i
    BY <2>2
  <2>3. i + 1 \in 1..Len(defs) /\ n + (i + 1) = (n + 1) + i
    BY <2>1, <2>2, <1>1
  <2>4. Len(meta') = n + 1 /\ defs[i + 1] = file.defs[n + (i + 1)]
    BY <2>3, <1>9, <1>12
  <2> QED
    BY <2>1, <2>3, <2>4
<1>14. Len(meta') + Len(defs') = Len(file.defs')
  <2>1. Len(meta') = n + 1 /\ Len(defs') = Len(defs) - 1 /\ file.defs' = file.defs
    BY <1>8, <1>9, <1>11
  <2>2. ASSUME NEW k \in Nat \ {0} PROVE (n + 1) + (k - 1) = n + k
    OBVIOUS
  <2>3. (n + 1) + (Len(defs) - 1) = n + Len(defs)
    BY <2>2, <1>1
  <2> QED
    BY <2>1, <2>3, <1>12
<1>15. meta' # <<>>
  BY <1>9, <1>1
<1>16. Shape'
  BY <1>0, <1>8, <1>9, <1>10, <1>11, <1>13, <1>14, <1>15 DEF Shape
<1>17. ASSUME NEW i \in 1..n
       PROVE  /\ Sound(file.defs'[i], meta'[i].imports, Pending(i)')
              /\ Owed(file.defs'[i], meta'[i].imports, Pending(i)')
  <2>1. Pending(i) = {}
    BY <1>0, NoElements DEF Pending
  <2>2. Pending(i)' = {}
    BY <1>1, <1>9 DEF Pending
  <2>3. Sound(file.defs[i], meta[i].imports, {}) /\ Owed(file.defs[i], meta[i].imports, {})
    BY <1>1, <2>1 DEF Walk
  <2> QED
    BY <1>8, <1>9, <2>2, <2>3
<1>18. Sound(d, {}, ToSet(d.members)) /\ Owed(d, {}, ToSet(d.members))
  BY <1>2, NoElements DEF Sound, Owed, TreesOf, NoGap, NamedIn
<1>19. /\ Sound(file.defs'[n + 1], meta'[n + 1].imports, Pending(n + 1)')
       /\ Owed(file.defs'[n + 1], meta'[n + 1].imports, Pending(n + 1)')
  <2>1. Pending(n + 1)' = ToSet(d.members)
    BY <1>8, <1>9 DEF Pending
  <2> QED
    BY <1>3, <1>7, <1>8, <1>9, <1>18, <2>1
<1>20. \A i \in DOMAIN meta' : i \in 1..n \/ i = n + 1
  BY <1>1, <1>9
<1> QED
  BY <1>16, <1>17, <1>19, <1>20 DEF Walk

\* A node is visited for the last entry; the others do not change.
LEMMA VisitWalk ==
    ASSUME Walk, Visit
    PROVE  Walk'
<1> DEFINE x == Head(todo)
           found == IF x.k = "use" THEN Uses(x) ELSE Access(x)
<1>0. Shape /\ todo # <<>> /\ result = "walk"
  BY DEF Walk, Visit
<1>n. PICK n \in Nat : n = Len(meta)
  BY <1>0 DEF Shape
<1>1. /\ meta \in Seq(Entry) /\ n \in Nat \ {0} /\ DOMAIN meta = 1..n /\ n \in DOMAIN meta
      /\ todo \in Seq(Nodes) /\ x \in Nodes /\ Tail(todo) \in Seq(Nodes)
  BY <1>0, <1>n DEF Shape
<1>2. ToSet(todo) = {x} \cup ToSet(Tail(todo))
  BY <1>0, <1>1, HeadAndTail
<1>3. meta[n] \in Entry /\ Len(file.defs) \in Nat /\ DOMAIN file.defs = 1..Len(file.defs)
        /\ n <= Len(file.defs) /\ file.defs[n] \in Definitions
  <2>1. file.defs \in Seq(Definitions)
    BY <1>0, FilesAssumption DEF Shape
  <2>2. defs \in Seq(Definitions) /\ Len(defs) \in Nat /\ n + Len(defs) = Len(file.defs)
    BY <1>0, <1>n DEF Shape
  <2>3. n <= Len(file.defs) /\ n \in 1..Len(file.defs)
    BY <2>1, <2>2, <1>1
  <2>4. file.defs[n] \in Definitions
    BY <2>1, <2>3, ElementOfSeq, Zenon
  <2>5. meta[n] \in Entry
    BY <1>1, ElementOfSeq
  <2> QED
    BY <2>1, <2>3, <2>4, <2>5
<1>4. Sound(file.defs[n], meta[n].imports, {x} \cup ToSet(Tail(todo)))
        /\ Owed(file.defs[n], meta[n].imports, {x} \cup ToSet(Tail(todo)))
  <2>1. Pending(n) = {x} \cup ToSet(Tail(todo))
    BY <1>n, <1>2 DEF Pending
  <2> QED
    BY <1>1, <2>1 DEF Walk
<1>5. /\ Parts(x) \o Tail(todo) \in Seq(Nodes)
      /\ Sound(file.defs[n], meta[n].imports \cup found, ToSet(Parts(x) \o Tail(todo)))
      /\ Owed(file.defs[n], meta[n].imports \cup found, ToSet(Parts(x) \o Tail(todo)))
  <2> HIDE DEF x
  <2> QED
    BY <1>1, <1>3, <1>4, VisitNode
<1>6. found \subseteq Mentions
  BY <1>1 DEF Uses, Access, Mentions
<1>7. /\ file' = file /\ address' = address /\ result' = result /\ defs' = defs
      /\ meta' = [meta EXCEPT ![n].imports = @ \cup found]
      /\ todo' = Parts(x) \o Tail(todo)
  BY <1>n DEF Visit
<1> HIDE DEF found, x
<1>8. [meta[n] EXCEPT !.imports = @ \cup found] \in Entry
  BY <1>3, <1>6 DEF Entry
<1>9. /\ meta' \in Seq(Entry) /\ Len(meta') = n /\ DOMAIN meta' = 1..n
      /\ \A i \in 1..n : i # n => meta'[i] = meta[i]
      /\ meta'[n].imports = meta[n].imports \cup found
  <2>1. meta' = [meta EXCEPT ![n] = [meta[n] EXCEPT !.imports = @ \cup found]]
    BY <1>7
  <2>2. meta' \in Seq(Entry) /\ Len(meta') = n /\ DOMAIN meta' = 1..n
    BY <2>1, <1>n, <1>1, <1>8
  <2>3. \A i \in 1..n : i # n => meta'[i] = meta[i]
    BY <2>1, <1>1
  <2>4. meta'[n] = [meta[n] EXCEPT !.imports = @ \cup found]
    BY <2>1, <1>1
  <2>5. meta'[n].imports = meta[n].imports \cup found
    BY <2>4, <1>3 DEF Entry
  <2> QED
    BY <2>2, <2>3, <2>5
<1>10. meta' # <<>>
  BY <1>1, <1>9
<1>11. Shape'
  BY <1>0, <1>5, <1>7, <1>9, <1>10 DEF Shape
<1>12. ASSUME NEW i \in 1..n, i # n
       PROVE  /\ Sound(file.defs'[i], meta'[i].imports, Pending(i)')
              /\ Owed(file.defs'[i], meta'[i].imports, Pending(i)')
  <2>1. Pending(i) = {} /\ Pending(i)' = {}
    BY <1>n, <1>9, <1>12 DEF Pending
  <2>2. Sound(file.defs[i], meta[i].imports, {}) /\ Owed(file.defs[i], meta[i].imports, {})
    BY <1>1, <2>1 DEF Walk
  <2> QED
    BY <1>7, <1>9, <1>12, <2>1, <2>2
<1>13. /\ Sound(file.defs'[n], meta'[n].imports, Pending(n)')
       /\ Owed(file.defs'[n], meta'[n].imports, Pending(n)')
  <2>1. Pending(n)' = ToSet(Parts(x) \o Tail(todo))
    BY <1>7, <1>9 DEF Pending
  <2> QED
    BY <1>5, <1>7, <1>9, <2>1
<1> QED
  BY <1>9, <1>11, <1>12, <1>13 DEF Walk

LEMMA NextWalk == Walk /\ [Next]_vars => Walk'
<1> SUFFICES ASSUME Walk, [Next]_vars PROVE Walk'
  OBVIOUS
<1>1. CASE Enter
  BY <1>1, EnterWalk
<1>2. CASE Visit
  BY <1>2, VisitWalk
<1>3. ASSUME UNCHANGED <<file, defs, todo, meta>>, Shape' PROVE Walk'
  <2>1. \A i : Pending(i)' = Pending(i)
    BY <1>3 DEF Pending
  <2> QED
    BY <1>3, <2>1 DEF Walk
<1>4. CASE Unparsed \/ NoAddressForModule \/ Collected \/ UNCHANGED vars
  <2>1. Shape'
    BY <1>4 DEF Unparsed, NoAddressForModule, Collected, vars, Walk, Shape
  <2>2. UNCHANGED <<file, defs, todo, meta>>
    BY <1>4 DEF Unparsed, NoAddressForModule, Collected, vars
  <2> QED
    BY <1>3, <2>1, <2>2
<1> QED
  BY <1>1, <1>2, <1>4 DEF Next

\* What the walk of source_meta owes is always under a node it has yet to visit.
THEOREM AlwaysWalk == Spec => []Walk
  BY InitWalk, NextWalk, PTL DEF Spec

\* Every definition is still to be visited or has its entry, and every entry is filed under an
\* address (from_definition, meta.rs).
THEOREM TypeCorrect == Spec => []TypeOK
<1>1. Walk => TypeOK
  <2> SUFFICES ASSUME Walk PROVE TypeOK
    OBVIOUS
  <2>1. Shape /\ meta \in Seq(Entry)
    BY DEF Walk, Shape
  <2>2. \A i \in DOMAIN meta : meta[i] \in Entry
    BY <2>1
  <2>3. \A i \in DOMAIN meta : meta[i].id[1] \in Addresses \cup {CoreCode}
    BY <2>2 DEF Entry, Owners
  <2> QED
    BY <2>1, <2>3 DEF TypeOK, Shape
<1> QED
  BY <1>1, AlwaysWalk, PTL

\* The imports of an accepted file are the modules that its definitions name, in trees of any
\* depth, except for what the walk does not look at (the usages functions of meta.rs).
THEOREM ImportsCompleteTheorem == Spec => []ImportsComplete
<1>1. Walk => ImportsComplete
  <2> SUFFICES ASSUME Walk, result = "ok" PROVE ImportsComplete
    BY DEF ImportsComplete
  <2>1. Shape /\ todo = <<>> /\ defs = <<>>
    BY DEF Walk, Shape
  <2>2. Len(meta) = Len(file.defs)
    BY <2>1, FilesAssumption DEF Shape
  <2>3. \A i \in DOMAIN meta : Pending(i) = {}
    BY <2>1, NoElements DEF Pending
  <2>4. ASSUME NEW i \in DOMAIN meta
        PROVE  /\ meta[i].imports \subseteq NamedIn(file.defs[i])
               /\ NoGap(file.defs[i]) => meta[i].imports = NamedIn(file.defs[i])
    <3>1. Sound(file.defs[i], meta[i].imports, {}) /\ Owed(file.defs[i], meta[i].imports, {})
      BY <2>3, <2>4 DEF Walk
    <3> QED
      BY <3>1 DEF Sound, Owed
  <2> QED
    BY <2>2, <2>4 DEF ImportsComplete
<1> QED
  BY <1>1, AlwaysWalk, PTL
=============================================================================
