------------------------------ MODULE Stamper ------------------------------
(***************************************************************************)
(* Pass 2 of the extraction (src/src/extract/Stamper.cpp): every occurrence *)
(* of the elaborated tree is stamped from the template its group was built *)
(* into, with ids drawn from counters that run across the whole design.    *)
(*                                                                         *)
(* The recursion of stampBody is a stack of frames, one per occurrence     *)
(* being stamped, and one action is one piece of work the code does without *)
(* going through another occurrence: the rows of a body, the recursion     *)
(* guard, the ids and interface bindings of its children, one child, the   *)
(* connections of a child that has returned.  After the tree come the      *)
(* packages, then the hierarchical references, then the dependencies that  *)
(* waited for them.                                                        *)
(*                                                                         *)
(* Indices into a template start at 1 here and 0 is the code's -1; ids     *)
(* start at 1 and 0 is SQL's NULL, as in the code.  The tables whose rows  *)
(* only name rows of their own occurrence (term_map, procedure, branch,    *)
(* stmt, call_site and the like) are all stamped alike and are the set     *)
(* Plain; each of their rows is the set of the rows it names.              *)
(***************************************************************************)
EXTENDS Integers, Sequences, FiniteSets

CONSTANTS
    Name,       \* path segments, net names and definition names
    Tpl,        \* the templates pass 1 built, by group key
    Plain,      \* the tables of purely local rows
    Designs     \* the designs pass 1 may hand over

Reserved == Plain \cup {"net", "term", "ref", "dep"}
Counter == Reserved \cup {"node", "conn"}

Scope == [name : Name, parent : Nat]
Prim == [name : Name, scope : Nat]
Conn == [iface : BOOLEAN, term : Nat, seg : Nat, net : Nat, ref : Nat,
         child : Nat, ownTerm : Nat, ownSeg : Nat]
Child == [name : Name, kind : {"module", "unresolved"}, scope : Nat,
          tpl : Tpl, ports : Nat, conns : Seq(Conn)]
Route == {"none", "downward", "upward", "absolute", "iface", "package"}
Ref == [route : Route, anchor : Name, term : Nat, seg : Nat,
        segs : Seq(Name), net : Name]
End == [net : Nat, ref : Nat]
Dep == [src : End, tgt : End, sourceless : BOOLEAN,
        links : SUBSET (Plain \X Nat)]
Body == [def : Name, scopes : Seq(Scope), prims : Seq(Prim), nets : Seq(Name),
         terms : Nat, rows : [Plain -> Seq(SUBSET (Reserved \X Nat))],
         refs : Seq(Ref), deps : Seq(Dep), children : Seq(Child)]
Design == [tops : Seq([name : Name, tpl : Tpl]), body : [Tpl -> Body],
           packages : Seq([name : Name, nets : Seq(Name)])]

ASSUME DesignsTyped == Designs \subseteq Design
ASSUME PlainTyped == Plain \cap {"net", "term", "ref", "dep", "node", "conn"} = {}

VARIABLES
    design,     \* the templates and the elaborated tops, pass 1's output
    phase,      \* "tree", "packages", "refs", "deps", "done"
    cursor,     \* how many tops, packages or queued jobs the phase has done
    stack,      \* the occurrences stampBody is inside, outermost first
    onPath,     \* the templates the recursion guard holds
    last,       \* the last id each table issued
    tree,       \* tree_node rows
    inst,       \* inst rows
    net, term,  \* net and terminal rows
    rows,       \* the rows of the Plain tables
    conn,       \* net_conn rows
    ref,        \* hier_ref rows
    dep,        \* net_dep rows
    childByName, parentOf, nodeTemplate, packageByName,
    replayJobs, crossJobs,
    stats

dbVars == <<tree, inst, net, term, rows, conn, ref, dep>>
mapVars == <<childByName, parentOf, nodeTemplate, packageByName>>
vars == <<design, phase, cursor, stack, onPath, last, dbVars, mapVars,
          replayJobs, crossJobs, stats>>

-----------------------------------------------------------------------------
(* Template-local data.                                                    *)

BodyOf(t) == design.body[t]

Deferred(d) == d.src.ref # 0 \/ d.tgt.ref # 0

\* The dependencies of a body that are written with it.
Inline(b) == {i \in 1..Len(b.deps) : ~Deferred(b.deps[i])}

\* The place of i among the indices of S.
Rank(S, i) == Cardinality({j \in S : j <= i})
InOrder(S) == [k \in 1..Cardinality(S) |-> CHOOSE i \in S : Rank(S, i) = k]

\* How many ids one occurrence of body b takes from the block of each table.
Size(b, tab) == CASE tab = "net" -> Len(b.nets)
                  [] tab = "term" -> b.terms
                  [] tab = "ref" -> Len(b.refs)
                  [] tab = "dep" -> Cardinality(Inline(b))
                  [] OTHER -> Len(b.rows[tab])

\* What pass 1 promises of its indices: they are the template's own (each is
\* the place a row had in the vector it was appended to), an end leaves the
\* instance or stays in it, and every connection of a black box has one of
\* its terminals.
RowsLocal(b) ==
    \A tab \in Plain : \A i \in 1..Len(b.rows[tab]) : \A l \in b.rows[tab][i] :
        l[1] \in {"net", "term"} \cup Plain /\ l[2] \in 1..Size(b, l[1])
EndLocal(b, e) ==
    /\ e.net \in 0..Len(b.nets) /\ e.ref \in 0..Len(b.refs)
    /\ e.net = 0 \/ e.ref = 0
DepsLocal(b) ==
    \A i \in 1..Len(b.deps) :
        LET d == b.deps[i]
        IN  /\ EndLocal(b, d.src) /\ EndLocal(b, d.tgt)
            /\ d.tgt.net # 0 \/ d.tgt.ref # 0
            /\ \A l \in d.links : l[2] \in 1..Len(b.rows[l[1]])
ConnsLocal(d, b) ==
    \A i \in 1..Len(b.children) : \A k \in 1..Len(b.children[i].conns) :
        LET c == b.children[i]
            cn == c.conns[k]
        IN  /\ cn.net \in 0..Len(b.nets) /\ cn.ref \in 0..Len(b.refs)
            /\ cn.term \in IF c.kind = "module" THEN 0..d.body[c.tpl].terms
                            ELSE 1..c.ports
ASSUME IndicesLocal ==
    \A d \in Designs, t \in Tpl :
        RowsLocal(d.body[t]) /\ DepsLocal(d.body[t]) /\ ConnsLocal(d, d.body[t])

\* A generate level lies in the instance or in a level before it, a primitive
\* and a child in one of them.
ScopesLocal(b) ==
    /\ \A i \in 1..Len(b.scopes) : b.scopes[i].parent \in 0..(i - 1)
    /\ \A i \in 1..Len(b.prims) : b.prims[i].scope \in 0..Len(b.scopes)
    /\ \A i \in 1..Len(b.children) : b.children[i].scope \in 0..Len(b.scopes)
ASSUME ScopesKnown == \A d \in Designs, t \in Tpl : ScopesLocal(d.body[t])

\* A connection to an interface names a child and a terminal of its template,
\* and a segment that no other connection of the child has: the segments of a
\* terminal are counted up.
IfacesLocal(b) ==
    \A i \in 1..Len(b.children) : b.children[i].kind = "module" =>
        \A k \in 1..Len(b.children[i].conns) :
            LET conns == b.children[i].conns
                cn == conns[k]
            IN  cn.iface /\ cn.term # 0 =>
                  /\ cn.child \in 0..Len(b.children) /\ cn.ownTerm \in 0..b.terms
                  /\ \A m \in 1..Len(conns) :
                        conns[m].term = cn.term /\ conns[m].seg = cn.seg => m = k
ASSUME SegmentsOnce == \A d \in Designs, t \in Tpl : IfacesLocal(d.body[t])

StampId(base, i) == IF i = 0 THEN 0 ELSE base + i

First(S) == CHOOSE x \in S : \A y \in S : x <= y

\* The scope each tree node below an occurrence sits in, in stamping order:
\* generate levels, primitives, children.
Levels(b) == [i \in 1..Len(b.scopes) |-> b.scopes[i].parent]
             \o [i \in 1..Len(b.prims) |-> b.prims[i].scope]
             \o [i \in 1..Len(b.children) |-> b.children[i].scope]

\* A bug: one counter for the occurrence instead of one per scope.
OrdinalInInstance(b, k) == k - 1

\* siblingOrdinal: the position of the k-th of those nodes in its scope.
Ordinal(b, k) ==
    Cardinality({j \in 1..(k - 1) : Levels(b)[j] = Levels(b)[k]})

IndexOf(names, n) ==
    LET at == {i \in 1..Len(names) : names[i] = n}
    IN  IF at = {} THEN 0 ELSE First(at)

-----------------------------------------------------------------------------
(* The by-name map: the first node of a name under a parent keeps it.      *)

NoteChildren(nodes) ==
    LET keys == {<<n.parent, n.name>> : n \in nodes}
        taken == DOMAIN childByName
    IN  /\ childByName' =
             [k \in taken \cup keys |->
                IF k \in taken THEN childByName[k]
                ELSE First({n.id : n \in {m \in nodes :
                                            <<m.parent, m.name>> = k}})]
        /\ parentOf' = [i \in DOMAIN parentOf \cup {n.id : n \in nodes} |->
                          IF \E n \in nodes : n.id = i
                          THEN (CHOOSE n \in nodes : n.id = i).parent
                          ELSE parentOf[i]]

\* A bug: collisions among the nodes of one body go uncounted.
CollisionsWithEarlier(nodes) ==
    Cardinality({n \in nodes : <<n.parent, n.name>> \in DOMAIN childByName})

\* What NoteChildren adds to stats.duplicatePaths.
Collisions(nodes) ==
    Cardinality(nodes)
      - Cardinality({<<n.parent, n.name>> : n \in nodes} \ DOMAIN childByName)

-----------------------------------------------------------------------------
(* The occurrence being stamped.                                           *)

NoBase == [tab \in Reserved |-> 0]

\* A bug: the bases of an occurrence start as the null index.
NewFrameUnset(t, i, bind) ==
    [tpl |-> t, inst |-> i, bind |-> bind, stage |-> "rows", base |-> NoBase,
     scopeBase |-> -1, childBase |-> -1, next |-> 1, termBase |-> 0]

NewFrame(t, i, bind) ==
    [tpl |-> t, inst |-> i, bind |-> bind, stage |-> "rows", base |-> NoBase,
     scopeBase |-> 0, childBase |-> 0, next |-> 1, termBase |-> 0]

Top == stack[Len(stack)]
Replace(f) == [stack EXCEPT ![Len(stack)] = f]
Pop == SubSeq(stack, 1, Len(stack) - 1)

At(stage) == phase = "tree" /\ stack # <<>> /\ Top.stage = stage

\* The tree node of scope s of the occurrence f stamps; 0 is the instance.
ScopeNode(f, s) == IF s = 0 THEN f.inst ELSE f.scopeBase + s

\* A bug: a port is taken to be bound to one instance, whatever the segment.
BoundToAny(bind, t, s) ==
    LET m == {e \in bind : e.term = t}
    IN  IF m = {} THEN 0 ELSE (CHOOSE e \in m : TRUE).inst

\* The instance segment s of terminal t is bound to, 0 if none.
BoundTo(bind, t, s) ==
    LET m == {e \in bind : e.term = t /\ e.seg = s}
    IN  IF m = {} THEN 0 ELSE (CHOOSE e \in m : TRUE).inst

\* A bug: the segment forwarded is taken to be the child's own.
BoundSameSegment(f, k) ==
    CASE k.child # 0 -> f.childBase + k.child
      [] k.child = 0 /\ k.ownTerm # 0 -> BoundTo(f.bind, k.ownTerm, k.seg)
      [] OTHER -> 0

\* The interface instance connection k of a child carries: a sibling of the
\* child, or what the segment named of the occurrence's own port is bound to.
Bound(f, k) == CASE k.child # 0 -> f.childBase + k.child
                 [] k.child = 0 /\ k.ownTerm # 0 ->
                      BoundTo(f.bind, k.ownTerm, k.ownSeg)
                 [] OTHER -> 0

\* childIfaceBind: per terminal segment of child c, the instance bound to it;
\* the last connection to a segment wins.
BindOf(f, c) ==
    LET at(i) == <<c.conns[i].term, c.conns[i].seg>>
        binding == {i \in 1..Len(c.conns) :
                      /\ c.conns[i].iface
                      /\ c.conns[i].term \in 1..BodyOf(c.tpl).terms}
        winning == {i \in binding :
                      \A j \in binding : at(j) = at(i) => j <= i}
    IN  {[term |-> c.conns[i].term, seg |-> c.conns[i].seg,
          inst |-> Bound(f, c.conns[i])] : i \in winning}

NodeRow(id, parent, name, kind, ord) ==
    [id |-> id, parent |-> parent, name |-> name, kind |-> kind, ord |-> ord]

InstRow(id, t, parent) == [id |-> id, tpl |-> {t}, parent |-> parent]
BlackBoxRow(id, parent) == [id |-> id, tpl |-> {}, parent |-> parent]

-----------------------------------------------------------------------------
Init ==
    /\ design \in Designs
    /\ phase = "tree" /\ cursor = 0
    /\ stack = <<>> /\ onPath = {}
    /\ last = [c \in Counter |-> 0]
    /\ tree = {} /\ inst = {} /\ net = {} /\ term = {} /\ conn = {}
    /\ rows = [tab \in Plain |-> {}] /\ ref = {} /\ dep = {}
    /\ childByName = <<>> /\ parentOf = <<>>
    /\ nodeTemplate = <<>> /\ packageByName = <<>>
    /\ replayJobs = <<>> /\ crossJobs = <<>>
    /\ stats = [duplicatePaths |-> 0, recursive |-> 0, stamped |-> 0,
                insts |-> 0, conns |-> 0, deps |-> 0]

(* The next top instance: its node, its inst row, and its body to stamp.   *)
StampTop ==
    /\ phase = "tree" /\ stack = <<>> /\ cursor < Len(design.tops)
    /\ LET top == design.tops[cursor + 1]
           id == last["node"] + 1
           node == NodeRow(id, 0, top.name, "root", cursor)
       IN  /\ last' = [last EXCEPT !["node"] = id]
           /\ NoteChildren({node})
           /\ tree' = tree \cup {node}
           /\ inst' = inst \cup {InstRow(id, top.tpl, 0)}
           /\ stack' = <<NewFrame(top.tpl, id, {})>>
           /\ stats' = [stats EXCEPT !.insts = @ + 1,
                          !.duplicatePaths = @ + Collisions({node})]
    /\ cursor' = cursor + 1
    /\ UNCHANGED <<design, phase, onPath, net, term, rows, conn, ref, dep,
                   nodeTemplate, packageByName, replayJobs, crossJobs>>

\* The generate levels and primitives of a body as tree nodes: consecutive
\* ids, levels first.
BodyNodes(f, b) ==
    LET s == Len(b.scopes)
    IN  {NodeRow(f.scopeBase + i, ScopeNode(f, b.scopes[i].parent),
                 b.scopes[i].name, "generate", Ordinal(b, i)) : i \in 1..s}
        \cup
        {NodeRow(f.scopeBase + s + i, ScopeNode(f, b.prims[i].scope),
                 b.prims[i].name, "primitive", Ordinal(b, s + i)) :
           i \in 1..Len(b.prims)}

\* A bug: a row that names another table's row is moved by its own base.
MovedByOwnBase(f, tab, i) ==
    [id |-> f.base[tab] + i, inst |-> f.inst,
     links |-> {<<l[1], f.base[tab] + l[2]>> : l \in BodyOf(f.tpl).rows[tab][i]}]

\* The rows a row names, moved into the id space of one occurrence.
StampLinks(base, links) == {<<l[1], base[l[1]] + l[2]>> : l \in links}

\* A row of a Plain table, moved into the id space of one occurrence.
Moved(f, tab, i) ==
    [id |-> f.base[tab] + i, inst |-> f.inst,
     links |-> StampLinks(f.base, BodyOf(f.tpl).rows[tab][i])]

\* A dependency that stays in the occurrence.  inst and idx say whose it is
\* and which: they stand for the columns copied from the template.
InlineDep(f, i) ==
    LET b == BodyOf(f.tpl)
        d == b.deps[i]
    IN  [id |-> f.base["dep"] + Rank(Inline(b), i), inst |-> f.inst, idx |-> i,
         links |-> StampLinks(f.base, d.links),
         src |-> StampId(f.base["net"], d.src.net), srcRef |-> 0,
         tgt |-> f.base["net"] + d.tgt.net, tgtRef |-> 0]

(* The rows of one occurrence's body: the nodes below it, a block of ids   *)
(* per table, the rows of every table but the deferred dependencies, and   *)
(* the jobs the final passes replay.                                       *)
StampRows ==
    /\ At("rows")
    /\ LET b == BodyOf(Top.tpl)
           f == [Top EXCEPT !.stage = "guard",
                            !.base = [tab \in Reserved |-> last[tab]],
                            !.scopeBase = last["node"]]
           nodes == BodyNodes(f, b)
           queued == InOrder((1..Len(b.deps)) \ Inline(b))
       IN  /\ last' = [c \in Counter |->
                         CASE c \in Reserved -> last[c] + Size(b, c)
                           [] c = "node" ->
                                last[c] + Len(b.scopes) + Len(b.prims)
                           [] OTHER -> last[c]]
           /\ NoteChildren(nodes)
           /\ tree' = tree \cup nodes
           /\ net' = net \cup {[id |-> f.base["net"] + i, inst |-> f.inst,
                                name |-> b.nets[i]] : i \in 1..Len(b.nets)}
           /\ term' = term \cup {[id |-> f.base["term"] + i, inst |-> f.inst] :
                                   i \in 1..b.terms}
           /\ rows' = [tab \in Plain |-> rows[tab] \cup
                         {Moved(f, tab, i) : i \in 1..Len(b.rows[tab])}]
           /\ dep' = dep \cup {InlineDep(f, i) : i \in Inline(b)}
           /\ crossJobs' = crossJobs \o
                [i \in 1..Len(queued) |->
                   [tpl |-> f.tpl, idx |-> queued[i], base |-> f.base,
                    inst |-> f.inst]]
           /\ replayJobs' = replayJobs \o
                [i \in 1..Len(b.refs) |->
                   [id |-> f.base["ref"] + i, inst |-> f.inst, tpl |-> f.tpl,
                    idx |-> i, bind |-> f.bind]]
           /\ nodeTemplate' = [i \in DOMAIN nodeTemplate \cup {f.inst} |->
                IF i = f.inst THEN [tpl |-> f.tpl, net |-> f.base["net"]]
                ELSE nodeTemplate[i]]
           /\ stack' = Replace(f)
           /\ stats' = [stats EXCEPT !.stamped = @ + 1,
                          !.deps = @ + Cardinality(Inline(b)),
                          !.duplicatePaths = @ + Collisions(nodes)]
    /\ UNCHANGED <<design, phase, cursor, onPath, inst, conn, ref,
                   packageByName>>

\* A bug: no recursion guard.
NeverRecurses == FALSE

Recurses == Top.tpl \in onPath

(* The recursion guard: an occurrence that is already one of its own       *)
(* ancestors keeps its rows and gets no children.                          *)
CutRecursion ==
    /\ At("guard") /\ Recurses
    /\ stats' = [stats EXCEPT !.recursive = @ + 1]
    /\ stack' = Pop
    /\ UNCHANGED <<design, phase, cursor, onPath, last, dbVars, mapVars,
                   replayJobs, crossJobs>>

(* Otherwise every child's node id is issued before any child is stamped,  *)
(* so that an interface binding can name a later sibling.                  *)
EnterChildren ==
    /\ At("guard") /\ ~Recurses
    /\ onPath' = onPath \cup {Top.tpl}
    /\ stack' = Replace([Top EXCEPT !.stage = "kids",
                                    !.childBase = last["node"]])
    /\ last' = [last EXCEPT !["node"] = @ + Len(BodyOf(Top.tpl).children)]
    /\ UNCHANGED <<design, phase, cursor, dbVars, mapVars, replayJobs,
                   crossJobs, stats>>

NextChild == BodyOf(Top.tpl).children[Top.next]

\* A bug: the last child is never reached.
ChildDueBeforeLast == At("kids") /\ Top.next < Len(BodyOf(Top.tpl).children)

ChildDue == At("kids") /\ Top.next <= Len(BodyOf(Top.tpl).children)

\* A bug: children are numbered from the base itself.
ChildIdFromZero == Top.childBase + Top.next - 1

ChildId == Top.childBase + Top.next

ChildNode(kind) ==
    LET b == BodyOf(Top.tpl)
    IN  NodeRow(ChildId, ScopeNode(Top, NextChild.scope), NextChild.name, kind,
                Ordinal(b, Len(b.scopes) + Len(b.prims) + Top.next))

(* A child module: its node and inst rows; its body is stamped next, and   *)
(* the parent remembers where its terminals will start.                    *)
StampChildModule ==
    /\ ChildDue /\ NextChild.kind = "module"
    /\ LET node == ChildNode("instance")
       IN  /\ NoteChildren({node})
           /\ tree' = tree \cup {node}
           /\ inst' = inst \cup {InstRow(ChildId, NextChild.tpl, Top.inst)}
           /\ stats' = [stats EXCEPT !.insts = @ + 1,
                          !.duplicatePaths = @ + Collisions({node})]
    /\ stack' = Append(Replace([Top EXCEPT !.stage = "conns",
                                           !.termBase = last["term"]]),
                       NewFrame(NextChild.tpl, ChildId, BindOf(Top, NextChild)))
    /\ UNCHANGED <<design, phase, cursor, onPath, last, net, term, rows, conn,
                   ref, dep, nodeTemplate, packageByName, replayJobs,
                   crossJobs>>

\* A connection row of a child, in the id space of the parent f stamps.
ConnRow(f, id, k, termId) ==
    [id |-> id, term |-> termId, seg |-> k.seg,
     net |-> StampId(f.base["net"], k.net),
     ref |-> StampId(f.base["ref"], k.ref),
     iface |-> IF k.iface THEN Bound(f, k) ELSE 0]

\* A bug: the child's terminals are taken to be the last ones issued.
ChildTermLast(k) == last["term"] - BodyOf(NextChild.tpl).terms + k.term

ChildTerm(k) == Top.termBase + k.term

(* The child has returned: its connections, in the parent's id space.  One *)
(* with no terminal has nowhere to hang and takes no id.                   *)
StampConns ==
    /\ At("conns")
    /\ LET k == NextChild.conns
           made == {i \in 1..Len(k) : k[i].term # 0}
       IN  /\ conn' = conn \cup
                {ConnRow(Top, last["conn"] + Rank(made, i), k[i],
                         ChildTerm(k[i])) : i \in made}
           /\ last' = [last EXCEPT !["conn"] = @ + Cardinality(made)]
           /\ stats' = [stats EXCEPT !.conns = @ + Cardinality(made)]
    /\ stack' = Replace([Top EXCEPT !.stage = "kids", !.next = @ + 1])
    /\ UNCHANGED <<design, phase, cursor, onPath, tree, inst, net, term, rows,
                   ref, dep, mapVars, replayJobs, crossJobs>>

(* A black box: a terminal per named connection and the connections, all   *)
(* at once; here a connection takes its id before its terminal is checked. *)
StampUnresolved ==
    /\ ChildDue /\ NextChild.kind = "unresolved"
    /\ LET node == ChildNode("unresolved")
           k == NextChild.conns
           made == {i \in 1..Len(k) : k[i].term \in 1..NextChild.ports}
       IN  /\ NoteChildren({node})
           /\ tree' = tree \cup {node}
           /\ inst' = inst \cup {BlackBoxRow(ChildId, Top.inst)}
           /\ term' = term \cup {[id |-> last["term"] + i, inst |-> ChildId] :
                                   i \in 1..NextChild.ports}
           /\ conn' = conn \cup
                {ConnRow(Top, last["conn"] + i,
                         [k[i] EXCEPT !.iface = FALSE],
                         last["term"] + k[i].term) : i \in made}
           /\ last' = [last EXCEPT !["term"] = @ + NextChild.ports,
                                   !["conn"] = @ + Len(k)]
           /\ stats' = [stats EXCEPT !.insts = @ + 1,
                          !.conns = @ + Cardinality(made),
                          !.duplicatePaths = @ + Collisions({node})]
    /\ stack' = Replace([Top EXCEPT !.next = @ + 1])
    /\ UNCHANGED <<design, phase, cursor, onPath, net, rows, ref, dep,
                   nodeTemplate, packageByName, replayJobs, crossJobs>>

\* A bug: the guard never lets go, and holds a history instead of a path.
ReturnKeepingGuard ==
    /\ At("kids") /\ Top.next > Len(BodyOf(Top.tpl).children)
    /\ stack' = Pop
    /\ UNCHANGED <<design, phase, cursor, onPath, last, dbVars, mapVars,
                   replayJobs, crossJobs, stats>>

(* The last child has returned: the guard lets go of the template.         *)
Return ==
    /\ At("kids") /\ Top.next > Len(BodyOf(Top.tpl).children)
    /\ onPath' = onPath \ {Top.tpl}
    /\ stack' = Pop
    /\ UNCHANGED <<design, phase, cursor, last, dbVars, mapVars, replayJobs,
                   crossJobs, stats>>

-----------------------------------------------------------------------------
(* A package: a pseudo-occurrence above the roots, with its variables as   *)
(* nets.  It is not a child of the root by name: its paths use `::'.       *)
StampPackage ==
    /\ phase = "packages" /\ cursor < Len(design.packages)
    /\ LET p == design.packages[cursor + 1]
           id == last["node"] + 1
           nets == {[id |-> last["net"] + i, inst |-> id, name |-> p.nets[i]] :
                      i \in 1..Len(p.nets)}
           member(n) == First({r.id : r \in {m \in nets : m.name = n}})
       IN  /\ last' = [last EXCEPT !["node"] = id,
                                   !["net"] = @ + Len(p.nets)]
           /\ tree' = tree \cup
                {NodeRow(id, 0, p.name, "package", Len(design.tops) + cursor)}
           /\ inst' = inst \cup {BlackBoxRow(id, 0)}
           /\ net' = net \cup nets
           /\ packageByName' =
                [n \in DOMAIN packageByName \cup {p.name} |->
                   IF n \in DOMAIN packageByName THEN packageByName[n]
                   ELSE [m \in {r.name : r \in nets} |-> member(m)]]
    /\ cursor' = cursor + 1
    /\ stats' = [stats EXCEPT !.insts = @ + 1]
    /\ UNCHANGED <<design, phase, stack, onPath, term, rows, conn, ref, dep,
                   childByName, parentOf, nodeTemplate, replayJobs, crossJobs>>

-----------------------------------------------------------------------------
(* The walks of the reference replay, over the maps stamping left.         *)

\* The net named n of the occurrence at a node, or 0.
NetAt(node, n) ==
    IF node \notin DOMAIN nodeTemplate THEN 0
    ELSE LET at == IndexOf(BodyOf(nodeTemplate[node].tpl).nets, n)
         IN  StampId(nodeTemplate[node].net, at)

\* Down from a node by name, 0 when a segment is missing.
Descend(from, segs) ==
    LET down[i \in 0..Len(segs)] ==
          IF i = 0 THEN from
          ELSE IF i > 1 /\ down[i - 1] = 0 THEN 0
          ELSE IF <<down[i - 1], segs[i]>> \in DOMAIN childByName
               THEN childByName[<<down[i - 1], segs[i]>>] ELSE 0
    IN  down[Len(segs)]

\* A bug: a level answers as soon as the path is there, without the net.
LevelAnswerWithoutNet(level, r) ==
    LET named == {<<level, r.anchor>>} \cap DOMAIN childByName
    IN  {Descend(childByName[k], r.segs) : k \in named} \ {0}

\* What one level of the upward search answers with: the child the anchor
\* names, or the occurrence itself if it is an instance of that definition --
\* provided the rest of the path and the net at its end are really there.
LevelAnswer(level, r) ==
    LET named == {<<level, r.anchor>>} \cap DOMAIN childByName
        own == {level} \cap DOMAIN nodeTemplate
        tries == {childByName[k] : k \in named}
        self == {i \in own : BodyOf(nodeTemplate[i].tpl).def = r.anchor}
        carrying(S) == {n \in {Descend(i, r.segs) : i \in S} :
                          NetAt(n, r.net) # 0}
    IN  IF carrying(tries) # {} THEN carrying(tries) ELSE carrying(self)

\* LRM 23.8: from the occurrence outward, the first level that answers.
SearchUpward(from, r) ==
    LET up[i \in 0..last["node"]] ==
          IF i = 0 THEN from
          ELSE IF up[i - 1] \in DOMAIN parentOf THEN parentOf[up[i - 1]] ELSE 0
        answering == {i \in 0..last["node"] : LevelAnswer(up[i], r) # {}}
    IN  IF answering = {} THEN 0
        ELSE CHOOSE n \in LevelAnswer(up[First(answering)], r) : TRUE

\* The net a queued reference reaches, or 0.
Resolve(job) ==
    LET r == BodyOf(job.tpl).refs[job.idx]
        bound == BoundTo(job.bind, r.term, r.seg)
    IN  CASE r.route = "downward" -> NetAt(Descend(job.inst, r.segs), r.net)
          [] r.route = "upward" -> NetAt(SearchUpward(job.inst, r), r.net)
          [] r.route = "absolute" -> NetAt(Descend(0, r.segs), r.net)
          [] r.route = "iface" /\ bound # 0 ->
               NetAt(Descend(bound, r.segs), r.net)
          [] /\ r.route = "package" /\ r.segs # <<>>
             /\ Head(r.segs) \in DOMAIN packageByName
             /\ r.net \in DOMAIN packageByName[Head(r.segs)] ->
               packageByName[Head(r.segs)][r.net]
          [] OTHER -> 0

(* The next queued reference: its row is written whether it resolves or    *)
(* not.                                                                    *)
ResolveRef ==
    /\ phase = "refs" /\ cursor < Len(replayJobs)
    /\ LET job == replayJobs[cursor + 1]
       IN  ref' = ref \cup {[id |-> job.id, inst |-> job.inst,
                             tpl |-> job.tpl, idx |-> job.idx,
                             net |-> Resolve(job)]}
    /\ cursor' = cursor + 1
    /\ UNCHANGED <<design, phase, stack, onPath, last, tree, inst, net, term,
                   rows, conn, dep, mapVars, replayJobs, crossJobs, stats>>

\* resolvedNet: the net a written hier_ref row resolved to, 0 if it did not.
ResolvedNet(id) ==
    IF \E r \in ref : r.id = id THEN (CHOOSE r \in ref : r.id = id).net ELSE 0

\* One end of a queued dependency, as a row carries it.
EndNet(job, e) == IF e.net # 0 THEN job.base["net"] + e.net
                  ELSE IF e.ref # 0 THEN ResolvedNet(job.base["ref"] + e.ref)
                  ELSE 0
EndRef(job, e) == IF e.net = 0 THEN StampId(job.base["ref"], e.ref) ELSE 0

\* A bug: a target that did not resolve is written all the same.
WritableUnresolved(job, d) == d.src.net # 0 \/ d.src.ref # 0 \/ d.sourceless

\* A bug: a source that did not resolve is not written.
WritableResolvedSource(job, d) ==
    /\ EndNet(job, d.src) # 0 \/ d.sourceless
    /\ EndNet(job, d.tgt) # 0

\* A bug: one dependency for each reference it is written through.
WritableOnce(job, d) ==
    /\ d.src.net # 0 \/ d.src.ref # 0 \/ d.sourceless
    /\ EndNet(job, d.tgt) # 0
    /\ d.tgt.ref # 0 => \A x \in dep : x.tgtRef # EndRef(job, d.tgt)

Writable(job, d) ==
    /\ d.src.net # 0 \/ d.src.ref # 0 \/ d.sourceless
    /\ EndNet(job, d.tgt) # 0

\* A bug: the rows that evidence a dependency keep their template indices.
CrossRowUnmoved(id, job, d) ==
    [id |-> id, inst |-> job.inst, idx |-> job.idx, links |-> d.links,
     src |-> EndNet(job, d.src), srcRef |-> EndRef(job, d.src),
     tgt |-> EndNet(job, d.tgt), tgtRef |-> EndRef(job, d.tgt)]

CrossRow(id, job, d) ==
    [id |-> id, inst |-> job.inst, idx |-> job.idx,
     links |-> StampLinks(job.base, d.links),
     src |-> EndNet(job, d.src), srcRef |-> EndRef(job, d.src),
     tgt |-> EndNet(job, d.tgt), tgtRef |-> EndRef(job, d.tgt)]

(* The next queued dependency: dropped unless its target resolved and it   *)
(* has a source end or is sourceless by design; the source may stay NULL.  *)
CrossDep ==
    /\ phase = "deps" /\ cursor < Len(crossJobs)
    /\ LET job == crossJobs[cursor + 1]
           d == BodyOf(job.tpl).deps[job.idx]
       IN  IF Writable(job, d)
           THEN /\ dep' = dep \cup {CrossRow(last["dep"] + 1, job, d)}
                /\ last' = [last EXCEPT !["dep"] = @ + 1]
                /\ stats' = [stats EXCEPT !.deps = @ + 1]
           ELSE UNCHANGED <<dep, last, stats>>
    /\ cursor' = cursor + 1
    /\ UNCHANGED <<design, phase, stack, onPath, tree, inst, net, term, rows,
                   conn, ref, mapVars, replayJobs, crossJobs>>

-----------------------------------------------------------------------------
(* The order of run(): the module tree, the packages whose nets references *)
(* may name, the references, the dependencies their resolutions end.       *)

Work == CASE phase = "tree" -> Len(design.tops)
          [] phase = "packages" -> Len(design.packages)
          [] phase = "refs" -> Len(replayJobs)
          [] OTHER -> Len(crossJobs)

Advance ==
    /\ phase # "done" /\ stack = <<>> /\ cursor = Work
    /\ cursor' = 0
    /\ phase' = CASE phase = "tree" -> "packages"
                  [] phase = "packages" -> "refs"
                  [] phase = "refs" -> "deps"
                  [] OTHER -> "done"
    /\ UNCHANGED <<design, stack, onPath, last, dbVars, mapVars, replayJobs,
                   crossJobs, stats>>

Next == \/ StampTop \/ StampRows \/ CutRecursion \/ EnterChildren
        \/ StampChildModule \/ StampConns \/ StampUnresolved \/ Return
        \/ StampPackage \/ ResolveRef \/ CrossDep \/ Advance

Spec == Init /\ [][Next]_vars
FairSpec == Spec /\ WF_vars(Next)
=============================================================================
