------------------------- MODULE StamperProperties -------------------------
(***************************************************************************)
(* What must hold of the database Stamper writes.  Each property reads the *)
(* written rows against each other or against the design, not against the  *)
(* maps and counters the code used to write them.                          *)
(***************************************************************************)
EXTENDS Stamper

Ids(table) == {r.id : r \in table}
IsDense(table, n) == Ids(table) = 1..n /\ Cardinality(table) = n
RowOf(table, i) == CHOOSE r \in table : r.id = i
Bodied(i) == RowOf(inst, i).tpl # {}
BodyAt(i) == BodyOf(CHOOSE t \in RowOf(inst, i).tpl : TRUE)

Binding == [term : Nat, seg : Nat, inst : Nat]
Frame == [tpl : Tpl, inst : Nat, bind : SUBSET Binding,
          stage : {"rows", "guard", "kids", "conns"}, base : [Reserved -> Nat],
          scopeBase : Nat, childBase : Nat, next : Nat \ {0}, termBase : Nat]

(* The control state has the shapes the code gives it; every base and      *)
(* every binding of an occurrence being stamped is a number.               *)
TypeOK ==
    /\ design \in Designs
    /\ phase \in {"tree", "packages", "refs", "deps", "done"}
    /\ cursor \in Nat
    /\ onPath \in SUBSET Tpl
    /\ last \in [Counter -> Nat]
    /\ stack \in Seq(Frame)

-----------------------------------------------------------------------------
\* The node ids a frame has issued to children it has not stamped yet.
Promised(f) ==
    IF f.stage \notin {"kids", "conns"} THEN {}
    ELSE {f.childBase + i :
            i \in (IF f.stage = "conns" THEN f.next + 1 ELSE f.next)
                    ..Len(BodyOf(f.tpl).children)}
AllPromised == UNION {Promised(stack[i]) : i \in 1..Len(stack)}

(* The ids of every table are 1..n and each is issued once, though blocks  *)
(* are reserved before their rows are written, one node counter serves     *)
(* levels, primitives, instances and packages, and the children of an      *)
(* occurrence are promised theirs before the first of them is stamped.     *)
IdsIssuedOnce ==
    /\ IsDense(net, last["net"]) /\ IsDense(term, last["term"])
    /\ \A tab \in Plain : IsDense(rows[tab], last[tab])
    /\ IsDense(conn, last["conn"]) /\ IsDense(dep, last["dep"])
    /\ Ids(ref) \subseteq 1..last["ref"] /\ Cardinality(ref) = Cardinality(Ids(ref))
    /\ phase = "done" => Ids(ref) = 1..last["ref"]
    /\ Ids(tree) \cup AllPromised = 1..last["node"]
    /\ Ids(tree) \cap AllPromised = {}
    /\ Cardinality(tree) = Cardinality(Ids(tree))

(* A connection ties a terminal of the child to a net, or a reference, of  *)
(* the instance the child sits in: the term base taken before the child    *)
(* was stamped is still right after its whole subtree took ids.            *)
ConnEndsBelong ==
    \A c \in conn :
      /\ c.term \in Ids(term)
      /\ LET parent == RowOf(inst, RowOf(term, c.term).inst).parent
         IN  /\ c.net # 0 => c.net \in Ids(net) /\ RowOf(net, c.net).inst = parent
             /\ c.ref \in Ids(ref) => RowOf(ref, c.ref).inst = parent
             /\ c.ref # 0 /\ phase = "done" => c.ref \in Ids(ref)

(* A row names only rows of its own occurrence, whatever was stamped in    *)
(* between, and a connection the terminal of a child and a net or a         *)
(* reference of that child's parent.                                        *)
LinksStayHome ==
    /\ ConnEndsBelong
    /\ \A tab \in Plain : \A r \in rows[tab] : \A l \in r.links :
          LET table == CASE l[1] = "net" -> net [] l[1] = "term" -> term
                         [] OTHER -> rows[l[1]]
          IN  l[2] \in Ids(table) /\ RowOf(table, l[2]).inst = r.inst

-----------------------------------------------------------------------------
(* The children of an instance, in the order of the design.                *)
ChildOf(i, k) ==
    LET kids == {r.id : r \in {c \in inst : c.parent = i}}
    IN  CHOOSE c \in kids : Cardinality({x \in kids : x <= c}) = k

\* The id of the k-th terminal of instance i.
TermOf(i, k) ==
    LET own == {r.id : r \in {t \in term : t.inst = i}}
    IN  CHOOSE x \in own : Cardinality({y \in own : y <= x}) = k

\* What the connection rows say is bound to segment s of terminal t.
BoundRow(t, s) ==
    LET m == {c \in conn : c.term = t /\ c.seg = s}
    IN  IF m = {} THEN 0 ELSE (CHOOSE c \in m : TRUE).iface

\* The instances whose body was stamped with children.
Entered == {i \in Ids(inst) : \E c \in inst : c.parent = i}

(* Every interface connection of every occurrence names the instance the   *)
(* design ties it to: the sibling of that position, even one stamped       *)
(* later, or what the row of the occurrence's own port carries at the      *)
(* segment forwarded -- through any number of levels.                      *)
IfaceBindingFollowed ==
    phase = "done" =>
      \A i \in Entered : \A k \in 1..Len(BodyAt(i).children) :
        LET c == BodyAt(i).children[k]
        IN  c.kind = "module" =>
              \A n \in 1..Len(c.conns) :
                LET cn == c.conns[n]
                IN  (cn.iface /\ cn.term # 0) =>
                      BoundRow(TermOf(ChildOf(i, k), cn.term), cn.seg) =
                        CASE cn.child # 0 -> ChildOf(i, cn.child)
                          [] cn.child = 0 /\ cn.ownTerm # 0 ->
                               BoundRow(TermOf(i, cn.ownTerm), cn.ownSeg)
                          [] OTHER -> 0

-----------------------------------------------------------------------------
(* The recursion guard holds a path, not a history: exactly the templates  *)
(* of the occurrences whose children are being stamped, no two alike, so   *)
(* the stack is never deeper than the templates allow.                     *)
InChildren(i) == stack[i].stage \in {"kids", "conns"}

PathDistinct ==
    /\ onPath = {stack[i].tpl : i \in {j \in 1..Len(stack) : InChildren(j)}}
    /\ \A i, j \in 1..Len(stack) :
         InChildren(i) /\ InChildren(j) /\ stack[i].tpl = stack[j].tpl => i = j
    /\ Len(stack) <= Cardinality(Tpl) + 1

(* A design with a cycle in its template graph is stamped to the end.      *)
Terminates == <>(phase = "done")

\* The path of every occurrence: the position of each instance on the way to
\* it among the instances of its parent.
Occurrences == Ids(inst) \ {r.id : r \in {n \in tree : n.kind = "package"}}
Paths ==
    LET own == {r \in inst : r.id \in Occurrences}
        path[i \in Occurrences] ==
            LET parent == RowOf(inst, i).parent
                rank == Cardinality({r \in own : r.parent = parent /\ r.id <= i})
            IN  IF parent = 0 THEN <<rank>> ELSE Append(path[parent], rank)
    IN  path
Reached ==
    LET path == Paths
    IN  [p \in {path[i] : i \in Occurrences} |->
           RowOf(inst, CHOOSE i \in Occurrences : path[i] = p).tpl]

(* Stamping unfolds the design as Hierarchy says: every occurrence once,   *)
(* parents first, one level of re-entry and no more, siblings of one       *)
(* module both expanded, and nothing missing when the tree is done.        *)
H == INSTANCE Hierarchy WITH
       occ <- Reached,
       complete <- phase # "tree"
Unfolds == H!HSpec

-----------------------------------------------------------------------------
(* The nodes under one parent are numbered 0, 1, ... in the tree, though   *)
(* levels, primitives and children are numbered in three separate loops    *)
(* and the tops share their numbering with the packages.                   *)
SiblingOrdinals ==
    phase = "done" =>
      \A p \in {r.parent : r \in tree} :
        LET kids == {r \in tree : r.parent = p}
        IN  {r.ord : r \in kids} = 0..(Cardinality(kids) - 1)

(* The seal counts what the tables hold: a path counted as duplicated is   *)
(* a row whose name an earlier sibling has, and an instance counted as a   *)
(* recursive one stands under another of its own template.                 *)
InstAbove(i) ==
    LET up[n \in 0..Cardinality(inst)] ==
          IF n = 0 THEN RowOf(inst, i).parent
          ELSE IF up[n - 1] = 0 THEN 0 ELSE RowOf(inst, up[n - 1]).parent
    IN  {up[n] : n \in DOMAIN up} \ {0}

StatsAgree ==
    phase = "done" =>
      LET noted == {r \in tree : r.kind # "package"}
          bodies == {i \in Ids(inst) : Bodied(i)}
      IN  /\ stats.insts = Cardinality(inst)
          /\ stats.stamped = Cardinality(bodies)
          /\ stats.conns = Cardinality(conn)
          /\ stats.deps = Cardinality(dep)
          /\ stats.duplicatePaths =
               Cardinality(noted)
                 - Cardinality({<<r.parent, r.name>> : r \in noted})
          /\ stats.recursive =
               Cardinality({i \in bodies : \E a \in InstAbove(i) :
                              RowOf(inst, a).tpl = RowOf(inst, i).tpl})

(* The numbers a reader goes by are those of the rows: of siblings in the   *)
(* tree, and of the seal.                                                   *)
TreeCounted == SiblingOrdinals /\ StatsAgree

(* duplicate_path_count as scripts/verify-designdb.py:466-476 checks it:   *)
(* every tree node after the first of its parent and name, with no word    *)
(* about packages.                                                         *)
DuplicatesMatchTree ==
    phase = "done" =>
      stats.duplicatePaths =
        Cardinality(tree) - Cardinality({<<r.parent, r.name>> : r \in tree})

-----------------------------------------------------------------------------
(* The finished tree, read by name: the first row of a name stands for it. *)
Named(p, n) == {r.id : r \in {x \in tree : /\ x.parent = p /\ x.name = n
                                            /\ x.kind # "package"}}
Walk(from, segs) ==
    LET at[i \in 0..Len(segs)] ==
          IF i = 0 THEN {from}
          ELSE LET found == UNION {Named(p, segs[i]) : p \in at[i - 1]}
               IN  IF found = {} THEN {} ELSE {First(found)}
    IN  at[Len(segs)] \ {0}
NetsAt(nodes, n) == {r.id : r \in {x \in net : x.inst \in nodes /\ x.name = n}}
FirstOr0(S) == IF S = {} THEN 0 ELSE First(S)

Outward(i) ==
    LET up[n \in 0..Cardinality(tree)] ==
          IF n = 0 THEN i
          ELSE IF up[n - 1] = 0 THEN 0 ELSE RowOf(tree, up[n - 1]).parent
    IN  up

\* The nets level l of an upward search offers: through a child the anchor
\* names, else as an instance of the definition it names.
Offered(l, r) ==
    LET firstNamed == {First(Named(l, r.anchor)) : x \in Named(l, r.anchor)}
        child == NetsAt(UNION {Walk(c, r.segs) : c \in firstNamed}, r.net)
        self == IF l \in Ids(inst) /\ Bodied(l) /\ BodyAt(l).def = r.anchor
                THEN NetsAt(Walk(l, r.segs), r.net) ELSE {}
    IN  IF child # {} THEN child ELSE self

Expected(row) ==
    LET r == BodyOf(row.tpl).refs[row.idx]
        up == Outward(row.inst)
        answering == {n \in DOMAIN up : Offered(up[n], r) # {}}
        bound == IF r.term \in 1..BodyOf(row.tpl).terms
                 THEN BoundRow(TermOf(row.inst, r.term), r.seg) ELSE 0
        packages == {x.id : x \in {y \in tree : /\ y.kind = "package"
                                                /\ <<y.name>> = r.segs}}
    IN  CASE r.route = "downward" -> FirstOr0(NetsAt(Walk(row.inst, r.segs), r.net))
          [] r.route = "absolute" -> FirstOr0(NetsAt(Walk(0, r.segs), r.net))
          [] r.route = "iface" /\ bound # 0 ->
               FirstOr0(NetsAt(Walk(bound, r.segs), r.net))
          [] r.route = "upward" /\ answering # {} ->
               First(Offered(up[First(answering)], r))
          [] r.route = "package" /\ packages # {} ->
               FirstOr0(NetsAt({First(packages)}, r.net))
          [] OTHER -> 0

(* Every reference of every occurrence has a row, and the net it resolved  *)
(* to is the one a reader of the finished tree finds by following it from  *)
(* that occurrence: a path into a subtree stamped later, into a package,   *)
(* or through whatever surrounds this occurrence and no other.             *)
ResolvedInFinalTree ==
    phase = "done" =>
      /\ \A row \in ref : row.net = Expected(row)
      /\ \A i \in {x \in Ids(inst) : Bodied(x)} :
           {row.idx : row \in {x \in ref : x.inst = i}} = 1..Len(BodyAt(i).refs)

-----------------------------------------------------------------------------
\* What an end of a dependency of instance i became in its row: the net of i
\* that has the end's name, or what the reference of i resolved to.
EndTold(i, e, n, r) ==
    /\ e.net # 0 =>
         /\ r = 0
         /\ \E x \in net : x.id = n /\ x.inst = i /\ x.name = BodyAt(i).nets[e.net]
    /\ e.net = 0 /\ e.ref # 0 =>
         /\ n \in Ids(net) \cup {0}
         /\ \E x \in ref : x.id = r /\ x.inst = i /\ x.idx = e.ref /\ x.net = n
    /\ e.net = 0 /\ e.ref = 0 => n = 0 /\ r = 0

\* The rows that evidence a dependency of instance i are rows of i, in the
\* tables its template names.
EvidenceTold(i, d, links) ==
    /\ {l[1] : l \in links} = {l[1] : l \in d.links}
    /\ \A l \in links : \E x \in rows[l[1]] : x.id = l[2] /\ x.inst = i

Sourced(d) == d.src.net # 0 \/ d.src.ref # 0 \/ d.sourceless

\* A dependency of instance i that must be written: one that stays in i, and
\* one that leaves it if it has a source, resolved or not, or needs none, and
\* its target is a net of i or resolved.
Owed(i, d) ==
    \/ ~Deferred(d)
    \/ /\ Sourced(d)
       /\ \/ d.tgt.net # 0
          \/ \E x \in ref : x.inst = i /\ x.idx = d.tgt.ref /\ x.net # 0

(* The dependencies written are those of the templates: a row is one of    *)
(* its instance and says of both ends what that instance's nets and        *)
(* references say, with a target always and a source missing only behind   *)
(* a reference that resolved nowhere or by design; its evidence is that    *)
(* instance's; none is written twice; and when the replay is over every    *)
(* one that is owed is there -- also the second on one target, and one     *)
(* whose source did not resolve.                                           *)
DepEndsEvidenced ==
    /\ \A x \in dep :
         /\ x.inst \in Ids(inst) /\ Bodied(x.inst)
         /\ x.idx \in 1..Len(BodyAt(x.inst).deps)
         /\ LET d == BodyAt(x.inst).deps[x.idx]
            IN  /\ Deferred(d) => Sourced(d)
                /\ EndTold(x.inst, d.src, x.src, x.srcRef)
                /\ EndTold(x.inst, d.tgt, x.tgt, x.tgtRef) /\ x.tgt # 0
                /\ EvidenceTold(x.inst, d, x.links)
    /\ \A x, y \in dep : x.inst = y.inst /\ x.idx = y.idx => x = y
    /\ phase = "done" =>
         \A i \in {n \in Ids(inst) : Bodied(n)} : \A k \in 1..Len(BodyAt(i).deps) :
           Owed(i, BodyAt(i).deps[k]) => \E x \in dep : x.inst = i /\ x.idx = k
=============================================================================
