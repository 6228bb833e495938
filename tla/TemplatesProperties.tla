------------------------- MODULE TemplatesProperties -------------------------
(***************************************************************************)
(* What pass 1 must have built when it returns: a template for every group  *)
(* an occurrence can be stamped from, and boundaries whose crossings are    *)
(* the bits that cross. Flow is the meaning of an expression, bit by bit.   *)
(***************************************************************************)
EXTENDS Templates

Flow == INSTANCE BitFlow WITH body <- design

(***************************************************************************)
(* Every instance has a group, and the descent to them is never deeper than *)
(* there are modules. When run returns, the child of every template is a    *)
(* group with its terminals, and every definition has one module row, which *)
(* the templates of its groups name. A group cut off by a recursion is not  *)
(* missed by anything: its occurrences are stamped empty.                   *)
(***************************************************************************)
ChildOf(t, n) == templates[t].children[n]

TemplatesLinked ==
    \A k \in Keys : group[k] # NoBody =>
        /\ modules[templates[k].module] = design.def[k]
        /\ \A n \in DOMAIN templates[k].children :
              ChildOf(k, n).key # NoBody =>
                  /\ group[ChildOf(k, n).key] # NoBody
                  /\ terms[ChildOf(k, n).key] = design.body[ChildOf(k, n).key].ports
                  /\ templates[ChildOf(k, n).key].module # 0

OneModuleRowEach ==
    \A m, n \in DOMAIN modules : modules[m] = modules[n] => m = n

NeverAnalysed ==
    {k \in Keys : Offers(k) # {} /\ \A b \in Offers(k) : ~Analysed(b)}

GroupsReady ==
    /\ PathIsOpenCalls
    /\ EveryInstanceGrouped
    /\ OneModuleRowEach
    /\ Built => TemplatesLinked /\ unanalysed = Cardinality(NeverAnalysed)

-----------------------------------------------------------------------------
(***************************************************************************)
(* Pass 2 gives every occurrence the children of the template of its group, *)
(* each of them the group its template names. That is the tree slang        *)
(* elaborated only if each child's group is the child's own: if its module  *)
(* and the parameter values in its inst row are.                            *)
(***************************************************************************)
StampedAsElaborated ==
    Built => \A i \in grouped : \A n \in DOMAIN templates[Key(i)].children :
        LET kid == design.body[Key(i)].children[n].kid
        IN  kid # 0 => ChildOf(Key(i), n).key = Key(design.kids[i][kid])

\* When they are: the instances met of one key, and the body kept of any of
\* them, have children of the same keys, place by place.
Alike(i, j) ==
    /\ Len(design.kids[i]) = Len(design.kids[j])
    /\ \A n \in DOMAIN design.kids[i] : Key(design.kids[i][n]) = Key(design.kids[j][n])

KeysTellBodies ==
    \A i, j \in grouped : Key(i) = Key(j) =>
        /\ Alike(i, design.canon[j])
        /\ \A n \in DOMAIN design.body[Key(i)].children :
              design.body[Key(i)].children[n].kid \in 0..Len(design.kids[i])

-----------------------------------------------------------------------------
(***************************************************************************)
(* The connections of a design, each with the terminal it is of and the     *)
(* rows and arcs made of it.                                                *)
(***************************************************************************)
Resolved == {k \in Keys : group[k] # NoBody}

Ties ==
    UNION {UNION {{[parent |-> k, child |-> n, conn |-> c] :
                       c \in DOMAIN design.body[k].children[n].conns} :
                      n \in DOMAIN design.body[k].children} : k \in Resolved}

ChildAt(x) == design.body[x.parent].children[x.child]
ConnAt(x) == ChildAt(x).conns[x.conn]
IsBlackBox(x) == ChildAt(x).kid = 0
PortAt(x) == terms[ChildOf(x.parent, x.child).key][ConnAt(x).term]

RowsAt(x) ==
    LET rows == ChildOf(x.parent, x.child).rows IN
    IF IsBlackBox(x) THEN rows[x.conn]
    ELSE SelectSeq(rows, LAMBDA r : r.term = ConnAt(x).term)

ArcsAt(x) ==
    C!Arcs(PortAt(x), RowsAt(x),
           templates[ChildOf(x.parent, x.child).key].maps[ConnAt(x).term])

IsSignal(x) == ~IsBlackBox(x) /\ PortAt(x).kind # "iface"
IsTied(x) == IsSignal(x) /\ ConnAt(x).expr # NoExpr

(***************************************************************************)
(* The bits that cross a connection: bit i of the actual and bit i of what  *)
(* is connected, both ways where the port lets them. An element of an       *)
(* instance array has its part of the actual, from bit `from` of it. What   *)
(* selects the bits of an actual, `i` in .p(w[i]), crosses nothing.         *)
(***************************************************************************)
Slot(x) == C!SlotOf(PortAt(x), ConnAt(x).member)

\* An output of another width than its actual is cut to the shorter of them.
Crossed(x) ==
    0..C!Smaller(Slot(x).width, C!Expr[ConnAt(x).expr].width - ChildAt(x).from) - 1

Outside(x, i) == i + ChildAt(x).from

\* What bit i of the port is inside.
Inside(x, i) ==
    LET port == PortAt(x)
        m == ConnAt(x).member
        sym == IF m = 0 THEN port.sym ELSE port.members[m].sym
    IN  IF m = 0 /\ port.inner # NoExpr THEN Flow!Feed[port.inner, i]
        ELSE {<<sym, i>>}

IsInward(port) == port.dir \in {"in", "inout", "ref"}
IsOutward(port) == port.dir \in {"out", "inout", "ref"}

FlowsAt(x) ==
    LET actual == ConnAt(x).expr IN
    (IF IsInward(PortAt(x))
     THEN UNION {Flow!ValueAt[actual, Outside(x, i)] \X Inside(x, i) : i \in Crossed(x)}
     ELSE {})
    \cup (IF IsOutward(PortAt(x))
          THEN UNION {Inside(x, i) \X Flow!WrittenAt[actual, Outside(x, i)] :
                          i \in Crossed(x)}
          ELSE {})

\* The bits of the parent that are a bit of the child and nothing more.
CopiesAt(x) ==
    UNION {{Flow!Copy[ConnAt(x).expr, Outside(x, i)]} \X Inside(x, i) : i \in Crossed(x)}

(***************************************************************************)
(* What an arc says.                                                        *)
(***************************************************************************)
SpanBits(sym, bits) ==
    IF bits = C!All THEN Flow!AllBits(sym) ELSE Flow!Bits(sym, bits[1], bits[2])

Says(arc) ==
    IF arc.exact
    THEN {<<<<arc.src, arc.srcBits[1] + i>>, <<arc.dst, arc.dstBits[1] + i>>>> :
              i \in 0..arc.srcBits[2] - arc.srcBits[1]}
    ELSE SpanBits(arc.src, arc.srcBits) \X SpanBits(arc.dst, arc.dstBits)

(***************************************************************************)
(* An exact arc is true bit by bit, through both windows of the terminal    *)
(* and whatever widths the two sides have, and goes a way the port goes.    *)
(***************************************************************************)
CopiesOf(x) ==
    UNION {CopiesAt(y) : y \in {z \in Ties :
        /\ z.parent = x.parent /\ z.child = x.child
        /\ IsTied(z) /\ ConnAt(z).term = ConnAt(x).term}}

ArcsAreTrue ==
    Built => \A x \in Ties : IsTied(x) =>
        LET copies == CopiesOf(x)
            port == PortAt(x)
        IN  \A arc \in ArcsAt(x) : arc.exact => \A f \in Says(arc) :
                \/ IsInward(port) /\ f \in copies
                \/ IsOutward(port) /\ <<f[2], f[1]>> \in copies

(***************************************************************************)
(* Every bit whose value crosses a connection is in an arc of it, and the   *)
(* rows of a connection divide the terminal between them. What a black box  *)
(* or an interface port is tied to can be found again from its rows. The    *)
(* address of a selected actual is not asked for: collectConnRefs leaves it *)
(* out of the rows of a plain select, and names it in those of an operation.*)
(***************************************************************************)
Told(x) == FlowsAt(x) \subseteq UNION {Says(arc) : arc \in ArcsAt(x)}

WindowOf(x, row) ==
    IF row.bits = C!All THEN 0..PortAt(x).width - 1 ELSE row.bits[1]..row.bits[2]

Placed(x) == {n \in DOMAIN RowsAt(x) : RowsAt(x)[n].termExact}

Divides(x) ==
    /\ \A m, n \in Placed(x) :
          LET v == WindowOf(x, RowsAt(x)[m])
              w == WindowOf(x, RowsAt(x)[n])
          IN  v = w \/ v \cap w = {}
    /\ Placed(x) = DOMAIN RowsAt(x) =>
          Slot(x).lsb..Slot(x).lsb + Slot(x).width - 1
              \subseteq UNION {WindowOf(x, RowsAt(x)[n]) : n \in Placed(x)}

\* Every object the expression has a value from is named by a row, and a tie
\* is no open pin.
NamedByBlackBox(x) ==
    LET rows == RowsAt(x)
        named == IF ConnAt(x).expr = NoExpr THEN {}
                 ELSE {bit[1] : bit \in Flow!Values[ConnAt(x).expr]}
    IN  /\ named \subseteq {rows[n].sym : n \in DOMAIN rows}
        /\ named # {} => \A n \in DOMAIN rows : rows[n].kind # "unconnected"

\* The row of each element names the sibling it is, or the own port and the
\* segment of it that it came by.
LeadsTo(row, elem, children, ports) ==
    IF row.ifaceChild # 0 THEN children[row.ifaceChild].elem = elem
    ELSE IF row.ifaceOwnTerm # 0
    THEN ports[row.ifaceOwnTerm].elems[row.ifaceOwnSeg + 1] = elem
    ELSE /\ \A n \in DOMAIN children : children[n].elem # elem
         /\ \A t \in DOMAIN ports : ports[t].kind = "iface" =>
               \A n \in DOMAIN ports[t].elems : ports[t].elems[n] # elem

ElementsFound(x) ==
    /\ Len(RowsAt(x)) = Len(ConnAt(x).elems)
    /\ \A n \in DOMAIN RowsAt(x) :
          LeadsTo(RowsAt(x)[n], ConnAt(x).elems[n],
                  design.body[x.parent].children, terms[x.parent])

TiesAreTold ==
    Built => \A x \in Ties :
        IF IsBlackBox(x) THEN NamedByBlackBox(x)
        ELSE IF ~IsSignal(x) THEN ElementsFound(x)
        ELSE IsTied(x) => Told(x) /\ Divides(x)
=============================================================================
