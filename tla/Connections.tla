---------------------------- MODULE Connections ----------------------------
(***************************************************************************)
(* Pass 1 of the extraction, the boundary half: what a body's terminals     *)
(* stand for inside it, what a parent wires to them, and the crossings a    *)
(* query composes of the two.                                               *)
(*                                                                          *)
(* A port is [kind, width, dir] with, of kind "port", its internal          *)
(* expression `inner`, or NoExpr and its internal symbol `sym`; of kind     *)
(* "multi", `members`, each [sym, width], most significant first; of kind   *)
(* "iface", `array` and `elems`, the elements it is bound to in the body    *)
(* extracted. A connection is [term, member, expr]: the port, its member or *)
(* 0, and the actual or NoExpr; of an interface port, [term, array, elems]. *)
(* A child is [inArray, conns], and the element it is if an interface.      *)
(*                                                                          *)
(* slang hands an output's actual over in an assignment of its own, which   *)
(* collectConnRefs looks through: the actual stands here by itself.         *)
(***************************************************************************)
EXTENDS References, FiniteSets

\* What a row says of no bits in particular.
All == <<>>
NoRef == Ref(NoNet, Unknown, FALSE, NoExpr)

(***************************************************************************)
(* collectReads: the objects an expression names, and what the subroutines  *)
(* it calls name that is not theirs.                                        *)
(***************************************************************************)
CollectReads[id \in Exprs, active \in SUBSET DOMAIN Subs] ==
    LET e == Expr[id]
        Under(ids) == UNION {CollectReads[ids[k], active] : k \in DOMAIN ids}
        within == active \cup {e.sub}
        Body(sub) == {Subs[sub].body[k] : k \in DOMAIN Subs[sub].body}
        InBody == UNION {CollectReads[a.left, within] \cup CollectReads[a.right, within] :
                             a \in Body(e.sub)}
    IN  CASE e.kind = "path" -> ({e.sym} \ Fixed) \cup Under(e.sels)
          [] e.kind = "call" /\ e.sub \notin active ->
                 Under(e.args) \cup (InBody \ Subs[e.sub].own)
          [] OTHER -> Under(e.args)

(***************************************************************************)
(* ConnRef: one piece of an actual, with the window of it the piece fills.  *)
(***************************************************************************)
ConnRef(r, expression, at, positional) ==
    [ref |-> r, expression |-> expression, at |-> at, positional |-> positional]

\* A piece without a reference is a constant.
Push(refs, expression, at, width) ==
    IF refs = <<>> THEN <<ConnRef(NoRef, FALSE, at, FALSE)>>
    ELSE [k \in DOMAIN refs |->
            ConnRef(refs[k], expression, at,
                    /\ at.placed /\ ~expression /\ Len(refs) = 1
                    /\ CoverFillsWidth(refs[k].cover, refs[k].exact, width,
                                       Width[refs[k].sym]))]

\* A bug: a call reads its arguments alone.
AlsoReadNothing(id, refs) == <<>>

\* What collectReads finds beyond the references is named as a whole.
AlsoRead(id, refs) ==
    LET extra == SetToSeq(CollectReads[id, {}] \ {refs[k].sym : k \in DOMAIN refs})
    IN  [k \in DOMAIN extra |-> Ref(extra[k], Whole, TRUE, NoExpr)]

(***************************************************************************)
(* collectConnRefs, from bit `base` of the formal. Degraded is what can no  *)
(* longer be placed.                                                        *)
(***************************************************************************)
CollectConnRefs[id \in Exprs, base \in Nat, degraded \in BOOLEAN] ==
    LET e == Expr[id]
        at == IF degraded THEN Nowhere ELSE At(base, e.width)
        Lose(op) == CollectConnRefs[op, 0, TRUE]
        Element(k) == IF Lost(id, k) THEN Lose(e.args[k])
                      ELSE IF WidthAt(id, k) = 0 THEN <<>>
                      ELSE CollectConnRefs[e.args[k], base + Left(id, k), FALSE]
        copied == WidthAt(id, 1)
        Copy(k) == CollectConnRefs[e.args[1], base + e.width - k * copied, FALSE]
        refs == CollectRefs[id, FALSE]
    IN  CASE e.kind = "path" -> Push(CollectRefs[id, TRUE], FALSE, at, e.width)
          [] e.kind = "concat" ->
               FlattenSeq([k \in DOMAIN e.args |->
                   IF ~at.placed THEN Lose(e.args[k]) ELSE Element(k)])
          [] e.kind = "replicate" ->
               IF ~at.placed \/ copied = 0 \/ e.width % copied # 0 THEN Lose(e.args[1])
               ELSE FlattenSeq([k \in 1..e.width \div copied |-> Copy(k)])
          [] e.kind = "convert" ->
               IF WidthAt(id, 1) = e.width
               THEN CollectConnRefs[e.args[1], base, degraded]
               ELSE Lose(e.args[1])
          [] OTHER -> Push(refs \o AlsoRead(id, refs), TRUE, at, e.width)

(***************************************************************************)
(* collectTermSlots: where the port a connection names sits in its terminal.*)
(* Members count down from the most significant.                            *)
(***************************************************************************)
MemberLow(port, m) ==
    FoldLeft(LAMBDA n, j : n - port.members[j].width, port.width,
             [j \in 1..m |-> j])

SlotOf(port, m) ==
    IF m = 0 THEN [lsb |-> 0, width |-> port.width]
    ELSE [lsb |-> MemberLow(port, m), width |-> port.members[m].width]

(***************************************************************************)
(* A range of an object, and the row of a connection (TplConn).             *)
(***************************************************************************)
RangeOf(r) ==
    [bits |-> IF r.cover.case = "run" THEN <<r.cover.lo, r.cover.hi>> ELSE All,
     exact |-> r.exact]

ConnRow(kind, term, ordinal) ==
    [kind |-> kind, term |-> term, ordinal |-> ordinal, sym |-> NoNet,
     net |-> [bits |-> All, exact |-> FALSE], bits |-> All, termExact |-> FALSE,
     map |-> FALSE, ifaceChild |-> 0, ifaceOwnTerm |-> 0, ifaceOwnSeg |-> 0]

\* What a piece is to the parent, whose own nets are `own`.
IsNet(r, own) == r.sym \in own /\ ~HierarchicalRoot(r)

TieKind(piece, own) ==
    CASE piece.ref = NoRef -> "constant"
      [] piece.ref # NoRef /\ piece.expression -> "expression_operand"
      [] OTHER -> IF IsNet(piece.ref, own) THEN "signal" ELSE "external_reference"

(***************************************************************************)
(* buildInstanceConns, one connection: a row for each piece of the actual.  *)
(* An element of an instance array shares the actual of the whole array,    *)
(* and an actual of another width than its formal has no positions.         *)
(***************************************************************************)
FormalWidth(conn, inArray) == IF inArray THEN 0 ELSE Expr[conn.expr].width

\* A bug: the actual's width is taken for the formal's.
MismatchNever(width, slot) == FALSE

WidthMismatch(width, slot) == width > 0 /\ slot.width > 0 /\ slot.width # width

SignalRow(piece, conn, port, child, own, ordinal) ==
    LET slot == SlotOf(port, conn.member)
        width == FormalWidth(conn, child.inArray)
        aligned == ~child.inArray /\ ~WidthMismatch(width, slot)
        placed == aligned /\ piece.at.placed /\ width > 0
        wholeTerm == /\ piece.at.lo = 0 /\ piece.at.hi + 1 >= width
                     /\ slot.lsb = 0 /\ slot.width = port.width
        kind == TieKind(piece, own)
    IN  [ConnRow(kind, conn.term, ordinal) EXCEPT
            !.termExact = placed,
            !.bits = IF placed /\ ~wholeTerm
                     THEN <<piece.at.lo + slot.lsb, piece.at.hi + slot.lsb>>
                     ELSE All,
            !.sym = piece.ref.sym,
            !.net = IF kind = "constant" \/ (child.inArray /\ IsNet(piece.ref, own))
                    THEN @ ELSE RangeOf(piece.ref),
            !.map = kind \in {"signal", "external_reference"}
                    /\ piece.positional /\ aligned]

\* The rows of one connection, numbered from `first` in their terminal.
SignalRows(conn, port, child, own, first) ==
    IF conn.expr = NoExpr THEN <<ConnRow("unconnected", conn.term, first)>>
    ELSE LET pieces == CollectConnRefs[conn.expr, 0, FALSE] IN
         IF pieces = <<>>
         THEN <<[ConnRow("constant", conn.term, first) EXCEPT !.termExact = TRUE]>>
         ELSE [n \in DOMAIN pieces |->
                SignalRow(pieces[n], conn, port, child, own, first + n - 1)]

(***************************************************************************)
(* buildInstanceConns, an interface port: a row for each element, naming    *)
(* the sibling it is, or the segment of the parent's own port it came by.   *)
(* An array is looked for among the elements of the own ports, a single     *)
(* interface among the ports themselves (passedThrough).                    *)
(***************************************************************************)
ChildOf(elem, children) ==
    IF \E n \in DOMAIN children : children[n].elem = elem
    THEN CHOOSE n \in DOMAIN children : children[n].elem = elem ELSE 0

\* Where the own ports hold an element, the first of them first.
OwnSegments(elem, array, ports) ==
    FlattenSeq([t \in DOMAIN ports |->
        IF ports[t].kind # "iface" \/ (~array /\ ports[t].array) THEN <<>>
        ELSE SelectSeq([n \in DOMAIN ports[t].elems |->
                           [term |-> t, seg |-> n - 1, elem |-> ports[t].elems[n]]],
                       LAMBDA own : own.elem = elem)])

\* A bug: the segment of the child's port is taken for that of the parent's.
IfaceRowSameSegment(elem, n, conn, children, ports, first) ==
    LET own == OwnSegments(elem, conn.array, ports)
        row == ConnRow("interface", conn.term, first + n - 1)
    IN  IF ChildOf(elem, children) # 0
        THEN [row EXCEPT !.ifaceChild = ChildOf(elem, children)]
        ELSE IF own = <<>> THEN row
        ELSE [row EXCEPT !.ifaceOwnTerm = own[1].term, !.ifaceOwnSeg = n - 1]

IfaceRow(elem, n, conn, children, ports, first) ==
    LET own == OwnSegments(elem, conn.array, ports)
        row == ConnRow("interface", conn.term, first + n - 1)
    IN  IF ChildOf(elem, children) # 0
        THEN [row EXCEPT !.ifaceChild = ChildOf(elem, children)]
        ELSE IF own = <<>> THEN row
        ELSE [row EXCEPT !.ifaceOwnTerm = own[1].term, !.ifaceOwnSeg = own[1].seg]

IfaceRows(conn, children, ports, first) ==
    [n \in DOMAIN conn.elems |->
        IfaceRow(conn.elems[n], n, conn, children, ports, first)]

(***************************************************************************)
(* The connections of one child of `parent`, in order, `ports` being the    *)
(* terminals of the child's own group. Several connections of one terminal, *)
(* as the members of a multi port are, go on counting.                      *)
(***************************************************************************)
Ordinal(rows, term) == Cardinality({n \in DOMAIN rows : rows[n].term = term})

ConnRows(parent, child, ports) ==
    LET RowsOf(conn, first) ==
            IF ports[conn.term].kind = "iface"
            THEN IfaceRows(conn, parent.children, parent.ports, first)
            ELSE SignalRows(conn, ports[conn.term], child, parent.nets, first)
    IN  FoldLeft(LAMBDA rows, conn : rows \o RowsOf(conn, Ordinal(rows, conn.term)),
                 <<>>, child.conns)

(***************************************************************************)
(* buildUnresolvedConns: of a black box nothing is known but what its       *)
(* connections name. One that is a sequence names what its leaves name.     *)
(***************************************************************************)
\* A bug: what is no plain expression is no connection.
NamesOfExprs(conn) ==
    IF conn.sequence THEN <<>> ELSE CollectConnRefs[conn.expr, 0, FALSE]

NamesOf(conn) ==
    LET leaves == Names[conn.expr] IN
    IF conn.sequence
    THEN [n \in DOMAIN leaves |-> ConnRef(leaves[n], TRUE, Nowhere, FALSE)]
    ELSE CollectConnRefs[conn.expr, 0, FALSE]

BlackBoxRow(piece, conn, own, ordinal) ==
    [ConnRow(TieKind(piece, own), conn.term, ordinal) EXCEPT
        !.sym = piece.ref.sym,
        !.net = IF piece.ref = NoRef THEN @ ELSE RangeOf(piece.ref)]

BlackBoxRows(conn, own) ==
    IF conn.expr = NoExpr THEN <<ConnRow("unconnected", conn.term, 0)>>
    ELSE LET pieces == NamesOf(conn) IN
         IF pieces = <<>>
         THEN <<ConnRow(IF conn.sequence THEN "unconnected" ELSE "constant",
                        conn.term, 0)>>
         ELSE [n \in DOMAIN pieces |-> BlackBoxRow(pieces[n], conn, own, n - 1)]

(***************************************************************************)
(* buildTermMaps: the inside of a terminal. The internal expression comes   *)
(* first, and the internal symbol where there is none; a member of a multi  *)
(* port is its own window.                                                  *)
(***************************************************************************)
TermMap(term, ordinal, sym, bits, exact, net, map) ==
    [term |-> term, ordinal |-> ordinal, sym |-> sym, bits |-> bits,
     termExact |-> exact, net |-> net, map |-> map]

WholeNet == [bits |-> All, exact |-> TRUE]

\* A bug: the internal symbol comes first.
InternalSymbolFirst(term, port, own) ==
    <<TermMap(term, 0, port.sym, All, TRUE, WholeNet, TRUE)>>

InternalRows(term, port, own) ==
    LET width == Expr[port.inner].width
        pieces == SelectSeq(CollectConnRefs[port.inner, 0, FALSE],
                            LAMBDA p : IsNet(p.ref, own))
        Bits(p) == IF p.at.placed /\ ~(p.at.lo = 0 /\ p.at.hi + 1 >= width)
                   THEN <<p.at.lo, p.at.hi>> ELSE All
    IN  IF port.inner = NoExpr
        THEN <<TermMap(term, 0, port.sym, All, TRUE, WholeNet, TRUE)>>
        ELSE [n \in DOMAIN pieces |->
                TermMap(term, n - 1, pieces[n].ref.sym, Bits(pieces[n]),
                        pieces[n].at.placed, RangeOf(pieces[n].ref),
                        pieces[n].positional)]

MemberRow(term, port, m) ==
    LET slot == SlotOf(port, m)
        whole == slot.lsb = 0 /\ slot.width = port.width
    IN  TermMap(term, m - 1, port.members[m].sym,
                IF whole THEN All ELSE <<slot.lsb, slot.lsb + slot.width - 1>>,
                TRUE, WholeNet, TRUE)

TermMaps(term, port, own) ==
    CASE port.kind = "port" -> InternalRows(term, port, own)
      [] port.kind = "multi" ->
             [m \in DOMAIN port.members |-> MemberRow(term, port, m)]
      [] port.kind = "iface" -> <<>>

(***************************************************************************)
(* v_conn_arc and conn_arc: the crossings of a terminal, each an overlap of *)
(* a row outside with one inside. Either end is narrowed to the overlap     *)
(* where every link of its chain is exact, left alone where the other side  *)
(* does not narrow it, and not exact otherwise.                             *)
(***************************************************************************)
\* Windows of a terminal; All is not narrowed at all.
Meet(a, b) ==
    a = All \/ b = All \/ (a[1] <= b[2] /\ b[1] <= a[2])

Both(a, b) ==
    IF a = All THEN b ELSE IF b = All THEN a
    ELSE <<Larger(a[1], b[1]), Smaller(a[2], b[2])>>

Low(bits) == IF bits = All THEN 0 ELSE bits[1]

\* A bug: narrowed without regard to where the row's own window begins.
EndIgnoringItsWindow(row, other, chain, overlap) ==
    [bits |-> IF chain /\ row.net.exact /\ overlap # All
              THEN <<Low(row.net.bits) + overlap[1], Low(row.net.bits) + overlap[2]>>
              ELSE row.net.bits,
     exact |-> row.net.exact /\ (chain \/ other.bits = All)]

\* The end of one side, `row` being its row and `other` that of the other.
CrossingEnd(row, other, chain, overlap) ==
    [bits |-> IF chain /\ row.net.exact /\ overlap # All
              THEN <<Low(row.net.bits) + overlap[1] - Low(row.bits),
                     Low(row.net.bits) + overlap[2] - Low(row.bits)>>
              ELSE row.net.bits,
     exact |-> row.net.exact /\ (chain \/ other.bits = All)]

\* Whole exact ends become the bits they are.
Explicit(sym, end) ==
    IF end.bits # All \/ ~end.exact \/ Width[sym] = 0 THEN end.bits
    ELSE <<0, Width[sym] - 1>>

Arc(src, s, dst, d, map) ==
    LET from == Explicit(src, s)
        to == Explicit(dst, d)
    IN  [src |-> src, srcBits |-> from, dst |-> dst, dstBits |-> to,
         exact |-> /\ map /\ s.exact /\ d.exact /\ from # All /\ to # All
                   /\ from[2] - from[1] = to[2] - to[1]]

Crossings(dir, c, m) ==
    LET overlap == Both(c.bits, m.bits)
        bothExact == c.termExact /\ m.termExact
        outer == CrossingEnd(c, m, c.map /\ bothExact, overlap)
        inner == CrossingEnd(m, c, m.map /\ bothExact, overlap)
        map == c.kind # "expression_operand" /\ c.map /\ m.map
        inward == dir \in {"in", "inout", "ref"}
        outward == /\ dir \in {"out", "inout", "ref"}
                   /\ c.kind \in {"signal", "external_reference"}
    IN  (IF inward THEN {Arc(c.sym, outer, m.sym, inner, map)} ELSE {})
        \cup (IF outward THEN {Arc(m.sym, inner, c.sym, outer, map)} ELSE {})

\* Every arc through the terminal of `port`, of the rows outside and inside.
Arcs(port, conns, maps) ==
    UNION {Crossings(port.dir, conns[p[1]], maps[p[2]]) :
        p \in {q \in (DOMAIN conns) \X (DOMAIN maps) :
                 /\ conns[q[1]].sym # NoNet
                 /\ conns[q[1]].term = maps[q[2]].term
                 /\ Meet(conns[q[1]].bits, maps[q[2]].bits)}}
=============================================================================
