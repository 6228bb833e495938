------------------------- MODULE DataflowProperties -------------------------
(***************************************************************************)
(* What the rows of a body must say of its bits: the flows of an item, as   *)
(* BitFlow has them, against the dependencies filed for it.                 *)
(***************************************************************************)
EXTENDS Dataflow, BitFlow

(***************************************************************************)
(* The flows of an item: which bit may reach which.                         *)
(***************************************************************************)
Positions(id) == 0..Expr[id].width - 1
Upto(id, i) == UNION {WrittenAt[id, j] : j \in 0..i}

\* A compound operator and an increment carry from the bits below.
AssignFlows(item) ==
    UNION {(Feed[item.right, i] \cup Selected[item.left, i]
            \cup (IF item.compound THEN Upto(item.left, i) ELSE {}))
           \X WrittenAt[item.left, i] : i \in Positions(item.right)}

IncrementFlows(item) ==
    UNION {Upto(item.operand, i) \X WrittenAt[item.operand, i] :
               i \in Positions(item.operand)}

Onto(right, sym) ==
    UNION {Feed[right, i] \X {<<sym, i>>} : i \in 0..Width[sym] - 1}

Arguments(item) ==
    LET call == Expr[item.call] IN
    {[formal |-> Subs[call.sub].formals[k], actual |-> call.args[k]] :
        k \in DOMAIN call.args}

\* The formal of a subroutine declared elsewhere is no object of this body.
ArgumentFlows(a) ==
    IF a.formal.sym \notin Nets THEN {} ELSE
    (IF Reads(a.formal.dir) THEN Onto(a.actual, a.formal.sym) ELSE {})
    \cup IF ~Writes(a.formal.dir) THEN {}
         ELSE UNION {{<<a.formal.sym, i>>} \X WrittenAt[a.actual, i] :
                         i \in Positions(a.actual)}

\* Sides of one alias are each other, bit by bit.
Others(n) == {p \in (1..n) \X (1..n) : p[1] # p[2]}

AliasFlows(item) ==
    LET w == Expr[item.sides[1]].width IN
    {<<Copy[item.sides[p[1]], i], Copy[item.sides[p[2]], i]>> :
        p \in Others(Len(item.sides)), i \in 0..w - 1}

\* A primitive is one bit out of one bit each.
GateFlows(item) ==
    UNION {Sources[item.conns[p[1]].expr] \X WrittenAt[item.conns[p[2]].expr, 0] :
        p \in {q \in Others(Len(item.conns)) :
                 /\ item.conns[q[1]].dir \in {"in", "inout"}
                 /\ item.conns[q[2]].dir \in {"out", "inout"}}}

Flows(item) ==
    CASE item.kind = "assign" -> AssignFlows(item)
      [] item.kind = "increment" -> IncrementFlows(item)
      [] item.kind = "return" -> Onto(item.right, item.var)
      [] item.kind = "init" -> Onto(item.right, item.net)
      [] item.kind = "bind" -> UNION {ArgumentFlows(a) : a \in Arguments(item)}
      [] item.kind = "alias" -> AliasFlows(item)
      [] item.kind = "gate" -> GateFlows(item)
      [] OTHER -> {}

(***************************************************************************)
(* The copies of an item: the bits that are another bit and nothing more.   *)
(***************************************************************************)
ArgumentCopies(a) ==
    {<<Copy[a.actual, i], <<a.formal.sym, i>>>> : i \in Positions(a.actual)}
    \cup {<<<<a.formal.sym, i>>, Copy[a.actual, i]>> : i \in Positions(a.actual)}

Copies(item) ==
    CASE item.kind = "assign" /\ ~item.compound ->
           {<<Copy[item.right, i], Copy[item.left, i]>> : i \in Positions(item.right)}
      [] item.kind = "init" ->
           {<<Copy[item.right, i], <<item.net, i>>>> : i \in Positions(item.right)}
      [] item.kind = "increment" /\ Expr[item.operand].width = 1 -> Flows(item)
      [] item.kind = "bind" -> UNION {ArgumentCopies(a) : a \in Arguments(item)}
      [] item.kind \in {"alias", "gate"} -> Flows(item)
      [] OTHER -> {}

(***************************************************************************)
(* What an item writes, whether or not anything reaches it: the bits of     *)
(* each path on its left.                                                   *)
(***************************************************************************)
\* One end at least is a net of this body.
Nameable(a) ==
    \/ a.formal.sym \in Nets
    \/ \A k \in DOMAIN CollectRefs[a.actual, TRUE] : IsLocal(CollectRefs[a.actual, TRUE][k])

\* A constant is filed on the statement that makes the call, if there is one.
Anchored(item, a) ==
    a.formal.sym \in Nets /\ (item.bindable \/ ~IsConstant[a.actual])

Parts[id \in Exprs] ==
    LET e == Expr[id] IN
    IF e.kind = "path"
    THEN {UNION {WrittenAt[id, i] : i \in Positions(id)} : s \in {e.sym} \ LoopVars}
    ELSE UNION {Parts[e.args[k]] : k \in DOMAIN e.args}

ArgumentParts(item, a) ==
    (IF Writes(a.formal.dir) /\ Nameable(a) THEN Parts[a.actual] ELSE {})
    \cup (IF Reads(a.formal.dir) /\ Anchored(item, a)
          THEN {AllBits(a.formal.sym)} ELSE {})

WrittenParts(item) ==
    CASE item.kind = "assign" -> Parts[item.left]
      [] item.kind = "increment" -> Parts[item.operand]
      [] item.kind = "return" -> {AllBits(item.var)}
      [] item.kind = "init" -> {AllBits(item.net)}
      [] item.kind = "task" /\ ~item.released ->
           UNION {Parts[item.writes[k]] : k \in DOMAIN item.writes}
      [] item.kind = "gate" ->
           UNION {Parts[item.conns[k].expr] :
                      k \in {j \in DOMAIN item.conns : item.conns[j].dir # "in"}}
      [] item.kind = "bind" -> UNION {ArgumentParts(item, a) : a \in Arguments(item)}
      [] OTHER -> {}

(***************************************************************************)
(* What a row of net_dep says: of which bits, to which; one for one where   *)
(* its mapping is exact.                                                    *)
(***************************************************************************)
SymOf(end) == IF end.href > 0 THEN hierRefs[end.href].sym ELSE end.net
Sourceless(d) == d.src = NoEnd

Low(range) == IF range.bits = <<>> THEN 0 ELSE range.bits[1]
RangeBits(sym, range) ==
    IF range.bits = <<>> THEN AllBits(sym)
    ELSE Bits(sym, range.bits[1], range.bits[2])

SrcBits(d) == RangeBits(SymOf(d.src), d.srcR)
TgtBits(d) == RangeBits(SymOf(d.tgt), d.tgtR)

Says(d) ==
    IF d.mapExact
    THEN {<<<<SymOf(d.src), Low(d.srcR) + i>>, <<SymOf(d.tgt), Low(d.tgtR) + i>>>> :
              i \in 0..Cardinality(SrcBits(d)) - 1}
    ELSE SrcBits(d) \X TgtBits(d)

Carries(d) == d.kind # "control" /\ ~Sourceless(d)
Drives(d) == d.kind \notin {"control", "alias"}

DepsOf(k) == {deps[j] : j \in {i \in DOMAIN deps : deps[i].item = k}}

\* The item begun last, once everything queued for it is filed.
Settled == todo = <<>> /\ next > 1
LastItem == body.items[next - 1]
Filed == DepsOf(next - 1)

(***************************************************************************)
(* The rows are rows: every range lies in its object, every end is one      *)
(* object or one reference, and every queued operation is one of the        *)
(* builder's.                                                               *)
(***************************************************************************)
Fits2(sym, range) ==
    range.bits # <<>> =>
        0 <= range.bits[1] /\ range.bits[1] <= range.bits[2]
        /\ range.bits[2] < Width[sym]

EndOK(end) == end.net = NoNet \/ (end.net \in Nets /\ end.href = 0)

TypeOK ==
    /\ next \in 1..Len(body.items) + 1
    /\ curStmt \in 0..Len(stmts)
    /\ \A l \in Lists : \A k \in DOMAIN rows[l] :
          /\ rows[l][k].stmt \in 1..Len(stmts) /\ rows[l][k].net \in Nets
          /\ Fits2(rows[l][k].net, rows[l][k].range)
    /\ \A k \in DOMAIN deps :
          LET d == deps[k] IN
          /\ EndOK(d.src) /\ EndOK(d.tgt) /\ d.tgt # NoEnd
          /\ d.src.href \in 0..Len(hierRefs) /\ d.tgt.href \in 0..Len(hierRefs)
          /\ Sourceless(d) \/ Fits2(SymOf(d.src), d.srcR)
          /\ Fits2(SymOf(d.tgt), d.tgtR)

(***************************************************************************)
(* Every bit an item carries to another bit is told: a dependency of the    *)
(* item has both, and lines them up where it says its mapping is exact.     *)
(* An assignment pairs its sides through concatenations, conversions,       *)
(* selections and calls, and each of these may lose a source.               *)
(***************************************************************************)
EveryFlowFiled ==
    Settled => Flows(LastItem) \subseteq UNION {Says(d) : d \in {e \in Filed : Carries(e)}}

(***************************************************************************)
(* An exact mapping is true bit by bit: as many bits on either side, and    *)
(* each the copy of the one it is lined up with, as the comment of          *)
(* PairedSrc promises of `assign swap = {c[3:0], c[7:4]}`.                  *)
(***************************************************************************)
ExactDepsAreTrue ==
    Settled => LET copies == Copies(LastItem) IN
        \A d \in Filed : d.mapExact =>
            /\ Cardinality(SrcBits(d)) = Cardinality(TgtBits(d))
            /\ Says(d) \subseteq copies

(***************************************************************************)
(* Pairs, never a cross product: something of a dependency's source does    *)
(* reach something of its target. (The sides of an alias are not paired: a  *)
(* side of several nets couples each of them with all of the other side.)   *)
(***************************************************************************)
NothingCrossed ==
    Settled => LET flows == Flows(LastItem) IN
        \A d \in Filed :
            Carries(d) /\ d.kind # "alias" => Says(d) \cap flows # {}

(***************************************************************************)
(* Whatever an item writes has a driver, and a driver without a source only *)
(* where nothing reaches: a row without one is what v_driver calls a        *)
(* constant. (Of `{b, 2'h0}` the constant half has no row of its own where  *)
(* both halves go to one target.)                                           *)
(***************************************************************************)
DriversTold ==
    Settled => LET reached == {f[2] : f \in Flows(LastItem)} IN
        /\ \A part \in WrittenParts(LastItem) :
              \E d \in Filed : Drives(d) /\ TgtBits(d) \cap part # {}
        /\ \A d \in Filed :
              Drives(d) /\ Sourceless(d) => TgtBits(d) \cap reached = {}

(***************************************************************************)
(* The three tables agree: a dependency's operand and target rows are of    *)
(* its statement and its objects, and span its bits; and the rows of a      *)
(* statement are numbered from 0 in each list, through calls that file rows *)
(* on the statement that makes them.                                        *)
(***************************************************************************)
Backs(row, stmt, net, bits) ==
    row.stmt = stmt /\ row.net = net /\ bits \subseteq RangeBits(net, row.range)

Numbered(list, stmt) ==
    LET mine == {k \in DOMAIN rows[list] : rows[list][k].stmt = stmt} IN
    {rows[list][k].ordinal : k \in mine} = 0..Cardinality(mine) - 1

RowsNumbered == \A list \in Lists, s \in DOMAIN stmts : Numbered(list, s)

RowsAgree ==
    Settled =>
        /\ \A d \in Filed :
              /\ d.operand > 0 => Backs(rows.operand[d.operand], d.stmt, d.src.net, SrcBits(d))
              /\ d.expr > 0 => Backs(rows.expr[d.expr], d.stmt, d.src.net, SrcBits(d))
              /\ d.target > 0 => Backs(rows.target[d.target], d.stmt, d.tgt.net, TgtBits(d))
              /\ d.tgt.net # NoNet /\ d.stmt > 0 /\ Drives(d)
                    => d.target > 0 \/ d.kind = "procedure"
        /\ RowsNumbered

(***************************************************************************)
(* A reference that leaves the body is filed once for each place it is      *)
(* written in, with the bits the source spells, whatever bits of it the     *)
(* dependencies narrow it to.                                               *)
(***************************************************************************)
ReferencesOnce ==
    \A j, k \in DOMAIN hierRefs : SameKey(hierRefs[j], hierRefs[k]) => j = k

ReferencesFiled ==
    /\ ReferencesOnce
    /\ \A k \in DOMAIN hierRefs :
          LET h == hierRefs[k]
              spelled == RangeOf(RefOf(h.origin))
          IN  h.origin # NoExpr =>
                  h.range \in {spelled, [spelled EXCEPT !.exact = FALSE]}

(***************************************************************************)
(* Every condition over an assignment reaches every target of it, named by  *)
(* its own level, once; and the level files each read a dependency names.   *)
(***************************************************************************)
Enclosing(level) ==
    LET up[l \in 0..Len(body.levels)] ==
            IF l = 0 THEN {} ELSE {l} \cup up[body.levels[l].parent]
    IN  up[level]

CondBits(l) ==
    UNION {Sources[body.levels[l].conds[k]] : k \in DOMAIN body.levels[l].conds}

ControlsTold ==
    Settled =>
        /\ LastItem.kind \in {"assign", "increment", "return"} =>
              \A l \in Enclosing(LastItem.level) :
                  CondBits(l) \X UNION WrittenParts(LastItem) \subseteq
                      UNION {Says(d) : d \in {e \in Filed : e.kind = "control" /\ e.branch = l}}
        /\ \A j, k \in DOMAIN deps :
              (deps[j] = deps[k] /\ deps[j].kind = "control") => j = k
        /\ LastItem.kind = "levels" =>
              \A j \in DOMAIN deps : deps[j].kind = "control" =>
                  \/ deps[j].src.href > 0
                  \/ \E k \in DOMAIN branchRefs :
                        /\ branchRefs[k].branch = deps[j].branch
                        /\ branchRefs[k].net = deps[j].src.net
                        /\ branchRefs[k].range = deps[j].srcR
=============================================================================
