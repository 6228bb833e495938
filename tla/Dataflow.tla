------------------------------ MODULE Dataflow ------------------------------
(***************************************************************************)
(* Pass 1 of the extraction, one body: TemplateBuilder's receiver files     *)
(* what the statement walk hands over, and the builders of initialisers,    *)
(* aliases and primitives file what stands outside any procedure. Rows of   *)
(* statements, targets, operands, reads, references that leave the          *)
(* instance, and the dependencies between them.                             *)
(*                                                                          *)
(* A body is a sequence of items, one for each node of the walk (ir/Nodes.h)*)
(* or symbol of the body, and the levels of its conditions. An item is      *)
(* begun by one action, which queues what is to be filed for it in `todo`,  *)
(* and every turn of the code's loops is an action that files one of these. *)
(* Nothing else runs meanwhile: the builder is sequential.                  *)
(*                                                                          *)
(* Left out: locations, construct words, delays, the counts of filtered     *)
(* constants, and the call sites, which Walker models. A reference always   *)
(* has a text to be filed under: its object's own name is the last resort.  *)
(***************************************************************************)
EXTENDS References

CONSTANTS
    Bodies,     \* the bodies to build
    Nets,       \* the objects of the body itself (DeclIndex::netFor)
    Inside      \* those, and the objects of the instances below the body

VARIABLES
    next,       \* the item to begin
    todo,       \* what is still to be filed of the item begun last
    curStmt,    \* the statement rows belong to (Build::curStmt), or 0
    ordinal,    \* the next ordinal in each list of the statement
    stmts,      \* rows of stmt
    rows,       \* rows of stmt_target, assign_operand and expr_ref
    hierRefs,   \* rows of hier_ref
    branchRefs, \* rows of branch_ref
    deps,       \* rows of net_dep
    controls,   \* the conditions over the assignment being filed
    target,     \* the target being filed, and whether a source reached it
    sides       \* the sides of the alias being filed

vars == <<body, next, todo, curStmt, ordinal, stmts, rows, hierRefs,
          branchRefs, deps, controls, target, sides>>

Lists == {"target", "operand", "expr"}      \* of a statement
Counters == Lists \cup {"read"}              \* and of a level
NoEnd == [net |-> NoNet, href |-> 0]
NoTarget == [ref |-> Ref(NoNet, Unknown, TRUE, NoExpr), end |-> NoEnd,
             row |-> 0, fed |-> FALSE, terminal |-> 0]

(***************************************************************************)
(* netOfRef and rangeOf: a path through the hierarchy names one occurrence, *)
(* never the body's own net; and a range has bits only when they are a run. *)
(***************************************************************************)
NetOf(r) == IF HierarchicalRoot(r) \/ r.sym \notin Nets THEN NoNet ELSE r.sym
IsLocal(r) == NetOf(r) # NoNet

RangeOf(r) ==
    [bits |-> IF r.cover.case = "run" THEN <<r.cover.lo, r.cover.hi>> ELSE <<>>,
     exact |-> r.exact]

(***************************************************************************)
(* The conditions over a level: its own reads after those of every level    *)
(* around it (BranchTable::chain).                                          *)
(***************************************************************************)
LevelReads(l) ==
    LET conds == body.levels[l].conds IN
    SelectSeq(FlattenSeq([k \in DOMAIN conds |-> CollectRefs[conds[k], FALSE]]),
              LAMBDA r : r.sym \notin LoopVars)

\* A bug: the levels around a level gate nothing.
ChainOfOne(level) ==
    IF level = 0 THEN <<>>
    ELSE [k \in DOMAIN LevelReads(level) |->
             [op |-> "control", ref |-> LevelReads(level)[k], level |-> level]]

Chain(level) ==
    LET upTo[l \in 0..Len(body.levels)] ==
            IF l = 0 THEN <<>>
            ELSE upTo[body.levels[l].parent]
                 \o [k \in DOMAIN LevelReads(l) |->
                        [op |-> "control", ref |-> LevelReads(l)[k], level |-> l]]
    IN  upTo[level]

(***************************************************************************)
(* What the walk makes of a statement: its targets, each with its pairs.    *)
(***************************************************************************)
TargetRecord(dst, pairs) == [dst |-> dst, pairs |-> pairs]

DropLoopVars(slots) == SelectSeq(slots, LAMBDA s : s.ref.sym \notin LoopVars)

\* The left side's slots, or its references unplaced where the two walks
\* over it disagree on how many there are.
LeftSlots(left) ==
    LET slots == CollectSlots[left, TRUE]
        refs == CollectRefs[left, TRUE]
    IN  IF Len(slots) = Len(refs) THEN slots ELSE Unpositioned(refs)

\* A compound operator reads its own target, and carries between its bits.
SelfRead(left) ==
    LET slots == CollectSlots[left, TRUE] IN
    [k \in DOMAIN slots |-> [slots[k] EXCEPT !.positional = FALSE]]

\* A bug: what the calls sample is forgotten.
RightSlotsWithoutCalls(item) ==
    DropLoopVars(CollectSlots[item.right, FALSE]
                 \o CollectAuxSlots[item.left, TRUE, item.active]
                 \o IF item.compound THEN SelfRead(item.left) ELSE <<>>)

RightSlots(item) ==
    DropLoopVars(CollectSlots[item.right, FALSE]
                 \o CollectAuxSlots[item.right, FALSE, item.active]
                 \o CollectAuxSlots[item.left, TRUE, item.active]
                 \o IF item.compound THEN SelfRead(item.left) ELSE <<>>)

AssignRecords(item) ==
    LET left == DropLoopVars(LeftSlots(item.left)) IN
    [k \in DOMAIN left |->
        TargetRecord(left[k].ref, Pairs(left[k], RightSlots(item)))]

\* x++ and its like: the operand is its own source.  The code files a statement
\* for each target, here they share one: there is more than one only if the
\* operand is itself a concatenation.
IncrementRecords(item) ==
    LET refs == SelectSeq(CollectRefs[item.operand, TRUE],
                          LAMBDA r : r.sym \notin LoopVars)
    IN  [k \in DOMAIN refs |->
            TargetRecord(refs[k], <<[src |-> refs[k], tgt |-> refs[k],
                                     mapExact |-> TRUE, srcAsWritten |-> refs[k]]>>)]

\* `return e`: the result variable, whole and unplaced.
ReturnRecords(item) ==
    LET result == Ref(item.var, Whole, TRUE, NoExpr)
        right == DropLoopVars(CollectSlots[item.right, FALSE]
                              \o CollectAuxSlots[item.right, FALSE, item.active])
        pairs == Pairs(Slot(result, Nowhere, FALSE), right)
    IN  <<TargetRecord(result, [k \in DOMAIN pairs |->
                                    [pairs[k] EXCEPT !.mapExact = FALSE]])>>

\* `wire w = e;`, which sees no loop and no left side.
InitRecords(item) ==
    LET net == Ref(item.net, Whole, TRUE, NoExpr)
        calls == CallReads[item.right, {}]
    IN  <<TargetRecord(net,
            Pairs(Slot(net, At(0, Width[item.net]), Width[item.net] > 0),
                  CollectSlots[item.right, FALSE] \o Unpositioned(calls)))>>

(***************************************************************************)
(* bindArguments: the pairs of one actual and its formal. A constant actual *)
(* leaves none, and ties the formal off.                                    *)
(***************************************************************************)
Writes(dir) == dir \in {"out", "inout", "ref"}
Reads(dir) == dir \in {"in", "inout", "ref", "constref"}

IsConstant[id \in Exprs] ==
    LET e == Expr[id] IN
    CASE e.kind = "path" -> e.sym \in Fixed
      [] e.kind \in {"stream", "call"} -> FALSE
      [] OTHER -> \A k \in DOMAIN e.args : IsConstant[e.args[k]]

Bindings(formal, actual, bindable) ==
    LET whole == Ref(formal.sym, Whole, TRUE, NoExpr)
        slot == Slot(whole, At(0, Width[formal.sym]), Width[formal.sym] > 0)
        slots == CollectSlots[actual, Writes(formal.dir)]
        Bind(pair, constant) ==
            [op |-> "bind", pair |-> pair, constant |-> constant,
             reads |-> Reads(formal.dir), writes |-> Writes(formal.dir),
             bindable |-> bindable]
        tieOff == [src |-> NoTarget.ref, tgt |-> whole, mapExact |-> FALSE,
                   srcAsWritten |-> NoTarget.ref]
        pairs == Pairs(slot, slots)
    IN  (IF Reads(formal.dir) /\ slots = <<>> /\ IsConstant[actual]
         THEN <<Bind(tieOff, TRUE)>> ELSE <<>>)
        \o [k \in DOMAIN pairs |-> Bind(pairs[k], FALSE)]

BindOps(item) ==
    LET call == Expr[item.call]
        formals == Subs[call.sub].formals
    IN  FlattenSeq([k \in 1..Smaller(Len(call.args), Len(formals)) |->
            Bindings(formals[k], call.args[k], item.bindable)])

(***************************************************************************)
(* The queue of an assignment-shaped statement: its conditions, then each   *)
(* target, the pairs of that target, and the end of it.                     *)
(***************************************************************************)
TargetOps(record) ==
    <<[op |-> "target", ref |-> record.dst]>>
    \o [k \in DOMAIN record.pairs |-> [op |-> "pair", pair |-> record.pairs[k]]]
    \o <<[op |-> "close"]>>

AssignOps(records, level) ==
    Chain(level) \o FlattenSeq([k \in DOMAIN records |-> TargetOps(records[k])])

RefsOf(ids, skip) ==
    FlattenSeq([k \in DOMAIN ids |-> CollectRefs[ids[k], skip]])

TaskOps(item) ==
    LET reads == RefsOf(item.reads, FALSE)
        writes == RefsOf(item.writes, TRUE)
    IN  [k \in DOMAIN reads |-> [op |-> "read", ref |-> reads[k]]]
        \o [k \in DOMAIN writes |->
               [op |-> IF item.released THEN "release" ELSE "write",
                ref |-> writes[k]]]

LevelOps ==
    FlattenSeq([l \in DOMAIN body.levels |->
        <<[op |-> "level"]>> \o [k \in DOMAIN LevelReads(l) |->
            [op |-> "levelRead", ref |-> LevelReads(l)[k], level |-> l]]])

AliasOps(item) ==
    FlattenSeq([k \in DOMAIN item.sides |->
        LET refs == CollectRefs[item.sides[k], TRUE] IN
        [j \in DOMAIN refs |-> [op |-> "side", ref |-> refs[j], group |-> k]]])
    \o <<[op |-> "couple",
          coarse |-> \E k \in DOMAIN item.sides :
                        Len(CollectRefs[item.sides[k], TRUE]) > 1]>>

\* Terminals of a primitive, by the direction the LRM or its ports give them.
Terminals(item, dirs) ==
    FlattenSeq([k \in DOMAIN item.conns |->
        LET conn == item.conns[k]
            refs == CollectRefs[conn.expr, conn.dir # "in"]
        IN  IF conn.dir \notin dirs THEN <<>>
            ELSE [j \in DOMAIN refs |-> [ref |-> refs[j], terminal |-> k]]])

GateOps(item) ==
    LET reads == Terminals(item, {"in", "inout"})
        writes == Terminals(item, {"out", "inout"})
        Others(t) == SelectSeq(reads, LAMBDA r : r.terminal # t)
        Ops(w) ==
            <<[op |-> "primTarget", ref |-> w.ref, terminal |-> w.terminal]>>
            \o [k \in DOMAIN Others(w.terminal) |->
                    [op |-> "primPair", ref |-> Others(w.terminal)[k].ref]]
            \o <<[op |-> "primClose"]>>
    IN  FlattenSeq([k \in DOMAIN writes |-> Ops(writes[k])])

(***************************************************************************)
(* The builder starts with nothing filed.                                   *)
(***************************************************************************)
Init ==
    /\ body \in Bodies
    /\ next = 1 /\ todo = <<>> /\ curStmt = 0
    /\ ordinal = [c \in Counters |-> 0]
    /\ stmts = <<>> /\ rows = [l \in Lists |-> <<>>]
    /\ hierRefs = <<>> /\ branchRefs = <<>> /\ deps = <<>>
    /\ controls = <<>> /\ target = NoTarget /\ sides = <<>>

Item == body.items[next]
Begins(kinds) ==
    /\ todo = <<>> /\ next <= Len(body.items) /\ Item.kind \in kinds
    /\ next' = next + 1

Takes(op) == todo # <<>> /\ Head(todo).op = op /\ todo' = Tail(todo)
Op == Head(todo)

(***************************************************************************)
(* newStmt: the row, and the ordinals of its lists from 0.                  *)
(***************************************************************************)
\* A bug: the lists of a statement go on from the one before.
NewStmtCountingOn(kind, level) ==
    /\ stmts' = Append(stmts, [kind |-> kind, level |-> level, item |-> next])
    /\ curStmt' = Len(stmts) + 1
    /\ UNCHANGED ordinal

NewStmt(kind, level) ==
    /\ stmts' = Append(stmts, [kind |-> kind, level |-> level, item |-> next])
    /\ curStmt' = Len(stmts) + 1
    /\ ordinal' = [ordinal EXCEPT !.target = 0, !.operand = 0, !.expr = 0]

Row(list, stmt, r) ==
    [stmt |-> stmt, ordinal |-> ordinal[list], net |-> NetOf(r),
     range |-> RangeOf(r)]

\* A row of the list, numbered next in its statement.
AddRow(list, stmt, r) ==
    /\ rows' = [rows EXCEPT ![list] = Append(@, Row(list, stmt, r))]
    /\ ordinal' = [ordinal EXCEPT ![list] = @ + 1]

LastRow(list) == Len(rows[list]) + 1

(***************************************************************************)
(* addHierRef: one row for each expression, direction and statement, or for *)
(* each expression of a level, which carries no statement. The row keeps    *)
(* the range the source spells.                                             *)
(***************************************************************************)
\* A bug: the bits a pair narrowed the reference to.
HierRowNarrowed(write, r, written, stmt, branch) ==
    [origin |-> r.origin, write |-> write,
     stmt |-> IF branch > 0 THEN 0 ELSE stmt, branch |-> branch,
     sym |-> r.sym, range |-> RangeOf(r)]

HierRow(write, r, written, stmt, branch) ==
    [origin |-> r.origin, write |-> write,
     stmt |-> IF branch > 0 THEN 0 ELSE stmt, branch |-> branch,
     sym |-> r.sym, range |-> RangeOf(written)]

SameKey(a, b) ==
    /\ a.origin = b.origin /\ a.write = b.write
    /\ a.stmt = b.stmt /\ a.branch = b.branch

Seen(row) == \E k \in DOMAIN hierRefs : SameKey(hierRefs[k], row)

HrefOf(row) ==
    IF Seen(row) THEN CHOOSE k \in DOMAIN hierRefs : SameKey(hierRefs[k], row)
    ELSE Len(hierRefs) + 1

AddHierRef(row) ==
    hierRefs' = IF Seen(row) THEN hierRefs ELSE Append(hierRefs, row)

(***************************************************************************)
(* The ends of a dependency, and its row before what some add to it.        *)
(***************************************************************************)
NetEnd(net) == [net |-> net, href |-> 0]
HrefEnd(k) == [net |-> NoNet, href |-> k]
NoRange == [bits |-> <<>>, exact |-> TRUE]

Dep(kind, stmt, src, srcR, tgt, tgtR) ==
    [kind |-> kind, stmt |-> stmt, prim |-> 0, branch |-> 0,
     src |-> src, srcR |-> srcR, tgt |-> tgt, tgtR |-> tgtR,
     mapExact |-> FALSE, operand |-> 0, target |-> 0, expr |-> 0,
     item |-> next - 1]

(***************************************************************************)
(* The nodes of the walk and the symbols of the body, begun in turn.        *)
(***************************************************************************)
Records(item) ==
    CASE item.kind = "assign"    -> AssignRecords(item)
      [] item.kind = "increment" -> IncrementRecords(item)
      [] item.kind = "return"    -> ReturnRecords(item)
      [] item.kind = "init"      -> InitRecords(item)

Leave == <<[op |-> "leave"]>>

BeginAssignment ==
    /\ Begins({"assign", "increment", "return", "init"})
    /\ IF Records(Item) = <<>>
       THEN UNCHANGED <<todo, stmts, curStmt, ordinal>>
       ELSE /\ NewStmt("assignment", Item.level)
            /\ todo' = AssignOps(Records(Item), Item.level)
                       \o (IF Item.kind = "init" THEN Leave ELSE <<>>)
    /\ controls' = <<>>
    /\ UNCHANGED <<body, rows, hierRefs, branchRefs, deps, target, sides>>

BeginBinding ==
    /\ Begins({"bind"})
    /\ todo' = BindOps(Item)
    /\ UNCHANGED <<body, curStmt, ordinal, stmts, rows, hierRefs, branchRefs,
                   deps, controls, target, sides>>

BeginTask ==
    /\ Begins({"task"})
    /\ NewStmt("task", Item.level)
    /\ todo' = TaskOps(Item)
    /\ UNCHANGED <<body, rows, hierRefs, branchRefs, deps, controls, target, sides>>

\* The end of the procedure: its levels file their own reads.
BeginLevels ==
    /\ Begins({"levels"})
    /\ todo' = LevelOps \o Leave
    /\ UNCHANGED <<body, curStmt, ordinal, stmts, rows, hierRefs, branchRefs,
                   deps, controls, target, sides>>

BeginAlias ==
    /\ Begins({"alias"})
    /\ IF Len(Item.sides) < 2
       THEN UNCHANGED <<todo, stmts, curStmt, ordinal>>
       ELSE /\ NewStmt("alias", 0)
            /\ todo' = AliasOps(Item)
    /\ sides' = <<>>
    /\ UNCHANGED <<body, rows, hierRefs, branchRefs, deps, controls, target>>

BeginGate ==
    /\ Begins({"gate"})
    /\ curStmt' = 0
    /\ todo' = GateOps(Item)
    /\ UNCHANGED <<body, ordinal, stmts, rows, hierRefs, branchRefs, deps,
                   controls, target, sides>>

(***************************************************************************)
(* fileAssignment. A condition gates a target once for each level, net and  *)
(* window, however often it is spelled.                                     *)
(***************************************************************************)
FileControl ==
    /\ Takes("control")
    /\ LET row == HierRow(FALSE, Op.ref, Op.ref, 0, Op.level)
           c == [level |-> Op.level, range |-> RangeOf(Op.ref),
                 origin |-> IF IsLocal(Op.ref) THEN NoExpr ELSE Op.ref.origin,
                 end |-> IF IsLocal(Op.ref) THEN NetEnd(NetOf(Op.ref))
                         ELSE HrefEnd(HrefOf(row))]
           Known(p) == /\ p.level = c.level /\ p.end.net = c.end.net
                       /\ p.range = c.range /\ p.origin = c.origin
       IN  IF \E k \in DOMAIN controls : Known(controls[k])
           THEN UNCHANGED <<controls, hierRefs>>
           ELSE /\ controls' = Append(controls, c)
                /\ IF IsLocal(Op.ref) THEN UNCHANGED hierRefs ELSE AddHierRef(row)
    /\ UNCHANGED <<body, next, curStmt, ordinal, stmts, rows, branchRefs, deps,
                   target, sides>>

FileTarget ==
    /\ Takes("target")
    /\ LET row == HierRow(TRUE, Op.ref, Op.ref, curStmt, 0)
           Target(end, k) ==
               [ref |-> Op.ref, end |-> end, row |-> k, fed |-> FALSE,
                terminal |-> 0]
       IN  IF IsLocal(Op.ref)
           THEN /\ AddRow("target", curStmt, Op.ref)
                /\ target' = Target(NetEnd(NetOf(Op.ref)), LastRow("target"))
                /\ UNCHANGED hierRefs
           ELSE /\ AddHierRef(row)
                /\ target' = Target(HrefEnd(HrefOf(row)), 0)
                /\ UNCHANGED <<rows, ordinal>>
    /\ UNCHANGED <<body, next, curStmt, stmts, branchRefs, deps, controls, sides>>

FilePair ==
    /\ Takes("pair")
    /\ LET p == Op.pair
           row == HierRow(FALSE, p.src, p.srcAsWritten, curStmt, 0)
           Between(src, k) ==
               [Dep("data", curStmt, src, RangeOf(p.src), target.end, RangeOf(p.tgt))
                EXCEPT !.mapExact = p.mapExact, !.operand = k, !.target = target.row]
       IN  IF IsLocal(p.src)
           THEN /\ AddRow("operand", curStmt, p.src)
                /\ deps' = Append(deps, Between(NetEnd(NetOf(p.src)),
                                                LastRow("operand")))
                /\ UNCHANGED hierRefs
           ELSE /\ AddHierRef(row)
                /\ deps' = Append(deps, Between(HrefEnd(HrefOf(row)), 0))
                /\ UNCHANGED <<rows, ordinal>>
    /\ target' = [target EXCEPT !.fed = TRUE]
    /\ UNCHANGED <<body, next, curStmt, stmts, branchRefs, controls, sides>>

\* A bug: a row without a source beside those with one.
CloseTargetAsConstant ==
    /\ Takes("close")
    /\ LET tgtR == RangeOf(target.ref)
           constant == [Dep("data", curStmt, NoEnd, NoRange, target.end, tgtR)
                        EXCEPT !.target = target.row]
           Gating(c) == [Dep("control", curStmt, c.end, c.range, target.end, tgtR)
                         EXCEPT !.branch = c.level, !.target = target.row]
       IN  deps' = Append(deps, constant)
                   \o [k \in DOMAIN controls |-> Gating(controls[k])]
    /\ UNCHANGED <<body, next, curStmt, ordinal, stmts, rows, hierRefs,
                   branchRefs, controls, target, sides>>

\* A target nothing reached is driven by the statement alone; then each
\* condition reaches it.
CloseTarget ==
    /\ Takes("close")
    /\ LET tgtR == RangeOf(target.ref)
           constant == [Dep("data", curStmt, NoEnd, NoRange, target.end, tgtR)
                        EXCEPT !.target = target.row]
           Gating(c) == [Dep("control", curStmt, c.end, c.range, target.end, tgtR)
                         EXCEPT !.branch = c.level, !.target = target.row]
       IN  deps' = deps \o (IF target.fed THEN <<>> ELSE <<constant>>)
                        \o [k \in DOMAIN controls |-> Gating(controls[k])]
    /\ UNCHANGED <<body, next, curStmt, ordinal, stmts, rows, hierRefs,
                   branchRefs, controls, target, sides>>

LeaveStatement ==
    /\ Takes("leave")
    /\ curStmt' = 0
    /\ UNCHANGED <<body, next, ordinal, stmts, rows, hierRefs, branchRefs, deps,
                   controls, target, sides>>

(***************************************************************************)
(* fileBinding. A call in a condition belongs to no statement.              *)
(***************************************************************************)
CallStmt == IF Op.bindable THEN curStmt ELSE 0

\* A formal tied off by a constant is a target of the calling statement.
TieOff ==
    /\ Takes("bind") /\ Op.constant
    /\ IF IsLocal(Op.pair.tgt) /\ CallStmt > 0
       THEN /\ AddRow("target", CallStmt, Op.pair.tgt)
            /\ deps' = Append(deps,
                [Dep("data", CallStmt, NoEnd, NoRange,
                     NetEnd(NetOf(Op.pair.tgt)), RangeOf(Op.pair.tgt))
                 EXCEPT !.target = LastRow("target")])
       ELSE UNCHANGED <<rows, ordinal, deps>>
    /\ UNCHANGED <<body, next, curStmt, stmts, hierRefs, branchRefs, controls,
                   target, sides>>

ActualRow == HierRow(Op.writes, Op.pair.src, Op.pair.src, CallStmt, 0)

\* Neither end is a net of the body: the reference alone is filed.
BindNeither ==
    /\ Takes("bind") /\ ~Op.constant
    /\ ~IsLocal(Op.pair.tgt) /\ ~IsLocal(Op.pair.src)
    /\ AddHierRef(ActualRow)
    /\ UNCHANGED <<body, next, curStmt, ordinal, stmts, rows, branchRefs, deps,
                   controls, target, sides>>

\* The rows an argument leaves on the calling statement, if it has one.
FileArgument ==
    IF CallStmt = 0 THEN UNCHANGED <<rows, ordinal>>
    ELSE LET used == (IF Op.reads THEN {"expr"} ELSE {})
                     \cup (IF Op.writes THEN {"target"} ELSE {}) IN
         /\ rows' = [l \in Lists |-> IF l \in used
                         THEN Append(rows[l], Row(l, CallStmt, Op.pair.src))
                         ELSE rows[l]]
         /\ ordinal' = [c \in Counters |-> IF c \in used THEN ordinal[c] + 1
                                           ELSE ordinal[c]]

WrittenRow == IF CallStmt = 0 THEN 0 ELSE LastRow("target")
ReadRow == IF CallStmt = 0 THEN 0 ELSE LastRow("expr")

\* The formal of a subroutine declared elsewhere: only the actual's half.
BindForeign ==
    /\ Takes("bind") /\ ~Op.constant
    /\ ~IsLocal(Op.pair.tgt) /\ IsLocal(Op.pair.src)
    /\ FileArgument
    /\ deps' = IF ~Op.writes THEN deps
               ELSE Append(deps,
                [Dep("procedure", CallStmt, NoEnd, NoRange,
                     NetEnd(NetOf(Op.pair.src)), RangeOf(Op.pair.src))
                 EXCEPT !.target = WrittenRow])
    /\ UNCHANGED <<body, next, curStmt, stmts, hierRefs, branchRefs, controls,
                   target, sides>>

\* The dependencies of a binding whose actual's end is `end`.
Bound(end) ==
    LET p == Op.pair
        formal == NetEnd(NetOf(p.tgt))
        local == end.net # NoNet
        into == [Dep("procedure", CallStmt, end, RangeOf(p.src), formal, RangeOf(p.tgt))
                 EXCEPT !.mapExact = p.mapExact, !.expr = IF local THEN ReadRow ELSE 0]
        back == [Dep("procedure", CallStmt, formal, RangeOf(p.tgt), end, RangeOf(p.src))
                 EXCEPT !.mapExact = p.mapExact, !.target = IF local THEN WrittenRow ELSE 0]
    IN  (IF Op.reads THEN <<into>> ELSE <<>>) \o (IF Op.writes THEN <<back>> ELSE <<>>)

BindOutward ==
    /\ Takes("bind") /\ ~Op.constant
    /\ IsLocal(Op.pair.tgt) /\ ~IsLocal(Op.pair.src)
    /\ AddHierRef(ActualRow)
    /\ deps' = deps \o Bound(HrefEnd(HrefOf(ActualRow)))
    /\ UNCHANGED <<body, next, curStmt, ordinal, stmts, rows, branchRefs,
                   controls, target, sides>>

BindLocal ==
    /\ Takes("bind") /\ ~Op.constant
    /\ IsLocal(Op.pair.tgt) /\ IsLocal(Op.pair.src)
    /\ FileArgument
    /\ deps' = deps \o Bound(NetEnd(NetOf(Op.pair.src)))
    /\ UNCHANGED <<body, next, curStmt, stmts, hierRefs, branchRefs, controls,
                   target, sides>>

(***************************************************************************)
(* fileReadLike: what a task or a wait reads, writes or lets go of.         *)
(***************************************************************************)
FileRead ==
    /\ Takes("read")
    /\ IF IsLocal(Op.ref)
       THEN AddRow("expr", curStmt, Op.ref) /\ UNCHANGED hierRefs
       ELSE /\ AddHierRef(HierRow(FALSE, Op.ref, Op.ref, curStmt, 0))
            /\ UNCHANGED <<rows, ordinal>>
    /\ UNCHANGED <<body, next, curStmt, stmts, branchRefs, deps, controls,
                   target, sides>>

\* recordSystemWrite: the task is the driver, from no source.
FileWrite ==
    /\ Takes("write")
    /\ LET row == HierRow(TRUE, Op.ref, Op.ref, curStmt, 0)
           Driven(end) == Dep("data", curStmt, NoEnd, NoRange, end, RangeOf(Op.ref))
       IN  IF IsLocal(Op.ref)
           THEN /\ AddRow("target", curStmt, Op.ref)
                /\ deps' = Append(deps, [Driven(NetEnd(NetOf(Op.ref)))
                                         EXCEPT !.target = LastRow("target")])
                /\ UNCHANGED hierRefs
           ELSE /\ AddHierRef(row)
                /\ deps' = Append(deps, Driven(HrefEnd(HrefOf(row))))
                /\ UNCHANGED <<rows, ordinal>>
    /\ UNCHANGED <<body, next, curStmt, stmts, branchRefs, controls, target, sides>>

\* recordReleaseTarget: named, and not driven.
FileRelease ==
    /\ Takes("release")
    /\ IF IsLocal(Op.ref)
       THEN AddRow("target", curStmt, Op.ref) /\ UNCHANGED hierRefs
       ELSE /\ AddHierRef(HierRow(TRUE, Op.ref, Op.ref, curStmt, 0))
            /\ UNCHANGED <<rows, ordinal>>
    /\ UNCHANGED <<body, next, curStmt, stmts, branchRefs, deps, controls,
                   target, sides>>

(***************************************************************************)
(* The reads of a level, once for the level.                                *)
(***************************************************************************)
OpenLevel ==
    /\ Takes("level")
    /\ ordinal' = [ordinal EXCEPT !.read = 0]
    /\ UNCHANGED <<body, next, curStmt, stmts, rows, hierRefs, branchRefs, deps,
                   controls, target, sides>>

FileLevelRead ==
    /\ Takes("levelRead")
    /\ IF IsLocal(Op.ref)
       THEN /\ branchRefs' = Append(branchRefs,
                   [branch |-> Op.level, ordinal |-> ordinal.read,
                    net |-> NetOf(Op.ref), range |-> RangeOf(Op.ref)])
            /\ ordinal' = [ordinal EXCEPT !.read = @ + 1]
            /\ UNCHANGED hierRefs
       ELSE /\ AddHierRef(HierRow(FALSE, Op.ref, Op.ref, 0, Op.level))
            /\ UNCHANGED <<branchRefs, ordinal>>
    /\ UNCHANGED <<body, next, curStmt, stmts, rows, deps, controls, target, sides>>

(***************************************************************************)
(* buildNetAliases: every reference is a target and an operand, and every   *)
(* two of different sides depend on each other.                             *)
(***************************************************************************)
FileSide ==
    /\ Takes("side")
    /\ IF IsLocal(Op.ref)
       THEN /\ rows' = [rows EXCEPT
                  !.target = Append(@, Row("target", curStmt, Op.ref)),
                  !.operand = Append(@, Row("operand", curStmt, Op.ref))]
            /\ ordinal' = [ordinal EXCEPT !.target = @ + 1, !.operand = @ + 1]
            /\ sides' = Append(sides,
                  [ref |-> Op.ref, group |-> Op.group,
                   target |-> LastRow("target"), operand |-> LastRow("operand")])
            /\ UNCHANGED hierRefs
       ELSE /\ AddHierRef(HierRow(TRUE, Op.ref, Op.ref, curStmt, 0))
            /\ UNCHANGED <<rows, ordinal, sides>>
    /\ UNCHANGED <<body, next, curStmt, stmts, branchRefs, deps, controls, target>>

Couple(a, b) ==
    [Dep("alias", curStmt, NetEnd(NetOf(a.ref)), RangeOf(a.ref),
         NetEnd(NetOf(b.ref)), RangeOf(b.ref))
     EXCEPT !.operand = a.operand, !.target = b.target,
            !.mapExact = ~Op.coarse /\ a.ref.exact /\ b.ref.exact]

CoupleSides ==
    /\ Takes("couple")
    /\ LET Onto(a) == SelectSeq(sides, LAMBDA b : b.group # a.group)
           From(a) == [k \in DOMAIN Onto(a) |-> Couple(a, Onto(a)[k])]
       IN  deps' = deps \o FlattenSeq([k \in DOMAIN sides |-> From(sides[k])])
    /\ curStmt' = 0
    /\ UNCHANGED <<body, next, ordinal, stmts, rows, hierRefs, branchRefs,
                   controls, target, sides>>

(***************************************************************************)
(* buildPrimitives: one dependency for each output and each input of        *)
(* another terminal. An end with no net here couples nothing; it is filed   *)
(* as a reference if it is an output, or if it lies outside the body.       *)
(***************************************************************************)
FilePrimTarget ==
    /\ Takes("primTarget")
    /\ target' = [ref |-> Op.ref, row |-> 0, fed |-> FALSE,
                  terminal |-> Op.terminal,
                  end |-> IF IsLocal(Op.ref) THEN NetEnd(NetOf(Op.ref)) ELSE NoEnd]
    /\ IF IsLocal(Op.ref) THEN UNCHANGED hierRefs
       ELSE AddHierRef(HierRow(TRUE, Op.ref, Op.ref, curStmt, 0))
    /\ UNCHANGED <<body, next, curStmt, ordinal, stmts, rows, branchRefs, deps,
                   controls, sides>>

\* addHierRefIfOutward
AddHierRefIfOutward(r) ==
    IF r.sym \in Inside THEN UNCHANGED hierRefs
    ELSE AddHierRef(HierRow(FALSE, r, r, curStmt, 0))

OneBit(r) ==
    /\ r.exact
    /\ IF r.cover.case = "run" THEN r.cover.lo = r.cover.hi ELSE Width[r.sym] = 1

PrimDep(src, srcR) ==
    [Dep("primitive", 0, src, srcR, target.end, RangeOf(target.ref))
     EXCEPT !.prim = next - 1]

FilePrimPair ==
    /\ Takes("primPair")
    /\ IF target.end.net # NoNet /\ IsLocal(Op.ref)
       THEN /\ deps' = Append(deps,
                  [PrimDep(NetEnd(NetOf(Op.ref)), RangeOf(Op.ref))
                   EXCEPT !.mapExact = OneBit(Op.ref) /\ OneBit(target.ref)])
            /\ target' = [target EXCEPT !.fed = TRUE]
            /\ UNCHANGED hierRefs
       ELSE /\ AddHierRefIfOutward(Op.ref)
            /\ UNCHANGED <<deps, target>>
    /\ UNCHANGED <<body, next, curStmt, ordinal, stmts, rows, branchRefs,
                   controls, sides>>

ClosePrimTarget ==
    /\ Takes("primClose")
    /\ deps' = IF target.fed \/ target.end.net = NoNet THEN deps
               ELSE Append(deps, PrimDep(NoEnd, NoRange))
    /\ UNCHANGED <<body, next, curStmt, ordinal, stmts, rows, hierRefs,
                   branchRefs, controls, target, sides>>

Finished == todo = <<>> /\ next > Len(body.items)

(***************************************************************************)
(* The builder returns when the last item is filed.                         *)
(***************************************************************************)
Return == Finished /\ UNCHANGED vars

Next ==
    \/ BeginAssignment \/ BeginBinding \/ BeginTask \/ BeginLevels
    \/ BeginAlias \/ BeginGate
    \/ FileControl \/ FileTarget \/ FilePair \/ CloseTarget \/ LeaveStatement
    \/ TieOff \/ BindNeither \/ BindForeign \/ BindOutward \/ BindLocal
    \/ FileRead \/ FileWrite \/ FileRelease \/ OpenLevel \/ FileLevelRead
    \/ FileSide \/ CoupleSides
    \/ FilePrimTarget \/ FilePrimPair \/ ClosePrimTarget
    \/ Return

Spec == Init /\ [][Next]_vars
=============================================================================
