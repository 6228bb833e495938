---------------------------- MODULE MCTemplates ----------------------------
(***************************************************************************)
(* Small designs: a family for each half of pass 1. The first has the       *)
(* module graphs, cyclic ones included, with empty boundaries; the others   *)
(* have one parent, one child and every tie between them.                   *)
(***************************************************************************)
EXTENDS TemplatesProperties, TLC

MCKeys == {"A", "B", "C", "I"}

MCWidth ==
    [a |-> 4, b |-> 2, c |-> 2, e |-> 8, g |-> 4, i |-> 2, m |-> 4, t |-> 4,
     v |-> 2, w |-> 8, K |-> 4, f |-> 4, fa |-> 4, up |-> 4, far |-> 2,
     p |-> 4, q |-> 8, ph |-> 2, pl |-> 2, p1 |-> 1, p3 |-> 3]
MCNets == {"a", "b", "c", "e", "g", "i", "m", "t", "v", "w", "p", "q", "ph",
           "pl", "p1", "p3"}
MCFixed == {"K"}
MCLoopVars == {}

(***************************************************************************)
(* Expressions. `up` and `far` are spelled through the hierarchy; p, q, ph, *)
(* pl, p1 and p3 are nets of the child.                                     *)
(***************************************************************************)
Path(sym, lo, hi) ==
    [kind |-> "path", width |-> hi - lo + 1, args |-> <<>>, sym |-> sym,
     lo |-> lo, hi |-> hi, named |-> hi - lo + 1, bounded |-> TRUE,
     static |-> TRUE, sels |-> <<>>, hier |-> FALSE]
Obj(sym) == Path(sym, 0, MCWidth[sym] - 1)
Outer(sym) == [Obj(sym) EXCEPT !.hier = TRUE]
Dynamic(sym, sel, width) ==
    [Obj(sym) EXCEPT !.width = width, !.static = FALSE, !.sels = <<sel>>]
Of(kind, width, args) == [kind |-> kind, width |-> width, args |-> args]

MCExprs ==
    "a" :> Obj("a") @@ "b" :> Obj("b") @@ "c" :> Obj("c") @@ "e" :> Obj("e")
    @@ "g" :> Obj("g") @@ "i" :> Obj("i") @@ "K" :> Obj("K") @@ "f" :> Obj("f")
    @@ "fa" :> Obj("fa") @@ "v" :> Obj("v") @@ "up" :> Outer("up")
    @@ "far" :> Outer("far") @@ "t.lo" :> Path("t", 0, 1) @@ "t.hi" :> Path("t", 2, 3)
    @@ "w.mid" :> Path("w", 2, 5) @@ "w.3" :> Path("w", 0, 2) @@ "m1" :> Path("m", 1, 1)
    @@ "w[i]" :> Dynamic("w", "i", 4)
    @@ "w[i]+v" :> Of("operation", 4, <<"w[i]", "v">>)
    @@ "{m1,w[i],m1}" :> Of("concat", 6, <<"m1", "w[i]", "m1">>)
    @@ "lit4" :> Of("literal", 4, <<>>) @@ "lit2" :> Of("literal", 2, <<>>)
    @@ "lit0" :> Of("literal", 0, <<>>)
    @@ "{b,c}" :> Of("concat", 4, <<"b", "c">>)
    @@ "{b,0}" :> Of("concat", 4, <<"b", "lit2">>)
    @@ "{b,0x,c}" :> Of("concat", 4, <<"b", "lit0", "c">>)
    @@ "{m1,b,m1}" :> Of("concat", 4, <<"m1", "b", "m1">>)
    @@ "{m1,b}" :> Of("concat", 3, <<"m1", "b">>)
    @@ "{far,b}" :> Of("concat", 4, <<"far", "b">>)
    @@ "{t.lo,t.hi}" :> Of("concat", 4, <<"t.lo", "t.hi">>)
    @@ "{b,e}" :> Of("concat", 10, <<"b", "e">>)
    @@ "{a,g}" :> Of("concat", 8, <<"a", "g">>)
    @@ "{2{b}}" :> Of("replicate", 4, <<"b">>)
    @@ "{2{m1,m1}}" :> Of("replicate", 4, <<"{m1,m1}">>)
    @@ "{m1,m1}" :> Of("concat", 2, <<"m1", "m1">>)
    @@ "2{c}" :> Of("replicate", 4, <<"c">>)
    @@ "{2{c},a}" :> Of("concat", 8, <<"2{c}", "a">>)
    @@ "4'(b)" :> Of("convert", 4, <<"b">>) @@ "4'(e)" :> Of("convert", 4, <<"e">>)
    @@ "s'({b,c})" :> Of("convert", 4, <<"{b,c}">>)
    @@ "2'(a)" :> Of("convert", 2, <<"a">>)
    @@ "{2'(a),b}" :> Of("concat", 4, <<"2'(a)", "b">>)
    @@ "a+up" :> Of("operation", 4, <<"a", "up">>)
    @@ "{b+c,v}" :> Of("concat", 4, <<"b+c", "v">>)
    @@ "b+c" :> Of("operation", 2, <<"b", "c">>)
    @@ "f.a+v" :> Of("operation", 4, <<"fa", "v">>)
    @@ "f(a)" :> [kind |-> "call", width |-> 4, args |-> <<"a">>, sub |-> "f"]
    \* inside a port
    @@ "q.lo" :> Path("q", 2, 5) @@ "{ph,pl}" :> Of("concat", 4, <<"ph", "pl">>)
    @@ "ph" :> Obj("ph") @@ "pl" :> Obj("pl")
    @@ "{p3,p1}" :> Of("concat", 4, <<"p3", "p1">>)
    @@ "p3" :> Obj("p3") @@ "p1" :> Obj("p1")
    \* a sequence
    @@ "a ##1 w[i]" :> Of("operation", 0, <<"a", "w[i]">>)

MCSubs ==
    "f" :> [own |-> {"f", "fa"}, formals |-> <<[sym |-> "fa", dir |-> "in"]>>,
            body |-> <<[left |-> "f", right |-> "f.a+v"]>>]

(***************************************************************************)
(* Instances are the places below their top; what matters of them is in the *)
(* designs. A repeated module ends every branch before the fifth level.     *)
(***************************************************************************)
MCInsts == UNION {[1..n -> 1..2] : n \in 1..5} \cup {<<1, 3>>, <<1, 4>>}

Kid(i, n) == Append(i, n)
KeyOf(graph, roots, i) ==
    LET key[n \in 1..Len(i)] ==
            IF n = 1 THEN IF i[1] \in DOMAIN roots THEN roots[i[1]] ELSE "I"
            ELSE IF i[n] \in DOMAIN graph[key[n - 1]]
                 THEN graph[key[n - 1]][i[n]] ELSE "I"
    IN  key[Len(i)]

\* The bodies of one module are shared, or each instance has its own.
FirstOf(key) ==
    LET Of1(k) == {i \in MCInsts : key[i] = k}
        first == [k \in {key[i] : i \in MCInsts} |->
                    CHOOSE i \in Of1(k) : \A j \in Of1(k) : Len(i) <= Len(j)]
    IN  [i \in MCInsts |-> first[key[i]]]
OwnBodies == [i \in MCInsts |-> i]

Tree(graph, roots, shared, analysed, def, body) ==
    LET key == [i \in MCInsts |-> KeyOf(graph, roots, i)] IN
    [tops |-> [n \in DOMAIN roots |-> <<n>>],
     kids |-> [i \in MCInsts |->
                 SelectSeq([n \in DOMAIN graph[key[i]] |-> Kid(i, n)],
                           LAMBDA j : j \in MCInsts)],
     key |-> key, canon |-> IF shared THEN FirstOf(key) ELSE OwnBodies,
     analysed |-> analysed, def |-> def, order |-> <<"A", "B", "C", "I">>,
     exprs |-> MCExprs, body |-> body]

Own == [k \in MCKeys |-> k]
OneOfBC == [Own EXCEPT !["C"] = "B"]

(***************************************************************************)
(* Module graphs.                                                           *)
(***************************************************************************)
NoKids == [k \in MCKeys |-> <<>>]
Graphs ==
    {[NoKids EXCEPT !["A"] = a, !["B"] = b] :
        a \in {<<"A", "A">>, <<"B">>, <<"B", "C">>, <<"B", "B">>},
        b \in {<<"A">>, <<"C">>, <<"A", "C">>, <<"C", "B">>}}

Plain(n) == [kid |-> n, elem |-> n, inArray |-> FALSE, from |-> 0, conns |-> <<>>]
Empty(graph) ==
    [k \in MCKeys |-> [ports |-> <<>>, nets |-> {},
                       children |-> [n \in DOMAIN graph[k] |-> Plain(n)]]]

AnalysedSets ==
    {{}, MCInsts, {i \in MCInsts : i[Len(i)] = 2}, {i \in MCInsts : Len(i) = 3},
     {i \in MCInsts : Len(i) = 4}}

GroupingDesigns ==
    {Tree(graph, roots, shared, analysed, OneOfBC, Empty(graph)) :
        graph \in Graphs, roots \in {<<"A">>, <<"B", "A">>}, shared \in BOOLEAN,
        analysed \in AnalysedSets}

(***************************************************************************)
(* One child of A, with one terminal.                                       *)
(***************************************************************************)
Port(dir) == [kind |-> "port", width |-> 4, dir |-> dir, inner |-> NoExpr, sym |-> "p"]
Inner(dir, inner) == [Port(dir) EXCEPT !.inner = inner, !.sym = "q"]
Multi(dir) ==
    [kind |-> "multi", width |-> 4, dir |-> dir,
     members |-> <<[sym |-> "p1", width |-> 1], [sym |-> "p3", width |-> 3]>>]
Conn(expr) == [term |-> 1, member |-> 0, expr |-> expr]
Member(m, expr) == [Conn(expr) EXCEPT !.member = m]

Bound(n, conns) == [Plain(n) EXCEPT !.conns = conns]
InArray(n, from, expr) ==
    [Bound(n, <<Conn(expr)>>) EXCEPT !.inArray = TRUE, !.from = from]

Pair == [NoKids EXCEPT !["A"] = <<"B", "B">>]
Tied(ports, children) ==
    Tree(Pair, <<"A">>, TRUE, MCInsts, Own,
         [Empty(Pair) EXCEPT !["A"] = [@ EXCEPT !.nets = MCNets, !.children = children],
                             !["B"] = [@ EXCEPT !.nets = MCNets, !.ports = ports]])

Ports(dir) == {Port(dir), Inner(dir, "q.lo"), Inner(dir, "{ph,pl}"), Inner(dir, "{p3,p1}")}

Given == {"a", "{b,c}", "{b,0}", "{b,0x,c}", "{m1,b,m1}", "{far,b}", "{2{b}}",
          "{2{m1,m1}}", "4'(b)", "4'(e)", "s'({b,c})", "{2'(a),b}", "a+up",
          "{b+c,v}", "f(a)", "K", "lit4", "up", "w.mid", "w[i]", "w[i]+v",
          "{m1,w[i],m1}", NoExpr}
Taken == {"a", "b", "e", "{b,c}", "{far,b}", "{t.lo,t.hi}", "{b,e}", "w.mid",
          "w[i]", "up", NoExpr}
Shared == {"a", "{b,c}", "w.mid", "up", "{t.lo,t.hi}"}

Actuals(dir) == IF dir = "in" THEN Given ELSE IF dir = "out" THEN Taken ELSE Shared

TiedDesigns ==
    UNION {{Tied(<<port>>, <<Bound(1, <<Conn(expr)>>), Bound(2, <<Conn("g")>>)>>) :
               port \in Ports(dir), expr \in Actuals(dir)} :
               dir \in {"in", "out", "inout", "ref"}}
    \cup {Tied(<<Multi(dir)>>, <<Bound(1, <<Member(1, one), Member(2, three)>>)>>) :
             dir \in {"in", "out"}, one \in {"m1", NoExpr},
             three \in {"w.3", "{m1,b}"}}
    \cup {Tied(<<Port(dir)>>, <<InArray(1, 4, expr), InArray(2, 0, expr)>>) :
             dir \in {"in", "out"}, expr \in {"e", "{a,g}"}}
    \cup {Tied(<<Port("in")>>, <<InArray(1, 0, expr), InArray(2, 0, expr)>>) :
             expr \in {"a", "{b,0}", "f(a)"}}

(***************************************************************************)
(* A black box.                                                             *)
(***************************************************************************)
Box(expr, sequence) ==
    [Plain(0) EXCEPT !.conns = <<[term |-> 1, expr |-> expr, sequence |-> sequence]>>]

BoxDesigns ==
    {Tied(<<>>, <<Box(expr, FALSE)>>) :
        expr \in {"a", "{b,c}", "a+up", "f(a)", "{far,b}", "lit4", "K", "w[i]", "w[i]+v",
                 NoExpr}}
    \cup {Tied(<<>>, <<Box(expr, TRUE)>>) : expr \in {"a ##1 w[i]", "lit4"}}

(***************************************************************************)
(* Interfaces: B has an array port and a single one, and an interface of    *)
(* its own, and C is bound to some of them.                                 *)
(***************************************************************************)
Iface(array, elems) == [kind |-> "iface", array |-> array, elems |-> elems, width |-> 0,
                        dir |-> "none"]
IfaceConn(term, array, elems) == [term |-> term, array |-> array, elems |-> elems]
Named2(n, elem, conns) == [Bound(n, conns) EXCEPT !.elem = elem]

IfaceGraph == [NoKids EXCEPT !["A"] = <<"B", "I", "I", "I">>, !["B"] = <<"C", "I">>]
OwnArray == <<"x0", "x1">>

IfaceDesigns ==
    {Tree(IfaceGraph, <<"A">>, TRUE, MCInsts, Own,
          [Empty(IfaceGraph) EXCEPT
             !["A"] = [@ EXCEPT !.children =
                 <<Named2(1, "u", <<IfaceConn(1, TRUE, OwnArray), IfaceConn(2, FALSE, <<"y">>)>>),
                   Named2(2, "x0", <<>>), Named2(3, "x1", <<>>), Named2(4, "y", <<>>)>>],
             !["B"] = [@ EXCEPT
                 !.ports = <<Iface(TRUE, OwnArray), Iface(FALSE, <<"y">>)>>,
                 !.children = <<Named2(1, "v", <<IfaceConn(1, array, elems)>>),
                                Named2(2, "j", <<>>)>>],
             !["C"] = [@ EXCEPT !.ports = <<Iface(array, elems)>>]]) :
        <<array, elems>> \in {<<TRUE, OwnArray>>, <<TRUE, <<"x1", "x0">>>>,
            <<TRUE, <<"x1">>>>, <<TRUE, <<"y", "j">>>>, <<TRUE, <<"j", "x1">>>>,
            <<FALSE, <<"y">>>>, <<FALSE, <<"j">>>>, <<FALSE, <<>>>>}}

(***************************************************************************)
(* B takes the width of C from a parameter of the interface it is bound to: *)
(* its two instances have equal parameters, of which they have none, and a  *)
(* child of another key, C or I, each.                                      *)
(***************************************************************************)
FoldedGraph == [NoKids EXCEPT !["A"] = <<"B", "B">>, !["B"] = <<"C">>]
FoldedDesigns ==
    {[Tree(FoldedGraph, <<"A">>, FALSE, MCInsts, [Own EXCEPT !["I"] = "C"],
           Empty(FoldedGraph)) EXCEPT !.key[<<1, 2, 1>>] = "I"]}

MCDesigns == GroupingDesigns \cup TiedDesigns \cup BoxDesigns \cup IfaceDesigns
=============================================================================
