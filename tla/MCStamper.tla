----------------------------- MODULE MCStamper -----------------------------
(***************************************************************************)
(* Small designs for Stamper: a family per question.                       *)
(***************************************************************************)
EXTENDS StamperProperties

MCName == {"A", "B", "C", "g", "p", "u", "v", "w", "x"}
MCTpl == {"A", "B", "C"}
MCPlain == {"branch", "stmt"}

NoRows == [tab \in MCPlain |-> <<>>]
Leaf(def) ==
    [def |-> def, scopes |-> <<>>, prims |-> <<>>, nets |-> <<>>, terms |-> 0,
     rows |-> NoRows, refs |-> <<>>, deps |-> <<>>, children |-> <<>>]

Module(name, t, conns) ==
    [name |-> name, kind |-> "module", scope |-> 0, tpl |-> t, ports |-> 0,
     conns |-> conns]
BlackBox(name, ports, conns) ==
    [name |-> name, kind |-> "unresolved", scope |-> 0, tpl |-> "A",
     ports |-> ports, conns |-> conns]

Wire(t, s, n) == [iface |-> FALSE, term |-> t, seg |-> s, net |-> n, ref |-> 0,
                  child |-> 0, ownTerm |-> 0, ownSeg |-> 0]
Tie(t, s, r) == [Wire(t, s, 0) EXCEPT !.ref = r]
ToSibling(t, s, c) == [Wire(t, s, 0) EXCEPT !.iface = TRUE, !.child = c]
Forward(t, s, own, seg) ==
    [Wire(t, s, 0) EXCEPT !.iface = TRUE, !.ownTerm = own, !.ownSeg = seg]

RefTo(route, anchor, segs) ==
    [route |-> route, anchor |-> anchor, term |-> 0, seg |-> 0, segs |-> segs,
     net |-> "x"]

Tops(names, t) == [i \in 1..Len(names) |-> [name |-> names[i], tpl |-> t[i]]]

UpTo(S, n) == UNION {[1..k -> S] : k \in 0..n}

-----------------------------------------------------------------------------
(* Shapes of the tree: every template graph over three templates in which  *)
(* A has up to two children and B a few, cycles of one and of two templates *)
(* included; equal sibling names, also of a level, a primitive and a       *)
(* child; black boxes; local rows that name each other.                    *)
ChildrenOfA ==
    UpTo({Module("u", "A", <<>>), Module("u", "B", <<Wire(1, 0, 1)>>),
          Module("v", "B", <<Wire(0, 0, 1), Wire(1, 0, 2), Tie(1, 1, 1)>>),
          BlackBox("g", 2, <<Wire(1, 0, 1), Wire(2, 0, 0)>>)}, 2)
ChildrenOfB ==
    LET back == [Module("u", "A", <<>>) EXCEPT !.scope = 1]
        leaf == [Module("p", "C", <<Wire(1, 0, 1)>>) EXCEPT !.scope = 1]
        self == Module("v", "B", <<Wire(1, 0, 1)>>)
    IN  {<<>>, <<back>>, <<leaf>>, <<self, leaf>>, <<back, self>>}

BodyA(kids) == [Leaf("A") EXCEPT
    !.nets = <<"x", "u">>, !.children = kids,
    !.refs = <<RefTo("downward", "g", <<"u">>)>>,
    !.scopes = <<[name |-> "g", parent |-> 0]>>,
    !.rows = [branch |-> << {}, {<<"branch", 1>>} >>,
              stmt |-> << {<<"branch", 2>>, <<"net", 1>>} >>],
    !.deps = << [src |-> [net |-> 1, ref |-> 0], tgt |-> [net |-> 2, ref |-> 0],
                 sourceless |-> FALSE,
                 links |-> {<<"stmt", 1>>, <<"branch", 2>>}] >>]
BodyB(kids) == [Leaf("B") EXCEPT
    !.nets = <<"x">>, !.terms = 1, !.children = kids,
    !.scopes = <<[name |-> "g", parent |-> 0], [name |-> "g", parent |-> 1]>>,
    !.prims = <<[name |-> "p", scope |-> 1], [name |-> "g", scope |-> 1]>>,
    !.rows = [branch |-> << {} >>,
              stmt |-> << {<<"net", 1>>, <<"term", 1>>, <<"branch", 1>>}, {} >>]]
BodyC == [Leaf("C") EXCEPT !.nets = <<"x">>, !.terms = 1]

ShapeDesigns ==
    {[tops |-> tops,
      body |-> [A |-> BodyA(a), B |-> BodyB(b), C |-> BodyC],
      packages |-> <<[name |-> "p", nets |-> <<"x">>]>>] :
       tops \in {Tops(<<"u">>, <<"A">>), Tops(<<"u", "w">>, <<"B", "C">>)},
       a \in ChildrenOfA, b \in ChildrenOfB}

-----------------------------------------------------------------------------
(* Interface bindings: A binds the two segments of B's array port to its   *)
(* later siblings v and w, to nothing, or to its own (unbound) port; B     *)
(* forwards any of its segments, twisted or not, to C, or to itself; C     *)
(* reads the net x through the binding.                                    *)
IfaceConns(seg) ==
    {<<>>, <<ToSibling(1, seg, 2)>>, <<ToSibling(1, seg, 3)>>,
     <<Forward(1, seg, 1, 0)>>}
ThroughIface(s) ==
    [route |-> "iface", anchor |-> "g", term |-> 1, seg |-> s, segs |-> <<>>,
     net |-> "x"]

IfaceDesigns ==
    {[tops |-> Tops(<<"u">>, <<"A">>),
      body |->
        [A |-> [Leaf("A") EXCEPT !.terms = 1, !.children =
                  <<Module("u", "B", c0 \o c1), Module("v", "I", <<>>),
                    Module("w", "I", <<>>)>>],
         B |-> [Leaf("B") EXCEPT !.terms = 1, !.children =
                  <<Module("u", t, f0 \o f1)>>, !.refs = <<ThroughIface(1)>>],
         C |-> [Leaf("C") EXCEPT !.terms = 1,
                  !.refs = <<ThroughIface(0), ThroughIface(1)>>],
         I |-> [Leaf("I") EXCEPT !.nets = <<"x">>]],
      packages |-> <<>>] :
       c0 \in IfaceConns(0), c1 \in IfaceConns(1), t \in {"B", "C"},
       f0 \in {<<>>, <<Forward(1, 0, 1, 0)>>, <<Forward(1, 0, 1, 1)>>},
       f1 \in {<<>>, <<Forward(1, 1, 1, 0)>>}}

-----------------------------------------------------------------------------
(* References and the dependencies behind them: C is instantiated under B  *)
(* and, in some designs, beside it, and looks for the net x by every       *)
(* route; which levels hold an x, and under which names, varies.           *)
Routes ==
    {RefTo("none", "g", <<>>), RefTo("upward", "u", <<>>),
     RefTo("upward", "A", <<>>), RefTo("upward", "B", <<"v">>),
     RefTo("upward", "v", <<>>), RefTo("upward", "u", <<"v">>),
     RefTo("downward", "g", <<>>), RefTo("downward", "g", <<"u">>),
     RefTo("absolute", "g", <<"u", "v">>), RefTo("absolute", "g", <<"w">>),
     RefTo("absolute", "g", <<>>),
     RefTo("package", "g", <<"p">>), RefTo("package", "g", <<"u">>)}

Local(n) == [net |-> n, ref |-> 0]
Out(r) == [net |-> 0, ref |-> r]
Flow(src, tgt, sourceless, links) ==
    [src |-> src, tgt |-> tgt, sourceless |-> sourceless, links |-> links]
CrossDeps ==
    <<Flow(Out(1), Local(1), FALSE, {<<"stmt", 1>>}),
      Flow(Local(1), Out(1), FALSE, {<<"stmt", 2>>}),
      Flow(Local(0), Local(1), FALSE, {}),
      Flow(Local(0), Out(1), FALSE, {<<"stmt", 2>>}),
      Flow(Local(0), Out(1), TRUE, {<<"stmt", 1>>})>>

RefDesigns ==
    {[tops |-> Tops(<<"u", "w">>, <<"A", "C">>),
      body |->
        [A |-> [Leaf("A") EXCEPT !.nets = na, !.children = kids],
         B |-> [Leaf("B") EXCEPT !.nets = nb, !.children =
                  <<Module("v", "C", <<Wire(0, 0, 0)>>)>>,
                  !.deps = <<Flow(Local(1), Local(1), FALSE, {})>>],
         C |-> [Leaf("C") EXCEPT !.nets = <<"y", "x">>, !.refs = <<r>>,
                  !.rows = [branch |-> <<>>, stmt |-> <<{}, {<<"net", 1>>}>>],
                  !.deps = CrossDeps]],
      packages |-> <<[name |-> "p", nets |-> <<"x">>]>>] :
       r \in Routes, na \in {<<"y">>, <<"x">>}, nb \in {<<"u">>, <<"u", "x">>},
       kids \in {<<Module("u", "B", <<>>)>>,
                 <<Module("v", "B", <<>>), Module("u", "C", <<>>)>>,
                 <<Module("u", "C", <<>>), Module("u", "B", <<>>)>>,
                 <<Module("u", "B", <<>>), Module("v", "C", <<>>)>>}}

-----------------------------------------------------------------------------
(* A package that shares its name with a top: they are in different name   *)
(* spaces of the language.                                                 *)
PackageDesigns ==
    {[tops |-> Tops(<<"p">>, <<"A">>),
      body |-> [t \in MCTpl |->
                  [Leaf(t) EXCEPT !.refs = <<RefTo("package", "g", <<"p">>)>>]],
      packages |-> <<[name |-> "p", nets |-> <<"x">>]>>]}

-----------------------------------------------------------------------------
(* Shapes, interface bindings and references, over one set of templates.    *)
LinkTpl == MCTpl \cup {"I"}
LinkName == MCName \cup {"I", "y"}
TreeDesigns ==
    IfaceDesigns
      \cup {[d EXCEPT !.body = [t \in LinkTpl |->
                IF t \in MCTpl THEN d.body[t] ELSE Leaf(t)]] :
                d \in ShapeDesigns \cup RefDesigns}
=============================================================================
