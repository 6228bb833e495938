----------------------------- MODULE MCDataflow -----------------------------
(***************************************************************************)
(* A pool of objects and expressions, and the bodies written over them.     *)
(* Widths are two, four and eight: a window can be a half, and an operand   *)
(* wider or narrower than what it is put into.                              *)
(***************************************************************************)
EXTENDS DataflowProperties, TLC

MCWidth ==
    [a |-> 4, b |-> 2, c |-> 2, e |-> 8, i |-> 2, v |-> 2, t |-> 4, h |-> 2,
     l |-> 2, w |-> 8, m |-> 4, n |-> 4, o |-> 4, x |-> 1, y |-> 1, z |-> 1,
     K |-> 2, k |-> 2, f |-> 4, fa |-> 4, gi |-> 4, go |-> 4, gx |-> 2,
     pi |-> 4, po |-> 4, up |-> 4, far |-> 2, down |-> 4, below |-> 1,
     above |-> 1, r |-> 2, ra |-> 2, q |-> 4, qa |-> 4]

MCNets == {"a", "b", "c", "e", "i", "v", "t", "h", "l", "w", "m", "n", "o", "x",
           "y", "z", "k", "q", "qa", "f", "fa", "gi", "go", "gx", "r", "ra"}
MCInside == MCNets \cup {"down", "below"}
MCFixed == {"K"}
MCLoopVars == {"k"}

(***************************************************************************)
(* Expressions.                                                             *)
(***************************************************************************)
Path(sym, lo, hi) ==
    [kind |-> "path", width |-> hi - lo + 1, args |-> <<>>, sym |-> sym,
     lo |-> lo, hi |-> hi, named |-> hi - lo + 1, bounded |-> TRUE,
     static |-> TRUE, sels |-> <<>>, hier |-> FALSE]
Obj(sym) == Path(sym, 0, MCWidth[sym] - 1)
Hier(path) == [path EXCEPT !.hier = TRUE]
\* sym[sel +: width]
Dynamic(sym, sel, width) ==
    [Obj(sym) EXCEPT !.width = width, !.static = FALSE, !.sels = <<sel>>]
\* A range of unpacked elements, whose bounds come back as one element's.
Elements(sym, lo, hi) == [Path(sym, lo, lo) EXCEPT !.width = hi - lo + 1,
                                                   !.named = hi - lo + 1]
Of(kind, width, args) == [kind |-> kind, width |-> width, args |-> args]
Call(sub, width, args) == [kind |-> "call", width |-> width, args |-> args,
                           sub |-> sub]

MCExpr ==
    "a" :> Obj("a") @@ "b" :> Obj("b") @@ "c" :> Obj("c") @@ "e" :> Obj("e")
    @@ "i" :> Obj("i") @@ "v" :> Obj("v") @@ "t" :> Obj("t") @@ "h" :> Obj("h")
    @@ "l" :> Obj("l") @@ "m" :> Obj("m") @@ "n" :> Obj("n") @@ "o" :> Obj("o") @@ "x" :> Obj("x")
    @@ "y" :> Obj("y") @@ "z" :> Obj("z") @@ "K" :> Obj("K") @@ "k" :> Obj("k")
    @@ "q" :> Obj("q") @@ "qa" :> Obj("qa") @@ "fa" :> Obj("fa") @@ "f" :> Obj("f") @@ "gi" :> Obj("gi")
    @@ "go" :> Obj("go") @@ "ra" :> Obj("ra") @@ "r" :> Obj("r")
    @@ "up" :> Hier(Obj("up")) @@ "far" :> Hier(Obj("far"))
    @@ "down" :> Hier(Obj("down")) @@ "below" :> Hier(Obj("below"))
    @@ "above" :> Hier(Obj("above"))
    @@ "a.lo" :> Path("a", 0, 1) @@ "a.hi" :> Path("a", 2, 3)
    @@ "t.lo" :> Path("t", 0, 1) @@ "t.hi" :> Path("t", 2, 3)
    @@ "w.mid" :> Path("w", 2, 5) @@ "w.top" :> Path("w", 6, 7)
    @@ "a1" :> Path("a", 1, 1) @@ "t1" :> Path("t", 1, 1)
    @@ "m[i]" :> Dynamic("m", "i", 2) @@ "w[i]" :> Dynamic("w", "i", 4)
    @@ "w[b]" :> Dynamic("w", "b", 2) @@ "n[:]" :> Elements("n", 0, 3)
    @@ "lit0" :> Of("literal", 0, <<>>) @@ "lit1" :> Of("literal", 1, <<>>)
    @@ "lit2" :> Of("literal", 2, <<>>) @@ "lit4" :> Of("literal", 4, <<>>)
    \* right sides, four bits wide
    @@ "{b,c}" :> Of("concat", 4, <<"b", "c">>)
    @@ "{c,a.hi}" :> Of("concat", 4, <<"c", "a.hi">>)
    @@ "{b,0}" :> Of("concat", 4, <<"b", "lit2">>)
    @@ "{K,0x,b}" :> Of("concat", 4, <<"K", "lit0", "b">>)
    @@ "{a1,b,x}" :> Of("concat", 4, <<"a1", "b", "x">>)
    @@ "{m[i],far}" :> Of("concat", 4, <<"m[i]", "far">>)
    @@ "'{b,c}" :> Of("unpacked", 4, <<"b", "c">>)
    @@ "{2{b}}" :> Of("replicate", 4, <<"b">>)
    @@ "a+up" :> Of("operation", 4, <<"a", "up">>)
    @@ "4'(b)" :> Of("convert", 4, <<"b">>)
    @@ "4'(e)" :> Of("convert", 4, <<"e">>)
    @@ "s'(a)" :> Of("convert", 4, <<"a">>)
    @@ "e*w" :> Of("operation", 8, <<"e", "w.mid">>)
    @@ "4'(e*w)" :> Of("convert", 4, <<"e*w">>)
    @@ "<<a" :> Of("stream", 0, <<"a">>)
    @@ "4'(<<a)" :> Of("convert", 4, <<"<<a">>)
    @@ "2'(4'(b))" :> Of("convert", 2, <<"4'(b)">>)
    @@ "{2'(4'(b)),c}" :> Of("concat", 4, <<"2'(4'(b))", "c">>)
    @@ "f(a)" :> Call("f", 4, <<"a">>)
    @@ "r(b)" :> Call("r", 2, <<"b">>)
    @@ "{r(b),c}" :> Of("concat", 4, <<"r(b)", "c">>)
    @@ "k+a" :> Of("operation", 4, <<"k", "a">>)
    @@ "f.a+v" :> Of("operation", 4, <<"fa", "v">>)
    @@ "r.a+v" :> Of("operation", 2, <<"ra", "v">>)
    \* what a compound operator computes: its own left side is read by the
    \* operator and spelled nowhere on its right
    @@ "?+a" :> Of("operation", 4, <<"a">>)
    @@ "?+{b,c}" :> Of("operation", 4, <<"{b,c}">>)
    @@ "?+4" :> Of("operation", 4, <<"lit4">>)
    @@ "?+up" :> Of("operation", 4, <<"up">>)
    @@ "2'(a)" :> Of("convert", 2, <<"a">>)
    @@ "{b,2'(a)}" :> Of("concat", 4, <<"b", "2'(a)">>)
    \* left sides
    @@ "{h,l}" :> Of("concat", 4, <<"h", "l">>)
    @@ "{t.hi,t.lo}" :> Of("concat", 4, <<"t.hi", "t.lo">>)
    @@ "{far,l}" :> Of("concat", 4, <<"far", "l">>)
    @@ "{w[b],t.lo}" :> Of("concat", 4, <<"w[b]", "t.lo">>)
    @@ ">>{h,l}" :> Of("stream", 0, <<"h", "l">>)
    \* calls of tasks
    @@ "g(a,t,h)" :> Call("g", 0, <<"a", "t", "h">>)
    @@ "g(0,up,c)" :> Call("g", 0, <<"lit4", "up", "c">>)
    @@ "q(a)" :> Call("q", 4, <<"a">>)
    @@ "g(q(a),{h,l},far)" :> Call("g", 0, <<"q(a)", "{h,l}", "far">>)
    @@ "g({b,0},w.mid,b)" :> Call("g", 0, <<"{b,0}", "w.mid", "b">>)
    @@ "p(a,t)" :> Call("p", 0, <<"a", "t">>)
    @@ "p(up,down)" :> Call("p", 0, <<"up", "down">>)

MCSubs ==
    "q" :> [own |-> {"q", "qa"}, formals |-> <<[sym |-> "qa", dir |-> "in"]>>,
            body |-> <<[left |-> "q", right |-> "qa"]>>]
    @@ "f" :> [own |-> {"f", "fa"}, formals |-> <<[sym |-> "fa", dir |-> "in"]>>,
            body |-> <<[left |-> "f", right |-> "f.a+v"]>>]
    @@ "r" :> [own |-> {"r", "ra"},
               formals |-> <<[sym |-> "ra", dir |-> "constref"]>>,
               body |-> <<[left |-> "r", right |-> "r.a+v"]>>]
    @@ "g" :> [own |-> {"gi", "go", "gx"},
               formals |-> <<[sym |-> "gi", dir |-> "in"],
                             [sym |-> "go", dir |-> "out"],
                             [sym |-> "gx", dir |-> "inout"]>>,
               body |-> <<[left |-> "go", right |-> "gi"]>>]
    @@ "p" :> [own |-> {"pi", "po"},
               formals |-> <<[sym |-> "pi", dir |-> "in"],
                             [sym |-> "po", dir |-> "out"]>>,
               body |-> <<[left |-> "po", right |-> "pi"]>>]

Rights == {"a", "up", "lit4", "{b,c}", "{c,a.hi}", "{b,0}", "{K,0x,b}",
           "{a1,b,x}", "{m[i],far}", "{2{b}}", "a+up", "4'(b)", "4'(e)",
           "s'(a)", "4'(e*w)", "4'(<<a)", "{2'(4'(b)),c}", "f(a)", "{r(b),c}",
           "w.mid", "w[i]", "k+a", "down"}
Lefts == {"t", "{h,l}", "w.mid", "up", "{far,l}", "w[i]", "{w[b],t.lo}",
          "{t.hi,t.lo}", ">>{h,l}"}

(***************************************************************************)
(* Items.                                                                   *)
(***************************************************************************)
Assign(left, right, level) ==
    [kind |-> "assign", left |-> left, right |-> right, compound |-> FALSE,
     level |-> level, active |-> {}]
Compound(left, right) == [Assign(left, right, 0) EXCEPT !.compound = TRUE]
Increment(operand, level) ==
    [kind |-> "increment", operand |-> operand, level |-> level]
ReturnItem(var, right, sub) ==
    [kind |-> "return", var |-> var, right |-> right, level |-> 0, active |-> {sub}]
Bind(call, bindable) == [kind |-> "bind", call |-> call, bindable |-> bindable]
Task(reads, writes, released) ==
    [kind |-> "task", reads |-> reads, writes |-> writes, released |-> released,
     level |-> 0]
CallItem == Task(<<>>, <<>>, FALSE)
InitItem(net, right) == [kind |-> "init", net |-> net, right |-> right, level |-> 0]
Alias(exprs) == [kind |-> "alias", sides |-> exprs]
Conn(expr, dir) == [expr |-> expr, dir |-> dir]
Gate(conns) == [kind |-> "gate", conns |-> conns]
Levels == [kind |-> "levels"]

Body(items, levels) == [exprs |-> MCExpr, items |-> items, levels |-> levels]
Flat(items) == Body(items, <<>>)

(***************************************************************************)
(* if (a == 1 || a == 2) if (up) ..., beside a level that gates nothing.    *)
(***************************************************************************)
Nested == <<[parent |-> 0, conds |-> <<"a", "a">>],
            [parent |-> 1, conds |-> <<"up", "c">>],
            [parent |-> 1, conds |-> <<"far", "b">>]>>
Gated(items) == Body(items \o <<Levels>>, Nested)

AssignBodies ==
    {Flat(<<Assign(left, right, 0)>>) : left \in Lefts, right \in Rights}
    \cup {Flat(<<Assign("o", right, 0)>>) : right \in {"'{b,c}", "n[:]"}}
    \cup {Flat(<<Compound(left, right)>>) : left \in {"t", "w.mid", "w[i]", "up"},
                                            right \in {"?+a", "?+{b,c}", "?+4", "?+up"}}

GatedBodies ==
    {Gated(<<Assign(left, right, l), Assign("l", "b", m)>>) :
        left \in {"t", "{far,l}"}, right \in {"a", "lit4", "up"},
        l \in 1..2, m \in {0, 2}}
    \cup {Gated(<<Increment("x", 2), Assign("k", "a", 1)>>)}

CallBodies ==
    {Flat(<<CallItem, Bind(call, bindable), CallItem>>) :
        call \in {"g(a,t,h)", "g(0,up,c)", "g(q(a),{h,l},far)",
                  "g({b,0},w.mid,b)", "p(a,t)", "p(up,down)"},
        bindable \in BOOLEAN}
    \cup {Flat(<<Assign("t", "f(a)", 0), Bind("f(a)", TRUE),
                 ReturnItem("f", right, "f")>>) : right \in {"f.a+v", "{b,c}", "up"}}

TaskBodies ==
    {Flat(<<Task(reads, writes, released)>>) :
        reads \in {<<>>, <<"a", "w[i]", "up", "up">>},
        writes \in {<<>>, <<"t", "far">>, <<"{h,l}", "w[i]">>},
        released \in BOOLEAN}

InitBodies ==
    {Flat(<<InitItem("t", right), InitItem("h", "b")>>) :
        right \in {"a", "{b,c}", "f(a)", "4'(b)", "4'(e)", "up", "lit4"}}

AliasBodies ==
    {Flat(<<Alias(nets)>>) :
        nets \in {<<"a">>, <<"a", "t">>, <<"{h,l}", "t">>, <<"a", "t", "w.mid">>,
                   <<"{h,l}", "{b,c}">>}}

GateBodies ==
    {Flat(<<Gate(conns)>>) :
        conns \in {<<Conn("y", "out"), Conn("a1", "in"), Conn("x", "in")>>,
                   <<Conn("y", "out"), Conn("t1", "out"), Conn("x", "in")>>,
                   <<Conn("x", "inout"), Conn("t1", "inout")>>,
                   <<Conn("x", "inout"), Conn("t1", "inout"), Conn("y", "in")>>,
                   <<Conn("y", "out")>>,
                   <<Conn("y", "out"), Conn("lit1", "in")>>,
                   <<>>}}

MCBodies ==
    AssignBodies \cup GatedBodies \cup CallBodies \cup TaskBodies
    \cup InitBodies \cup AliasBodies \cup GateBodies

(***************************************************************************)
(* An operand cut inside a concatenation: its high bits are not lost.       *)
(***************************************************************************)
MCCutBodies == {Flat(<<Assign(left, "{b,2'(a)}", 0)>>) : left \in Lefts}

(***************************************************************************)
(* A primitive with an end outside the body, or in an instance below it.    *)
(***************************************************************************)
MCOutwardGateBodies ==
    {Flat(<<Gate(<<Conn("y", "out"), Conn(input, "in")>>)>>) :
        input \in {"x", "above", "below"}}
=============================================================================
