------------------------------ MODULE MCWalker ------------------------------
(***************************************************************************)
(* Small templates for Walker: three procedures, a function f (node 20)    *)
(* and a task g (node 30) that may call each other or themselves.          *)
(***************************************************************************)
EXTENDS WalkerProperties, TLC

MCNode == 1..37
MCVar == {"f", "i", "x", "y"}
MCDelay == {"#1", "#2", "#3"}

Blank == [kind |-> "plain", head |-> <<>>, arms |-> <<>>, kids |-> <<>>,
          vars |-> {}, callee |-> 0, binds |-> 0, waits |-> 0,
          delay |-> NoDelay, word |-> "own"]

Block(kids) == [Blank EXCEPT !.kids = kids]
Assign(v, kids) == [Blank EXCEPT !.kind = "assign", !.vars = {v}, !.kids = kids]
Increment(v) == [Blank EXCEPT !.kind = "step", !.vars = {v}]
RowStmt(kids) == [Blank EXCEPT !.kind = "row", !.kids = kids]
Return(kids) == [Blank EXCEPT !.kind = "return", !.kids = kids]
Force(kid) == [Blank EXCEPT !.kind = "force", !.word = "force", !.kids = <<kid>>]
Delayed(d, kid) == [Blank EXCEPT !.kind = "timed", !.delay = d, !.kids = <<kid>>]
Waiting(kid) == [Blank EXCEPT !.kind = "timed", !.waits = 2, !.kids = <<kid>>]
Control(kind, head, arms) ==
    [Blank EXCEPT !.kind = kind, !.head = head, !.arms = arms]
Stepping(v, c) == [c EXCEPT !.vars = {v}]
Call(body, args) ==
    [Blank EXCEPT !.kind = "call", !.callee = body, !.kids = args, !.binds = 1]

Template(table, walks) ==
    [syntax |-> [n \in MCNode |-> IF n \in DOMAIN table THEN table[n] ELSE Blank],
     result |-> [n \in MCNode |-> IF n = 20 THEN {"f"} ELSE {}],
     walks |-> walks]

Always(top) == [top |-> top, continuous |-> FALSE, delay |-> NoDelay,
                timing |-> 0, header |-> FALSE]
Clocked(top) == [Always(top) EXCEPT !.timing = top, !.header = TRUE]
ContAssign(top, d) == [Always(top) EXCEPT !.continuous = TRUE, !.delay = d]

-----------------------------------------------------------------------------
\* Node 2: the control around nodes 4 and 7, with the call 5 and the
\* increment 25 in its head.
Outers ==
    {Control("if", <<5>>, <<4, 7>>), Control("if", <<>>, <<4>>),
     Control("case", <<5>>, <<4, 7>>), Control("loop", <<5>>, <<4>>),
     Control("loop", <<>>, <<4>>),
     Stepping("i", Control("for", <<26, 5, 25>>, <<4>>)),
     Stepping("i", Control("foreach", <<>>, <<4>>)),
     Delayed("#1", 4), Waiting(4)}
\* Node 6, within it, before an assignment to i.
Inners ==
    {Assign("i", <<>>), RowStmt(<<9>>), Control("if", <<9>>, <<29>>),
     Control("case", <<>>, <<11, 27>>),
     Stepping("i", Control("for", <<34>>, <<11>>))}
\* Node 21, the first statement of f; its last returns.
FirstsOfF ==
    {Assign("i", <<37, 24>>), Control("if", <<24>>, <<23>>), RowStmt(<<28>>),
     Delayed("#2", 23)}
\* Node 31, the statement of g.
BodiesOfG == {Assign("x", <<>>), RowStmt(<<32>>), Control("loop", <<>>, <<33>>)}

Table(outer, inner, f, g) ==
    1 :> Block(<<2, 10, 3>>) @@ 2 :> outer @@ 3 :> Assign("x", <<8>>)
    @@ 5 :> Call(20, <<>>) @@ 6 :> inner @@ 8 :> Call(20, <<35>>)
    @@ 35 :> Call(30, <<>>) @@ 9 :> Call(30, <<>>) @@ 10 :> Assign("i", <<>>)
    @@ 7 :> Assign("y", <<>>) @@ 29 :> Assign("y", <<>>)
    @@ 11 :> Assign("y", <<>>) @@ 27 :> Assign("i", <<>>)
    @@ 12 :> Waiting(13) @@ 13 :> Block(<<14, 15>>) @@ 14 :> Force(18)
    @@ 18 :> [Assign("y", <<19>>) EXCEPT !.delay = "#3"]
    @@ 19 :> Call(30, <<>>) @@ 15 :> Assign("x", <<>>)
    @@ 16 :> Assign("x", <<17>>) @@ 17 :> Call(20, <<>>)
    @@ 20 :> Block(<<21, 22>>) @@ 21 :> f @@ 22 :> Return(<<>>)
    @@ 23 :> Assign("y", <<>>) @@ 24 :> Call(30, <<>>) @@ 28 :> Call(20, <<>>)
    @@ 25 :> Increment("i") @@ 34 :> Increment("i")
    @@ 4 :> Block(<<6, 36>>) @@ 36 :> Assign("i", <<>>) @@ 26 :> RowStmt(<<>>)
    @@ 30 :> Block(<<31>>) @@ 31 :> g @@ 32 :> Call(20, <<>>)
    @@ 33 :> Assign("x", <<>>) @@ 37 :> Increment("y")

TreePrograms ==
    {Template(Table(o, i, f, g),
              <<Always(1), Clocked(12), ContAssign(16, "#2")>>) :
        o \in Outers, i \in Inners, f \in FirstsOfF, g \in BodiesOfG}

-----------------------------------------------------------------------------
\* x = f() + g()
TwoCalls ==
    {Template(1 :> Assign("x", <<2, 3>>) @@ 2 :> Call(20, <<>>)
              @@ 3 :> Call(30, <<>>) @@ 20 :> Return(<<>>)
              @@ 30 :> c, <<Always(1)>>) :
        c \in {Assign("y", <<>>), Return(<<>>)}}
=============================================================================
