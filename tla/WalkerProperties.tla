-------------------------- MODULE WalkerProperties --------------------------
(***************************************************************************)
(* What the rows of the walk promise.  The reference is the syntax itself: *)
(* where a node stands in its own body, and, through the call that made    *)
(* the row's expansion, where that call stands in turn.                    *)
(***************************************************************************)
EXTENDS Walker

Elements(s) == {s[i] : i \in 1..Len(s)}

-----------------------------------------------------------------------------
(* Where a node stands in its own tree: a procedure or a subroutine body.  *)

HolderOf(n) ==
    LET holders == {m \in Node : \E i \in DOMAIN Mentions(program, m) :
                                    Mentions(program, m)[i] = n}
    IN  IF holders = {} THEN 0 ELSE CHOOSE m \in holders : TRUE

Holders(n) ==
    LET up[m \in Node] == LET h == HolderOf(m)
                          IN  IF h = 0 THEN {} ELSE up[h] \cup {h}
    IN  up[n]
Root(n) ==
    LET up[m \in Node] == LET h == HolderOf(m) IN IF h = 0 THEN m ELSE up[h]
    IN  up[n]
Tree(top) == {n \in Node : Root(n) = top}

\* The levels node m puts around its part n.
LevelsAt(m, n) ==
    LET k == CHOOSE i \in 1..Len(Of(m).arms) : Of(m).arms[i] = n
    IN  IF n \notin Elements(Of(m).arms) THEN <<>>
        ELSE IF Of(m).kind = "case" THEN << <<m, 0>>, <<m, k>> >>
        ELSE << <<m, k>> >>
Around(n) ==
    LET in[m \in Node] == LET h == HolderOf(m)
                          IN  IF h = 0 THEN <<>> ELSE in[h] \o LevelsAt(h, m)
    IN  in[n]

InHead(n) == \E m \in Holders(n) : \E h \in Elements(Of(m).head) :
                n = h \/ h \in Holders(n)

IndicesAround(n) ==
    UNION {Of(m).vars : m \in {h \in Holders(n) : Of(h).kind \in {"for", "foreach"}}}
ForceAround(n) == {Of(m).word : m \in {h \in Holders(n) : Of(h).kind = "force"}}

DelayAround(n) ==
    LET in[m \in Node] ==
            LET h == HolderOf(m)
            IN  CASE h = 0 -> NoDelay
                  [] h # 0 /\ Of(h).kind = "timed" /\ Of(h).delay # NoDelay ->
                        Of(h).delay
                  [] OTHER -> in[h]
    IN  in[n]

\* The nearest statement with a row of its own that n is part of.
Makers == {"assign", "row", "return", "step"}
StatementOf(n) ==
    LET in[m \in Node] == LET h == HolderOf(m)
                          IN  IF h = 0 \/ Of(h).kind \in Makers THEN h
                              ELSE in[h]
    IN  in[n]
\* The one part of its statement that files rows.
OnlyCall(n) == \A m \in Node \ {n} : StatementOf(m) = StatementOf(n)
                    => Of(m).kind \notin Makers \cup {"timed", "call"}

-----------------------------------------------------------------------------
(* Where an expansion stands: through the call that made it.               *)

WalkOf(top) == CHOOSE i \in 1..Len(program.walks) : program.walks[i].top = top

\* The calls around site s, itself included.
Callers(s) ==
    LET up[i \in 0..Len(sites)] ==
            IF i = 0 THEN {} ELSE up[sites[i].parent] \cup {i}
    IN  up[s]
Outermost(s) == CHOOSE i \in Callers(s) : sites[i].parent = 0
WalkAt(n, s) == IF s = 0 THEN WalkOf(Root(n))
                ELSE WalkOf(Root(sites[Outermost(s)].node))

\* The branch levels around node n in expansion s, each with the expansion
\* it is in.
Tagged(ls, s) == [i \in 1..Len(ls) |-> <<ls[i][1], ls[i][2], s>>]
Nesting(n, s) ==
    LET in[i \in 0..Len(sites)] ==
            IF i = 0 THEN <<>>
            ELSE in[sites[i].parent] \o Tagged(Around(sites[i].node), sites[i].parent)
    IN  in[s] \o Tagged(Around(n), s)

\* What the rows say: the parent links of the branch table.
Recorded(b) ==
    LET in[i \in 0..Len(branches)] ==
            IF i = 0 THEN <<>>
            ELSE Append(in[branches[i].parent],
                        <<branches[i].node, branches[i].arm, branches[i].site>>)
    IN  in[b]
Ancestors(b) ==
    LET up[i \in 0..Len(branches)] ==
            IF i = 0 THEN {} ELSE up[branches[i].parent] \cup {i}
    IN  up[b]

IndicesIn(n, s) ==
    IndicesAround(n) \cup UNION {IndicesAround(sites[i].node) : i \in Callers(s)}
DelayIn(n, s) ==
    LET in[i \in 0..Len(sites)] ==
            IF i = 0 THEN program.walks[WalkAt(n, s)].delay
            ELSE IF DelayAround(sites[i].node) # NoDelay
                 THEN DelayAround(sites[i].node) ELSE in[sites[i].parent]
    IN  IF Of(n).kind = "assign" /\ Of(n).delay # NoDelay THEN Of(n).delay
        ELSE IF DelayAround(n) # NoDelay THEN DelayAround(n) ELSE in[s]

\* The sites whose body had to be walked: those that enter no subroutine they
\* are inside already, while the budget lasts.
Recurses(s) ==
    \E i \in Callers(sites[s].parent) : sites[i].callee = sites[s].callee
Fresh == {s \in 1..Len(sites) : ~Recurses(s)}
Expanded == {s \in Fresh : Cardinality({r \in Fresh : r <= s}) <= Budget}

Body(s) == Tree(sites[s].callee)

-----------------------------------------------------------------------------
(* What is expected of one node in one expansion.                          *)

Writes(n, s) ==
    CASE Of(n).kind \in {"assign", "step"} -> Of(n).vars \ IndicesIn(n, s)
      [] Of(n).kind = "return" /\ s # 0 -> program.result[Root(n)]
      [] OTHER -> {}
RowsOf(n, s) ==
    CASE Of(n).kind \in {"assign", "step", "return"} ->
            IF Writes(n, s) = {} THEN 0 ELSE 1
      [] Of(n).kind = "row" -> 1
      [] Of(n).kind = "timed" ->
            IF n = program.walks[WalkAt(n, s)].timing THEN 0 ELSE Of(n).waits
      [] OTHER -> 0

Faithful(n, s) ==
    LET mine == {i \in 1..Len(stmts) : stmts[i].node = n /\ stmts[i].site = s}
    IN  /\ Cardinality(mine) = RowsOf(n, s)
        /\ \A i \in mine : stmts[i].writes = Writes(n, s)
        /\ Cardinality({i \in 1..Len(sites) : sites[i].node = n
                                              /\ sites[i].parent = s})
             = IF Of(n).kind = "call" THEN 1 ELSE 0
        /\ Cardinality({i \in 1..Len(branches) : branches[i].node = n
                                                 /\ branches[i].site = s})
             = Len(Of(n).arms)
               + (IF Of(n).kind = "case" /\ Of(n).arms # <<>> THEN 1 ELSE 0)

-----------------------------------------------------------------------------
(* Type correctness: the tables, the agenda and the context keep to their  *)
(* shape, the levels with a row come first, and what the walk numbers has  *)
(* a row.                                                                  *)
TypeOK ==
    /\ program \in Programs
    /\ at \in 0..Len(program.walks) /\ walking \in BOOLEAN
    /\ agenda \in Seq(Item) /\ ctx \in Context
    /\ levels \in Seq(Level) /\ frames \in Seq(Frame)
    /\ seq \in Nat /\ base \in 0..Len(branches)
    /\ proc \in 0..procedures /\ procedures \in Nat
    /\ curStmt \in 0..Len(stmts) /\ curBranch \in Nat
    /\ budget \in 0..Budget /\ truncated \in Nat
    /\ stmts \in Seq(Stmt) /\ branches \in Seq(Branch)
    /\ sites \in Seq(Site) /\ binds \in Seq(Bind)
    /\ ctx.site \in 0..Len(sites)
    /\ \A i \in 1..Len(levels) :
          (levels[i].id # 0 <=> i <= Settled(levels)) /\ levels[i].id <= Len(frames)

\* A statement row and its levels stand where the source has them: the chain
\* of branch rows from a statement up is the arms around it in its body, then
\* those around the call its body was walked for, and so on to the procedure;
\* each level is tagged with the expansion it is in, the levels its control
\* dependencies name are that chain, and they lie in its own procedure.
RowsNested ==
    Done =>
    \A i \in 1..Len(stmts) :
        LET r == stmts[i]
        IN  IF r.node = 0 THEN r.branch = 0 /\ r.site = 0
            ELSE /\ Recorded(r.branch) = Nesting(r.node, r.site)
                 /\ Of(r.node).kind \in {"assign", "step", "return"}
                      => r.gates = Ancestors(r.branch)
                 /\ \A b \in Ancestors(r.branch) : branches[b].proc = r.proc

\* Every call is instantiated in full and once: in every expansion that had to
\* be walked each statement of the body has its rows, each call its site, each
\* arm its level, each write its targets less the indices of the loops around
\* it; and an expansion that was not walked has nothing.
BodiesInlined ==
    Done =>
    /\ \A w \in 1..at : \A n \in Tree(program.walks[w].top) : Faithful(n, 0)
    /\ \A s \in 1..Len(sites) :
          IF s \in Expanded THEN \A n \in Body(s) : Faithful(n, s)
          ELSE /\ \A i \in 1..Len(stmts) : stmts[i].site # s
               /\ \A i \in 1..Len(sites) : sites[i].parent # s

\* The sites are a forest, parents first, and the depth of a site is how many
\* calls are open around it, its own included: at most the bodies that could be
\* paid for, and one.
DepthAt(s) == IF s = 0 THEN 0 ELSE sites[s].depth
SitesNested ==
    \A s \in DOMAIN sites :
        /\ sites[s].parent \in 0..s - 1
        /\ sites[s].depth = DepthAt(sites[s].parent) + 1
        /\ sites[s].depth <= Budget + 1

\* The budget of the template is spent by bodies that were walked and by
\* nothing else, a call given up for want of it is counted, one that recurses
\* costs nothing, and between the two every site is accounted for; and calls
\* are never expanded deeper than it pays for.
BudgetAccounts ==
    /\ SitesNested
    /\ Done => /\ budget = Budget - Cardinality(Expanded)
               /\ truncated = Cardinality(Fresh \ Expanded)

\* What is in force where a row stands is what the row says. Its delay: its
\* own, else that of the nearest delayed statement around it, be it around the
\* call that led here, else the one of the continuous assignment. Its word:
\* force or proc_assign on the write such a statement makes, and on no write
\* that has none around it up to its procedure.
ContextInForce ==
    Done =>
    \A i \in 1..Len(stmts) :
        LET r == stmts[i]
            outer == UNION {ForceAround(sites[s].node) : s \in Callers(r.site)}
        IN  r.node # 0 /\ Of(r.node).kind \in {"assign", "step", "return"} =>
              /\ r.delay = DelayIn(r.node, r.site)
              /\ ForceAround(r.node) # {} => r.word \in ForceAround(r.node)
              /\ ForceAround(r.node) \cup outer = {} => r.word = "own"

\* Who made a call: nobody if it is written in a control expression; else,
\* for the only call of a statement that has a row, has no other statement in
\* it and stands in no body entered from a control expression, that very row, in the same expansion;
\* and the bindings of its arguments say the same.
CallerNamed ==
    Done =>
    /\ \A s \in 1..Len(sites) :
         LET n == sites[s].node
             p == sites[s].parent
             own == {i \in 1..Len(stmts) : stmts[i].node = StatementOf(n)
                                           /\ stmts[i].site = p}
         IN  /\ InHead(n) => sites[s].caller = 0
             /\ ~InHead(n) /\ OnlyCall(n) /\ StatementOf(n) # 0 /\ own # {}
                  /\ ~(\E i \in Callers(p) : InHead(sites[i].node))
                => sites[s].caller \in own
    /\ \A i \in 1..Len(binds) : binds[i].stmt = sites[binds[i].site].caller

-----------------------------------------------------------------------------
(* What the repository says and the walk does not do.                      *)

\* doc/designdb-schema.md: caller_stmt_id "is the statement that made the call
\* (NULL for a call in a control expression)".  Stated of the calls of
\* statements with a row, outside control expressions and outside bodies
\* entered from one.
CallerMadeTheCall ==
    \A s \in 1..Len(sites) :
        LET n == sites[s].node
            p == sites[s].parent
            own == {i \in 1..Len(stmts) : stmts[i].node = StatementOf(n)
                                          /\ stmts[i].site = p}
        IN  ~InHead(n) /\ StatementOf(n) # 0 /\ own # {}
              /\ ~(\E i \in Callers(p) : InHead(sites[i].node))
              => sites[s].caller \in own
=============================================================================
