--------------------------- MODULE Dataflow_proofs ---------------------------
(***************************************************************************)
(* What filing guarantees for every body, whatever its items, expressions  *)
(* and widths are: a reference out of the body is filed once, and the rows *)
(* of a statement are numbered without a gap.                              *)
(*                                                                         *)
(* Neither needs to know what is filed, only how; so the queue of what is  *)
(* left to file is arbitrary here, and what an operation names as well.    *)
(*                                                                         *)
(* And of the two sides of an assignment, for every width: where an exact  *)
(* source and an exact target overlap, narrowed leaves each with exactly   *)
(* the bits of the overlap, so the pair names as many bits on one side as  *)
(* on the other, and its k-th bit is the k-th bit of the overlap on both.  *)
(***************************************************************************)
EXTENDS DataflowProperties, FiniteSetTheorems, TLAPS

(***************************************************************************)
(* Sequences of anything.                                                  *)
(***************************************************************************)
IsSeq(s) == \E S : s \in Seq(S)

LEMMA EmptyIsSeq == IsSeq(<<>>) /\ Len(<<>>) = 0
<1>1. <<>> \in Seq({})
  OBVIOUS
<1> QED
  BY <1>1 DEF IsSeq

LEMMA LengthOf ==
    ASSUME NEW s, IsSeq(s) PROVE Len(s) \in Nat /\ DOMAIN s = 1..Len(s)
  BY DEF IsSeq

LEMMA Appended ==
    ASSUME NEW s, IsSeq(s), NEW e
    PROVE  /\ IsSeq(Append(s, e)) /\ Len(Append(s, e)) = Len(s) + 1
           /\ DOMAIN Append(s, e) = 1..Len(s) + 1
           /\ \A k \in 1..Len(s) : Append(s, e)[k] = s[k]
           /\ Append(s, e)[Len(s) + 1] = e
<1>1. PICK S : s \in Seq(S)
  BY DEF IsSeq
<1> DEFINE T == S \cup {e}
<1>2. s \in Seq(T)
  BY <1>1
<1>3. Append(s, e) \in Seq(T)
  BY <1>2
<1>4. Len(Append(s, e)) = Len(s) + 1 /\ DOMAIN Append(s, e) = 1..Len(s) + 1
  BY <1>2, <1>3
<1>5. \A k \in 1..Len(s) : Append(s, e)[k] = s[k]
  BY <1>2
<1>6. Append(s, e)[Len(s) + 1] = e
  BY <1>2
<1> QED
  BY <1>3, <1>4, <1>5, <1>6 DEF IsSeq

(***************************************************************************)
(* References out of the body. Every action leaves their rows alone or     *)
(* calls addHierRef once.                                                  *)
(***************************************************************************)
OnceInv == IsSeq(hierRefs) /\ ReferencesOnce

LEMMA FiledByAddHierRef ==
    ASSUME [Next]_vars
    PROVE  hierRefs' = hierRefs \/ \E row : AddHierRef(row)
<1>1. CASE \/ BeginAssignment \/ BeginBinding \/ BeginTask \/ BeginLevels
           \/ BeginAlias \/ BeginGate \/ CloseTarget \/ LeaveStatement \/ TieOff
           \/ BindForeign \/ BindLocal \/ OpenLevel \/ CoupleSides
           \/ ClosePrimTarget \/ Return \/ UNCHANGED vars
  BY <1>1 DEF BeginAssignment, BeginBinding, BeginTask, BeginLevels, BeginAlias,
       BeginGate, CloseTarget, LeaveStatement, TieOff, BindForeign, BindLocal,
       OpenLevel, CoupleSides, ClosePrimTarget, Return, vars
<1>2. CASE FileControl
  BY <1>2 DEF FileControl
<1>3. CASE FileTarget
  BY <1>3 DEF FileTarget
<1>4. CASE FilePair
  BY <1>4 DEF FilePair
<1>5. CASE BindNeither \/ BindOutward
  BY <1>5 DEF BindNeither, BindOutward
<1>6. CASE FileRead \/ FileRelease \/ FileLevelRead
  BY <1>6 DEF FileRead, FileRelease, FileLevelRead
<1>7. CASE FileWrite
  BY <1>7 DEF FileWrite
<1>8. CASE FileSide
  BY <1>8 DEF FileSide
<1>9. CASE FilePrimTarget
  BY <1>9 DEF FilePrimTarget
<1>10. CASE FilePrimPair
  BY <1>10 DEF FilePrimPair, AddHierRefIfOutward
<1> QED
  BY <1>1, <1>2, <1>3, <1>4, <1>5, <1>6, <1>7, <1>8, <1>9, <1>10 DEF Next

LEMMA OnceInit == Init => OnceInv
  BY EmptyIsSeq DEF Init, OnceInv, ReferencesOnce

LEMMA OnceStep == OnceInv /\ [Next]_vars => OnceInv'
<1> SUFFICES ASSUME OnceInv, [Next]_vars PROVE OnceInv'
  OBVIOUS
<1>1. CASE hierRefs' = hierRefs
  BY <1>1 DEF OnceInv, ReferencesOnce, IsSeq
<1>2. ASSUME NEW row, ~Seen(row), hierRefs' = Append(hierRefs, row)
      PROVE  OnceInv'
  <2> DEFINE n == Len(hierRefs)
  <2>1. n \in Nat /\ DOMAIN hierRefs = 1..n
    BY LengthOf DEF OnceInv
  <2>2. /\ IsSeq(hierRefs') /\ DOMAIN hierRefs' = 1..n + 1
        /\ \A k \in 1..n : hierRefs'[k] = hierRefs[k]
        /\ hierRefs'[n + 1] = row
    BY <1>2, Appended DEF OnceInv
  <2> HIDE DEF n
  <2>3. \A k \in 1..n : ~SameKey(hierRefs[k], row)
    BY <1>2, <2>1 DEF Seen
  <2>4. ASSUME NEW j \in 1..n + 1, NEW k \in 1..n + 1,
               SameKey(hierRefs'[j], hierRefs'[k])
        PROVE  j = k
    <3>1. CASE j \in 1..n /\ k \in 1..n
      BY <2>1, <2>2, <2>4, <3>1 DEF OnceInv, ReferencesOnce
    <3>2. CASE j = n + 1 /\ k \in 1..n
      BY <2>2, <2>3, <2>4, <3>2 DEF SameKey
    <3>3. CASE j \in 1..n /\ k = n + 1
      BY <2>2, <2>3, <2>4, <3>3
    <3>4. CASE j = n + 1 /\ k = n + 1
      BY <3>4
    <3> QED
      BY <2>1, <3>1, <3>2, <3>3, <3>4
  <2>5. ReferencesOnce'
    BY <2>2, <2>4 DEF ReferencesOnce, SameKey
  <2> QED
    BY <2>2, <2>5 DEF OnceInv
<1> QED
  BY <1>1, <1>2, FiledByAddHierRef DEF AddHierRef

(***************************************************************************)
(* Pairs, levels, tasks and targets may all name one reference: it is one  *)
(* row for each place it is written in, of every body.                     *)
(***************************************************************************)
THEOREM ReferencesAreOnce == Spec => []ReferencesOnce
<1>1. OnceInv => ReferencesOnce
  BY DEF OnceInv
<1> QED
  BY OnceInit, OnceStep, <1>1, PTL DEF Spec

-----------------------------------------------------------------------------
(***************************************************************************)
(* Rows of statements.                                                     *)
(***************************************************************************)
Mine(list, stmt) == {k \in DOMAIN rows[list] : rows[list][k].stmt = stmt}

Shaped == ordinal \in [Counters -> Nat] /\ DOMAIN rows = Lists

\* Rows are added to the last statement only, while it is the current one; a
\* list's counter is then the number of its rows.
RowsInv ==
    /\ Shaped /\ IsSeq(stmts) /\ \A l \in Lists : IsSeq(rows[l])
    /\ curStmt \in {0, Len(stmts)}
    /\ \A l \in Lists : \A k \in DOMAIN rows[l] : rows[l][k].stmt \in 0..Len(stmts)
    /\ RowsNumbered
    /\ curStmt # 0 => \A l \in Lists : ordinal[l] = Cardinality(Mine(l, curStmt))

\* What an action does to the rows: nothing, perhaps leaving the statement;
\* a new statement; or a row in each of some lists.
Kept ==
    /\ \A l \in Lists : rows'[l] = rows[l] /\ ordinal'[l] = ordinal[l]
    /\ ordinal' \in [Counters -> Nat]
    /\ stmts' = stmts /\ curStmt' \in {0, curStmt}

Opened ==
    /\ rows' = rows
    /\ ordinal' \in [Counters -> Nat] /\ \A l \in Lists : ordinal'[l] = 0
    /\ curStmt' = Len(stmts) + 1 /\ \E row : stmts' = Append(stmts, row)

RowOf(l, row) == row.stmt = curStmt /\ row.ordinal = ordinal[l]

Untouched(l) == rows'[l] = rows[l] /\ ordinal'[l] = ordinal[l]

Added(l) ==
    /\ \E row : RowOf(l, row) /\ rows'[l] = Append(rows[l], row)
    /\ ordinal'[l] = ordinal[l] + 1

Extended ==
    /\ ordinal' \in [Counters -> Nat] /\ stmts' = stmts /\ curStmt' = curStmt
    /\ \A l \in Lists : Added(l) \/ Untouched(l)

LEMMA ListsCounted == Lists \subseteq Counters /\ "read" \in Counters /\ "read" \notin Lists
                      /\ Lists = {"target", "operand", "expr"}
  BY DEF Lists, Counters

LEMMA RowIsMine ==
    ASSUME NEW l, NEW r PROVE RowOf(l, Row(l, curStmt, r))
  BY DEF RowOf, Row

LEMMA AddRowExtends ==
    ASSUME ordinal \in [Counters -> Nat], DOMAIN rows = Lists, NEW l \in Lists, NEW r,
           AddRow(l, curStmt, r), UNCHANGED <<stmts, curStmt>>
    PROVE  Extended /\ DOMAIN rows' = Lists
<1> DEFINE row == Row(l, curStmt, r)
<1>1. /\ rows' = [rows EXCEPT ![l] = Append(@, row)]
      /\ ordinal' = [ordinal EXCEPT ![l] = @ + 1]
  BY DEF AddRow
<1>2. RowOf(l, row)
  BY RowIsMine
<1> HIDE DEF row
<1>3. Added(l)
  BY <1>1, <1>2, ListsCounted DEF Added
<1>4. \A m \in Lists \ {l} : Untouched(m)
  BY <1>1, ListsCounted DEF Untouched
<1>5. ordinal' \in [Counters -> Nat]
  <2>1. ordinal[l] \in Nat /\ ordinal[l] + 1 \in Nat
    BY ListsCounted
  <2> QED
    BY <1>1, <2>1
<1>6. DOMAIN rows' = Lists
  BY <1>1
<1> QED
  BY <1>3, <1>4, <1>5, <1>6 DEF Extended

Sorted == (Kept \/ Opened \/ Extended) /\ DOMAIN rows' = Lists

LEMMA NewStmtOpens ==
    ASSUME Shaped, NEW kind, NEW level, NewStmt(kind, level), UNCHANGED rows
    PROVE  Sorted
<1>1. ordinal' \in [Counters -> Nat]
  BY DEF NewStmt, Shaped
<1>2. \A l \in Lists : ordinal'[l] = 0
  BY ListsCounted DEF NewStmt, Shaped
<1>3. curStmt' = Len(stmts) + 1 /\ \E row : stmts' = Append(stmts, row)
  BY DEF NewStmt
<1> QED
  BY <1>1, <1>2, <1>3 DEF Sorted, Opened, Shaped

LEMMA NothingAdded ==
    ASSUME Shaped, UNCHANGED <<rows, ordinal, stmts>>, curStmt' \in {0, curStmt}
    PROVE  Sorted
  BY DEF Shaped, Sorted, Kept

LEMMA OneAdded ==
    ASSUME Shaped, NEW l \in Lists, NEW r, AddRow(l, curStmt, r),
           UNCHANGED <<stmts, curStmt>>
    PROVE  Sorted
  BY AddRowExtends DEF Shaped, Sorted

\* An argument leaves a row in each list its direction calls for.
LEMMA ArgumentAdds ==
    ASSUME Shaped, FileArgument, UNCHANGED <<stmts, curStmt>>
    PROVE  Sorted
<1>1. CASE CallStmt = 0
  BY <1>1, NothingAdded DEF FileArgument
<1>2. CASE CallStmt # 0
  <2> DEFINE used == (IF Op.reads THEN {"expr"} ELSE {})
                     \cup (IF Op.writes THEN {"target"} ELSE {})
             row(l) == Row(l, CallStmt, Op.pair.src)
  <2>1. CallStmt = curStmt
    BY <1>2 DEF CallStmt
  <2>2. /\ rows' = [l \in Lists |-> IF l \in used THEN Append(rows[l], row(l))
                                    ELSE rows[l]]
        /\ ordinal' = [c \in Counters |-> IF c \in used THEN ordinal[c] + 1
                                          ELSE ordinal[c]]
    BY <1>2 DEF FileArgument
  <2>3. \A l : RowOf(l, row(l))
    BY <2>1, RowIsMine
  <2> HIDE DEF used, row
  <2>4. ASSUME NEW l \in Lists PROVE Added(l) \/ Untouched(l)
    <3>1. CASE l \in used
      BY <2>2, <2>3, <3>1, ListsCounted DEF Added
    <3>2. CASE l \notin used
      BY <2>2, <3>2, ListsCounted DEF Untouched
    <3> QED
      BY <3>1, <3>2
  <2>5. ordinal' \in [Counters -> Nat]
    BY <2>2 DEF Shaped
  <2>6. DOMAIN rows' = Lists
    BY <2>2
  <2> QED
    BY <2>4, <2>5, <2>6 DEF Sorted, Extended
<1> QED
  BY <1>1, <1>2

\* Every action does one of the three.
LEMMA ActionsSorted ==
    ASSUME Shaped, [Next]_vars PROVE Sorted
<1>1. CASE BeginAssignment \/ BeginTask \/ BeginAlias
  <2>1. \/ UNCHANGED <<rows, ordinal, stmts, curStmt>>
        \/ \E kind, level : NewStmt(kind, level) /\ UNCHANGED rows
    BY <1>1 DEF BeginAssignment, BeginTask, BeginAlias
  <2> QED
    BY <2>1, NewStmtOpens, NothingAdded
<1>2. CASE \/ BeginBinding \/ BeginLevels \/ BeginGate \/ FileControl
           \/ CloseTarget \/ LeaveStatement \/ BindNeither \/ BindOutward
           \/ CoupleSides \/ FilePrimTarget \/ FilePrimPair
           \/ ClosePrimTarget \/ Return \/ UNCHANGED vars
  <2>1. UNCHANGED <<rows, ordinal, stmts>> /\ curStmt' \in {0, curStmt}
    BY <1>2 DEF BeginBinding, BeginLevels, BeginGate, FileControl, CloseTarget,
         LeaveStatement, BindNeither, BindOutward, CoupleSides,
         FilePrimTarget, FilePrimPair, ClosePrimTarget, Return, vars
  <2> QED
    BY <2>1, NothingAdded
<1>3. CASE FileTarget
  <2>1. \/ AddRow("target", curStmt, Op.ref) \/ UNCHANGED <<rows, ordinal>>
    BY <1>3 DEF FileTarget
  <2> QED
    BY <1>3, <2>1, OneAdded, NothingAdded, ListsCounted DEF FileTarget
<1>4. CASE FilePair
  <2>1. \/ AddRow("operand", curStmt, Op.pair.src) \/ UNCHANGED <<rows, ordinal>>
    BY <1>4 DEF FilePair
  <2> QED
    BY <1>4, <2>1, OneAdded, NothingAdded, ListsCounted DEF FilePair
<1>5. CASE TieOff
  <2>1. \/ CallStmt > 0 /\ AddRow("target", CallStmt, Op.pair.tgt)
        \/ UNCHANGED <<rows, ordinal>>
    BY <1>5 DEF TieOff
  <2>2. CallStmt > 0 => CallStmt = curStmt
    BY DEF CallStmt
  <2> QED
    BY <1>5, <2>1, <2>2, OneAdded, NothingAdded, ListsCounted DEF TieOff
<1>6. CASE BindForeign \/ BindLocal
  BY <1>6, ArgumentAdds DEF BindForeign, BindLocal
<1>7. CASE FileRead
  <2>1. \/ AddRow("expr", curStmt, Op.ref) \/ UNCHANGED <<rows, ordinal>>
    BY <1>7 DEF FileRead
  <2> QED
    BY <1>7, <2>1, OneAdded, NothingAdded, ListsCounted DEF FileRead
<1>8. CASE FileWrite
  <2>1. \/ AddRow("target", curStmt, Op.ref) \/ UNCHANGED <<rows, ordinal>>
    BY <1>8 DEF FileWrite
  <2> QED
    BY <1>8, <2>1, OneAdded, NothingAdded, ListsCounted DEF FileWrite
<1>9. CASE FileRelease
  <2>1. \/ AddRow("target", curStmt, Op.ref) \/ UNCHANGED <<rows, ordinal>>
    BY <1>9 DEF FileRelease
  <2> QED
    BY <1>9, <2>1, OneAdded, NothingAdded, ListsCounted DEF FileRelease
<1>10. CASE OpenLevel \/ FileLevelRead
  <2>1. /\ UNCHANGED <<rows, stmts, curStmt>>
        /\ \/ ordinal' = [ordinal EXCEPT !.read = 0]
           \/ ordinal' = [ordinal EXCEPT !.read = @ + 1]
           \/ ordinal' = ordinal
    BY <1>10 DEF OpenLevel, FileLevelRead
  <2>2. ordinal' \in [Counters -> Nat] /\ \A l \in Lists : ordinal'[l] = ordinal[l]
    BY <2>1, ListsCounted DEF Shaped
  <2> QED
    BY <2>1, <2>2 DEF Sorted, Kept, Shaped
<1>11. CASE FileSide
  <2> DEFINE t == Row("target", curStmt, Op.ref)
             o == Row("operand", curStmt, Op.ref)
  <2>1. \/ UNCHANGED <<rows, ordinal>>
        \/ /\ rows' = [rows EXCEPT !.target = Append(@, t), !.operand = Append(@, o)]
           /\ ordinal' = [ordinal EXCEPT !.target = @ + 1, !.operand = @ + 1]
    BY <1>11 DEF FileSide
  <2>2. RowOf("target", t) /\ RowOf("operand", o)
    BY RowIsMine
  <2>3. UNCHANGED <<stmts, curStmt>>
    BY <1>11 DEF FileSide
  <2> HIDE DEF t, o
  <2>4. CASE UNCHANGED <<rows, ordinal>>
    BY <2>3, <2>4, NothingAdded
  <2>5. CASE /\ rows' = [rows EXCEPT !.target = Append(@, t), !.operand = Append(@, o)]
             /\ ordinal' = [ordinal EXCEPT !.target = @ + 1, !.operand = @ + 1]
    <3>1. Added("target") /\ Added("operand")
      BY <2>2, <2>5, ListsCounted DEF Added, Shaped
    <3>2. Untouched("expr")
      BY <2>5, ListsCounted DEF Shaped, Untouched
    <3>3. ordinal.target + 1 \in Nat /\ ordinal.operand + 1 \in Nat
      BY ListsCounted DEF Shaped
    <3>4. ordinal' \in [Counters -> Nat]
      BY <2>5, <3>3, ListsCounted DEF Shaped
    <3>5. DOMAIN rows' = Lists
      BY <2>5 DEF Shaped
    <3>6. \A l \in Lists : Added(l) \/ Untouched(l)
      BY <3>1, <3>2, ListsCounted
    <3> QED
      BY <2>3, <3>4, <3>5, <3>6 DEF Sorted, Extended
  <2> QED
    BY <2>1, <2>4, <2>5
<1> QED
  BY <1>1, <1>2, <1>3, <1>4, <1>5, <1>6, <1>7, <1>8, <1>9, <1>10, <1>11 DEF Next

LEMMA RowsInit == Init => RowsInv
<1> SUFFICES ASSUME Init PROVE RowsInv
  OBVIOUS
<1>1. Shaped
  BY DEF Init, Shaped
<1>2. \A l \in Lists : rows[l] = <<>>
  BY DEF Init
<1>3. IsSeq(stmts) /\ DOMAIN stmts = {} /\ Len(stmts) = 0
  BY EmptyIsSeq, LengthOf DEF Init
<1>4. \A l \in Lists : IsSeq(rows[l]) /\ DOMAIN rows[l] = {}
  BY <1>2, EmptyIsSeq, LengthOf
<1>5. curStmt = 0
  BY DEF Init
<1> QED
  BY <1>1, <1>3, <1>4, <1>5 DEF RowsInv, RowsNumbered

\* Rows that stay, and the counters they are numbered by.
LEMMA Unnumbered ==
    ASSUME NEW l, NEW stmt, rows'[l] = rows[l]
    PROVE  Mine(l, stmt)' = Mine(l, stmt) /\ (Numbered(l, stmt)' <=> Numbered(l, stmt))
  BY DEF Mine, Numbered

LEMMA KeptStep == ASSUME RowsInv, Kept, DOMAIN rows' = Lists PROVE RowsInv'
<1>1. Shaped' /\ IsSeq(stmts)' /\ \A l \in Lists : IsSeq(rows[l])'
  BY DEF RowsInv, Kept, Shaped, IsSeq
<1>2. curStmt' \in {0, Len(stmts')}
  BY DEF RowsInv, Kept
<1>3. \A l \in Lists : \A k \in DOMAIN rows'[l] : rows'[l][k].stmt \in 0..Len(stmts')
  BY DEF RowsInv, Kept
<1>4. RowsNumbered'
  <2>1. ASSUME NEW l \in Lists, NEW t \in DOMAIN stmts PROVE Numbered(l, t)'
    BY Unnumbered DEF RowsInv, Kept, RowsNumbered
  <2> QED
    BY <2>1 DEF RowsNumbered, Kept
<1>5. curStmt' # 0 => \A l \in Lists : ordinal'[l] = Cardinality(Mine(l, curStmt)')
  <2>1. ASSUME curStmt' # 0, NEW l \in Lists
        PROVE  ordinal'[l] = Cardinality(Mine(l, curStmt)')
    <3>1. curStmt' = curStmt
      BY <2>1 DEF Kept
    <3>2. rows'[l] = rows[l] /\ ordinal'[l] = ordinal[l]
      BY DEF Kept
    <3>3. Mine(l, curStmt)' = Mine(l, curStmt)
      BY <3>1, <3>2 DEF Mine
    <3> QED
      BY <2>1, <3>1, <3>2, <3>3 DEF RowsInv
  <2> QED
    BY <2>1
<1> QED
  BY <1>1, <1>2, <1>3, <1>4, <1>5 DEF RowsInv

\* A list with no rows of a statement.
LEMMA NoneNumbered ==
    ASSUME NEW l, NEW stmt, Mine(l, stmt)' = {} PROVE Numbered(l, stmt)'
<1>1. {k \in DOMAIN rows'[l] : rows'[l][k].stmt = stmt} = {}
  BY DEF Mine
<1>2. Cardinality({}) = 0 /\ 0..0 - 1 = {}
  BY FS_EmptySet
<1> QED
  BY <1>1, <1>2 DEF Numbered

\* A new statement has no rows yet: all there are belong to earlier ones.
LEMMA OpenedStep == ASSUME RowsInv, Opened, DOMAIN rows' = Lists PROVE RowsInv'
<1>1. Len(stmts) \in Nat /\ DOMAIN stmts = 1..Len(stmts)
  BY LengthOf DEF RowsInv
<1>2. PICK n \in Nat : n = Len(stmts)
  BY <1>1
<1>3. IsSeq(stmts') /\ Len(stmts') = n + 1 /\ DOMAIN stmts' = 1..n + 1
  BY <1>2, Appended DEF RowsInv, Opened
<1>4. rows' = rows /\ curStmt' = n + 1
  BY <1>2 DEF Opened
<1>5. Shaped' /\ \A l \in Lists : IsSeq(rows[l])'
  BY <1>4 DEF RowsInv, Opened, Shaped, IsSeq
<1>6. \A l \in Lists : \A k \in DOMAIN rows'[l] : rows'[l][k].stmt \in 0..n
  BY <1>2, <1>4 DEF RowsInv
<1>7. \A l \in Lists : \A k \in DOMAIN rows'[l] : rows'[l][k].stmt \in 0..Len(stmts')
  BY <1>3, <1>6
<1>8. ASSUME NEW l \in Lists PROVE Mine(l, n + 1)' = {}
  BY <1>6 DEF Mine
<1>9. \A l \in Lists : ordinal'[l] = Cardinality(Mine(l, curStmt)')
  <2>1. ASSUME NEW l \in Lists PROVE ordinal'[l] = Cardinality(Mine(l, curStmt)')
    <3>1. Mine(l, curStmt)' = {}
      BY <1>4, <1>8 DEF Mine
    <3> QED
      BY <3>1, FS_EmptySet DEF Opened
  <2> QED
    BY <2>1
<1>10. RowsNumbered'
  <2>1. ASSUME NEW l \in Lists, NEW t \in 1..n + 1 PROVE Numbered(l, t)'
    <3>1. CASE t \in 1..n
      BY <1>1, <1>2, <1>4, <3>1, Unnumbered DEF RowsInv, RowsNumbered
    <3>2. CASE t = n + 1
      BY <1>8, <3>2, NoneNumbered
    <3> QED
      BY <3>1, <3>2
  <2> QED
    BY <1>3, <2>1 DEF RowsNumbered
<1> QED
  BY <1>3, <1>4, <1>5, <1>7, <1>9, <1>10 DEF RowsInv

\* A row past the n there are is one more of its statement.
LEMMA OneMore ==
    ASSUME NEW n \in Nat, NEW mine \in SUBSET (1..n)
    PROVE  /\ Cardinality(mine) \in Nat
           /\ Cardinality(mine \cup {n + 1}) = Cardinality(mine) + 1
<1>1. IsFiniteSet(1..n)
  BY FS_Interval, 1 \in Int, n \in Int
<1>2. IsFiniteSet(mine)
  BY <1>1, FS_Subset
<1>3. Cardinality(mine) \in Nat
  BY <1>2, FS_CardinalityType
<1>4. n + 1 \notin mine
  <2>1. n + 1 \notin 1..n
    OBVIOUS
  <2> QED
    BY <2>1
<1>5. Cardinality(mine \cup {n + 1})
         = IF n + 1 \in mine THEN Cardinality(mine) ELSE Cardinality(mine) + 1
  BY <1>2, FS_AddElement
<1> QED
  BY <1>3, <1>4, <1>5

\* A row more in a list of the current statement: numbered next there, and
\* of no other statement.
LEMMA AddedToStmt ==
    ASSUME RowsInv, NEW l \in Lists, Added(l), NEW t, t # 0, t = curStmt,
           Numbered(l, t)
    PROVE  Numbered(l, t)' /\ ordinal'[l] = Cardinality(Mine(l, t)')
<1>1. PICK row : RowOf(l, row) /\ rows'[l] = Append(rows[l], row)
  BY DEF Added
<1>2. IsSeq(rows[l]) /\ ordinal[l] = Cardinality(Mine(l, t))
  BY DEF RowsInv, Mine
<1>3. PICK n \in Nat : n = Len(rows[l])
  BY <1>2, LengthOf
<1>4. PICK mine : mine = Mine(l, t)
  OBVIOUS
<1>5. DOMAIN rows[l] = 1..n /\ mine \in SUBSET (1..n)
  BY <1>2, <1>3, <1>4, LengthOf DEF Mine
<1>6. Cardinality(mine) \in Nat /\ Cardinality(mine \cup {n + 1}) = Cardinality(mine) + 1
  BY <1>5, OneMore
<1>7. PICK c \in Nat : c = Cardinality(mine)
  BY <1>6
<1>8. /\ DOMAIN rows'[l] = 1..n + 1 /\ rows'[l][n + 1] = row
      /\ \A k \in 1..n : rows'[l][k] = rows[l][k]
  BY <1>1, <1>2, <1>3, Appended
<1>9. row.stmt = t /\ row.ordinal = c
  BY <1>1, <1>2, <1>4, <1>7 DEF RowOf
<1>10. Mine(l, t)' = mine \cup {n + 1}
  <2>1. \A k \in 1..n : k \in mine <=> rows'[l][k].stmt = t
    BY <1>4, <1>5, <1>8 DEF Mine
  <2>2. ASSUME NEW k PROVE k \in 1..n + 1 /\ rows'[l][k].stmt = t <=> k \in mine \cup {n + 1}
    <3>1. k \in 1..n + 1 <=> k \in 1..n \/ k = n + 1
      OBVIOUS
    <3>2. rows'[l][n + 1].stmt = t
      BY <1>8, <1>9
    <3>3. k \in mine => k \in 1..n
      BY <1>5
    <3> QED
      BY <2>1, <3>1, <3>2, <3>3, Zenon
  <2>3. {k \in 1..n + 1 : rows'[l][k].stmt = t} = mine \cup {n + 1}
    BY <2>2, Zenon
  <2> QED
    BY <1>8, <2>3 DEF Mine
<1>11. Cardinality(mine \cup {n + 1}) = c + 1
  BY <1>6, <1>7
<1>12. {rows[l][k].ordinal : k \in mine} = 0..c - 1
  BY <1>4, <1>7 DEF Numbered, Mine
<1>13. {rows'[l][k].ordinal : k \in mine \cup {n + 1}} = 0..c
  <2>1. \A k \in mine : rows'[l][k].ordinal = rows[l][k].ordinal
    BY <1>5, <1>8
  <2>2. {rows'[l][k].ordinal : k \in mine} = 0..c - 1
    BY <1>12, <2>1
  <2>3. rows'[l][n + 1].ordinal = c
    BY <1>8, <1>9
  <2>4. {rows'[l][k].ordinal : k \in mine \cup {n + 1}}
            = {rows'[l][k].ordinal : k \in mine} \cup {rows'[l][n + 1].ordinal}
    OBVIOUS
  <2>5. (0..c - 1) \cup {c} = 0..c
    OBVIOUS
  <2> QED
    BY <2>2, <2>3, <2>4, <2>5
<1>14. (c + 1) - 1 = c
  OBVIOUS
<1>15. Numbered(l, t)'
  BY <1>10, <1>11, <1>13, <1>14 DEF Numbered, Mine
<1>16. ordinal'[l] = c + 1
  BY <1>2, <1>4, <1>7 DEF Added
<1> QED
  BY <1>10, <1>11, <1>15, <1>16

LEMMA AddedElsewhere ==
    ASSUME RowsInv, NEW l \in Lists, Added(l), NEW t, t # curStmt, Numbered(l, t)
    PROVE  Numbered(l, t)'
<1>1. PICK row : RowOf(l, row) /\ rows'[l] = Append(rows[l], row)
  BY DEF Added
<1>2. IsSeq(rows[l])
  BY DEF RowsInv
<1>3. PICK n \in Nat : n = Len(rows[l])
  BY <1>2, LengthOf
<1>4. PICK mine : mine = Mine(l, t)
  OBVIOUS
<1>5. DOMAIN rows[l] = 1..n /\ mine \in SUBSET (1..n)
  BY <1>2, <1>3, <1>4, LengthOf DEF Mine
<1>6. /\ DOMAIN rows'[l] = 1..n + 1 /\ rows'[l][n + 1] = row
      /\ \A k \in 1..n : rows'[l][k] = rows[l][k]
  BY <1>1, <1>2, <1>3, Appended
<1>7. Mine(l, t)' = mine
  <2>1. \A k \in 1..n : k \in mine <=> rows'[l][k].stmt = t
    BY <1>4, <1>5, <1>6 DEF Mine
  <2>2. row.stmt # t
    BY <1>1 DEF RowOf
  <2>3. ASSUME NEW k PROVE k \in 1..n + 1 /\ rows'[l][k].stmt = t <=> k \in mine
    <3>1. k \in 1..n + 1 <=> k \in 1..n \/ k = n + 1
      OBVIOUS
    <3>2. rows'[l][n + 1].stmt # t /\ n + 1 \notin 1..n
      BY <1>6, <2>2
    <3>3. k \in mine => k \in 1..n
      BY <1>5
    <3> QED
      BY <2>1, <3>1, <3>2, <3>3, Zenon
  <2>4. {k \in 1..n + 1 : rows'[l][k].stmt = t} = mine
    BY <2>3, Zenon
  <2> QED
    BY <1>6, <2>4 DEF Mine
<1>8. {rows[l][k].ordinal : k \in mine} = 0..Cardinality(mine) - 1
  BY <1>4 DEF Numbered, Mine
<1>9. {rows'[l][k].ordinal : k \in mine} = {rows[l][k].ordinal : k \in mine}
  BY <1>5, <1>6
<1> QED
  BY <1>7, <1>8, <1>9 DEF Numbered, Mine

LEMMA ExtendedStep == ASSUME RowsInv, Extended, DOMAIN rows' = Lists PROVE RowsInv'
<1>1. Shaped' /\ IsSeq(stmts)' /\ curStmt' \in {0, Len(stmts')}
  BY DEF RowsInv, Extended, Shaped, IsSeq
<1>2. ASSUME NEW l \in Lists
      PROVE  /\ IsSeq(rows[l])'
             /\ \A k \in DOMAIN rows'[l] : rows'[l][k].stmt \in 0..Len(stmts')
  <2>1. CASE Untouched(l)
    BY <2>1 DEF RowsInv, Extended, Untouched, IsSeq
  <2>2. CASE Added(l)
    <3>1. PICK row : RowOf(l, row) /\ rows'[l] = Append(rows[l], row)
      BY <2>2 DEF Added
    <3>2. IsSeq(rows[l]) /\ Len(rows[l]) \in Nat /\ DOMAIN rows[l] = 1..Len(rows[l])
      BY LengthOf DEF RowsInv
    <3>3. /\ IsSeq(rows'[l]) /\ DOMAIN rows'[l] = 1..Len(rows[l]) + 1
          /\ \A k \in 1..Len(rows[l]) : rows'[l][k] = rows[l][k]
          /\ rows'[l][Len(rows[l]) + 1] = row
      BY <3>1, <3>2, Appended
    <3>4. row.stmt \in 0..Len(stmts')
      BY <3>1, LengthOf DEF RowOf, RowsInv, Extended
    <3>5. \A k \in 1..Len(rows[l]) : rows'[l][k].stmt \in 0..Len(stmts')
      BY <3>2, <3>3 DEF RowsInv, Extended
    <3> QED
      BY <3>2, <3>3, <3>4, <3>5
  <2> QED
    BY <2>1, <2>2 DEF Extended
<1>3. ASSUME NEW l \in Lists, NEW t \in DOMAIN stmts PROVE Numbered(l, t)'
  <2>1. Numbered(l, t) /\ t # 0
    BY LengthOf DEF RowsInv, RowsNumbered
  <2>2. CASE Untouched(l)
    BY <2>1, <2>2, Unnumbered DEF Untouched
  <2>3. CASE Added(l) /\ t = curStmt
    BY <2>1, <2>3, AddedToStmt
  <2>4. CASE Added(l) /\ t # curStmt
    BY <2>1, <2>4, AddedElsewhere
  <2> QED
    BY <2>2, <2>3, <2>4 DEF Extended
<1>4. RowsNumbered'
  BY <1>3 DEF RowsNumbered, Extended
<1>5. ASSUME curStmt' # 0, NEW l \in Lists
      PROVE  ordinal'[l] = Cardinality(Mine(l, curStmt)')
  <2>1. PICK t : t = curStmt
    OBVIOUS
  <2>2. t # 0 /\ curStmt' = t /\ t \in DOMAIN stmts
    BY <1>5, <2>1, LengthOf DEF Extended, RowsInv
  <2>3. Numbered(l, t) /\ ordinal[l] = Cardinality(Mine(l, t))
    BY <2>1, <2>2 DEF RowsInv, RowsNumbered, Mine
  <2>4. CASE Untouched(l)
    <3>1. Mine(l, t)' = Mine(l, t)
      BY <2>4 DEF Untouched, Mine
    <3> QED
      BY <2>2, <2>3, <2>4, <3>1 DEF Untouched, Mine
  <2>5. CASE Added(l)
    <3>1. ordinal'[l] = Cardinality(Mine(l, t)')
      BY <2>1, <2>2, <2>3, <2>5, AddedToStmt
    <3> QED
      BY <2>2, <3>1 DEF Mine
  <2> QED
    BY <2>4, <2>5 DEF Extended
<1> QED
  BY <1>1, <1>2, <1>4, <1>5 DEF RowsInv

LEMMA RowsStep == RowsInv /\ [Next]_vars => RowsInv'
<1> SUFFICES ASSUME RowsInv, [Next]_vars PROVE RowsInv'
  OBVIOUS
<1>1. Sorted
  BY ActionsSorted DEF RowsInv
<1> QED
  BY <1>1, KeptStep, OpenedStep, ExtendedStep DEF Sorted

(***************************************************************************)
(* Whatever was filed of a statement, and whether or not it went on after  *)
(* a call it makes: its targets, its operands and what it reads are        *)
(* numbered 0, 1, 2, ... without a gap (writeBody keys the rows by it).    *)
(***************************************************************************)
THEOREM RowsAreNumbered == Spec => []RowsNumbered
<1>1. RowsInv => RowsNumbered
  BY DEF RowsInv
<1> QED
  BY RowsInit, RowsStep, <1>1, PTL DEF Spec

-----------------------------------------------------------------------------
(***************************************************************************)
(* A placed slot whose reference fills its window: what collectSlots means  *)
(* by positional, the cover lying in an object of `total` bits.             *)
(***************************************************************************)
IsWindow(at) ==
    at.placed /\ at.lo \in Nat /\ at.hi \in Nat /\ at.lo <= at.hi

IsCover(cover, total) ==
    \/ cover = Whole
    \/ /\ cover.case = "run" /\ cover.lo \in Nat /\ cover.hi \in Nat
       /\ cover.lo <= cover.hi /\ cover.hi < total

Positional(cover, at, total) ==
    /\ IsWindow(at) /\ total \in Nat /\ IsCover(cover, total)
    /\ CoverFillsWidth(cover, TRUE, at.hi - at.lo + 1, total)

\* What narrowed leaves of such a slot.
Cut(cover, at, span, total) == NarrowedCover(cover, at, TRUE, span, total)

\* A slot's first bit and last, as many bits apart as its window's.
LEMMA FillsWindow ==
    ASSUME NEW cover, NEW at, NEW total, Positional(cover, at, total)
    PROVE  /\ CoverLo(cover) \in Nat /\ CoverHi(cover, total) \in Nat
           /\ CoverHi(cover, total) - CoverLo(cover) = at.hi - at.lo
           /\ CoverHi(cover, total) < total
  BY DEF Positional, IsWindow, IsCover, CoverFillsWidth, CoverLo, CoverHi, Whole

\* ForBounds names the bits it is given.
LEMMA BoundsKept ==
    ASSUME NEW lo \in Nat, NEW hi \in Nat, NEW total \in Nat,
           lo <= hi, hi < total
    PROVE  /\ CoverLo(ForBounds(lo, hi, total)) = lo
           /\ CoverHi(ForBounds(lo, hi, total), total) = hi
  BY DEF ForBounds, CoverLo, CoverHi, Whole, Run

\* The overlap of two windows is a window in both.
LEMMA SpanInside ==
    ASSUME NEW a, NEW b, IsWindow(a), IsWindow(b), Overlap(a, b)
    PROVE  LET span == Span(a, b) IN
           /\ IsWindow(span)
           /\ a.lo <= span.lo /\ span.hi <= a.hi
           /\ b.lo <= span.lo /\ span.hi <= b.hi
  BY DEF Span, Overlap, IsWindow, Window, Larger, Smaller

(***************************************************************************)
(* narrowed cuts a positional slot down to the bits its part of the span    *)
(* is made of: as many as the span has, beginning where the span begins in  *)
(* the window, and never past the reference as it was written.              *)
(***************************************************************************)
THEOREM NarrowedIsSpan ==
    ASSUME NEW cover, NEW at, NEW total, NEW span,
           Positional(cover, at, total), IsWindow(span),
           at.lo <= span.lo, span.hi <= at.hi
    PROVE  LET cut == Cut(cover, at, span, total) IN
           /\ CoverLo(cut) = CoverLo(cover) + (span.lo - at.lo)
           /\ CoverHi(cut, total) = CoverLo(cover) + (span.hi - at.lo)
           /\ CoverBits(cut, total) \subseteq CoverBits(cover, total)
<1> DEFINE cut == Cut(cover, at, span, total)
           first == CoverLo(cover) + (span.lo - at.lo)
           final == CoverLo(cover) + (span.hi - at.lo)
<1>1. /\ CoverLo(cover) \in Nat /\ CoverHi(cover, total) \in Nat
      /\ CoverHi(cover, total) - CoverLo(cover) = at.hi - at.lo
      /\ CoverHi(cover, total) < total /\ total \in Nat
  BY FillsWindow DEF Positional
<1>2. /\ at.placed /\ at.lo \in Nat /\ at.hi \in Nat
      /\ span.placed /\ span.lo \in Nat /\ span.hi \in Nat
      /\ span.lo <= span.hi
  BY DEF Positional, IsWindow
<1>3. /\ first \in Nat /\ final \in Nat /\ first <= final
      /\ CoverLo(cover) <= first /\ final <= CoverHi(cover, total)
  BY <1>1, <1>2
<1>4. CoverLo(cut) = first /\ CoverHi(cut, total) = final
  <2>1. CASE span.lo <= at.lo /\ span.hi >= at.hi
    <3>1. cut = cover
      BY <1>2, <2>1 DEF Cut, NarrowedCover
    <3>2. span.lo = at.lo /\ span.hi = at.hi
      BY <1>2, <2>1
    <3>3. first = CoverLo(cover) /\ final = CoverHi(cover, total)
      BY <1>1, <1>2, <3>2
    <3> HIDE DEF first, final, cut
    <3> QED
      BY <3>1, <3>3
  <2>2. CASE ~ (span.lo <= at.lo /\ span.hi >= at.hi)
    <3>1. cut = ForBounds(first, final, total)
      BY <1>2, <2>2 DEF Cut, NarrowedCover
    <3>2. final < total
      BY <1>1, <1>3
    <3> HIDE DEF first, final, cut
    <3> QED
      BY <1>1, <1>3, <3>1, <3>2, BoundsKept
  <2> QED
    BY <2>1, <2>2
<1>5. CoverBits(cut, total) \subseteq CoverBits(cover, total)
  <2> HIDE DEF cut, first, final
  <2> QED
    BY <1>1, <1>3, <1>4 DEF CoverBits
<1> QED
  BY <1>4, <1>5

(***************************************************************************)
(* A pair with an exact map: the n-th bit of the source it names and the    *)
(* n-th bit of the target it names sit at one place of the assignment, for  *)
(* any two windows that overlap. A dependency whose two ranges had another  *)
(* width, or another order, would say of bits that they are copied which    *)
(* are not.                                                                 *)
(***************************************************************************)
\* Where in the assignment bit n of a positional slot's object sits.
Place(cover, at, n) == at.lo + (n - CoverLo(cover))

THEOREM PairsBitForBit ==
    ASSUME NEW src, NEW srcAt, NEW srcTotal, Positional(src, srcAt, srcTotal),
           NEW dst, NEW dstAt, NEW dstTotal, Positional(dst, dstAt, dstTotal),
           Overlap(dstAt, srcAt)
    PROVE  LET span == Span(dstAt, srcAt)
               s == Cut(src, srcAt, span, srcTotal)
               d == Cut(dst, dstAt, span, dstTotal)
           IN  /\ CoverHi(s, srcTotal) - CoverLo(s)
                    = CoverHi(d, dstTotal) - CoverLo(d)
               /\ \A n \in 0..CoverHi(s, srcTotal) - CoverLo(s) :
                    Place(src, srcAt, CoverLo(s) + n)
                      = Place(dst, dstAt, CoverLo(d) + n)
<1> DEFINE span == Span(dstAt, srcAt)
           s == Cut(src, srcAt, span, srcTotal)
           d == Cut(dst, dstAt, span, dstTotal)
<1>1. IsWindow(srcAt) /\ IsWindow(dstAt)
  BY DEF Positional
<1>2. /\ IsWindow(span)
      /\ dstAt.lo <= span.lo /\ span.hi <= dstAt.hi
      /\ srcAt.lo <= span.lo /\ span.hi <= srcAt.hi
  BY <1>1, SpanInside
<1> HIDE DEF span
<1>3. /\ CoverLo(s) = CoverLo(src) + (span.lo - srcAt.lo)
      /\ CoverHi(s, srcTotal) = CoverLo(src) + (span.hi - srcAt.lo)
  BY <1>2, NarrowedIsSpan
<1>4. /\ CoverLo(d) = CoverLo(dst) + (span.lo - dstAt.lo)
      /\ CoverHi(d, dstTotal) = CoverLo(dst) + (span.hi - dstAt.lo)
  BY <1>2, NarrowedIsSpan
<1>5. CoverLo(src) \in Nat /\ CoverLo(dst) \in Nat
  BY FillsWindow
<1>6. /\ span.lo \in Nat /\ span.hi \in Nat
      /\ srcAt.lo \in Nat /\ dstAt.lo \in Nat
  BY <1>1, <1>2 DEF IsWindow
<1> HIDE DEF s, d
<1>7. CoverHi(s, srcTotal) - CoverLo(s) = CoverHi(d, dstTotal) - CoverLo(d)
  BY <1>3, <1>4, <1>5, <1>6
<1>8. ASSUME NEW n \in 0..CoverHi(s, srcTotal) - CoverLo(s)
      PROVE  Place(src, srcAt, CoverLo(s) + n) = Place(dst, dstAt, CoverLo(d) + n)
  BY <1>3, <1>4, <1>5, <1>6 DEF Place
<1> QED
  BY <1>7, <1>8 DEF s, d, span

(***************************************************************************)
(* Every bit the two windows share is in the pair: nothing of the overlap   *)
(* is lost by narrowing.                                                    *)
(***************************************************************************)
THEOREM OverlapIsKept ==
    ASSUME NEW src, NEW srcAt, NEW srcTotal, Positional(src, srcAt, srcTotal),
           NEW dstAt, IsWindow(dstAt), Overlap(dstAt, srcAt),
           NEW n \in CoverBits(src, srcTotal),
           Place(src, srcAt, n) \in dstAt.lo..dstAt.hi
    PROVE  n \in CoverBits(Cut(src, srcAt, Span(dstAt, srcAt), srcTotal),
                           srcTotal)
<1> DEFINE span == Span(dstAt, srcAt)
           s == Cut(src, srcAt, span, srcTotal)
<1>1. IsWindow(srcAt)
  BY DEF Positional
<1>2. /\ IsWindow(span)
      /\ srcAt.lo <= span.lo /\ span.hi <= srcAt.hi
      /\ span.lo = Larger(dstAt.lo, srcAt.lo)
      /\ span.hi = Smaller(dstAt.hi, srcAt.hi)
  BY <1>1, SpanInside DEF Span, IsWindow, Window
<1> HIDE DEF span
<1>3. /\ CoverLo(s) = CoverLo(src) + (span.lo - srcAt.lo)
      /\ CoverHi(s, srcTotal) = CoverLo(src) + (span.hi - srcAt.lo)
  BY <1>2, NarrowedIsSpan
<1>4. /\ CoverLo(src) \in Nat /\ CoverHi(src, srcTotal) \in Nat
      /\ CoverHi(src, srcTotal) - CoverLo(src) = srcAt.hi - srcAt.lo
  BY FillsWindow
<1>5. /\ srcAt.lo \in Nat /\ srcAt.hi \in Nat
      /\ dstAt.lo \in Nat /\ dstAt.hi \in Nat
      /\ span.lo \in Nat /\ span.hi \in Nat
  BY <1>1, <1>2 DEF IsWindow
<1>6. n \in CoverLo(src)..CoverHi(src, srcTotal)
  BY DEF CoverBits
<1>7. srcAt.lo + (n - CoverLo(src)) \in dstAt.lo..dstAt.hi
  BY DEF Place
<1> HIDE DEF s
<1>8. n \in CoverLo(s)..CoverHi(s, srcTotal)
  BY <1>2, <1>3, <1>4, <1>5, <1>6, <1>7 DEF Larger, Smaller
<1> QED
  BY <1>8 DEF CoverBits, s, span
=============================================================================
