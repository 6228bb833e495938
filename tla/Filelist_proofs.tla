--------------------------- MODULE Filelist_proofs ---------------------------
(***************************************************************************)
(* What reading filelists guarantees for every text and every limit: its   *)
(* state keeps its shape, and no more lists are ever open than may nest,   *)
(* though nothing looks for lists that name each other.                    *)
(***************************************************************************)
EXTENDS Filelist, SequenceTheorems, WellFoundedInduction, TLAPS

ReadInv == TypeOK /\ NestingBounded /\ input \in Inputs

(***************************************************************************)
(* Sequences.                                                              *)
(***************************************************************************)
LEMMA ElementIn ==
    ASSUME NEW S, NEW s \in Seq(S), NEW n \in 1..Len(s)
    PROVE  s[n] \in S
  OBVIOUS

LEMMA Replaced ==
    ASSUME NEW S, NEW s \in Seq(S), NEW n \in 1..Len(s), NEW e \in S
    PROVE  /\ [s EXCEPT ![n] = e] \in Seq(S)
           /\ Len([s EXCEPT ![n] = e]) = Len(s)
  OBVIOUS

LEMMA Appended ==
    ASSUME NEW S, NEW s \in Seq(S), NEW e \in S
    PROVE  Append(s, e) \in Seq(S) /\ Len(Append(s, e)) = Len(s) + 1
  OBVIOUS

LEMMA Concatenated ==
    ASSUME NEW S, NEW s \in Seq(S), NEW t \in Seq(S)
    PROVE  s \o t \in Seq(S)
  OBVIOUS

LEMMA FirstOf ==
    ASSUME NEW S, NEW s \in Seq(S), s # <<>>
    PROVE  1 \in 1..Len(s) /\ Len(s) \in 1..Len(s)
  OBVIOUS

LEMMA Smallest ==
    ASSUME NEW T \in SUBSET Nat, T # {}
    PROVE  \E m \in T : \A k \in T : m <= k
<1>1. \E m \in T : \A k \in T : ~(<<k, m>> \in OpToRel(<, Nat))
  BY WFMin, NatLessThanWellFounded
<1>2. \A k, m \in T : k < m => <<k, m>> \in OpToRel(<, Nat)
  BY DEF OpToRel
<1>3. \A k, m \in T : k < m \/ m <= k
  OBVIOUS
<1>4. PICK m \in T : \A k \in T : ~(<<k, m>> \in OpToRel(<, Nat))
  BY <1>1
<1>5. \A k \in T : m <= k
  BY <1>2, <1>3, <1>4
<1> QED
  BY <1>5

LEMMA WithoutLast ==
    ASSUME NEW S, NEW s \in Seq(S), s # <<>>
    PROVE  Front(s) \in Seq(S) /\ Len(Front(s)) = Len(s) - 1
<1>1. PICK m \in Nat : m = Len(s) - 1
  BY FirstOf
<1>2. \A k \in 1..m : s[k] \in S
  BY <1>1
<1>3. /\ SubSeq(s, 1, m) \in Seq(S)
      /\ Len(SubSeq(s, 1, m)) = IF 1 <= m THEN m - 1 + 1 ELSE 0
  BY <1>2, SubSeqProperties
<1>4. Len(SubSeq(s, 1, m)) = m
  BY <1>3
<1>5. Front(s) = SubSeq(s, 1, m)
  BY <1>1 DEF Front
<1> QED
  BY <1>1, <1>3, <1>4, <1>5

\* What is left of a sequence from some place on.
LEMMA RestOf ==
    ASSUME NEW S, NEW s \in Seq(S), NEW n \in Nat
    PROVE  SubSeq(s, n + 1, Len(s)) \in Seq(S)
<1>1. n + 1 \in Int /\ Len(s) \in Int
  OBVIOUS
<1>2. \A i \in (n + 1)..Len(s) : s[i] \in S
  <2>1. \A i \in (n + 1)..Len(s) : i \in 1..Len(s)
    BY <1>1
  <2> QED
    BY <2>1, ElementIn
<1> QED
  BY <1>1, <1>2, SubSeqProperties

(***************************************************************************)
(* Texts: a line cut at its slashes is a line.                             *)
(***************************************************************************)
LEMMA CutLine ==
    ASSUME NEW line \in Seq(Token), NEW kind
    PROVE  Before(line, kind) \in Seq(Token)
<1> DEFINE hits == {i \in 1..Len(line) : line[i].kind = kind}
           first == SelectInSeq(line, LAMBDA t : t.kind = kind)
<1>1. CASE hits = {}
  BY <1>1 DEF Before
<1>2. CASE hits # {}
  <2>1. hits \in SUBSET Nat
    OBVIOUS
  <2>2. \E m \in hits : \A k \in hits : m <= k
    BY <1>2, <2>1, Smallest
  <2>3. Min(hits) \in hits
    BY <2>2 DEF Min
  <2>4. first = Min(hits)
    BY <1>2 DEF SelectInSeq
  <2>5. first \in 1..Len(line)
    BY <2>3, <2>4
  <2> HIDE DEF first
  <2>6. \A i \in 1..(first - 1) : line[i] \in Token
    BY <2>5, ElementIn
  <2>7. SubSeq(line, 1, first - 1) \in Seq(Token)
    BY <2>5, <2>6, SubSeqProperties
  <2> QED
    BY <1>2, <2>7 DEF Before, first
<1> QED
  BY <1>1, <1>2

LEMMA CutText ==
    ASSUME NEW text \in Text PROVE Unslashed(text) \in Text
<1>1. \A i \in 1..Len(text) : Before(text[i], "slashes") \in Seq(Token)
  BY CutLine, ElementIn DEF Text
<1> QED
  BY <1>1 DEF Unslashed, Text

\* A line of a text, cut or not, is nothing but tokens.
LEMMA LinesAreTokens ==
    ASSUME TypeOK, stack # <<>>
    PROVE  /\ Len(stack) \in 1..Len(stack) /\ Top \in Open
           /\ Top.path \in Path /\ Top.lines \in Seq(Seq(Token))
           /\ Top.pending \in Option \cup {"none"}
           /\ Top.lines # <<>> => Line \in Seq(Token) /\ 1 \in 1..Len(Top.lines)
<1>1. Len(stack) \in 1..Len(stack) /\ Top \in Open
  BY FirstOf, ElementIn DEF TypeOK, Top
<1>2. /\ Top.path \in Path /\ Top.lines \in Seq(Seq(Token))
      /\ Top.pending \in Option \cup {"none"}
  BY <1>1 DEF Open, Text
<1>3. Top.lines # <<>> => Line \in Seq(Token) /\ 1 \in 1..Len(Top.lines)
  BY <1>2, FirstOf, ElementIn DEF Line
<1> QED
  BY <1>1, <1>2, <1>3

\* The lists read as far as the n-th token are lists being read.
LEMMA PastType ==
    ASSUME TypeOK, InLine, NEW n \in Nat, NEW pending \in Option \cup {"none"}
    PROVE  Past(n, pending) \in Seq(Open) /\ Len(Past(n, pending)) = Len(stack)
<1> DEFINE rest == SubSeq(Line, n + 1, Len(Line))
           lines == [Top.lines EXCEPT ![1] = rest]
           top == [Top EXCEPT !.lines = lines, !.pending = pending]
<1>1. stack # <<>> /\ stack \in Seq(Open) /\ Top.lines # <<>>
  BY DEF InLine, Reading, TypeOK
<1>2. rest \in Seq(Token)
  BY <1>1, LinesAreTokens, RestOf
<1>3. lines \in Seq(Seq(Token))
  <2> HIDE DEF rest
  <2> QED
    BY <1>1, <1>2, LinesAreTokens, Replaced
<1>4. top \in Open
  <2> HIDE DEF lines
  <2> QED
    BY <1>1, <1>3, LinesAreTokens DEF Open, Text
<1>5. Past(n, pending) = [stack EXCEPT ![Len(stack)] = top]
  BY DEF Past
<1> HIDE DEF top
<1> QED
  BY <1>1, <1>4, <1>5, LinesAreTokens, Replaced

(***************************************************************************)
(* One call of readFilelist, from main or from a list.                     *)
(***************************************************************************)
ReadOn ==
    /\ stack' \in Seq(Open) /\ opt' \in Options
    /\ status' \in {"reading", "read"} \cup Refusals
    /\ stack' # <<>> => status' = "reading"
    /\ Len(stack') <= MaxDepth + 1

LEMMA RefuseType ==
    ASSUME ReadInv, NEW why \in Refusals, Refuse(why)
    PROVE  ReadOn
  BY MaxDepthNat DEF ReadInv, TypeOK, Refuse, ReadOn

LEMMA EnterType ==
    ASSUME ReadInv, status = "reading", NEW path \in Path,
           NEW below \in Seq(Open), Enter(path, below)
    PROVE  ReadOn
<1>1. CASE Refuse("nested too deep") \/ Refuse("unreadable")
  BY <1>1, RefuseType DEF Refusals
<1>2. CASE /\ Len(below) <= MaxDepth /\ path \in DOMAIN input.text
           /\ stack' = Append(below, Begun(path))
           /\ UNCHANGED <<opt, status>>
  <2>1. input.text[path] \in Text
    BY <1>2, InputsTyped DEF ReadInv
  <2>2. Begun(path) \in Open
    BY <2>1, CutText DEF Begun, Open
  <2>3. stack' \in Seq(Open) /\ Len(stack') = Len(below) + 1
    BY <1>2, <2>2, Appended
  <2> QED
    BY <1>2, <2>3, MaxDepthNat DEF ReadInv, TypeOK, ReadOn
<1> QED
  BY <1>1, <1>2 DEF Enter

LEMMA ResolveType ==
    ASSUME NEW list \in Path, NEW name \in Name
    PROVE  Resolve(list, name) \in Path
  BY DEF Resolve, Path, Name

LEMMA GiveType ==
    ASSUME ReadInv, InLine, NEW option \in Option, NEW n \in 1..Len(Line),
           Give(option, n)
    PROVE  ReadOn
<1> DEFINE path == Resolve(Top.path, Line[n].name)
<1>1. stack # <<>> /\ Top.lines # <<>> /\ status = "reading" /\ TypeOK
  BY DEF InLine, Reading, ReadInv
<1>2. path \in Path
  <2>1. Line[n] \in Token
    BY <1>1, LinesAreTokens, ElementIn
  <2> QED
    BY <1>1, <2>1, LinesAreTokens, ResolveType DEF Token
<1> HIDE DEF path
<1>3. Past(n, "none") \in Seq(Open) /\ Len(Past(n, "none")) = Len(stack)
  BY <1>1, LinesAreTokens, PastType
<1>4. CASE Enter(path, Past(n, "none"))
  BY <1>1, <1>2, <1>3, <1>4, EnterType
<1>5. CASE /\ opt' = [opt EXCEPT !.libraries = Append(@, path)]
           /\ stack' = Past(n, "none") /\ UNCHANGED status
  <2>1. Append(opt.libraries, path) \in Seq(Path)
    BY <1>1, <1>2, Appended DEF TypeOK, Options
  <2>2. opt' \in Options
    BY <1>1, <1>5, <2>1 DEF TypeOK, Options
  <2> QED
    BY <1>1, <1>3, <1>5, <2>2 DEF ReadOn, ReadInv, TypeOK, NestingBounded
<1>6. CASE stack' = Past(n, "none") /\ UNCHANGED <<opt, status>>
  BY <1>1, <1>3, <1>6 DEF ReadOn, ReadInv, TypeOK, NestingBounded
<1> QED
  BY <1>4, <1>5, <1>6 DEF Give, path

-----------------------------------------------------------------------------
(***************************************************************************)
(* The invariant, action by action.                                        *)
(***************************************************************************)
LEMMA ReadInit == Init => ReadInv
<1> SUFFICES ASSUME Init PROVE ReadInv
  OBVIOUS
<1>1. input \in Inputs /\ input.lists \in Seq(Path) /\ input.sources \in Seq(Path)
  BY InputsTyped DEF Init
<1>2. 0 \in 0..Len(input.lists)
  BY <1>1
<1>3. opt \in Options
  BY <1>1 DEF Init, Options
<1> QED
  BY <1>1, <1>2, <1>3, MaxDepthNat DEF Init, ReadInv, TypeOK, NestingBounded

LEMMA DirectoryNoted ==
    ASSUME TypeOK, InLine, NoteDirectory PROVE notes' \in Seq(Token)
<1>1. Line[1] \in Token
  BY LinesAreTokens, FirstOf, ElementIn DEF InLine, Reading
<1> QED
  BY <1>1, Appended DEF NoteDirectory, TypeOK

LEMMA EntryTaken ==
    ASSUME ReadInv, TakeEntry
    PROVE  /\ opt' \in Options /\ notes' \in Seq(Token)
           /\ stack' = Past(1, "none") /\ UNCHANGED <<input, at, status>>
<1> DEFINE t == Line[1]
<1>1. TypeOK /\ stack # <<>> /\ InLine
  BY DEF ReadInv, TakeEntry, InLine, Reading
<1>2. t \in Token /\ Top.path \in Path
  BY <1>1, LinesAreTokens, FirstOf, ElementIn DEF InLine
<1>3. t.name \in Name /\ t.pieces \in Seq(Name) /\ Resolve(Top.path, t.name) \in Path
  BY <1>2, ResolveType DEF Token
<1>4. ResolveAll(Top.path, t.pieces) \in Seq(Path)
  <2>1. \A i \in 1..Len(t.pieces) : Resolve(Top.path, t.pieces[i]) \in Path
    BY <1>2, <1>3, ResolveType, ElementIn
  <2> QED
    BY <1>3, <2>1 DEF ResolveAll
<1>5. /\ Append(opt.sources, Resolve(Top.path, t.name)) \in Seq(Path)
      /\ opt.defines \o t.pieces \in Seq(Name)
      /\ opt.incdirs \o ResolveAll(Top.path, t.pieces) \in Seq(Path)
      /\ Append(notes, t) \in Seq(Token)
  BY <1>1, <1>2, <1>3, <1>4, Appended, Concatenated DEF TypeOK, Options
<1>6. \/ opt' = [opt EXCEPT !.sources = Append(@, Resolve(Top.path, t.name))]
         /\ UNCHANGED notes
      \/ opt' = [opt EXCEPT !.defines = @ \o t.pieces] /\ UNCHANGED notes
      \/ opt' = [opt EXCEPT !.incdirs = @ \o ResolveAll(Top.path, t.pieces)]
         /\ UNCHANGED notes
      \/ notes' = Append(notes, t) /\ UNCHANGED opt
  BY DEF TakeEntry
<1> HIDE DEF t
<1>7. opt' \in Options /\ notes' \in Seq(Token)
  BY <1>1, <1>5, <1>6 DEF TypeOK, Options
<1> QED
  BY <1>7 DEF TakeEntry

LEMMA ReadStep == ReadInv /\ [Next]_vars => ReadInv'
<1> SUFFICES ASSUME ReadInv, [Next]_vars PROVE ReadInv'
  OBVIOUS
<1> USE DEF ReadInv
\* A call made by an option, and every step that stays within one list.
<1>1. ASSUME ReadOn, UNCHANGED <<input, at>>, notes' \in Seq(Token) PROVE ReadInv'
  BY <1>1 DEF ReadOn, TypeOK, NestingBounded
<1>2. ASSUME stack' \in Seq(Open), Len(stack') <= Len(stack), status = "reading",
             UNCHANGED <<input, at, status>>,
             opt' \in Options, notes' \in Seq(Token)
      PROVE  ReadInv'
  <2>1. Len(stack') \in Nat /\ Len(stack) \in Nat
    BY <1>2 DEF TypeOK
  <2>2. Len(stack') <= MaxDepth + 1
    BY <1>2, <2>1, MaxDepthNat DEF NestingBounded
  <2> QED
    BY <1>2, <2>2 DEF TypeOK, NestingBounded
<1>3. CASE OpenList
  <2>1. at + 1 \in 1..Len(input.lists) /\ input.lists \in Seq(Path)
    BY <1>3, InputsTyped DEF OpenList, TypeOK
  <2>2. input.lists[at + 1] \in Path
    BY <2>1, ElementIn
  <2>3. <<>> \in Seq(Open)
    OBVIOUS
  <2>4. ReadOn
    BY <1>3, <2>2, <2>3, EnterType DEF OpenList
  <2>5. at' \in 0..Len(input.lists)
    BY <1>3, <2>1 DEF OpenList
  <2> QED
    BY <1>3, <2>4, <2>5 DEF OpenList, ReadOn, TypeOK, NestingBounded
<1>4. CASE SkipComment
  <2>1. InLine /\ stack # <<>> /\ Line \in Seq(Token) /\ status = "reading"
    BY <1>4, LinesAreTokens DEF SkipComment, InLine, Reading
  <2>2. Len(Line) \in Nat /\ Top.pending \in Option \cup {"none"}
    BY <2>1, LinesAreTokens
  <2>3. stack' \in Seq(Open) /\ Len(stack') = Len(stack)
    BY <1>4, <2>1, <2>2, PastType DEF SkipComment
  <2> QED
    BY <1>2, <1>4, <2>1, <2>3 DEF SkipComment, TypeOK
<1>5. CASE TakeArgument
  <2>1. InLine /\ stack # <<>> /\ Line \in Seq(Token) /\ Line # <<>>
    BY <1>5, LinesAreTokens DEF TakeArgument, InLine, Reading
  <2>2. Top.pending \in Option /\ 1 \in 1..Len(Line)
    BY <1>5, <2>1, LinesAreTokens, FirstOf DEF TakeArgument
  <2>3. ReadOn
    BY <1>5, <2>1, <2>2, GiveType DEF TakeArgument
  <2> QED
    BY <1>1, <1>5, <2>3 DEF TakeArgument, TypeOK
<1>6. CASE TakeOption
  <2>1. InLine /\ stack # <<>> /\ Line \in Seq(Token)
    BY <1>6, LinesAreTokens DEF TakeOption, InLine, Reading
  <2>2. 2 \in 1..Len(Line) /\ Line[1].kind \in Option
    BY <1>6, <2>1 DEF TakeOption
  <2>3. ReadOn
    BY <1>6, <2>1, <2>2, GiveType DEF TakeOption
  <2>4. notes' \in Seq(Token)
    BY <1>6, <2>1, DirectoryNoted DEF TakeOption
  <2> QED
    BY <1>1, <1>6, <2>3, <2>4 DEF TakeOption
<1>7. CASE Wait
  <2>1. InLine /\ status = "reading" /\ Line[1].kind \in Option
    BY <1>7 DEF Wait, InLine, Reading
  <2>2. stack' \in Seq(Open) /\ Len(stack') = Len(stack)
    BY <1>7, <2>1, PastType DEF Wait
  <2>3. notes' \in Seq(Token)
    BY <1>7, <2>1, DirectoryNoted DEF Wait
  <2> QED
    BY <1>2, <1>7, <2>1, <2>2, <2>3 DEF Wait, TypeOK
<1>8. CASE TakeEntry
  <2>1. /\ opt' \in Options /\ notes' \in Seq(Token)
        /\ stack' = Past(1, "none") /\ UNCHANGED <<input, at, status>>
    BY <1>8, EntryTaken
  <2>2. InLine /\ status = "reading"
    BY <1>8 DEF TakeEntry, InLine, Reading
  <2>3. stack' \in Seq(Open) /\ Len(stack') = Len(stack)
    BY <2>1, <2>2, PastType
  <2> QED
    BY <1>2, <2>1, <2>2, <2>3 DEF TypeOK
<1>9. CASE NextLine
  <2> DEFINE top == [Top EXCEPT !.lines = Tail(Top.lines)]
  <2>1. stack # <<>> /\ Top.lines # <<>> /\ status = "reading" /\ stack \in Seq(Open)
    BY <1>9 DEF NextLine, Reading, TypeOK
  <2>2. Top.lines \in Seq(Seq(Token)) /\ Top \in Open
    BY <2>1, LinesAreTokens
  <2>3. Tail(Top.lines) \in Seq(Seq(Token))
    BY <2>1, <2>2, HeadTailProperties
  <2>4. top \in Open
    BY <2>2, <2>3 DEF Open, Text
  <2>5. stack' = [stack EXCEPT ![Len(stack)] = top]
    BY <1>9 DEF NextLine
  <2> HIDE DEF top
  <2>6. stack' \in Seq(Open) /\ Len(stack') = Len(stack)
    BY <2>1, <2>4, <2>5, LinesAreTokens, Replaced
  <2> QED
    BY <1>2, <1>9, <2>1, <2>6 DEF NextLine, TypeOK
<1>10. CASE CloseList
  <2>1. stack # <<>> /\ status = "reading" /\ stack \in Seq(Open)
    BY <1>10 DEF CloseList, Reading, TypeOK
  <2>2. CASE Refuse("no argument")
    BY <1>1, <1>10, <2>2, RefuseType DEF CloseList, Refusals, TypeOK
  <2>3. CASE stack' = Front(stack) /\ UNCHANGED <<opt, status>>
    <3>1. stack' \in Seq(Open) /\ Len(stack') = Len(stack) - 1
      BY <2>1, <2>3, WithoutLast
    <3>2. Len(stack') <= Len(stack)
      BY <2>1, <3>1
    <3>3. opt' \in Options /\ notes' \in Seq(Token)
      BY <1>10, <2>3 DEF CloseList, TypeOK
    <3> QED
      BY <1>2, <1>10, <2>1, <2>3, <3>1, <3>2, <3>3 DEF CloseList
  <2> QED
    BY <1>10, <2>2, <2>3 DEF CloseList
<1>11. CASE HaveSources
  BY <1>11 DEF HaveSources, TypeOK, NestingBounded, Refusals
<1>12. CASE UNCHANGED vars
  BY <1>12 DEF vars, TypeOK, NestingBounded
<1> QED
  BY <1>3, <1>4, <1>5, <1>6, <1>7, <1>8, <1>9, <1>10, <1>11, <1>12 DEF Next

(***************************************************************************)
(* Whatever the texts say, a list being read has lines of tokens left and  *)
(* waits for an option's argument or for nothing, and a run that was       *)
(* refused is reading no list any more: false reached every caller.        *)
(***************************************************************************)
THEOREM TypeCorrect == Spec => []TypeOK
<1>1. ReadInv => TypeOK
  BY DEF ReadInv
<1> QED
  BY ReadInit, ReadStep, <1>1, PTL DEF Spec

(***************************************************************************)
(* However lists name each other, no more of them are ever open than the   *)
(* limit allows below the first: the C++ recursion is that deep.           *)
(***************************************************************************)
THEOREM OpenListsBounded == Spec => []NestingBounded
<1>1. ReadInv => NestingBounded
  BY DEF ReadInv
<1> QED
  BY ReadInit, ReadStep, <1>1, PTL DEF Spec
=============================================================================
