------------------------------ MODULE Filelist ------------------------------
(***************************************************************************)
(* The sources an export is given (readFilelist and main of                *)
(* src/src/main.cpp): the lists named on the command line are read in      *)
(* order, a list may name others, and the first that cannot be read ends   *)
(* the run.  The C++ recursion is the stack of the open lists.             *)
(*                                                                         *)
(* A text is a sequence of lines, a line a sequence of tokens.  A token is *)
(* what its first characters make of it, plus the file it would be the     *)
(* name of, and for +define+a+b and +incdir+a+b the pieces between the     *)
(* signs.  A name is relative, or absolute, an expanded $VAR included.     *)
(***************************************************************************)
EXTENDS Integers, Sequences, SequencesExt, FiniteSets

CONSTANTS
    Dir,        \* directories
    Leaf,       \* file names in a directory
    Inputs,     \* command lines, with the texts their lists may reach
    MaxDepth    \* how deep lists may nest

Path == [dir : Dir, leaf : Leaf]
Here == "here"
Name == [dir : Dir \cup {Here}, leaf : Leaf]

\* option: -f, -v, -y; comment: # and what follows; slashes: //
Option == {"list", "library", "directory"}
Kind == Option \cup {"source", "define", "incdir", "unknown", "comment", "slashes"}
Token == [kind : Kind, name : Name, pieces : Seq(Name)]
Text == Seq(Seq(Token))

ASSUME HereIsNoDir == Here \notin Dir
ASSUME MaxDepthNat == MaxDepth \in Nat
ASSUME InputsTyped ==
    \A i \in Inputs :
        /\ DOMAIN i.text \subseteq Path
        /\ \A p \in DOMAIN i.text : i.text[p] \in Text
        /\ i.lists \in Seq(Path) /\ i.sources \in Seq(Path)

VARIABLES
    input,      \* the command line and the readable lists
    at,         \* how many of its lists have been opened
    stack,      \* the lists being read, innermost last
    opt,        \* what the compiler will be given
    notes,      \* the tokens a finding says are not used
    status      \* reading, read, or why the run was refused

vars == <<input, at, stack, opt, notes, status>>

Open == [path : Path, lines : Text, pending : Option \cup {"none"}]
Options == [sources : Seq(Path), libraries : Seq(Path),
            incdirs : Seq(Path), defines : Seq(Name)]
Refusals == {"nested too deep", "unreadable", "no argument", "no sources"}

-----------------------------------------------------------------------------

\* Relative paths resolve against the list's own directory.
Resolve(list, name) ==
    IF name.dir = Here THEN [name EXCEPT !.dir = list.dir] ELSE name
ResolveAll(list, names) ==
    [i \in 1..Len(names) |-> Resolve(list, names[i])]

Before(line, kind) ==
    IF \E i \in 1..Len(line) : line[i].kind = kind
    THEN SubSeq(line, 1, SelectInSeq(line, LAMBDA t : t.kind = kind) - 1)
    ELSE line
Unslashed(text) == [i \in 1..Len(text) |-> Before(text[i], "slashes")]

Top == stack[Len(stack)]
Reading == status = "reading" /\ stack # <<>>
Line == Top.lines[1]
InLine == Reading /\ Top.lines # <<>> /\ Line # <<>>
\* The innermost list with its first n tokens read, waiting for pending.
Past(n, pending) ==
    [stack EXCEPT ![Len(stack)] =
        [Top EXCEPT !.lines = [Top.lines EXCEPT ![1] = SubSeq(Line, n + 1, Len(Line))],
                    !.pending = pending]]

\* A bug: the lists above are not told.
RefuseHere(why) ==
    /\ status' = why
    /\ UNCHANGED <<stack, opt>>

\* return false, and the callers with it.
Refuse(why) ==
    /\ status' = why
    /\ stack' = <<>>
    /\ UNCHANGED opt

-----------------------------------------------------------------------------

Init ==
    /\ input \in Inputs
    /\ at = 0
    /\ stack = <<>>
    /\ opt = [sources |-> input.sources, libraries |-> <<>>,
              incdirs |-> <<>>, defines |-> <<>>]
    /\ notes = <<>>
    /\ status = "reading"

Begun(path) == [path |-> path, pending |-> "none",
                lines |-> Unslashed(input.text[path])]

\* A bug: one level more.
EnterDeeper(path, below) ==
    \/ Len(below) > MaxDepth + 1 /\ Refuse("nested too deep")
    \/ /\ Len(below) <= MaxDepth + 1 /\ path \notin DOMAIN input.text
       /\ Refuse("unreadable")
    \/ /\ Len(below) <= MaxDepth + 1 /\ path \in DOMAIN input.text
       /\ stack' = Append(below, Begun(path))
       /\ UNCHANGED <<opt, status>>

\* readFilelist up to its loop, called from the innermost of the lists below.
Enter(path, below) ==
    \/ Len(below) > MaxDepth /\ Refuse("nested too deep")
    \/ /\ Len(below) <= MaxDepth /\ path \notin DOMAIN input.text
       /\ Refuse("unreadable")
    \/ /\ Len(below) <= MaxDepth /\ path \in DOMAIN input.text
       /\ stack' = Append(below, Begun(path))
       /\ UNCHANGED <<opt, status>>

\* The loop of main.
OpenList ==
    /\ status = "reading" /\ stack = <<>> /\ at < Len(input.lists)
    /\ at' = at + 1
    /\ Enter(input.lists[at + 1], <<>>)
    /\ UNCHANGED <<input, notes>>

\* The line's n-th token is the argument of an option.
Give(option, n) ==
    LET path == Resolve(Top.path, Line[n].name)
    IN  \/ option = "list" /\ Enter(path, Past(n, "none"))
        \/ /\ option = "library"
           /\ opt' = [opt EXCEPT !.libraries = Append(@, path)]
           /\ stack' = Past(n, "none") /\ UNCHANGED status
        \/ /\ option = "directory"
           /\ stack' = Past(n, "none") /\ UNCHANGED <<opt, status>>

NoteDirectory ==
    notes' = IF Line[1].kind = "directory" THEN Append(notes, Line[1]) ELSE notes

\* A bug: it is passed over without its line.
SkipCommentNot ==
    /\ InLine /\ Line[1].kind = "comment"
    /\ stack' = Past(0, Top.pending)
    /\ UNCHANGED <<input, at, opt, notes, status>>

SkipComment ==
    /\ InLine /\ Line[1].kind = "comment"
    /\ stack' = Past(Len(Line), Top.pending)
    /\ UNCHANGED <<input, at, opt, notes, status>>

\* The argument of an option on an earlier line.
TakeArgument ==
    /\ InLine /\ Line[1].kind # "comment" /\ Top.pending # "none"
    /\ Give(Top.pending, 1)
    /\ UNCHANGED <<input, at, notes>>

\* An option takes the next token of its line, whatever that is.
TakeOption ==
    /\ InLine /\ Top.pending = "none"
    /\ Line[1].kind \in Option /\ Len(Line) > 1
    /\ Give(Line[1].kind, 2)
    /\ NoteDirectory
    /\ UNCHANGED <<input, at>>

\* A bug: an option at the end of a line is taken for one without an argument.
WaitNot ==
    /\ InLine /\ Top.pending = "none"
    /\ Line[1].kind \in Option /\ Len(Line) = 1
    /\ stack' = Past(1, "none")
    /\ NoteDirectory
    /\ UNCHANGED <<input, at, opt, status>>

\* The last token of its line: its argument is on a later one.
Wait ==
    /\ InLine /\ Top.pending = "none"
    /\ Line[1].kind \in Option /\ Len(Line) = 1
    /\ stack' = Past(1, Line[1].kind)
    /\ NoteDirectory
    /\ UNCHANGED <<input, at, opt, status>>

TakeEntry ==
    /\ InLine /\ Top.pending = "none"
    /\ LET t == Line[1]
       IN  \/ /\ t.kind = "source"
              /\ opt' = [opt EXCEPT !.sources = Append(@, Resolve(Top.path, t.name))]
              /\ UNCHANGED notes
           \/ /\ t.kind = "define"
              /\ opt' = [opt EXCEPT !.defines = @ \o t.pieces]
              /\ UNCHANGED notes
           \/ /\ t.kind = "incdir"
              /\ opt' = [opt EXCEPT !.incdirs = @ \o ResolveAll(Top.path, t.pieces)]
              /\ UNCHANGED notes
           \/ /\ t.kind = "unknown"
              /\ notes' = Append(notes, t)
              /\ UNCHANGED opt
    /\ stack' = Past(1, "none")
    /\ UNCHANGED <<input, at, status>>

NextLine ==
    /\ Reading /\ Top.lines # <<>> /\ Line = <<>>
    /\ stack' = [stack EXCEPT ![Len(stack)] = [Top EXCEPT !.lines = Tail(Top.lines)]]
    /\ UNCHANGED <<input, at, opt, notes, status>>

\* A bug: what still waits at the end of a list is forgotten.
CloseListUnsettled ==
    /\ Reading /\ Top.lines = <<>>
    /\ stack' = Front(stack) /\ UNCHANGED <<opt, status>>
    /\ UNCHANGED <<input, at, notes>>

\* The end of a list settles what still waits.
CloseList ==
    /\ Reading /\ Top.lines = <<>>
    /\ \/ Top.pending # "none" /\ Refuse("no argument")
       \/ /\ Top.pending = "none"
          /\ stack' = Front(stack) /\ UNCHANGED <<opt, status>>
    /\ UNCHANGED <<input, at, notes>>

HaveSources ==
    /\ status = "reading" /\ stack = <<>> /\ at = Len(input.lists)
    /\ status' = IF opt.sources = <<>> THEN "no sources" ELSE "read"
    /\ UNCHANGED <<input, at, stack, opt, notes>>

Next ==
    \/ OpenList \/ SkipComment \/ TakeArgument \/ TakeOption \/ Wait
    \/ TakeEntry \/ NextLine \/ CloseList \/ HaveSources

Spec == Init /\ [][Next]_vars

\* One thread reads the lists, and nothing it does waits.
FairSpec == Spec /\ WF_vars(Next)

-----------------------------------------------------------------------------
(* What reading promises.                                                  *)

\* Every open list is being read, and its state is one the code can be in.
TypeOK ==
    /\ at \in 0..Len(input.lists)
    /\ stack \in Seq(Open) /\ opt \in Options /\ notes \in Seq(Token)
    /\ status \in {"reading", "read"} \cup Refusals
    /\ stack # <<>> => status = "reading"

\* Which tokens of a stream are the argument of the one before them.
Arguments(s) ==
    LET arg[i \in 0..Len(s)] ==
            i > 1 /\ s[i - 1].kind \in Option /\ ~arg[i - 1]
    IN  {i \in 1..Len(s) : arg[i]}

\* A line that follows the stream s, without its comment.  A # begins one
\* unless an option stands before it on the line: then it is the argument.
Uncommented(s, line) ==
    LET comments == {k \in 1..Len(line) :
                        /\ line[k].kind = "comment"
                        /\ k = 1 \/ Len(s) + k \notin Arguments(s \o line)}
    IN  IF comments = {} THEN line ELSE SubSeq(line, 1, Min(comments) - 1)

\* A list as one line, without its comments.
Stream(text) ==
    LET lines == Unslashed(text)
        read[i \in 0..Len(lines)] ==
            IF i = 0 THEN <<>>
            ELSE read[i - 1] \o Uncommented(read[i - 1], lines[i])
    IN  read[Len(lines)]

Nested(p, s) ==
    {Resolve(p, s[i].name) : i \in {k \in Arguments(s) : s[k - 1].kind = "list"}}

Nothing == [sources |-> <<>>, libraries |-> <<>>, incdirs |-> <<>>,
            defines |-> <<>>, notes |-> <<>>]
Joined(parts) ==
    [f \in DOMAIN Nothing |-> FlattenSeq([i \in 1..Len(parts) |-> parts[i][f]])]

\* What list p, d lists deep, says as a whole, below[q] being what its list q
\* says: each token once, an argument with its option.
Says(p, below) ==
    LET s == Stream(input.text[p])
        arguments == Arguments(s)
        part(i) ==
            IF i \in arguments
            THEN CASE s[i - 1].kind = "list" -> below[Resolve(p, s[i].name)]
                   [] s[i - 1].kind = "library" ->
                        [Nothing EXCEPT !.libraries = <<Resolve(p, s[i].name)>>]
                   [] OTHER -> Nothing
            ELSE CASE s[i].kind = "source" ->
                        [Nothing EXCEPT !.sources = <<Resolve(p, s[i].name)>>]
                   [] s[i].kind = "define" -> [Nothing EXCEPT !.defines = s[i].pieces]
                   [] s[i].kind = "incdir" ->
                        [Nothing EXCEPT !.incdirs = ResolveAll(p, s[i].pieces)]
                   [] s[i].kind \in {"unknown", "directory"} ->
                        [Nothing EXCEPT !.notes = <<s[i]>>]
                   [] OTHER -> Nothing
    IN  Joined([i \in 1..Len(s) |-> part(i)])

\* Every list it names is readable to the depth allowed, and no option of
\* any of them lacks its argument.
Lists == DOMAIN input.text
Sound ==
    LET sound[d \in 0..MaxDepth + 1] ==
            {p \in Lists :
                LET s == Stream(input.text[p])
                IN  /\ d <= MaxDepth
                    /\ s # <<>> /\ s[Len(s)].kind \in Option =>
                            Len(s) \in Arguments(s)
                    /\ \A q \in Nested(p, s) : q \in sound[d + 1]}
    IN  sound[0]

Meaning ==
    LET meaning[d \in 0..MaxDepth + 1] ==
            [p \in Lists |->
                IF d > MaxDepth THEN Nothing ELSE Says(p, [q \in Lists |->
                    meaning[d + 1][q]])]
    IN  meaning[0]

\* However its lists are wrapped, a run reads what they say as one line each,
\* in order, every argument with its option and nothing dropped without a
\* note; and it is refused exactly if one of them is unreadable, nested too
\* deep or short of an argument.  A comment may stand between an option and
\* its argument, except a # behind the option on its own line: the code takes
\* that for the argument, and what follows it on the line is read.
ReadAsUnwrapped ==
    LET lists == input.lists
        sound == \A i \in 1..Len(lists) : lists[i] \in Sound
        said == Joined(<<[Nothing EXCEPT !.sources = input.sources]>>
                       \o [i \in 1..Len(lists) |-> Meaning[lists[i]]])
    IN  /\ status = "read" => /\ sound
                              /\ \A f \in DOMAIN opt : opt[f] = said[f]
                              /\ notes = said.notes
        /\ status = "no sources" => sound /\ said.sources = <<>>
        /\ status \in Refusals \ {"no sources"} => ~sound

\* The nesting that is accepted is the one that is refused, less one.
NestingBounded == Len(stack) <= MaxDepth + 1

\* What a run accepts was not read inside itself, though nothing looks for
\* cycles; and until it is refused, no more lists are open than may nest.
NoListInItself ==
    LET names(p) == IF p \in Lists THEN Nested(p, Stream(input.text[p])) ELSE {}
        reach[n \in 0..Cardinality(Lists)] ==
            IF n = 0 THEN [p \in Lists |-> names(p)]
            ELSE [p \in Lists |-> reach[n - 1][p] \cup
                    UNION {names(q) : q \in reach[n - 1][p]}]
        below(p) == reach[Cardinality(Lists)][p]
    IN  /\ NestingBounded
        /\ status = "read" =>
                \A i \in 1..Len(input.lists) :
                    LET top == input.lists[i]
                    IN  \A p \in (below(top) \cap Lists) \cup {top} : p \notin below(p)

\* Reading ends, lists that name each other included.
ReadingEnds == <>(status # "reading")
=============================================================================
