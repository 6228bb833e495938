----------------------------- MODULE MCFilelist -----------------------------
(***************************************************************************)
(* Small lists: a list d/a of three tokens, wrapped in every way, and what *)
(* it may name: d/b with one of several texts, e/b in another directory,   *)
(* and d/c, which nobody can read.                                         *)
(***************************************************************************)
EXTENDS Filelist

MCDir == {"d", "e"}
MCLeaf == {"a", "b", "c", "x"}

At(d, l) == [dir |-> d, leaf |-> l]
Tok(kind, name) == [kind |-> kind, name |-> name, pieces |-> <<>>]
Plus(kind, pieces) == [Tok(kind, At(Here, "x")) EXCEPT !.pieces = pieces]

F == Tok("list", At(Here, "x"))
V == Tok("library", At(Here, "x"))
Y == Tok("directory", At(Here, "x"))
Hash == Tok("comment", At(Here, "x"))
Slashes == Tok("slashes", At(Here, "x"))
Unknown == Tok("unknown", At(Here, "x"))
Incdir == Plus("incdir", <<At(Here, "x"), At("e", "x")>>)
Define == Plus("define", <<At(Here, "x"), At(Here, "c")>>)
Source(d, l) == Tok("source", At(d, l))

Alphabet == {F, V, Y, Hash, Slashes, Unknown, Incdir,
             Source(Here, "b"), Source("e", "b")}

\* Three tokens on one line, on two or on three.
Wrapped(t) == {<<t>>, <<<<t[1]>>, <<t[2], t[3]>>>>, <<<<t[1], t[2]>>, <<t[3]>>>>,
               <<<<t[1]>>, <<t[2]>>, <<t[3]>>>>}
Texts == UNION {Wrapped(t) : t \in Alphabet \X Alphabet \X Alphabet}

\* d/b: empty, a source and a macro, an option too many, d/a again, itself
\* wrapped, a chain through e/b, an unreadable one.
TextsOfB ==
    {<<>>, <<<<Define>>, <<Source(Here, "x")>>>>, <<<<Source(Here, "x"), V>>>>,
     <<<<F, Source(Here, "a")>>>>, <<<<F>>, <<Hash, V>>, <<Source(Here, "b")>>>>,
     <<<<F>>, <<Source("e", "b"), V>>, <<Slashes>>, <<Source(Here, "x")>>>>,
     <<<<F>>, <<>>, <<Source(Here, "c")>>>>}
\* e/b ends where nesting may.
TextOfEB == <<<<Source(Here, "x")>>, <<F, Source("e", "x")>>>>
TextOfEX == <<<<Source(Here, "c")>>>>

Texted(a, b) ==
    LET files == {At("d", "a"), At("d", "b"), At("e", "b"), At("e", "x")}
    IN  [p \in files |-> CASE p = At("d", "a") -> a [] p = At("d", "b") -> b
                           [] p = At("e", "b") -> TextOfEB [] OTHER -> TextOfEX]

Command(a, b, sources) ==
    [text |-> Texted(a, b), lists |-> <<At("d", "a")>>, sources |-> sources]

WrappedInputs ==
    {Command(a, b, <<>>) : a \in Texts, b \in TextsOfB}
    \cup {[Command(<<<<F, Source(Here, "b")>>>>, b, <<At("d", "x")>>) EXCEPT
             !.lists = <<At("d", "a"), At("d", "b")>>] : b \in TextsOfB}
=============================================================================
