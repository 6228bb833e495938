----------------------------- MODULE References -----------------------------
(***************************************************************************)
(* From an expression to the references in it: Ref.h, with the element walk *)
(* of ir/PositionWalk.h and the two collectors of StatementWalker.h that    *)
(* find the reads which occupy no bits of an assignment.                    *)
(*                                                                          *)
(* The expressions of the body being built are a table from identifiers to  *)
(* nodes, an operand being named by its identifier. What slang decides of   *)
(* an expression is a field of its node:                                    *)
(*                                                                          *)
(*   kind    path       a value, selected from or not, down to one object   *)
(*           literal    no reference at all                                 *)
(*           concat     a concatenation, or a packed assignment pattern:    *)
(*                      operands in written order, most significant first   *)
(*           unpacked   a pattern whose element zero has the low offsets    *)
(*           convert    a conversion of its one operand to `width`          *)
(*           replicate, stream, operation, call                             *)
(*   width   of its type, flattened; 0 when the type has no bits            *)
(*   args    the operands                                                   *)
(*   sub     of a call: the subroutine                                      *)
(*   sym, lo, hi, named, bounded, static, sels, hier                        *)
(*           of a path: its object; the bounds of its longest static prefix *)
(*           if slang found any, and the width of that prefix's type;       *)
(*           whether nothing is selected at run time; the expressions it    *)
(*           selects with; whether it is spelled through the hierarchy      *)
(*                                                                          *)
(* ValuePath::visitPaths is slang's: it visits the paths of an expression   *)
(* from the left, and the selectors of a path after it.                     *)
(***************************************************************************)
EXTENDS Bits, Sequences, SequencesExt

CONSTANTS
    Subs,       \* subroutines: the assignments of the body, and its own names
    Width,      \* of every object, flattened; 0 when unknown until run time
    Fixed,      \* objects that are compile-time constants (isConstantSymbol)
    LoopVars,   \* loop variables, which stand for one value at a time
    NoNet,      \* the object of what has none
    NoExpr      \* the origin of a reference nobody wrote

ASSUME WidthAssumption == Width \in [DOMAIN Width -> Nat]

VARIABLE body   \* the body being built: [exprs, items, levels]

Expr == body.exprs
Exprs == DOMAIN Expr

(***************************************************************************)
(* struct Ref, and what makes one of a value path. Bounds that do not span  *)
(* what the path names are not recorded.                                    *)
(***************************************************************************)
Ref(sym, cover, exact, origin) ==
    [sym |-> sym, cover |-> cover, exact |-> exact, origin |-> origin]

RefOf(id) ==
    LET e == Expr[id] IN
    IF ~e.bounded \/ (e.named # 0 /\ e.named # e.hi - e.lo + 1)
    THEN Ref(e.sym, Unknown, FALSE, id)
    ELSE Ref(e.sym, ForBounds(e.lo, e.hi, Width[e.sym]), e.static, id)

\* Whether a reference's own spelling goes through the hierarchy.
HierarchicalRoot(r) == r.origin # NoExpr /\ Expr[r.origin].hier

\* The references of an expression; skip leaves out what it selects with.
CollectRefs[id \in Exprs, skip \in BOOLEAN] ==
    LET e == Expr[id]
        Under(ids) == FlattenSeq([k \in DOMAIN ids |-> CollectRefs[ids[k], skip]])
    IN  IF e.kind # "path" THEN Under(e.args)
        ELSE (IF e.sym \in Fixed THEN <<>> ELSE <<RefOf(id)>>)
             \o (IF skip THEN <<>> ELSE Under(e.sels))

IsPlainReference[id \in Exprs] ==
    LET e == Expr[id] IN
    \/ e.kind = "path"
    \/ /\ e.kind = "convert"
       /\ Expr[e.args[1]].width = e.width
       /\ IsPlainReference[e.args[1]]

(***************************************************************************)
(* A slot is a reference with the window it occupies; positional says that  *)
(* its bits are those of the window, one for one.                           *)
(***************************************************************************)
Slot(r, at, positional) == [ref |-> r, at |-> at, positional |-> positional]
Unpositioned(refs) == [k \in DOMAIN refs |-> Slot(refs[k], Nowhere, FALSE)]

Shift(slots, base) ==
    [k \in DOMAIN slots |->
        IF slots[k].at.placed
        THEN [slots[k] EXCEPT !.at = Window(@.lo + base, @.hi + base)]
        ELSE slots[k]]

(***************************************************************************)
(* walkElements. Left is how many bits remain below operand k, which is the *)
(* low end of its window; Lost, that an operand up to k was wider than what *)
(* remained for it. An operand without bits has no window and loses nothing.*)
(***************************************************************************)
IsElementwise(id) == Expr[id].kind = "concat" /\ Expr[id].width > 0

WidthAt(id, k) == Expr[Expr[id].args[k]].width

Left(id, k) == FoldLeft(LAMBDA n, j : n - WidthAt(id, j),
                        Expr[id].width, [j \in 1..k |-> j])

Lost(id, k) ==
    \E j \in 1..k : WidthAt(id, j) > 0 /\ ~Fits(WidthAt(id, j), Left(id, j - 1))

\* A conversion that keeps or drops bits is looked through.
IsTransparent(id) ==
    LET e == Expr[id] IN
    e.kind = "convert" /\ e.width > 0 /\ Expr[e.args[1]].width >= e.width

(***************************************************************************)
(* collectSlots, with the windows of the whole expression starting at 0.    *)
(***************************************************************************)
CollectSlots[id \in Exprs, skip \in BOOLEAN] ==
    LET e == Expr[id]
        refs == CollectRefs[id, skip]
        Element(k) == IF WidthAt(id, k) = 0 THEN <<>>
                      ELSE Shift(CollectSlots[e.args[k], skip], Left(id, k))
        fills == /\ IsPlainReference[id]
                 /\ Len(refs) = 1
                 /\ CoverFillsWidth(refs[1].cover, refs[1].exact, e.width,
                                    Width[refs[1].sym])
    IN  IF IsElementwise(id)
        THEN IF Lost(id, Len(e.args)) THEN Unpositioned(refs)
             ELSE FlattenSeq([k \in DOMAIN e.args |-> Element(k)])
        ELSE IF e.kind = "stream"
        THEN Unpositioned([k \in DOMAIN refs |-> [refs[k] EXCEPT !.exact = FALSE]])
        ELSE IF IsTransparent(id)
                \/ (e.kind = "convert" /\ Expr[e.args[1]].kind = "stream")
        THEN CollectSlots[e.args[1], skip]
        ELSE [k \in DOMAIN refs |-> Slot(refs[k], At(0, e.width), fills)]

(***************************************************************************)
(* What the statements of a subroutine's body read, by name and with no     *)
(* bounds: what stands on the right, and what a left side selects with.     *)
(***************************************************************************)
Named(id) == IF Expr[id].sym \in Fixed THEN <<>>
             ELSE <<Ref(Expr[id].sym, Unknown, FALSE, id)>>

Names[id \in Exprs] ==
    LET e == Expr[id]
        Under(ids) == FlattenSeq([k \in DOMAIN ids |-> Names[ids[k]]])
    IN  IF e.kind = "path" THEN Named(id) \o Under(e.sels) ELSE Under(e.args)

LeftNames[id \in Exprs] ==
    LET e == Expr[id] IN
    CASE e.kind = "path"   -> FlattenSeq([k \in DOMAIN e.sels |-> Names[e.sels[k]]])
      [] e.kind = "concat" -> FlattenSeq([k \in DOMAIN e.args |-> LeftNames[e.args[k]]])
      [] OTHER             -> <<>>

StatementRefs(sub) ==
    LET assigned == Subs[sub].body IN
    FlattenSeq([k \in DOMAIN assigned |->
        LeftNames[assigned[k].left] \o Names[assigned[k].right]])

\* declaredInside: an argument or a local of the subroutine.
DeclaredInside(r, sub) == r.sym \in Subs[sub].own

\* collectCallReadsInto: what the calls of an expression sample beyond their
\* arguments; a subroutine already being walked adds nothing.
CallReads[id \in Exprs, active \in SUBSET DOMAIN Subs] ==
    LET e == Expr[id]
        Under(ids) == FlattenSeq([k \in DOMAIN ids |-> CallReads[ids[k], active]])
        Outside(r) == ~DeclaredInside(r, e.sub)
    IN  CASE e.kind = "path" -> Under(e.sels)
          [] e.kind = "call" /\ e.sub \notin active ->
                 Under(e.args) \o SelectSeq(StatementRefs(e.sub), Outside)
          [] OTHER -> Under(e.args)

\* collectLeftSelectorRefs: what a left side selects with.
LeftSelectors[id \in Exprs] ==
    LET e == Expr[id] IN
    CASE e.kind = "path" ->
             FlattenSeq([k \in DOMAIN e.sels |-> CollectRefs[e.sels[k], FALSE]])
      [] e.kind = "concat" ->
             FlattenSeq([k \in DOMAIN e.args |-> LeftSelectors[e.args[k]]])
      [] OTHER -> <<>>

(***************************************************************************)
(* collectAuxSlots: these reads, each on the window of the element it rides.*)
(***************************************************************************)
AuxReads(id, selectors, active) ==
    IF selectors THEN LeftSelectors[id] ELSE CallReads[id, active]

CollectAuxSlots[id \in Exprs, sels \in BOOLEAN, active \in SUBSET DOMAIN Subs] ==
    LET e == Expr[id]
        reads == AuxReads(id, sels, active)
        Element(k) ==
            IF Lost(id, k) THEN Unpositioned(AuxReads(e.args[k], sels, active))
            ELSE IF WidthAt(id, k) = 0 THEN <<>>
            ELSE Shift(CollectAuxSlots[e.args[k], sels, active], Left(id, k))
    IN  IF IsElementwise(id)
        THEN FlattenSeq([k \in DOMAIN e.args |-> Element(k)])
        ELSE IF IsTransparent(id)
        THEN CollectAuxSlots[e.args[1], sels, active]
        ELSE [k \in DOMAIN reads |-> Slot(reads[k], At(0, e.width), FALSE)]

(***************************************************************************)
(* The pairs of one target slot: every source slot that overlaps it, both   *)
(* ends narrowed to the overlap, and the source as written beside them.     *)
(***************************************************************************)
Narrowed(s, span) ==
    [s.ref EXCEPT !.cover =
        NarrowedCover(@, s.at, s.positional, span, Width[s.ref.sym])]

PairedSrc(dst, src) ==
    LET span == Span(dst.at, src.at) IN
    [src |-> Narrowed(src, span), tgt |-> Narrowed(dst, span),
     mapExact |-> dst.positional /\ src.positional, srcAsWritten |-> src.ref]

Pairs(dst, sources) ==
    LET meets == SelectSeq(sources, LAMBDA src : Overlap(dst.at, src.at))
    IN  [k \in DOMAIN meets |-> PairedSrc(dst, meets[k])]
=============================================================================
