-------------------------------- MODULE Bits --------------------------------
(***************************************************************************)
(* Which bits of one flattened object a reference touches, and where in an  *)
(* assignment it sits: the values of ir/Bits.h, the cursor of               *)
(* ir/PositionWalk.h, and the two functions of Ref.h that pair the sides    *)
(* of an assignment, slotsOverlap and narrowed.                             *)
(*                                                                          *)
(* Offsets count from the least significant bit. A run is never empty, and  *)
(* the widths are mathematical integers: the code's are uint64_t, and the   *)
(* guard of the cursor is what keeps its subtraction from wrapping.         *)
(***************************************************************************)
EXTENDS Integers

(***************************************************************************)
(* A cover: all of the object, a run of its bits, or an unknown part of it. *)
(***************************************************************************)
Whole == [case |-> "whole", lo |-> 0, hi |-> 0]
Unknown == [case |-> "unknown", lo |-> 0, hi |-> 0]
Run(lo, hi) == [case |-> "run", lo |-> lo, hi |-> hi]

ForBounds(lo, hi, total) ==
    IF total = 0 \/ (lo = 0 /\ hi + 1 >= total) THEN Whole ELSE Run(lo, hi)

\* The bits of an object of `total` bits a cover names.
CoverLo(cover) == IF cover.case = "run" THEN cover.lo ELSE 0
CoverHi(cover, total) == IF cover.case = "run" THEN cover.hi ELSE total - 1
CoverBits(cover, total) == CoverLo(cover) .. CoverHi(cover, total)

(***************************************************************************)
(* A window: the bits of the assignment a reference occupies, or Nowhere    *)
(* when the walk could not place it.                                        *)
(***************************************************************************)
Window(lo, hi) == [placed |-> TRUE, lo |-> lo, hi |-> hi]
Nowhere == [placed |-> FALSE, lo |-> 0, hi |-> 0]
At(base, width) == IF width = 0 THEN Nowhere ELSE Window(base, base + width - 1)

\* MsbCursor::advance hands out a window only while the element fits in what
\* remains below the cursor.
Fits(width, remaining) == width > 0 /\ width <= remaining

\* A bug: any reference with a width fills it.
AnyCoverFills(cover, exact, width, total) == width # 0

\* coverFillsWidth: an exact reference fills `width` bits edge to edge.
CoverFillsWidth(cover, exact, width, total) ==
    /\ width # 0
    /\ exact
    /\ IF cover.case = "run" THEN cover.hi - cover.lo + 1 = width
                             ELSE total = width

(***************************************************************************)
(* Two windows of one assignment: an end without a place overlaps           *)
(* everything, with no span to narrow by.                                   *)
(***************************************************************************)
Larger(a, b) == IF a > b THEN a ELSE b
Smaller(a, b) == IF a < b THEN a ELSE b

\* A bug: a cross product.
OverlapAnywhere(a, b) == TRUE

Overlap(a, b) ==
    (a.placed /\ b.placed) => Larger(a.lo, b.lo) <= Smaller(a.hi, b.hi)

Span(a, b) ==
    IF a.placed /\ b.placed
    THEN Window(Larger(a.lo, b.lo), Smaller(a.hi, b.hi))
    ELSE Nowhere

\* A bug: the end of a window taken for the bit behind it.
NarrowedPastEnd(cover, at, positional, span, total) ==
    IF ~positional \/ ~at.placed \/ ~span.placed
       \/ (span.lo <= at.lo /\ span.hi >= at.hi)
    THEN cover
    ELSE ForBounds(CoverLo(cover) + (span.lo - at.lo),
                   CoverLo(cover) + (span.hi + 1 - at.lo), total + 1)

(***************************************************************************)
(* narrowed: the cover of a slot cut down to the part that lands in `span`. *)
(* Only a positional slot is cut, and one the span covers entirely is left  *)
(* as it is.                                                                *)
(***************************************************************************)
NarrowedCover(cover, at, positional, span, total) ==
    IF ~positional \/ ~at.placed \/ ~span.placed
       \/ (span.lo <= at.lo /\ span.hi >= at.hi)
    THEN cover
    ELSE ForBounds(CoverLo(cover) + (span.lo - at.lo),
                   CoverLo(cover) + (span.hi - at.lo), total)
=============================================================================
