----------------------------- MODULE Hierarchy -----------------------------
(***************************************************************************)
(* What stamping promises about the tree, without ids, tables or a stack:  *)
(* the occurrences of a design are the unfolding of its template graph from *)
(* the tops, cut one level below the point where a template re-enters      *)
(* itself (src/src/extract/Stamper.cpp, the guard in stampBody and the     *)
(* comment over it), and they appear parents first, each one once.         *)
(*                                                                         *)
(* An occurrence is its path: the position of its top, then the position   *)
(* of a child at every level.                                              *)
(***************************************************************************)
EXTENDS Integers, Sequences

CONSTANT Designs

VARIABLES
    design,     \* as in Stamper: tops and the children of every template
    occ,        \* path -> the template there, {} for a black box
    complete    \* the tree is finished

hvars == <<design, occ, complete>>

Kids(t) == design.body[t].children

\* The children an occurrence of these templates offers.
Offers(ts) == UNION {{<<i, Kids(t)[i]>> : i \in 1..Len(Kids(t))} : t \in ts}

\* The templates of the proper ancestors of p.
Above(p) == UNION {occ[SubSeq(p, 1, i)] : i \in 1..(Len(p) - 1)}

Reenters(p) == occ[p] \cap Above(p) # {}

TplOf(c) == IF c.kind = "module" THEN {c.tpl} ELSE {}

\* Every occurrence that may still be added, with its template.
Missing ==
    {<<<<i>>, {design.tops[i].tpl}>> : i \in 1..Len(design.tops)}
      \cup UNION {{<<Append(p, o[1]), TplOf(o[2])>> : o \in Offers(occ[p])} :
                    p \in {q \in DOMAIN occ : ~Reenters(q)}}

HInit == design \in Designs /\ occ = <<>> /\ complete = FALSE

Unfold ==
    /\ ~complete
    /\ \E m \in Missing :
         /\ m[1] \notin DOMAIN occ
         /\ occ' = [p \in DOMAIN occ \cup {m[1]} |->
                      IF p = m[1] THEN m[2] ELSE occ[p]]
    /\ UNCHANGED <<design, complete>>

Complete ==
    /\ ~complete /\ \A m \in Missing : m[1] \in DOMAIN occ
    /\ complete' = TRUE
    /\ UNCHANGED <<design, occ>>

HNext == Unfold \/ Complete

HSpec == HInit /\ [][HNext]_hvars
=============================================================================
