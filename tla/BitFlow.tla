-------------------------------- MODULE BitFlow --------------------------------
(***************************************************************************)
(* What an expression means, bit by bit, as the language has it: which bits *)
(* of which objects reach each bit of it, which one bit it is a copy of,    *)
(* and which it is written to on the left of an assignment. No slots, no    *)
(* windows and no pairing: this is what the rows of Dataflow and of         *)
(* Connections are measured against.                                        *)
(***************************************************************************)
EXTENDS References, FiniteSets

Bits(sym, lo, hi) == {<<sym, i>> : i \in lo..hi}
AllBits(sym) == Bits(sym, 0, Width[sym] - 1)

(***************************************************************************)
(* Everything an expression reads, with what it selects by, and what the    *)
(* subroutines it calls sample beyond their arguments, through any number   *)
(* of further calls.                                                        *)
(***************************************************************************)
Calls[id \in Exprs] ==
    LET e == Expr[id] IN
    UNION {Calls[e.args[k]] : k \in DOMAIN e.args}
    \cup (IF e.kind = "path" THEN UNION {Calls[e.sels[k]] : k \in DOMAIN e.sels} ELSE {})
    \cup (IF e.kind = "call" THEN {e.sub} ELSE {})

\* An object a body spells and does not declare.
Samples(sub) ==
    LET refs == StatementRefs(sub) IN
    {refs[k].sym : k \in DOMAIN refs} \ Subs[sub].own

CalledFrom(sub) ==
    UNION {Calls[Subs[sub].body[k].right] : k \in DOMAIN Subs[sub].body}

\* With the routines it calls in turn, to the depth of the table.
Reached(sub) ==
    LET grow[n \in Nat] ==
            IF n = 0 THEN {sub}
            ELSE grow[n - 1] \cup UNION {CalledFrom(s) : s \in grow[n - 1]}
    IN  grow[Cardinality(DOMAIN Subs)]

Sampled(sub) == UNION {UNION {AllBits(x) : x \in Samples(s)} : s \in Reached(sub)}

\* A parameter is no signal, and a loop variable one value at a time.
Moves(sym) == sym \notin Fixed \cup LoopVars

\* The bits a path may stand for.
OwnBits(e) ==
    IF ~Moves(e.sym) THEN {}
    ELSE IF e.bounded /\ e.named = e.hi - e.lo + 1
    THEN Bits(e.sym, e.lo, e.hi) ELSE AllBits(e.sym)

Sources[id \in Exprs] ==
    LET e == Expr[id]
        Of(ids) == UNION {Sources[ids[k]] : k \in DOMAIN ids}
    IN  CASE e.kind = "path" -> OwnBits(e) \cup Of(e.sels)
          [] e.kind = "call" -> Of(e.args) \cup Sampled(e.sub)
          [] OTHER -> Of(e.args)

(***************************************************************************)
(* What reaches bit i of an expression, and the one bit it is a copy of.    *)
(***************************************************************************)
IsStatic(e) == e.bounded /\ e.static /\ e.named = e.hi - e.lo + 1

\* The operand of an aggregate that bit i lies in, and the bit of it.
WrittenFirst(e) == IF e.kind = "unpacked" THEN e.args ELSE Reverse(e.args)

Below(ops, k) == FoldLeft(LAMBDA n, id : n + Expr[id].width, 0, SubSeq(ops, 1, k - 1))

Holder(e, i) ==
    LET ops == WrittenFirst(e)
        k == CHOOSE j \in DOMAIN ops :
                 Below(ops, j) <= i /\ i < Below(ops, j) + Expr[ops[j]].width
    IN  [id |-> ops[k], bit |-> i - Below(ops, k)]

\* The operand and the bit of it that bit i is.
Under(e, i) ==
    CASE e.kind \in {"concat", "unpacked"} -> Holder(e, i)
      [] e.kind = "replicate" ->
             [id |-> e.args[1], bit |-> i % Expr[e.args[1]].width]
      [] e.kind = "convert" ->
             [id |-> e.args[1], bit |-> Smaller(i, Expr[e.args[1]].width - 1)]

Rearranges(e) ==
    \/ e.kind \in {"concat", "unpacked", "replicate"}
    \/ e.kind = "convert" /\ Expr[e.args[1]].width > 0

Feed[id \in Exprs, i \in Nat] ==
    LET e == Expr[id] IN
    IF e.kind = "path" /\ IsStatic(e) /\ Moves(e.sym) THEN {<<e.sym, e.lo + i>>}
    ELSE IF Rearranges(e) THEN Feed[Under(e, i).id, Under(e, i).bit]
    ELSE Sources[id]

(***************************************************************************)
(* The same without addresses: a path that is itself the value, or is only  *)
(* put in place by what stands around it, gives its own bits. What selects   *)
(* among them is an operand of its own (doc/designdb-schema.md:683-687).     *)
(***************************************************************************)
Values[id \in Exprs] ==
    LET e == Expr[id] IN
    CASE e.kind = "path" -> OwnBits(e)
      [] Rearranges(e) -> UNION {Values[e.args[k]] : k \in DOMAIN e.args}
      [] OTHER -> Sources[id]

ValueAt[id \in Exprs, i \in Nat] ==
    LET e == Expr[id] IN
    IF e.kind = "path" /\ IsStatic(e) /\ Moves(e.sym) THEN {<<e.sym, e.lo + i>>}
    ELSE IF Rearranges(e) THEN ValueAt[Under(e, i).id, Under(e, i).bit]
    ELSE Values[id]

NoBit == <<NoNet, 0>>

Copy[id \in Exprs, i \in Nat] ==
    LET e == Expr[id] IN
    CASE e.kind = "path" /\ IsStatic(e) -> <<e.sym, e.lo + i>>
      [] Rearranges(e) /\ (e.kind = "convert" => i < Expr[e.args[1]].width) ->
             Copy[Under(e, i).id, Under(e, i).bit]
      [] OTHER -> NoBit

(***************************************************************************)
(* A left side: the objects' bits that bit i may be written to, and what    *)
(* decides which. (A loop variable is no object of the body.)               *)
(***************************************************************************)
WrittenAt[id \in Exprs, i \in Nat] ==
    LET e == Expr[id] IN
    CASE e.kind = "path" ->
             IF e.sym \in LoopVars THEN {}
             ELSE IF IsStatic(e) THEN {<<e.sym, e.lo + i>>}
             ELSE Sources[id] \cap AllBits(e.sym)
      [] e.kind = "concat" -> WrittenAt[Holder(e, i).id, Holder(e, i).bit]
      [] e.kind = "stream" ->
             UNION {UNION {WrittenAt[e.args[k], j] : j \in 0..Expr[e.args[k]].width - 1} :
                        k \in DOMAIN e.args}

Selected[id \in Exprs, i \in Nat] ==
    LET e == Expr[id] IN
    CASE e.kind = "path" -> UNION {Sources[e.sels[k]] : k \in DOMAIN e.sels}
      [] e.kind = "concat" -> Selected[Holder(e, i).id, Holder(e, i).bit]
      [] OTHER -> {}
=============================================================================
