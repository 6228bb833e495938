------------------------------ MODULE Grouping ------------------------------
(***************************************************************************)
(* Pass 1 of the extraction, its first half: collect walks the elaborated   *)
(* instance tree and groups every instance by what module it is, and offer  *)
(* picks the body its group is extracted from.                              *)
(*                                                                          *)
(* slang shares the body of equal instances only sometimes, and analyses    *)
(* only some bodies. A design says which: canon is canonicalBodyOf, and     *)
(* analysed the bodies with an AnalyzedScope. A body is named by the        *)
(* instance it belongs to. A key stands for a group key, that is for a      *)
(* definition with its parameter values; def is the definition of a key,    *)
(* and order the order of the map of groups.                                *)
(***************************************************************************)
EXTENDS Integers, Sequences, FiniteSets

CONSTANTS
    Designs,    \* elaborated designs
    Insts,      \* their instances, as slang has them
    Keys,       \* group keys
    NoBody      \* of a group without one

ASSUME NoBodyAssumption == NoBody \notin Insts

ASSUME DesignsAssumption ==
    \A d \in Designs :
        /\ d.tops \in Seq(Insts) /\ d.kids \in [Insts -> Seq(Insts)]
        /\ d.key \in [Insts -> Keys] /\ d.canon \in [Insts -> Insts]
        /\ d.analysed \in SUBSET Insts

VARIABLES
    design,     \* the design, which nothing changes
    tops,       \* the tops not collected yet
    walk,       \* the calls of collect that are open: [inst, kids left]
    onPath,     \* the keys of those (TemplateBuilder::onPath)
    group,      \* the body of each group (Group::body)
    grouped     \* the instances with a group (instanceGroup)

groupingVars == <<design, tops, walk, onPath, group, grouped>>

Frame == [inst : Insts, kids : Seq(Insts)]
Key(i) == design.key[i]
Analysed(b) == b \in design.analysed

Init ==
    /\ design \in Designs
    /\ tops = design.tops
    /\ walk = <<>> /\ onPath = {} /\ grouped = {}
    /\ group = [k \in Keys |-> NoBody]

(***************************************************************************)
(* offer: a body that was analysed stays, and only such a one replaces the  *)
(* first seen.                                                              *)
(***************************************************************************)
\* A bug: the last one offered stays.
OfferedLast(k, b) == b

Offered(k, b) ==
    IF group[k] \in design.analysed THEN group[k]
    ELSE IF group[k] = NoBody \/ Analysed(b) THEN b
    ELSE group[k]

(***************************************************************************)
(* collect: the instance is grouped either way. Only the descent is cut,    *)
(* where its key is already on the branch above it. `calls` are the calls   *)
(* that stay open below it.                                                 *)
(***************************************************************************)
\* A bug: a module seen before is not looked into again.
CollectOncePerKey(i, calls) ==
    /\ grouped' = grouped \cup {i}
    /\ group' = [group EXCEPT ![Key(i)] = Offered(Key(i), design.canon[i])]
    /\ IF group[Key(i)] # NoBody
       THEN /\ walk' = calls
            /\ UNCHANGED onPath
       ELSE /\ walk' = Append(calls, [inst |-> i, kids |-> design.kids[i]])
            /\ onPath' = onPath \cup {Key(i)}

Collect(i, calls) ==
    /\ grouped' = grouped \cup {i}
    /\ group' = [group EXCEPT ![Key(i)] = Offered(Key(i), design.canon[i])]
    /\ IF Key(i) \in onPath
       THEN /\ walk' = calls
            /\ UNCHANGED onPath
       ELSE /\ walk' = Append(calls, [inst |-> i, kids |-> design.kids[i]])
            /\ onPath' = onPath \cup {Key(i)}

CollectTop ==
    /\ walk = <<>> /\ tops # <<>>
    /\ tops' = Tail(tops)
    /\ Collect(Head(tops), <<>>)
    /\ UNCHANGED design

Innermost == walk[Len(walk)]

CollectChild ==
    /\ walk # <<>> /\ Innermost.kids # <<>>
    /\ Collect(Head(Innermost.kids),
               [walk EXCEPT ![Len(walk)] = [Innermost EXCEPT !.kids = Tail(@)]])
    /\ UNCHANGED <<design, tops>>

\* The guard of the call goes out of scope (~OnPath).
LeaveInstance ==
    /\ walk # <<>> /\ Innermost.kids = <<>>
    /\ walk' = SubSeq(walk, 1, Len(walk) - 1)
    /\ onPath' = onPath \ {Key(Innermost.inst)}
    /\ UNCHANGED <<design, tops, group, grouped>>

Grouping == CollectTop \/ CollectChild \/ LeaveInstance

Collected == tops = <<>> /\ walk = <<>>

-----------------------------------------------------------------------------
(***************************************************************************)
(* What grouping promises.                                                  *)
(***************************************************************************)

\* The shape of the variables.
GroupingTypeOK ==
    /\ design \in Designs
    /\ tops \in Seq(Insts) /\ walk \in Seq(Frame)
    /\ onPath \in SUBSET Keys /\ grouped \in SUBSET Insts
    /\ group \in [Keys -> Insts \cup {NoBody}]

\* The bodies a group was offered.
Offers(k) == {design.canon[i] : i \in {j \in grouped : Key(j) = k}}

\* A group has a body exactly if an instance of it was met; it is one of
\* theirs, and one that was analysed if any of them was. A template made from
\* another has no dataflow at all, silently.
BodiesChosen ==
    \A k \in Keys :
        /\ group[k] = NoBody <=> Offers(k) = {}
        /\ group[k] # NoBody => group[k] \in Offers(k)
        /\ (\E b \in Offers(k) : Analysed(b)) => Analysed(group[k])

\* The guard is the keys of the open calls, each once: no more calls are open
\* than the design has keys.
PathIsOpenCalls ==
    /\ onPath = {Key(walk[n].inst) : n \in 1..Len(walk)}
    /\ \A m, n \in 1..Len(walk) :
          Key(walk[m].inst) = Key(walk[n].inst) => m = n

\* The occurrences of a tree: those below an instance, up to the ones whose key
\* is a repeat on the way down. A place is an instance and the keys above it.
Met[place \in Insts \X SUBSET Keys] ==
    LET i == place[1]
        above == place[2]
    IN  {i} \cup IF Key(i) \in above THEN {}
                 ELSE UNION {Met[<<design.kids[i][n], above \cup {Key(i)}>>] :
                                 n \in DOMAIN design.kids[i]}

\* Pass 2 stamps every occurrence from its group: each of them has one, and a
\* module that instantiates itself adds one occurrence and not its tree.
EveryInstanceGrouped ==
    Collected => grouped = UNION {Met[<<design.tops[n], {}>>] : n \in DOMAIN design.tops}

\* An analysed body is never given up for another.
AnalysedStays ==
    \A k \in Keys : Analysed(group[k]) => group'[k] = group[k]
=============================================================================
