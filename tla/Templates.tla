------------------------------ MODULE Templates ------------------------------
(***************************************************************************)
(* Pass 1 of the extraction as TemplateBuilder::run orders it: group every  *)
(* instance, write a module row for each definition, make the terminals of  *)
(* every group, and then the template of each, whose connections name the   *)
(* terminals of its children. What a template holds of its procedures is    *)
(* Walker's and Dataflow's; here it is its boundary.                        *)
(*                                                                          *)
(* Of a design, `def` is the definition of each key, `order` the order of   *)
(* the map of groups, `exprs` the expressions of its text, and body[k] what *)
(* a body of group k contains: [ports, nets, children], a child being       *)
(* [kid, elem, inArray, from, conns], kid its place among the instances of  *)
(* the body, or 0 for a black box, and `from` the first bit that an element *)
(* of an instance array has of an actual.                                   *)
(***************************************************************************)
EXTENDS Grouping

CONSTANTS Subs, Width, Fixed, LoopVars, NoExpr, NoNet

\* The map has every group once it is entered.
ASSUME OrderAssumption ==
    \A d \in Designs : d.order \in Seq(Keys) /\ \A k \in Keys : \E n \in DOMAIN d.order : d.order[n] = k

VARIABLES
    phase,      \* which loop of run is at work
    done,       \* the groups it has done
    unanalysed, \* Stats::unanalysedBodies
    modules,    \* module rows, the definition of each
    terms,      \* the terminals of each group
    templates   \* the boundary of each group, when it is built

buildingVars == <<phase, done, unanalysed, modules, terms, templates>>
vars == <<groupingVars, buildingVars>>

C == INSTANCE Connections WITH body <- design

NoTemplate == [module |-> 0, children |-> <<>>, maps |-> <<>>]

TemplatesInit ==
    /\ Init
    /\ phase = "collect" /\ done = {} /\ unanalysed = 0 /\ modules = <<>>
    /\ terms = [k \in Keys |-> <<>>]
    /\ templates = [k \in Keys |-> NoTemplate]

\* The groups the loop has still to do, and the next of them in the order of
\* their map.
Left == {k \in Keys : group[k] # NoBody} \ done
Group ==
    LET order == design.order IN
    order[CHOOSE n \in DOMAIN order :
             order[n] \in Left /\ \A m \in 1..n - 1 : order[m] \notin Left]

Collecting == phase = "collect" /\ Grouping /\ UNCHANGED buildingVars

\* One loop of run ends, and the next begins.
Begins(from, to) ==
    /\ phase = from /\ phase' = to /\ done' = {}
    /\ UNCHANGED <<groupingVars, modules, terms, templates>>

CountUnanalysed ==
    /\ Collected
    /\ Begins("collect", "modules")
    /\ unanalysed' = Cardinality({k \in Keys : group[k] # NoBody /\ ~Analysed(group[k])})

BeginTerms ==
    Left = {} /\ Begins("modules", "terms") /\ UNCHANGED unanalysed

BeginTemplates ==
    Left = {} /\ Begins("terms", "templates") /\ UNCHANGED unanalysed

\* The body of one of these loops, for the next group.
Works(loop) ==
    /\ phase = loop /\ Left # {} /\ done' = done \cup {Group}
    /\ UNCHANGED <<groupingVars, phase, unanalysed>>

(***************************************************************************)
(* internModuleRow: one row for a definition, however many groups it has.   *)
(***************************************************************************)
ModuleOf(k) == CHOOSE n \in DOMAIN modules : modules[n] = design.def[k]

\* A bug: a row for each group.
InternModuleEachGroup ==
    /\ Works("modules")
    /\ modules' = Append(modules, design.def[Group])
    /\ UNCHANGED <<terms, templates>>

InternModule ==
    /\ Works("modules")
    /\ modules' = IF \E n \in DOMAIN modules : modules[n] = design.def[Group]
                  THEN modules ELSE Append(modules, design.def[Group])
    /\ UNCHANGED <<terms, templates>>

BuildTerms ==
    /\ Works("terms")
    /\ terms' = [terms EXCEPT ![Group] = design.body[Group].ports]
    /\ UNCHANGED <<modules, templates>>

(***************************************************************************)
(* buildTemplate, the boundary of it. A child is an instance of the body    *)
(* that was chosen, and its terminals are those of its own group.           *)
(***************************************************************************)
ChildKey(k, child) == Key(design.kids[group[k]][child.kid])

Child(k, child) ==
    IF child.kid = 0
    THEN [key |-> NoBody,
          rows |-> [n \in DOMAIN child.conns |->
                       C!BlackBoxRows(child.conns[n], design.body[k].nets)]]
    ELSE [key |-> ChildKey(k, child),
          rows |-> C!ConnRows(design.body[k], child, terms[ChildKey(k, child)])]

Template(k) ==
    LET children == design.body[k].children IN
    [module |-> ModuleOf(k),
     children |-> [n \in DOMAIN children |-> Child(k, children[n])],
     maps |-> [t \in DOMAIN terms[k] |-> C!TermMaps(t, terms[k][t], design.body[k].nets)]]

BuildTemplate ==
    /\ Works("templates")
    /\ templates' = [templates EXCEPT ![Group] = Template(Group)]
    /\ UNCHANGED <<modules, terms>>

(***************************************************************************)
(* run returns.                                                             *)
(***************************************************************************)
Built == phase = "templates" /\ Left = {}

Return == Built /\ UNCHANGED vars

Next ==
    \/ Collecting \/ CountUnanalysed \/ InternModule \/ BeginTerms \/ BuildTerms
    \/ BeginTemplates \/ BuildTemplate \/ Return

Spec == TemplatesInit /\ [][Next]_vars
=============================================================================
