# A formal model of RTLDebugDBKit

RTLDebugDBKit elaborates SystemVerilog with slang and writes what it learns of
the design -- hierarchy, nets, terminals, connections, statements and bit-level
dependencies -- to a SQLite database. These modules model the exporter's own
logic in TLA+; TLC checks them on small instances and TLAPS proves their most
important invariants for every value of the constants. Paths below are relative
to the repository (`src/src/...` in the module comments).

## The system

```
 arguments, filelists --> main.cpp --> slang: parse, elaborate, analyse
                             |                     |
                             |      pass 1: TemplateBuilder: one template per
                             |      (definition, parameters), from an analysed body
                             |                     |   templates, group of each instance
                             |      pass 2: Stamper: every occurrence stamped from
                             |      its template, then packages, references, late deps
                             |                     |   rows
                             +--> Writer: batches of rows, then views, derived
                                  arcs, indexes, then the seal; rename over -o
```

| component | state it keeps | operations | what is hard in it | what makes it right |
|---|---|---|---|---|
| main: command line and filelists (`main.cpp`) | `Options`, the pending option and depth of `readFilelist` | parse arguments, read a list and the lists it names | an option waits for its argument across lines, comments and the end of the file; lists that include each other | how a list is wrapped does not matter, nothing named is dropped, reading ends |
| main: one run (`main.cpp`) | log, temp name, guard, exit code, counts taken at three times | open log, refuse or elaborate, write, seal, publish, report | a kill or a failure between any two steps, what an earlier run left behind, two runs with one `-o` | the real name shows nothing or one whole export; exit code, seal and log tell one story |
| Writer (`DesignDb.cpp`) | the temp file, the open transaction, the pending count, interned values | one insert per table, commit per batch, finish, seal | a step that fails in mid-batch, the last partial batch, the order views / arcs / indexes / seal | a sealed file has every row |
| TemplateBuilder: grouping (`TemplateBuilder.cpp`) | groups by key, the path of open keys, chosen bodies | collect, offer, run | self-instantiation elaborated 130 deep, groups of which only some bodies were analysed | every instance has a group, the chosen body is an analysed one if there is any, the walk ends |
| TemplateBuilder: bodies, StatementWalker, `Ref.h`, `ir/` | the current statement, branch level and call site, the slots of a reference | one visit per construct | nested branches, calls expanded in line under a budget, pairing slots of unequal widths | every bit that flows is covered; an edge that claims to be exact is exact; branch and call context is restored |
| TemplateBuilder: connections (`TemplateBuilder_Conn.cpp`) | terminal windows, implicit nets | one visit per port connection | slices of arrays, multi-ports, interface forwarding | a window maps a port's bits onto the net's bits it is tied to |
| Stamper (`Stamper.cpp`) | 18 counters, the path set, by-name maps, two job queues | stamp a body, a child, connections, packages; resolve references; write late dependencies | one template in many places; ids promised before rows exist; bases taken before a recursion and used after it; cycles | see below |
| SQL (`sql/*.inc`) | tables, views, the materialised `conn_arc` | run once in `finish()` | an arc composed of the windows of a connection and a port map | an arc couples exactly the overlapping bits |

Components call each other; there are no messages and no threads of the
exporter's own (slang's parser and analyser use a pool, and have finished when
extraction begins). What can go wrong *between* actors is between one process
and the next, or a process and its killer, through three files: the temp, the
database and the log.

## Modules

| module | models |
|---|---|
| `Stamper` | `Stamper.cpp`, pass 2, complete: one action per piece of work the code does without going through another occurrence |
| `StamperProperties` | what must hold of the rows it writes |
| `Hierarchy` | the abstract tree: the unfolding of a template graph, cut below a re-entry; `Stamper` refines it |
| `Grouping` | `collect` and `offer`, pass 1's walk of the elaborated tree; and what it promises |
| `Templates` | `run` of `TemplateBuilder.cpp`: `Grouping`, then the loops that make a template of each group |
| `Connections` | `TemplateBuilder_Conn.cpp` and `buildTermMaps`: a terminal's inside, a connection's outside, and the crossing a view composes of the two |
| `TemplatesProperties` | what the templates and the crossings must say of the design |
| `Walker` | `StatementWalker.h` and `buildProcedure`: the walk of one template's procedures, a step per construct |
| `WalkerProperties` | what the rows of the walk promise, read off the syntax |
| `Bits` | `ir/Bits.h`, the cursor of `ir/PositionWalk.h`, `slotsOverlap` and `narrowed`: covers, windows and how two of them meet |
| `References` | `Ref.h`: the references in an expression, the slots of an assignment's sides, the reads of the functions it calls |
| `Dataflow` | what `TemplateBuilder.cpp` files for each node of the walk and each initialiser, alias and primitive |
| `BitFlow` | what an expression means bit by bit, with no slot or window in it |
| `DataflowProperties` | the rows of a body against `BitFlow` |
| `Filelist` | `readFilelist` and the loop of `main` over the lists; and what it promises |
| `Export` | `main()` and the `Writer` as it drives it, several runs, kills and failures; and its properties |
| `Publication` | what an export promises a reader; `Export` refines it |
| `MCStamper`, `MCTemplates`, `MCWalker`, `MCDataflow`, `MCFilelist`, `MCExport` | the families of small designs, bodies, lists and runs that TLC is given |
| `Stamper_proofs`, `StamperRows_proofs`, `Templates_proofs`, `Walker_proofs`, `WalkerRows_proofs`, `Dataflow_proofs`, `Export_proofs`, `Filelist_proofs` | theorems |

`Templates` extends `Grouping` and instantiates `Connections`; `Connections` and
`Dataflow` rest on `References` and `Bits`. `Stamper` starts from what
`Templates` ends with, as a `Design` of its own: template graphs are small there
and the rows of a body many, the other way round here.

### Stamper

The C++ recursion `stampBody -> stampChildModule -> stampBody` is the variable
`stack`: a frame has a template, the instance it is stamped for, its interface
bindings (`bind`, the `ifaceBind` vectors), the bases of its id blocks and how
far its loop over children has come (`next`, `termBase`). Actions:

| action | code |
|---|---|
| `StampTop` | one turn of the loop in `run()` with `stampOccurrence` |
| `StampRows` | `stampBody` up to the guard: levels, id blocks, primitives, every table's rows, queued jobs |
| `CutRecursion`, `EnterChildren`, `Return` | `detail::OnPath` and the ids and bindings of the children |
| `StampChildModule`, `StampConns`, `StampUnresolved` | the loop over children, before and after the recursive call |
| `StampPackage` | `stampPackages` |
| `ResolveRef`, `CrossDep` | the two loops of `resolveHierRefs` |
| `Advance` | the order of `run()` |

`last` holds the counters; `Plain` is the set of tables whose rows name only
rows of their own occurrence, all stamped alike. A row of a `Plain` table is
the set of `<<table, index>>` pairs it names. Texts, locations, parameter values
and bit windows are copied by the code and left out. A row of a dependency has,
besides its ends, the rows that evidence it (`links`: statement, operand, target,
expression reference, branch, call site), and, as `inst` and `idx`, whose
dependency it is and which; these two are no columns, they stand for everything
copied from the template, so that a property can tell one dependency from
another. Its `primitiveId`, the one link that is not an id of a block
(`primNode`), is left out.

### Export

A run goes through the stages of `main()`: `OpenLog`, `RefuseInput` or
`Elaborate`, `CreateTemp` (the `Writer` constructor), `WriteBatch` (a commit by
`bumped()`), `Extracted`, `Build` (`finish()`), `Seal` (`setDbInfo`), `Publish`
or `PublishFails`, `Unwind` (the guard), `ReportDone`; `Throw` and `Caught` are
an exception out of any of them, `Crash` a kill between any two. A file is
identified by the run that created it, so that a run whose temp was removed by
another goes on writing its unlinked file, as POSIX has it. The guard's removal
of the temp may fail, with an error it ignores (`Release`): the temp stays, and
the history variable `kept`, which no action reads, tells whose it is.
`--help` and `--version` end before there is a run.

### Walker

The C++ walk is a recursion over slang's syntax, in which destructors and saved
locals put back what a construct changed. Here its stack is `agenda`, the items
still to be done: visiting a node replaces it by the parts the handler visits
and by the items that undo what the handler set. `ctx` holds what is put back,
under the code's names: `bindable`, `callSiteSlot` (`site`), `curSub`,
`subDepth`, `activeSubs`, `loopVars` (`indices`), `pendingDelay`,
`constructOverride` (`word`). `levels` are the branch levels around the next
item, of which only the outer ones need have a row yet; `frames` is the walk's
`BranchTable`. A subroutine is the node of its body.

| action | code |
|---|---|
| `HandlePlain`, `HandleAssignment`, `HandleStep`, `HandleReturn`, `HandleRow` | the handlers that file at most one row and visit their parts |
| `HandleTimed`, `Undelay`; `HandleForce`, `Unforce` | the delay in force, the word a force stamps, and their restoration |
| `HandleConditional`, `HandleCase`, `HandleLoop`, `HandleFor`, `HandleForeach` | control expressions first, under the enclosing levels with nothing to bind to; then the arms |
| `EnterArm`, `PushPoint`, `PopLevel`; `Unguard`, `Unindex` | `Level` and its destructor, `visitGuarded`, `registerLoopIndices` |
| `HandleCall`, `Recursive`, `OverBudget`, `Expand`, `LeaveCall` | arguments, then the call site; the body in line unless it is being walked or the budget is spent |
| `StartWalk`, `EndWalk` | `buildProcedure` around the walk, its receiver being `File` and `Write` |

`HandleStep` writes one row where the code files a statement for each target
(`StatementWalker.h:1029-1039`): an operand of `x++` has several only if it is a
concatenation. Operands, their positions, labels, iteration spaces and
statistics are left out; a row says which node made it, where it stands, what it writes and which
levels gate it.

### Grouping and Templates

A design is slang's elaborated tree: for each instance its children (`kids`),
the text of its group key (`key`), the body slang made it share (`canon`), and
which bodies were analysed. The C++ recursion of `collect` is the stack `walk`,
its guard `onPath`; `group` is the body of each group, `grouped` the instances
with an entry in `instanceGroup`.

| action | code |
|---|---|
| `CollectTop` | one turn of `run()`'s loop over the top instances |
| `CollectChild` | the recursive call for the next child: `offer`, the entry, then the descent unless `OnPath` finds the key |
| `LeaveInstance` | the return, and `~OnPath` |
| `CountUnanalysed` | the loop that tells groups without an analysed body |
| `BeginTerms`, `InternModule`, `BuildTerms` | the loop that interns a module and makes the terminals of every group |
| `BeginTemplates`, `BuildTemplate` | the loop that makes the templates, children named by the group of their instance in the chosen body |

What makes two keys equal is an input: an instance is given a key, and the code's
text of definition and parameter values is not modelled character by character.
That a key of equal text may stand for instances whose children differ is
`TemplatesFolded`.

### Connections

A template's `maps` are `buildTermMaps`: what each terminal is inside, by an
internal expression, a symbol, or the members of a multi-port. A child's rows are
`buildInstanceConns`: a signal row per reference of an actual, with its window in
the formal (`SignalRows`), the tie of a constant, an open or an unspellable
actual (`TieKind`), the segments of an interface array (`IfaceRows`), and the
rows of a black box (`BlackBoxRows`). `WidthMismatch` is the code's loss of
exactness where formal and actual differ. `Arcs` composes both sides the way
`v_conn_arc` and the materialised `conn_arc` do, by where two windows meet.

### References and Dataflow

An expression is an identifier of a table; what slang decides of it (width, the
bounds of a path, whether they are static) is a field. `References` has the
collectors of `Ref.h` as recursive functions over that table; `Bits` has the
arithmetic: a cover is the bits of an object a reference names, a window the bits
of the assignment it occupies.

A body is a sequence of items, what the walk hands the receiver and what stands
outside procedures. An item is begun by one action that queues what is to be
filed in `todo`; every further turn of the code's loops is an action.

| action | code |
|---|---|
| `BeginAssignment`, `FileControl`, `FileTarget`, `FilePair`, `CloseTarget` | `fileAssignment`: the conditions over it, then for each target its row, a row and a dependency for each source that overlaps it, and the driver without a source if none did |
| `BeginBinding`, `TieOff`, `BindNeither`, `BindForeign`, `BindOutward`, `BindLocal` | `fileBinding`: one pair of a formal and a reference of its actual, by which of the two are nets of this body |
| `BeginTask`, `FileRead`, `FileWrite`, `FileRelease`, `LeaveStatement` | system tasks, `force` released |
| `BeginLevels`, `OpenLevel`, `FileLevelRead` | the branch levels at the end of a procedure |
| `BeginAlias`, `FileSide`, `CoupleSides` | `buildNetAliases` |
| `BeginGate`, `FilePrimTarget`, `FilePrimPair`, `ClosePrimTarget` | `buildPrimitives` |

`HierRow` and `AddHierRef` are `addHierRef`: one row per reference out of the
instance, whoever asks for it. `NewStmt` and `AddRow` keep the current statement
and the ordinals of its lists.

### Filelist

`stack` is the recursion of `readFilelist`: for each open list its path, the
lines not read yet, and the option whose argument is still to come (`pending`,
a local of the code). A token is what its first characters make of it and the
file it would name: an option takes the next token as a name whatever it is.
`Enter` is a call up to the loop, `Give` an argument arriving, `Refuse` a
`return false` that every caller passes on.

## What is checked

| run | instance | shows |
|---|---|---|
| `StamperTree` | one or two tops, every graph over three templates in which A has up to two children (itself, B, a black box, of equal or different names) and B up to two in a generate level; and an interface port bound to later siblings, forwarded straight or twisted through two levels or a cycle, with one template in two or three places, every route of a reference, levels with and without the net; 19,315 states | ids are `1..n`, each issued once; rows stay with their occurrence and connections tie the child's terminals to the parent's nets (`LinksStayHome`); the guard is a path; ordinals are dense and the sealed counts equal the rows (`TreeCounted`); every interface binding and every reference names, per occurrence, what the finished tree holds there; a dependency's row says of its ends and of its evidence what the rows of its own occurrence say, and every dependency owed is there exactly once, so also the second on one target and one whose source did not resolve (`DepEndsEvidenced`); refinement of `Hierarchy`; termination |
| `StamperPackages` | a package named like the top | **violated**: see Findings |
| `Templates` | 511 designs: every graph over three keys, cyclic and shared ones included, over every choice of analysed and shared bodies; and one parent with one child and every tie between them: widths, directions, internal expressions, multi-ports, instance arrays, black boxes, interface arrays; 10,278 states | every occurrence pass 2 will stamp has a group, every group one module row, one template and children of groups that exist (`GroupsReady`); the body is an analysed one if any is (`BodiesChosen`); what crosses a boundary is what the language says, bit by bit where the crossing says so (`ArcsAreTrue`), and every bit of a value that is connected is in an arc, whatever addresses it (`TiesAreTold`) |
| `TemplatesFolded` | two instances of one key whose children differ | **violated**: see Findings |
| `WalkerTree` | 540 templates (nine outer constructs, five inner ones, four functions, three tasks, calls in conditions, arguments, headers, delays and forces), each walked in three procedures with a budget of 5 | rows and branch levels nest as the syntax does, through calls; a call is expanded unless it recurses or the budget is spent, which the counters tell; delays and words in force are those of the source (`ContextInForce`), and callers those who call, but for what Findings say; call sites are a forest no deeper than the budget and one (`SitesNested`, a part of `BudgetAccounts`) |
| `WalkerCaller` | two calls in one expression | **violated**: see Findings |
| `Dataflow` | bodies over one concatenation and its neighbours: selects, static and not, conversions that widen and cut, calls with arguments of every direction, tasks, conditions over conditions, aliases of two and three sides, gates, ends outside the body | every bit that flows is in a dependency (`EveryFlowFiled`); an exact dependency is a copy, bit by bit (`ExactDepsAreTrue`); no dependency joins what does not meet (`NothingCrossed`); every written object has a driver, and a driver without a source only where nothing reaches it (`DriversTold`); a dependency's rows agree with it (`RowsAgree`); a reference is one row with the bits that are spelled (`ReferencesFiled`); every enclosing condition controls every target, once (`ControlsTold`) |
| `DataflowCut`, `DataflowGate` | a cut operand in a concatenation; a gate fed from outside | **violated**: see Findings |
| `FilelistWrapped` | every list of three out of nine tokens in all four wrappings, `#` and `//` among them wherever they stand, seven texts of the list it names, chains and cycles; nesting to 2; 157,894 states | a run reads its lists as if each were one line without its comments, or is refused for a cause; what it accepts names nothing inside itself; reading ends |
| `ExportSerial` | two runs one after the other, two batches, every failure and kill, removals of the temp that fail, fairness; 442,680 states | no partial database under the real name, a sealed file is whole, a temp stays only of a run that was killed or that could not remove it and says it failed, exit code / seal / log agree; refinement of `Publication`; every run ends |
| `ExportOverlap` | two runs at the same time | **violated**: see Findings |

The bounds. Three templates give every kind of template graph that matters to
the guard: none, a self-loop, a two-cycle, a template used twice side by side
and one used below a cycle; depth is bounded by the guard itself (`PathHeld`,
`DescentIsBounded`). Two segments are enough for a twist, and three for a slice
that begins at neither end. Two runs are enough for `Export` because all a run
reads of what came before is three files, which the first may leave in any
state; `OutIsWhole` and `ExportPublishes` are proved for any number.

Two constructs inside each other, and a function and a task that may call each
other and themselves, make every pair of things the walker restores overlap: a
call in a head within an arm, an index stepped by two loops, a delay within a
delay, a procedure after one that was given up in. The budget of 5 is spent by
some of the templates and not by others. Three tokens hold an option, its
argument and what follows it; a limit of 2 on nesting stands for the code's 16
and is met exactly, and exceeded, by the chains of `MCFilelist`.

Widths of two, four and eight give a window that is the whole, a half, and an
operand both wider and narrower than what it is put into; two and three elements
of a concatenation give one at either end and one in the middle. `Dataflow_proofs`
has the arithmetic for every width.

Deadlock is not checked where the system ends: an export, the stamping of a
design, the reading of the lists. `WalkerTree`, `Dataflow` and `Templates` are
checked for deadlock, with a self-loop at their end: no item of an agenda, of a
queue or of a loop is without an action.

Fairness. The exporter is one sequential process; nothing it does waits for
anything. `FairSpec` of `Stamper` is weak fairness of the next step, `FairSpec`
of `Export` weak fairness of each run's own step; neither `Start` nor `Crash` is
fair, so a run may never start and may be killed. `FairSpec` of `Filelist` is
weak fairness of the next step, for the same reason as `Stamper`'s.

## What is proved

`Stamper_proofs`: `TypeCorrect` (the control state keeps its shape: every frame
on the stack has numbers for its bases, every binding is a number) and
`PathHeld`. The invariant behind `PathHeld` is that the stages of the stack are
`kids/conns` for all but the top frame, that `onPath` is the set of templates of
exactly those frames, and that no two of them share a template: only with all
three does popping a frame remove its template from `onPath` without removing
another's. The bound on the stack is then the pigeonhole: an injection from the
open frames into the finite set of templates.

The same module shows what is written, for every design whose templates' indices
are their own (`IndicesLocal`, below). `IdsAreIssuedOnce`: each action adds to a
table a block of rows numbered on from the counter (`RowsFillBlocks`: a
sequence's places, or the ranks of the dependencies that are not deferred), so
every table is the block from 1 to its counter (`TablesIssued`); the node ids are
those of the rows and those promised to children that are still to come, the
promises of two frames being disjoint (`NodesIssued`; a frame gives up its least
promise as it writes the child); and the rows of references are the ids of the
queue up to `cursor` (`RefsIssued`). `RowsStayHome` rests on who owns what: a
frame past its rows has all its nets and queued references (`FramesOwn`), and one
that waits for a child has the child's row and, once that child's rows are
written, its terminals at `termBase` (`ChildTold`) -- which is why the base taken
before the recursion is right after it, whatever the recursion wrote.
The conjunction of each step's parts is
inductive together with `TypeOK` and `PathInv` (`IdsInductive`, `NamesInductive`,
`HomeInductive`).

`StampingUnfolds`, the last of that module, is the refinement: `Stamper` implements `Hierarchy`, in which an
occurrence is its path and the tree grows in any order. The abstract `occ` reads
a row's path off the whole table, by climbing its parents and counting siblings,
so the proof keeps an assignment `P` of paths to rows with which the table is a
`Grove`: every row hangs on one with a smaller id, its path is its parent's and
its place among the siblings, and no two have one path; a row with a new id and
a parent that is there takes the next place and moves no other. Then `Growing`
relates the grove to the design: the frames of the stack are one path from a top
down (`Standing`), which is what makes the guard on `onPath` the abstract cut at a
template that re-enters itself; a frame's children are those stamped so far
(`Underway`); and an occurrence that has left the stack was cut, or has all its
children (`Done`). That last part is needed for one step only, the end of the
tree, where `Hierarchy` demands that nothing is missing. Every stamping of an
instance is then one `Unfold`, the end of the tree is `Complete`, all else
stutters.

`StamperRows_proofs`, of the same designs: what the rows say together.
`TreeIsCounted` has two parts. The numbers of siblings: at every moment the nodes
under each parent are numbered from 0 to one less than there are
(`RowsNumbered`), and each open occurrence has under each of its levels just the
nodes of its body it has come to (`FramesNumbered`, `Seen`), so that `Ordinal`,
which counts within the template, is the number of nodes already there; the
levels of an occurrence have ids after those of all occurrences around it
(`Climbing`), so no other step disturbs them. The numbers of the seal: the names
the map of children holds are those of all nodes but the packages'
(`DuplicatesCounted`); the last id of a table is the number of its rows; an
occurrence stamped is one with a template, but for one whose rows are still to
come (`StampedCounted`, `Begun`). For the occurrences cut, the paths of
`StampingUnfolds` serve once more: an occurrence is cut when a row at a beginning
of its path has its template (`CutRows`), which no later row changes
(`CutStill`), and for the innermost frame is what the guard asks of `onPath`
(`CutOnStack`), except that it asks after the rows are written (`ToCut`). Climbing
from parent to parent in the finished table, as the property does, passes exactly
those rows (`AboveIs`, `PathBound`).
`BindingsAreFollowed`, of the designs whose templates also connect a segment of a
port once, is about an order: an occurrence hands a child its bindings before
that child's rows exist, perhaps naming siblings that have ids only, and the rows
that say so are written after the child's whole subtree has used the bindings. So
the invariant, `BoundInv`, speaks of bindings and rows apart. A frame is bound as
the frame under it says (`Handed`, `Hands`); no row is there of what is on the
stack or awaited (`Untied`), so that the rows of a child are all written by the
step that ends its wait (`RowsSay`); the children that have returned have rows
that say what the parent's bindings say (`Tied`); and an occurrence that was left
keeps the bindings it had (`LeftAs`), which its own rows say as soon as it is not
awaited any more (`Carries`: whatever `Hands` allows, `HandedIsWritten`). A step
writes rows of one instance only, one that is new, awaited or a top (`Busy`,
`BusyApart`), and so leaves what is known of the others. At the end nothing is
awaited, and the bindings drop out between `Tied` and `Carries`.

`DependenciesEvidenced` is about a detour: what leaves an occurrence is queued
with the bases of that moment and written when the stack is long empty. Its
invariant, `DepsInv`, follows one dependency from the template to its row. An
occurrence whose rows are still to come (`Coming`) has neither rows nor jobs;
from then on (`Rowed`) each dependency of its template that stays is a row, and
each that leaves is a job (`AllRowed`), with bases at which the occurrence's nets,
references and evidence are (`JobsTold`, `JobIn`, `EvidenceIn`); what the cursor
has passed and was owed is a row, with what its references resolved to
(`DepsReplayed`, `ToWrite`, `Alike`); every row says what its own instance says
(`DepsTold`, `RowIn`); and one occurrence and index are never two jobs, two rows,
or a job still to be replayed and a row (`JobsOnce`, `DepsOnce`). Nothing is
needed of the walks that resolve a reference, only that what they return is a net
(`NamesInductive`).

`Templates_proofs`, for every elaborated design: `GroupingTypeCorrect`;
`GuardIsPath`, that `onPath` is the keys of the open calls of `collect`, each
once, and from it `DescentIsBounded`, that there are never more of them than
keys, again by the pigeonhole, with finitely many keys assumed;
`BodiesAreChosen`, whose invariant adds that a group without a body has no
instance among `grouped`; and the action property `AnalysedIsKept`.
`TreeIsGrouped`, that the walk ends with exactly the occurrences a descent meets,
rests on the invariant that what is grouped and what the open calls have pending
make up the tree at every moment (`TreeInv`). The tree is a recursive function,
`Met`; that there is one (`MetUnfolds`) is shown by descent on the keys still
free, as the least number of free keys for which none satisfies the equation,
a set of numbers and its minimum (`WFMin`) doing what a scheme of induction
would. `ModulesAreInterned` and the tables of the later loops are `LoopsInv`.
That a template's children are all there needs `KidsInv`: of every key met, some
instance has had all its children visited, or has an open call that still will.
From that, `GroupsAreReady` is `GroupsReady` whenever `KeysTellBodies` holds: the
instances of a key, and the body kept for it, have children of the same keys,
place by place. TLC finds this true of each of the 511 designs of `Templates` and
false of those of `TemplatesFolded`; `StampedWhereKeysTell` proves that it is all
that is needed, so that finding is about nothing but the key.

`Walker_proofs`, for every program and budget: `TypeCorrect` and
`SitesAreNested`, that call sites are a forest, parents first, whose recorded
depth is the number of calls open and at most `Budget + 1`. The shape of `ctx`
depends on what `LeaveCall` finds at the head of the agenda, so the invariant is
about the agenda: starting from the site in force, each `leave` on it goes back to
the parent of the site it closes and the last one to none (`InForce`); an arm is
one of its node's, a call is of a subroutine, a saved context is of a site there
is (`Fits`); and the levels that have a row are the outer ones (`Numbered`). The
bound comes from `ctx.depth + budget <= Budget`: what an expansion adds to the
depth it takes from the budget, and leaving gives back the depth only.

`WalkerRows_proofs`: what its rows say, for every program and budget.
`BudgetAccounted`: at the end the budget lacks as much as there are sites whose
body was walked, `truncated` counts those refused for want of it, and a site is
neither only if it recurses. `ContextIsInForce`: the delay and the word of every
written row are those in force at its node, through the calls that lead there.
These compare what the walk carries along with what the syntax says, and the walk
carries it in the order of the agenda, so the invariant is again about the agenda,
all of it: `Placed` says what is in force at a node of an expansion by the syntax
alone (delay, word, indices, whether there is a statement to bind to, the levels
around it) and `Sound` where the expansion stands; `Good` says which state of
affairs an item of the agenda starts from and which it leaves, and
`Follows` that the agenda is a chain of such steps beginning with what is in force
now. Each handler replaces one step of the chain by several (`TimedLinked`,
`ForLinked`, `CallLinked`, ...), each undoing item takes the first one off; a site
added on the way leaves what is around the earlier ones as it was (`SitesStay`).
`active`, which decides whether a call recurses, is then the callees around the
site in force, from which the budget's account follows with one cardinality per
action (`Paid`), and a row filed is true when it is filed (`Told`) and stays so.
`CallersAreNamed`: the caller of a site is the row of the statement the call is
the only one of. `curStmt` is one variable that every row overwrites, so the
invariant is about what may stand between: as long as such a call is still to
come on the agenda, be it inside a node to visit, an arm or already as the item
that enters it (`Claims`), the current statement is the row of its statement in
the expansion in force, if that has one (`Due`), and every item before it can
file nothing and enter no body (`Still`); together `Attended`. It holds because
the parts a construct visits are different nodes (`Pieces`), the call is under one
of them at most (`UnderOne`), and what else is under its statement is inert
(`BesideSole`). With two calls in a statement it fails, which is what
`WalkerCaller` shows. `RowsAreNested`: the branch of every row, followed to the
top of the branch table, is the nesting of its statement in the source, arm by arm
and through the calls that lead to it; the levels a write is gated by are exactly
those, and all are of the row's own procedure. While a body is walked its levels
are numbered apart (`frames`) and reach the table only when it ends, so the
invariant is about the table as it will be (`TableRow`: the branches, and behind
them the frames of the walk under way): no step takes a row of it away or changes
one (`Lengthened`); each level that has a row hangs on the level around it, and a
row on rows before it (`Linkage`), which with `Follows` makes the levels at hand
the nesting of the node at hand (`LevelsChained`); so a row filed has a chain of
rows above it whose tags are its nesting (`Nested`), and keeps it (`NestedStays`).
The functions that say where a node or a site stands (`Root`, `Around`,
`DelayAround`, `Callers`, ...) are recursive; that they satisfy their equations is
shown in `Walker_proofs` from `WFMin`, by the least number for which one does
not (`Least`).

`Dataflow_proofs`, for every body: `ReferencesAreOnce`, which needs only that
every action leaves `hierRefs` alone or calls `addHierRef` once, and
`RowsAreNumbered`. Its invariant is that rows are added to the last statement
only, while it is the current one, and that each list's counter is then the
number of rows the statement has in it; every action is shown to leave the rows
alone, to open a statement or to add at most one row to each list, and those
three keep the invariant. The queue of what is left to file is arbitrary in both,
so neither rests on the recursive functions that fill it. And of the two sides of an assignment, for every width and every pair of windows: `NarrowedIsSpan`, that
a narrowed cover is exactly the bits at the span it is narrowed to and stays
within the cover it was; `PairsBitForBit`, that two positional slots that overlap
are coupled bit for bit; `OverlapIsKept`, that no bit in the overlap is lost. All
three need the slot to be positional, that is as wide as its window: the guard of
`coverFillsWidth` in the code, and what a conversion that cuts breaks
(`DataflowCut`).

`Filelist_proofs`, for every text of every list and every limit: `TypeCorrect`,
and `OpenListsBounded`, that no more lists are open than `MaxDepth` allows below
the first.

`Export_proofs`: `TypeCorrect`; `SealedWhole`, which needs that a run in stage
`seal` has written all batches and `built` (for any overlap: a file is written
only by the run that created it); `OutIsWhole`, for runs that do not overlap,
which needs that at most one run is active (`Serial`) and that the temp of an
active run past `create` is its own (`TempOwn`) -- exactly what overlapping runs
break; `ExitCodeTells`; `TempIsTaken`, that of a run that has ended by itself
no temp is left but one its guard could not remove, with the exit code of a
failure, whose invariant `TempHeld` says which stages still hold one; `LogIsTrue`,
whose invariant `LogSaid` says what the log of a run at each stage can hold; and
`ExportPublishes`, the refinement, one lemma for the initial states and one per
action.

Assumptions are those the modules state: `IndicesLocal` (what pass 1 promises of
a template: an index is the place a row had in the vector it was appended to, an
end of a dependency leaves the instance or stays in it, "never both at once", and
a dependency has a target (`Template.h:231-265`, `TemplateBuilder.cpp`, at each
`deps.push_back`); a connection of a black box has one of the terminals made for
it (`TemplateBuilder_Conn.cpp:503-604`), without which `StampUnresolved`, which
takes an id before it looks at the terminal, would skip one), `ScopesKnown` (a
generate level lies in the instance or in a level before it,
`DeclIndex.h:146-166` and "parents guaranteed to precede children",
`Stamper.cpp:144-145`), `SegmentsOnce` (the connections of a child count
the segments of each of its terminals up, and one to an interface names a child or
a terminal of the template it is in, `TemplateBuilder_Conn.cpp:246-345`; `BindOf`
keeps the last of several, as the code would, and the proof needs that there is
one), `RunsAssumption`, `BatchesAssumption`,
`OverlapAssumption`, `NoBodyAssumption`, `DesignsAssumption` (a design's fields
have their types), `OrderAssumption` (the map of groups has a place for each), `InputsTyped` (a list is lines of tokens), `MaxDepthNat`,
`ProgramTyped`, `ProgramForests` (the source is a forest: a node is one part of one
node, numbered before it, or the body of a procedure or subroutine),
`CallsNameBodies` (a call names a subroutine), `BudgetNat` and,
for the two bounds by pigeonhole, that the set of templates or keys is finite, which a
program's memory is.

Only model-checked: liveness (`Terminates`, `EveryRunEnds`, `ReadingEnds`), which
is out of the prover's reach;
of `Walker` that bodies are inlined in full (`BodiesInlined`), which compares
with all rows there should be and not only with those there are; the
references of `Filelist`, `BitFlow` and `Connections`, recursive functions over
texts, expressions or trees; and of `Stamper` what a reference resolves to, whose
statement reads the finished tree by walks of any length.

## Findings

* `StamperPackages`: packages are tree nodes above the roots, but
  `stampPackages` does not go through `noteChild`; a package and a top of one
  name are two siblings of one `(parent, name)` that `duplicate_path_count` does
  not count, while `scripts/verify-designdb.py:466` checks that it counts all of
  them.
* `TemplatesFolded`: two instances of one module with equal parameters are one
  group, also where a defparam, or a parameter of the interface bound to a port,
  makes their children differ. Both are stamped from one body, and a child's
  `inst` row has the other's `param_signature`.
* `WalkerCaller`: `caller_stmt_id` "is the statement that made the call"
  (`designdb-schema.md:424`); in `x = f() + g()` the second call is filed under
  the last statement of the first one's body (`TemplateBuilder.cpp:1069`), since
  `curStmt` is not put back on leaving a call.
* `DataflowCut`: a conversion that cuts an operand of a concatenation is looked
  through with the operand's own width (`Ref.h:318`), so in `t = {b, 2'(a)}` a's
  window reaches over b's, and an exact dependency couples them.
* `DataflowGate`: a gate whose only inputs are nets of other instances is given
  the row without a driver that stands for `pullup` (`TemplateBuilder.cpp:2056`).
* `ExportOverlap`: the comment at `main.cpp:975` promises that no consumer sees
  an intermediate state "regardless"; with two runs on one output at a time the
  shared temp name breaks it.

Met on the way, and stated in the property instead of kept out of the instance:

* a `#` behind an option on its line is the option's argument
  (`main.cpp:436-458`): `-v # cells` takes the `#` for the library, and the
  library on the next line for a source, though the comment at `main.cpp:361`
  says that comments are understood; on the next line, or behind `//`, the
  comment is skipped. `ReadAsUnwrapped` says which `#` begins a comment
  (`Uncommented`) and holds of every list of the instance;
* the selector of a selected actual has no row, be it an input or an output:
  `collectConnRefs` (`TemplateBuilder_Conn.cpp:48-58`) takes `w` of `.p(w[i])` and
  not `i`, though `designdb-schema.md:683-687` treats an address as an operand of
  its own. `TiesAreTold` asks for the bits that are passed on (`Values`), not for
  those that choose among them; `w[i]` is among the actuals of the instance.

Met on the way, small, and kept out of the instances of the passing runs rather
than given runs of their own:

* a condition's calls bind to no statement, and the calls that are statements of
  their own within their bodies inherit that, since entering a body does not set
  `bindable` again;
* the word a force stamps reaches the assignments of a function called on its
  right-hand side;
* `x++` over several bits is filed with an exact mapping, though a carry reaches
  every higher bit (`StatementWalker.h:1035`); the same of `{hi, lo} += c`;
* the module variables a function reads through a further call, or a call in a
  call's argument makes, are not filed (`Ref.h:475-501`);
* reads of a connection that have no origin share one key
  (`TemplateBuilder_Conn.cpp:107-121`), so the second is dropped; a call in a black box's sequence expression, have
  no row;
* an actual that leaves the instance is filed with its narrowed range
  (`fileBinding`), not with the bits that are spelled;
* the constant half of `{b, 2'h0}` has no row of its own;
* an element of an instance's own interface array handed to a scalar interface
  port is left unbound (`passedThrough`).

## Plan

1. `Stamper`, `Export`, `Walker`, `Filelist`, `Grouping` and `Templates`,
   `Connections`, `References` and `Dataflow`: done.
2. The theorems left, of those that need no induction over syntax: the tables of
   `Dataflow` agree (`RowsAgree`).
3. `Writer`: the pending counter, interning and failing statements, composed
   with `Export`, which has its batches and failures only.
4. `DeclIndex`: which net and scope a symbol belongs to, so far what slang
   decides of a name.
5. The remaining views over dependencies and drivers.

## Not modelled

slang (external); the spelling of paths, names and values (`SymbolText.h`,
`SourceLocator.h`: formatting over slang's data, of which only the equality of
keys matters here); labels, locations, delays' values and iteration spaces in
rows; SHA-256 (a fixed pure function); the vocabulary (data); wording of
diagnostics; the Python verifier and the examples, which were read as statements
of what the program promises.
