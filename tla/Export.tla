------------------------------- MODULE Export -------------------------------
(***************************************************************************)
(* One invocation of the exporter from its arguments to its exit code      *)
(* (src/src/main.cpp) around the Writer it drives (src/src/DesignDb.cpp):  *)
(* the log is opened, the inputs are read, the database is built beside    *)
(* its real name, sealed last, and renamed over it.                        *)
(*                                                                         *)
(* Runs are invocations with the same -o and the same log.  A run may die  *)
(* between any two steps, and any step that touches the disk may fail.     *)
(* Nothing in the code keeps two runs apart: Overlap says whether the      *)
(* environment starts one while another is alive.                          *)
(*                                                                         *)
(* A file is known by the run that created it, whatever name it has: a     *)
(* process goes on writing a file whose name was taken away (POSIX).       *)
(*                                                                         *)
(* An invocation that asks for help or the version prints it and exits 0   *)
(* before it has an output (main.cpp:499-509); it is not a run.            *)
(***************************************************************************)
EXTENDS Integers

CONSTANTS
    Runs,       \* the invocations
    Batches,    \* how many transactions the rows of an export take
    Overlap,    \* may a run start while another is alive?
    None,       \* no file
    Prior       \* an export from before the first of the runs

ASSUME RunsAssumption == None \notin Runs /\ Prior \notin Runs /\ None # Prior
ASSUME BatchesAssumption == Batches \in Nat \ {0}
ASSUME OverlapAssumption == Overlap \in BOOLEAN

Status == {"complete", "partial", "hierarchy_only"}
Flaw == {"fatal", "errors", "gaps"}
ExitCode == [complete |-> 0, failed |-> 1, bad_input |-> 2,
             partial |-> 3, hierarchy_only |-> 4]

VARIABLES
    pc,         \* where each run is
    flaws,      \* what each run found wrong with its design
    logging,    \* whether each run holds the log open
    code,       \* each run's exit code, -1 while it has none
    db,         \* the file each run writes: batches, built, seal
    tmp,        \* the file named <output>.tmp
    out,        \* the file named <output>
    log,        \* the log: the run that wrote its last line, and the line
    published,  \* history: the runs whose rename succeeded
    kept        \* history: the runs whose guard could not remove the temp

vars == <<pc, flaws, logging, code, db, tmp, out, log, published, kept>>

\* The states in which the temp file's guard is armed.
Guarded == {"create", "rows", "build", "seal", "publish"}
Stages == Guarded \cup {"idle", "log", "input", "caught", "unwind", "report"}
Ended == {"exited", "dead"}

Empty == [batches |-> 0, built |-> FALSE, seal |-> "none"]

Init ==
    /\ pc = [r \in Runs |-> "idle"]
    /\ flaws = [r \in Runs |-> {}]
    /\ logging = [r \in Runs |-> FALSE]
    /\ code = [r \in Runs |-> -1]
    /\ db = [r \in Runs |-> Empty]
    /\ tmp = None /\ out \in {None, Prior}
    /\ log = [by |-> None, says |-> "nothing"]
    /\ published = {} /\ kept = {}

Go(r, s) == pc' = [pc EXCEPT ![r] = s]

\* analysisStatusOf: a fatal compilation decides before any count does.
StatusOf(r) == CASE "fatal" \in flaws[r] -> "hierarchy_only"
                 [] flaws[r] \in {{"errors"}, {"gaps"}, {"errors", "gaps"}} ->
                      "partial"
                 [] OTHER -> "complete"

\* finished(): the log's last line, and the code the run will exit with.
Finished(r, c, says) ==
    /\ code' = [code EXCEPT ![r] = ExitCode[c]]
    /\ log' = IF logging[r] THEN [by |-> r, says |-> says] ELSE log

-----------------------------------------------------------------------------
(* The arguments: refused, or the log is next.  --nolog goes on without.   *)
(* --help and --version end before there is a run, and are none.           *)
Start(r) ==
    /\ pc[r] = "idle"
    /\ Overlap \/ \A q \in Runs : pc[q] \in {"idle"} \cup Ended
    /\ \/ Go(r, "exited") /\ code' = [code EXCEPT ![r] = ExitCode.bad_input]
       \/ (Go(r, "log") \/ Go(r, "input")) /\ UNCHANGED code
    /\ UNCHANGED <<flaws, logging, db, tmp, out, log, published, kept>>

(* The log is truncated; if it cannot be, a path the caller named stops    *)
(* the run and the derived one does not.                                   *)
OpenLog(r) ==
    /\ pc[r] = "log"
    /\ \/ /\ logging' = [logging EXCEPT ![r] = TRUE]
          /\ log' = [by |-> r, says |-> "nothing"]
          /\ Go(r, "input") /\ UNCHANGED code
       \/ /\ Go(r, "input") /\ UNCHANGED <<logging, log, code>>
       \/ /\ Go(r, "exited") /\ code' = [code EXCEPT ![r] = ExitCode.bad_input]
          /\ UNCHANGED <<logging, log>>
    /\ UNCHANGED <<flaws, db, tmp, out, published, kept>>

(* A filelist, the sources or the top are refused.                         *)
RefuseInput(r) ==
    /\ pc[r] = "input"
    /\ Finished(r, "bad_input", "no_database")
    /\ Go(r, "exited")
    /\ UNCHANGED <<flaws, logging, db, tmp, out, published, kept>>

(* The design is elaborated, with or without errors, and analysed; the     *)
(* temp guard is armed.                                                    *)
Elaborate(r) ==
    /\ pc[r] = "input"
    /\ \E found \in SUBSET {"fatal", "errors"} :
         flaws' = [flaws EXCEPT ![r] = found]
    /\ Go(r, "create")
    /\ UNCHANGED <<logging, code, db, tmp, out, log, published, kept>>

\* A bug: a temp left by a killed run is written to, not replaced.
CreateTempKeeping(r) ==
    /\ pc[r] = "create"
    /\ tmp' = IF tmp = None THEN r ELSE tmp
    /\ db' = [db EXCEPT ![r] = Empty]
    /\ Go(r, "rows")
    /\ UNCHANGED <<flaws, logging, code, out, log, published, kept>>

\* A bug: the export is built under its real name.
CreateInPlace(r) ==
    /\ pc[r] = "create"
    /\ tmp' = r /\ out' = r
    /\ db' = [db EXCEPT ![r] = Empty]
    /\ Go(r, "rows")
    /\ UNCHANGED <<flaws, logging, code, log, published, kept>>

(* The Writer: whatever has the temp name loses it, a new file gets it.    *)
(* The removal's error is ignored, but a temp that stays in the way holds  *)
(* the tables already and the schema is refused: that is Throw.            *)
CreateTemp(r) ==
    /\ pc[r] = "create"
    /\ tmp' = r
    /\ db' = [db EXCEPT ![r] = Empty]
    /\ Go(r, "rows")
    /\ UNCHANGED <<flaws, logging, code, out, log, published, kept>>

\* A bug: the batch that ends the extraction is written twice.
WriteBatchOnceMore(r) ==
    /\ pc[r] = "rows"
    /\ db' = [db EXCEPT ![r].batches = @ + 1]
    /\ UNCHANGED <<pc, flaws, logging, code, tmp, out, log, published, kept>>

(* Extraction: a full transaction is committed and the next begun.         *)
WriteBatch(r) ==
    /\ pc[r] = "rows" /\ db[r].batches < Batches - 1
    /\ db' = [db EXCEPT ![r].batches = @ + 1]
    /\ UNCHANGED <<pc, flaws, logging, code, tmp, out, log, published, kept>>

\* A bug: the seal is written before finish().
ExtractedToSeal(r) ==
    /\ pc[r] = "rows" /\ db[r].batches = Batches - 1
    /\ UNCHANGED flaws
    /\ Go(r, "seal")
    /\ UNCHANGED <<logging, code, db, tmp, out, log, published, kept>>

(* The last rows are written; what extraction could not reach is known.    *)
Extracted(r) ==
    /\ pc[r] = "rows" /\ db[r].batches = Batches - 1
    /\ \E found \in SUBSET {"gaps"} :
         flaws' = [flaws EXCEPT ![r] = @ \cup found]
    /\ Go(r, "build")
    /\ UNCHANGED <<logging, code, db, tmp, out, log, published, kept>>

(* finish(): the open transaction, then views, derived rows and indexes.   *)
Build(r) ==
    /\ pc[r] = "build"
    /\ db' = [db EXCEPT ![r] = [batches |-> @.batches + 1, built |-> TRUE,
                                seal |-> @.seal]]
    /\ Go(r, "seal")
    /\ UNCHANGED <<flaws, logging, code, tmp, out, log, published, kept>>

\* A bug: the status sealed is decided by the compilation alone, without the
\* gaps extraction counted.
SealWithoutGaps(r) ==
    /\ pc[r] = "seal"
    /\ db' = [db EXCEPT ![r].seal =
                IF "fatal" \in flaws[r] THEN "hierarchy_only"
                ELSE IF "errors" \in flaws[r] THEN "partial" ELSE "complete"]
    /\ Go(r, "publish")
    /\ UNCHANGED <<flaws, logging, code, tmp, out, log, published, kept>>

(* setDbInfo(): one row, after everything else.  The writer then closes.   *)
Seal(r) ==
    /\ pc[r] = "seal"
    /\ db' = [db EXCEPT ![r].seal = StatusOf(r)]
    /\ Go(r, "publish")
    /\ UNCHANGED <<flaws, logging, code, tmp, out, log, published, kept>>

(* rename(): whatever has the temp name becomes the database; the guard is *)
(* disarmed.                                                               *)
Publish(r) ==
    /\ pc[r] = "publish" /\ tmp # None
    /\ out' = tmp /\ tmp' = None
    /\ published' = published \cup {r}
    /\ Go(r, "report")
    /\ UNCHANGED <<flaws, logging, code, db, log, kept>>

\* A bug: a failed rename goes unnoticed.
PublishIgnored(r) ==
    /\ pc[r] = "publish"
    /\ Finished(r, StatusOf(r), StatusOf(r))
    /\ Go(r, "exited")
    /\ UNCHANGED <<flaws, logging, db, tmp, out, published, kept>>

\* A bug: a failed rename exports again, for ever.
PublishRetries(r) ==
    /\ pc[r] = "publish"
    /\ Go(r, "create")
    /\ UNCHANGED <<flaws, logging, code, db, tmp, out, log, published, kept>>

(* The rename fails: the run reports it and the guard removes the temp.    *)
PublishFails(r) ==
    /\ pc[r] = "publish"
    /\ Finished(r, "failed", "no_database")
    /\ Go(r, "unwind")
    /\ UNCHANGED <<flaws, logging, db, tmp, out, published, kept>>

\* A bug: the guard is disarmed although the rename failed.
UnwindDisarmed(r) ==
    /\ pc[r] = "unwind"
    /\ Go(r, "exited")
    /\ UNCHANGED <<flaws, logging, code, db, tmp, out, log, published, kept>>

\* ~TempGuard, armed: the temp goes, or it cannot be removed and stays, an
\* error nobody is told of.
Release(r) ==
    \/ tmp' = None /\ UNCHANGED kept
    \/ tmp # None /\ kept' = kept \cup {r} /\ UNCHANGED tmp

\* The guard goes out of scope.
Unwind(r) ==
    /\ pc[r] = "unwind"
    /\ Release(r)
    /\ Go(r, "exited")
    /\ UNCHANGED <<flaws, logging, code, db, out, log, published>>

(* The run's last word: the database it wrote and its status.              *)
ReportDone(r) ==
    /\ pc[r] = "report"
    /\ Finished(r, StatusOf(r), StatusOf(r))
    /\ Go(r, "exited")
    /\ UNCHANGED <<flaws, logging, db, tmp, out, published, kept>>

(* Any step of the export throws: the guard, if armed, goes out of scope   *)
(* on the way to the handler.                                              *)
Throw(r) ==
    /\ pc[r] \in {"input"} \cup (Guarded \ {"publish"})
    /\ IF pc[r] \in Guarded THEN Release(r) ELSE UNCHANGED <<tmp, kept>>
    /\ Go(r, "caught")
    /\ UNCHANGED <<flaws, logging, code, db, out, log, published>>

Caught(r) ==
    /\ pc[r] = "caught"
    /\ Finished(r, "failed", "no_database")
    /\ Go(r, "exited")
    /\ UNCHANGED <<flaws, logging, db, tmp, out, published, kept>>

(* The process is killed, between any two of its steps.                    *)
Crash(r) ==
    /\ pc[r] \in Stages \ {"idle"}
    /\ Go(r, "dead")
    /\ UNCHANGED <<flaws, logging, code, db, tmp, out, log, published, kept>>

Step(r) == \/ OpenLog(r) \/ RefuseInput(r) \/ Elaborate(r) \/ CreateTemp(r)
           \/ WriteBatch(r) \/ Extracted(r) \/ Build(r) \/ Seal(r)
           \/ Publish(r) \/ PublishFails(r) \/ Unwind(r) \/ ReportDone(r)
           \/ Throw(r) \/ Caught(r)

Next == \E r \in Runs : Start(r) \/ Step(r) \/ Crash(r)

Spec == Init /\ [][Next]_vars
FairSpec == Spec /\ \A r \in Runs : WF_vars(Step(r))
-----------------------------------------------------------------------------
(* What must hold of the files a run leaves behind.                        *)

Says == Status \cup {"nothing", "no_database"}

(* Every variable has a value the code can give it.                        *)
TypeOK ==
    /\ pc \in [Runs -> Stages \cup Ended]
    /\ flaws \in [Runs -> SUBSET Flaw]
    /\ logging \in [Runs -> BOOLEAN]
    /\ code \in [Runs -> {-1, 0, 1, 2, 3, 4}]
    /\ db \in [Runs -> [batches : 0..Batches, built : BOOLEAN,
                        seal : Status \cup {"none"}]]
    /\ tmp \in Runs \cup {None} /\ out \in Runs \cup {None, Prior}
    /\ log \in [by : Runs \cup {None}, says : Says]
    /\ published \in SUBSET Runs /\ kept \in SUBSET Runs

Sealed(f) == db[f].seal # "none"

(* A sealed file holds every row, every view and every index, under        *)
(* whatever name and whoever died while writing it: the seal lets a reader *)
(* of the temp file tell a finished export from an abandoned one.          *)
SealedIsWhole ==
    \A f \in Runs : Sealed(f) => db[f].batches = Batches /\ db[f].built

Whole(f) == f = Prior \/ (f \in Runs /\ Sealed(f) /\ db[f].batches = Batches
                           /\ db[f].built)

(* A crash or a failure never leaves a partial database under the real     *)
(* name, not even when an earlier run died and left its temp behind.       *)
OutWhole == out # None => Whole(out)

(* A temp of a run that ended by itself stays beside the real database only *)
(* if the guard tried to remove it and could not, and that run told its    *)
(* caller that it failed; every other temp left behind is of a killed run. *)
NoStrayTemp ==
    \A r \in Runs : pc[r] = "exited" /\ tmp = r =>
      r \in kept /\ code[r] = ExitCode.failed

(* The exit code, the file and the log tell one story: a code that says a  *)
(* database was written goes with a rename and is the word of that file's  *)
(* seal, and a code that says none was goes with none.                     *)
ExitTellsStatus ==
    \A r \in Runs : pc[r] = "exited" =>
      IF r \in published THEN Sealed(r) /\ code[r] = ExitCode[db[r].seal]
      ELSE code[r] \in {ExitCode.failed, ExitCode.bad_input}

(* The log's last word about a database is never about another one's       *)
(* status, nor about one that was not put in place.                        *)
LogTruth ==
    /\ log.says \in Status =>
         log.by \in published /\ log.says = db[log.by].seal
    /\ log.says = "no_database" => log.by \notin published

\* What a run has told by the time it ends: nothing was written, or one was.
Word(r) ==
    IF pc[r] \in {"exited", "unwind"} THEN
      IF code[r] \in {ExitCode.failed, ExitCode.bad_input}
      THEN "nothing" ELSE "wrote"
    ELSE IF pc[r] = "dead" /\ code[r] # -1 THEN "nothing"
    ELSE "silent"

(* A reader of the real name, the exit codes and the runs together see     *)
(* what Publication promises.                                              *)
P == INSTANCE Publication WITH
       visible <- IF out = None \/ Whole(out) THEN out ELSE "partial",
       replaced <- published,
       report <- [r \in Runs |-> Word(r)]
Publishes == P!PSpec

(* A run that has started ends, by itself or killed.                       *)
EveryRunEnds == \A r \in Runs : pc[r] # "idle" ~> pc[r] \in Ended
=============================================================================
