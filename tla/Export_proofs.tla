---------------------------- MODULE Export_proofs ----------------------------
(***************************************************************************)
(* What Export guarantees for any number of runs and of transactions.      *)
(*                                                                         *)
(* TypeOK and SealedIsWhole hold however runs overlap.  OutWhole does not  *)
(* (the run ExportOverlap); it is proved of runs that follow one another,  *)
(* by an invariant that says which file the temp name stands for while a   *)
(* run is writing: its own.                                                *)
(***************************************************************************)
EXTENDS Export, TLAPS

USE RunsAssumption, BatchesAssumption, OverlapAssumption

\* What a run can find and say is of the right kind.
LEMMA StatusType == \A r \in Runs : StatusOf(r) \in Status
  BY DEF StatusOf, Status

LEMMA CodeType ==
    /\ \A s \in Status : ExitCode[s] \in {0, 3, 4}
    /\ ExitCode["failed"] = 1 /\ ExitCode["bad_input"] = 2
    /\ ExitCode.failed = 1 /\ ExitCode.bad_input = 2
  BY DEF ExitCode, Status

-----------------------------------------------------------------------------
(* TypeOK: every variable has a value the code can give it.  The batch     *)
(* count needs the stage: only rows being written, or built, add to it.    *)
Counted ==
    \A r \in Runs : /\ pc[r] = "rows" => db[r].batches < Batches
                    /\ pc[r] = "build" => db[r].batches = Batches - 1

TypeInv == TypeOK /\ Counted

LEMMA TypeInit == Init => TypeInv
  BY DEF Init, TypeInv, TypeOK, Counted, Stages, Guarded, Ended, Empty, Says,
         Flaw, Status

LEMMA TypeStep == TypeInv /\ [Next]_vars => TypeInv'
<1> SUFFICES ASSUME TypeInv, [Next]_vars PROVE TypeInv'
  OBVIOUS
<1> USE DEF TypeInv, TypeOK, Counted, Stages, Guarded, Ended, Says, Flaw, Go
<1>1. CASE UNCHANGED vars
  BY <1>1 DEF vars
<1>2. ASSUME NEW r \in Runs, Start(r) PROVE TypeInv'
  BY <1>2, CodeType DEF Start
<1>3. ASSUME NEW r \in Runs, Step(r) PROVE TypeInv'
  <2>1. CASE OpenLog(r)
    <3>1. pc' = [pc EXCEPT ![r] = "input"] \/ pc' = [pc EXCEPT ![r] = "exited"]
      BY <2>1 DEF OpenLog
    <3>2. code' = code \/ code' = [code EXCEPT ![r] = 2]
      BY <2>1, CodeType DEF OpenLog
    <3>3. /\ logging' = logging \/ logging' = [logging EXCEPT ![r] = TRUE]
          /\ log' = log \/ log' = [by |-> r, says |-> "nothing"]
      BY <2>1 DEF OpenLog
    <3>4. UNCHANGED <<flaws, db, tmp, out, published, kept>>
      BY <2>1 DEF OpenLog
    <3>5. pc' \in [Runs -> Stages \cup Ended]
      BY <3>1
    <3>6. Counted'
      BY <3>1, <3>4
    <3>7. code' \in [Runs -> {-1, 0, 1, 2, 3, 4}]
      BY <3>2
    <3>8. /\ logging' \in [Runs -> BOOLEAN]
          /\ log' \in [by : Runs \cup {None}, says : Says]
      <4>1. logging' \in [Runs -> BOOLEAN]
        BY <3>3
      <4>2. log' \in [by : Runs \cup {None}, says : Says]
        BY <3>3
      <4> QED
        BY <4>1, <4>2
    <3> QED
      BY <3>4, <3>5, <3>6, <3>7, <3>8
  <2>2. CASE RefuseInput(r)
    BY <2>2, CodeType DEF RefuseInput, Finished
  <2>3. CASE Elaborate(r)
    BY <2>3 DEF Elaborate
  <2>4. CASE CreateTemp(r)
    BY <2>4 DEF CreateTemp, Empty
  <2>5. CASE WriteBatch(r)
    BY <2>5 DEF WriteBatch
  <2>6. CASE Extracted(r)
    <3>1. PICK found \in SUBSET {"gaps"} :
            flaws' = [flaws EXCEPT ![r] = @ \cup found]
      BY <2>6 DEF Extracted
    <3>2. flaws[r] \cup found \in SUBSET Flaw
      OBVIOUS
    <3>3. flaws' \in [Runs -> SUBSET Flaw]
      BY <3>1, <3>2
    <3>4. /\ pc' = [pc EXCEPT ![r] = "build"]
          /\ db[r].batches = Batches - 1
          /\ UNCHANGED <<logging, code, db, tmp, out, log, published, kept>>
      BY <2>6 DEF Extracted
    <3>5. Counted' /\ pc' \in [Runs -> Stages \cup Ended]
      BY <3>4
    <3> QED
      BY <3>3, <3>4, <3>5
  <2>7. CASE Build(r)
    <3>1. /\ pc[r] = "build" /\ pc' = [pc EXCEPT ![r] = "seal"]
          /\ db' = [db EXCEPT ![r] = [batches |-> db[r].batches + 1,
                                     built |-> TRUE, seal |-> db[r].seal]]
          /\ UNCHANGED <<flaws, logging, code, tmp, out, log, published, kept>>
      BY <2>7 DEF Build
    <3>2. db[r].batches + 1 \in 0..Batches
      BY <3>1
    <3>3. db' \in [Runs -> [batches : 0..Batches, built : BOOLEAN,
                            seal : Status \cup {"none"}]]
      BY <3>1, <3>2
    <3>4. pc' \in [Runs -> Stages \cup Ended]
      BY <3>1
    <3>5. Counted'
      BY <3>1, <3>4
    <3> QED
      BY <3>1, <3>3, <3>4, <3>5
  <2>8. CASE Seal(r)
    BY <2>8, StatusType DEF Seal
  <2>9. CASE Publish(r)
    BY <2>9 DEF Publish
  <2>10. CASE PublishFails(r)
    BY <2>10, CodeType DEF PublishFails, Finished
  <2>11. CASE Unwind(r)
    BY <2>11 DEF Unwind, Release
  <2>12. CASE ReportDone(r)
    BY <2>12, CodeType, StatusType DEF ReportDone, Finished
  <2>13. CASE Throw(r)
    BY <2>13 DEF Throw, Release
  <2>14. CASE Caught(r)
    BY <2>14, CodeType DEF Caught, Finished
  <2> QED
    BY <1>3, <2>1, <2>2, <2>3, <2>4, <2>5, <2>6, <2>7, <2>8, <2>9, <2>10,
       <2>11, <2>12, <2>13, <2>14 DEF Step
<1>4. ASSUME NEW r \in Runs, Crash(r) PROVE TypeInv'
  BY <1>4 DEF Crash
<1> QED
  BY <1>1, <1>2, <1>3, <1>4 DEF Next

(* Every variable of a run keeps its type, whatever runs there are.        *)
THEOREM TypeCorrect == Spec => []TypeOK
<1>1. TypeInv => TypeOK
  BY DEF TypeInv
<1> QED
  BY TypeInit, TypeStep, <1>1, PTL DEF Spec

-----------------------------------------------------------------------------
(* SealedIsWhole: a run reaches the seal only through Build, and Build only *)
(* with the last transaction open; no other run writes its file.           *)
Staged ==
    \A r \in Runs :
      /\ pc[r] \in {"rows", "build", "seal"} => ~ Sealed(r)
      /\ pc[r] = "seal" => db[r].batches = Batches /\ db[r].built

SealInv == TypeInv /\ Staged /\ SealedIsWhole

LEMMA SealInit == Init => SealInv
  BY TypeInit DEF Init, SealInv, Staged, SealedIsWhole, Sealed, Empty

LEMMA SealStep == SealInv /\ [Next]_vars => SealInv'
<1> SUFFICES ASSUME SealInv, [Next]_vars PROVE (Staged /\ SealedIsWhole)'
  BY TypeStep DEF SealInv
<1> TypeOK /\ Counted
  BY DEF SealInv, TypeInv
<1> USE DEF SealInv, Staged, SealedIsWhole, Sealed, Go
<1>1. CASE UNCHANGED vars
  BY <1>1 DEF vars
<1>2. ASSUME NEW r \in Runs, NEW s \in (Stages \cup Ended) \ {"rows", "build", "seal"},
             pc' = [pc EXCEPT ![r] = s], db' = db
      PROVE  (Staged /\ SealedIsWhole)'
  BY <1>2 DEF TypeOK
<1>3. ASSUME NEW r \in Runs, Start(r) \/ Crash(r) PROVE (Staged /\ SealedIsWhole)'
  <2>1. PICK s \in {"log", "input", "exited", "dead"} : pc' = [pc EXCEPT ![r] = s]
    BY <1>3 DEF Start, Crash
  <2>2. db' = db
    BY <1>3 DEF Start, Crash
  <2> QED
    BY <1>2, <2>1, <2>2 DEF Stages, Ended
<1>4. ASSUME NEW r \in Runs, Step(r) PROVE (Staged /\ SealedIsWhole)'
  <2>1. CASE OpenLog(r) \/ RefuseInput(r) \/ Elaborate(r) \/ Publish(r)
               \/ PublishFails(r) \/ Unwind(r) \/ ReportDone(r) \/ Throw(r)
               \/ Caught(r)
    <3>1. PICK s \in {"input", "exited", "create", "report", "unwind", "caught"} :
            pc' = [pc EXCEPT ![r] = s]
      BY <2>1 DEF OpenLog, RefuseInput, Elaborate, Publish, PublishFails,
                  Unwind, ReportDone, Throw, Caught
    <3>2. db' = db
      BY <2>1 DEF OpenLog, RefuseInput, Elaborate, Publish, PublishFails,
                  Unwind, ReportDone, Throw, Caught
    <3> QED
      BY <1>2, <3>1, <3>2 DEF Stages, Guarded, Ended
  <2>2. CASE CreateTemp(r)
    BY <2>2 DEF CreateTemp, Empty, TypeOK
  <2>3. CASE WriteBatch(r)
    BY <2>3 DEF WriteBatch, TypeOK
  <2>4. CASE Extracted(r)
    BY <2>4 DEF Extracted, TypeOK
  <2>5. CASE Build(r)
    <3>1. /\ pc[r] = "build" /\ pc' = [pc EXCEPT ![r] = "seal"]
          /\ db' = [db EXCEPT ![r] = [batches |-> db[r].batches + 1,
                                      built |-> TRUE, seal |-> db[r].seal]]
      BY <2>5 DEF Build
    <3>2. db[r].batches + 1 = Batches /\ ~ Sealed(r)
      BY <3>1 DEF Counted, TypeOK
    <3> QED
      BY <3>1, <3>2 DEF TypeOK
  <2>6. CASE Seal(r)
    BY <2>6 DEF Seal, TypeOK
  <2> QED
    BY <1>4, <2>1, <2>2, <2>3, <2>4, <2>5, <2>6 DEF Step
<1> QED
  BY <1>1, <1>3, <1>4 DEF Next

(* A sealed file is a whole export, however many runs there are, however   *)
(* they overlap, and whichever of them is killed.                          *)
THEOREM SealedWhole == Spec => []SealedIsWhole
<1>1. SealInv => SealedIsWhole
  BY DEF SealInv
<1> QED
  BY SealInit, SealStep, <1>1, PTL DEF Spec

-----------------------------------------------------------------------------
(* OutWhole: of runs that follow one another, the temp name stands for the *)
(* file of the run that is writing, so the rename puts that file in place. *)
(* The file in place is never written to again: its run is past its rename.*)
Alive(r) == pc[r] \in Stages \ {"idle"}

Serial == \A q, r \in Runs : Alive(q) /\ Alive(r) => q = r

TempOwn == \A r \in Runs : pc[r] \in Guarded \ {"create"} => tmp = r

Ready == \A r \in Runs : pc[r] = "publish" => Sealed(r)

OutSettled == out \in Runs => pc[out] \in {"report"} \cup Ended

OutInv == SealInv /\ Serial /\ TempOwn /\ Ready /\ OutSettled /\ OutWhole

LEMMA OutInit == Init => OutInv
  BY SealInit DEF Init, OutInv, Serial, Alive, TempOwn, Ready, OutSettled,
                  OutWhole, Whole, Guarded, Stages

LEMMA OutStep == ~ Overlap /\ OutInv /\ [Next]_vars => OutInv'
<1> SUFFICES ASSUME ~ Overlap, OutInv, [Next]_vars
             PROVE  (Serial /\ TempOwn /\ Ready /\ OutSettled /\ OutWhole)'
  BY SealStep DEF OutInv
<1> TypeOK /\ SealInv /\ SealInv'
  BY SealStep DEF OutInv, SealInv, TypeInv
<1> DEFINE Rest == Serial /\ TempOwn /\ Ready /\ OutSettled /\ OutWhole
<1> Rest
  BY DEF OutInv
<1> USE DEF Serial, Alive, TempOwn, Ready, OutSettled, Go
<1>1. CASE UNCHANGED vars
  BY <1>1 DEF vars, OutWhole, Whole, Sealed
<1>2. ASSUME NEW r \in Runs, Start(r) PROVE Rest'
  <2>1. /\ \A q \in Runs : ~ Alive(q)
        /\ UNCHANGED <<db, tmp, out>>
    BY <1>2 DEF Start, Stages, Guarded, Ended
  <2>2. PICK s \in {"log", "input", "exited"} : pc' = [pc EXCEPT ![r] = s]
    BY <1>2 DEF Start
  <2>3. out # r
    BY <1>2 DEF Start, Ended
  <2>4. (Serial /\ TempOwn /\ Ready /\ OutSettled)'
    BY <2>1, <2>2, <2>3 DEF TypeOK, Stages, Guarded, Ended, Sealed
  <2>5. OutWhole'
    BY <2>1 DEF OutWhole, Whole, Sealed
  <2> QED
    BY <2>4, <2>5
\* A step of the run that is alive which leaves the databases alone.
<1>3. ASSUME NEW r \in Runs, Alive(r),
             NEW s \in (Stages \cup Ended) \ {"idle"},
             pc' = [pc EXCEPT ![r] = s],
             db' = db, out' = out,
             s \in Guarded \ {"create"} => tmp' = r,
             s = "publish" => Sealed(r),
             s \in Ended \/ pc[r] # "report"
      PROVE  Rest'
  <2>1. (Serial /\ TempOwn /\ Ready /\ OutSettled)'
    BY <1>3 DEF TypeOK, Stages, Guarded, Ended, Sealed
  <2>2. OutWhole'
    BY <1>3 DEF OutWhole, Whole, Sealed
  <2> QED
    BY <2>1, <2>2
<1>4. ASSUME NEW r \in Runs, Crash(r) PROVE Rest'
  BY <1>3, <1>4 DEF Crash, Ended, Guarded
<1>5. ASSUME NEW r \in Runs, Step(r) PROVE Rest'
  <2>0. Alive(r)
    BY <1>5 DEF Step, OpenLog, RefuseInput, Elaborate, CreateTemp, WriteBatch,
                Extracted, Build, Seal, Publish, PublishFails, Unwind,
                ReportDone, Throw, Caught, Stages, Guarded
  <2>1. CASE OpenLog(r) \/ RefuseInput(r) \/ Elaborate(r) \/ PublishFails(r)
               \/ Unwind(r) \/ ReportDone(r) \/ Throw(r) \/ Caught(r)
    <3>1. PICK s \in {"input", "exited", "create", "unwind", "caught"} :
            pc' = [pc EXCEPT ![r] = s] /\ (s = "exited" \/ pc[r] # "report")
      BY <2>1 DEF OpenLog, RefuseInput, Elaborate, PublishFails, Unwind,
                  ReportDone, Throw, Caught, Guarded
    <3>2. db' = db /\ out' = out
      BY <2>1 DEF OpenLog, RefuseInput, Elaborate, PublishFails, Unwind,
                  ReportDone, Throw, Caught
    <3> QED
      BY <1>3, <2>0, <3>1, <3>2 DEF Stages, Guarded, Ended
  <2>2. CASE Extracted(r)
    BY <1>3, <2>0, <2>2 DEF Extracted, Stages, Guarded
  \* A step that writes the run's own file, which is not the one in place.
  <2>3. CASE CreateTemp(r) \/ WriteBatch(r) \/ Build(r) \/ Seal(r)
    <3>1. /\ tmp' = r /\ out' = out
          /\ \A f \in Runs \ {r} : db'[f] = db[f]
      BY <2>3 DEF CreateTemp, WriteBatch, Build, Seal, TypeOK, Guarded
    <3>2. out # r
      BY <2>3 DEF CreateTemp, WriteBatch, Build, Seal, Ended
    <3>3. PICK s \in {"rows", "seal", "publish"} :
            /\ pc' = [pc EXCEPT ![r] = s]
            /\ s = "publish" => Seal(r)
      BY <2>3 DEF CreateTemp, WriteBatch, Build, Seal, TypeOK
    <3>4. s = "publish" => Sealed(r)'
      BY <3>3, StatusType DEF Seal, Sealed, TypeOK, Status
    <3>5. Serial'
      BY <2>0, <3>3 DEF TypeOK, Stages, Guarded
    <3>6. TempOwn'
      BY <2>0, <3>1, <3>3 DEF TypeOK, Stages, Guarded
    <3>7. Ready'
      BY <2>0, <3>3, <3>4 DEF TypeOK, Stages, Guarded
    <3>8. OutSettled'
      BY <3>1, <3>2, <3>3 DEF TypeOK
    <3>9. OutWhole'
      BY <3>1, <3>2 DEF OutWhole, Whole, Sealed, TypeOK
    <3> QED
      BY <3>5, <3>6, <3>7, <3>8, <3>9
  <2>4. CASE Publish(r)
    <3>1. /\ out' = r /\ db' = db
          /\ pc' = [pc EXCEPT ![r] = "report"]
      BY <2>4 DEF Publish, Guarded
    <3>2. Whole(r)
      BY <2>4 DEF Publish, Whole, SealInv, SealedIsWhole
    <3>3. OutWhole'
      BY <3>1, <3>2 DEF OutWhole, Whole, Sealed
    <3>4. (Serial /\ TempOwn /\ Ready /\ OutSettled)'
      BY <2>0, <3>1 DEF TypeOK, Stages, Guarded, Sealed
    <3> QED
      BY <3>3, <3>4
  <2> QED
    BY <1>5, <2>1, <2>2, <2>3, <2>4 DEF Step
<1> QED
  BY <1>1, <1>2, <1>4, <1>5 DEF Next

(* Of runs that do not overlap, any of which may be killed at any step or  *)
(* fail at any step, none leaves anything but a whole export under the     *)
(* real name.                                                              *)
THEOREM OutIsWhole == ~ Overlap /\ Spec => []OutWhole
<1>1. OutInv => OutWhole
  BY DEF OutInv
<1>2. CASE Overlap
  BY <1>2
<1>3. CASE ~ Overlap
  <2>1. OutInv /\ [Next]_vars => OutInv'
    BY <1>3, OutStep
  <2> QED
    BY OutInit, <2>1, <1>1, PTL DEF Spec
<1> QED
  BY <1>2, <1>3

-----------------------------------------------------------------------------
(* ExitTellsStatus: what is sealed is the run's status and stays so (flaws *)
(* are found before the seal), a run past its rename is in published, and a *)
(* run on its way out has the code its last word goes with.                *)
Told ==
    \A r \in Runs :
      /\ pc[r] \in {"publish", "report"} => db[r].seal = StatusOf(r)
      /\ pc[r] = "report" => r \in published
      /\ r \in published => pc[r] \in {"report"} \cup Ended
      /\ pc[r] = "unwind" => code[r] = ExitCode.failed

ExitInv == TypeInv /\ Told /\ ExitTellsStatus

LEMMA ExitInit == Init => ExitInv
  BY TypeInit DEF Init, ExitInv, Told, ExitTellsStatus

LEMMA ExitStep == ExitInv /\ [Next]_vars => ExitInv'
<1> SUFFICES ASSUME ExitInv, [Next]_vars PROVE (Told /\ ExitTellsStatus)'
  BY TypeStep DEF ExitInv
<1> TypeOK /\ Told /\ ExitTellsStatus
  BY DEF ExitInv, TypeInv
<1> DEFINE Part(q) ==
      /\ /\ pc[q] \in {"publish", "report"} => db[q].seal = StatusOf(q)
         /\ pc[q] = "report" => q \in published
         /\ q \in published => pc[q] \in {"report"} \cup Ended
         /\ pc[q] = "unwind" => code[q] = ExitCode.failed
      /\ pc[q] = "exited" =>
           IF q \in published THEN Sealed(q) /\ code[q] = ExitCode[db[q].seal]
           ELSE code[q] \in {ExitCode.failed, ExitCode.bad_input}
<1> SUFFICES \A q \in Runs : Part(q)'
  BY DEF Told, ExitTellsStatus
<1>0. \A q \in Runs : Part(q)
  BY DEF Told, ExitTellsStatus
\* A step of one run leaves what is told of another.
<1>1. ASSUME NEW q \in Runs, pc'[q] = pc[q], db'[q] = db[q],
             flaws'[q] = flaws[q], code'[q] = code[q],
             q \in published' <=> q \in published
      PROVE  Part(q)'
  BY <1>0, <1>1 DEF StatusOf, Sealed
<1>2. CASE UNCHANGED vars
  BY <1>1, <1>2 DEF vars
<1>3. ASSUME NEW r \in Runs, Start(r) \/ Step(r) \/ Crash(r),
             NEW q \in Runs \ {r}
      PROVE  Part(q)'
  <2>1. /\ pc'[q] = pc[q] /\ db'[q] = db[q]
        /\ flaws'[q] = flaws[q] /\ code'[q] = code[q]
        /\ q \in published' <=> q \in published
    BY <1>3 DEF Start, Crash, Step, OpenLog, RefuseInput, Elaborate,
                CreateTemp, WriteBatch, Extracted, Build, Seal, Publish,
                PublishFails, Unwind, ReportDone, Throw, Caught, Finished,
                Go, TypeOK
  <2> QED
    BY <1>1, <2>1
<1>4. ASSUME NEW r \in Runs, Start(r) \/ Step(r) \/ Crash(r) PROVE Part(r)'
  <2> USE <1>0 DEF Go, Sealed
  <2>1. CASE Start(r)
    BY <2>1 DEF Start, TypeOK, Ended
  <2>2. CASE Crash(r)
    BY <2>2 DEF Crash, TypeOK, Ended, Stages
  <2>3. CASE OpenLog(r)
    BY <2>3 DEF OpenLog, TypeOK, Ended
  <2>4. CASE RefuseInput(r)
    BY <2>4 DEF RefuseInput, Finished, TypeOK, Ended
  <2>5. CASE Elaborate(r) \/ CreateTemp(r) \/ WriteBatch(r) \/ Extracted(r)
               \/ Build(r)
    <3>1. pc'[r] \in {"create", "rows", "build", "seal"} /\ r \notin published'
      BY <2>5 DEF Elaborate, CreateTemp, WriteBatch, Extracted, Build, TypeOK,
                  Ended
    <3> QED
      BY <3>1
  <2>6. CASE Seal(r)
    BY <2>6 DEF Seal, TypeOK, Ended, StatusOf
  <2>7. CASE Publish(r)
    BY <2>7 DEF Publish, TypeOK, StatusOf
  <2>8. CASE PublishFails(r)
    BY <2>8 DEF PublishFails, Finished, TypeOK, Ended
  <2>9. CASE Unwind(r)
    BY <2>9 DEF Unwind, TypeOK, Ended
  <2>10. CASE ReportDone(r)
    BY <2>10, StatusType DEF ReportDone, Finished, TypeOK, Ended, Status
  <2>11. CASE Throw(r)
    BY <2>11 DEF Throw, Guarded, TypeOK, Ended
  <2>12. CASE Caught(r)
    BY <2>12 DEF Caught, Finished, TypeOK, Ended
  <2> QED
    BY <1>4, <2>1, <2>2, <2>3, <2>4, <2>5, <2>6, <2>7, <2>8, <2>9, <2>10,
       <2>11, <2>12 DEF Step
<1> QED
  BY <1>2, <1>3, <1>4 DEF Next

(* The exit code of a run that ended by itself is the word of the seal it  *)
(* renamed into place, or says that it put nothing in place.               *)
THEOREM ExitCodeTells == Spec => []ExitTellsStatus
<1>1. ExitInv => ExitTellsStatus
  BY DEF ExitInv
<1> QED
  BY ExitInit, ExitStep, <1>1, PTL DEF Spec

-----------------------------------------------------------------------------
(* NoStrayTemp: the temp name stands for a file whose run is writing it, is *)
(* on its way through the guard, was killed, or could not remove it; and a  *)
(* run that could not is on its way to the exit code of a failure.          *)
Holding == (Guarded \ {"create"}) \cup {"unwind", "dead"}

TempHeld ==
    /\ tmp \in Runs => tmp \in kept \/ pc[tmp] \in Holding
    /\ \A r \in kept : /\ pc[r] \in {"caught"} \cup Ended
                       /\ pc[r] = "exited" => code[r] = ExitCode.failed

TempInv == ExitInv /\ TempHeld

LEMMA TempInit == Init => TempInv
  BY ExitInit, RunsAssumption DEF Init, TempInv, TempHeld

LEMMA TempStep == TempInv /\ [Next]_vars => TempInv'
<1> SUFFICES ASSUME TempInv, [Next]_vars PROVE TempHeld'
  BY ExitStep DEF TempInv
<1> TypeOK /\ TempHeld /\ Told
  BY DEF TempInv, ExitInv, TypeInv
<1> USE DEF Go
<1>1. CASE UNCHANGED vars
  BY <1>1 DEF vars, TempHeld
\* A run that has the name and keeps it; or one that has it not and gets none.
<1>2. ASSUME NEW r \in Runs, NEW s \in Stages \cup Ended,
             pc' = [pc EXCEPT ![r] = s], tmp' = tmp, kept' = kept,
             \A q \in Runs \ {r} : code'[q] = code[q],
             pc[r] \notin {"caught"} \cup Ended,
             pc[r] \notin Holding \/ s \in Holding
      PROVE  TempHeld'
  <2>1. r \notin kept
    BY <1>2 DEF TempHeld
  <2>2. \A q \in kept : q \in Runs \ {r} /\ pc'[q] = pc[q] /\ code'[q] = code[q]
    BY <1>2, <2>1 DEF TypeOK
  <2>3. tmp \in Runs => tmp \in kept \/ pc'[tmp] \in Holding
    BY <1>2 DEF TempHeld, TypeOK
  <2> QED
    BY <1>2, <2>2, <2>3 DEF TempHeld, Holding
\* The guard goes out of scope: the run is on its way to a failure's code.
<1>3. ASSUME NEW r \in Runs, NEW s \in {"caught", "exited"},
             pc' = [pc EXCEPT ![r] = s], code' = code, Release(r),
             pc[r] \notin {"caught"} \cup Ended,
             s = "exited" => code[r] = ExitCode.failed
      PROVE  TempHeld'
  <2>1. r \notin kept
    BY <1>3 DEF TempHeld
  <2>2. \A q \in kept : q \in Runs \ {r} /\ pc'[q] = pc[q] /\ code'[q] = code[q]
    BY <1>3, <2>1 DEF TypeOK
  <2>3. pc'[r] = s /\ code'[r] = code[r]
    BY <1>3 DEF TypeOK
  <2>4. CASE tmp' = None /\ UNCHANGED kept
    BY <2>2, <2>4, RunsAssumption DEF TempHeld, Holding
  <2>5. CASE kept' = kept \cup {r} /\ UNCHANGED tmp
    <3>1. \A q \in kept' : /\ pc'[q] \in {"caught"} \cup Ended
                           /\ pc'[q] = "exited" => code'[q] = ExitCode.failed
      BY <1>3, <2>2, <2>3, <2>5 DEF TempHeld, Ended
    <3>2. tmp \in Runs => tmp \in kept' \/ pc'[tmp] \in Holding
      BY <1>3, <2>5 DEF TempHeld, TypeOK
    <3> QED
      BY <2>5, <3>1, <3>2 DEF TempHeld
  <2> QED
    BY <1>3, <2>4, <2>5 DEF Release
<1>4. ASSUME NEW r \in Runs, Start(r) PROVE TempHeld'
  <2>1. PICK s \in {"log", "input", "exited"} : pc' = [pc EXCEPT ![r] = s]
    BY <1>4 DEF Start
  <2>2. /\ tmp' = tmp /\ kept' = kept /\ pc[r] = "idle"
        /\ \A q \in Runs \ {r} : code'[q] = code[q]
    BY <1>4 DEF Start, TypeOK
  <2> QED
    BY <1>2, <2>1, <2>2 DEF Stages, Guarded, Ended, Holding
<1>5. ASSUME NEW r \in Runs, Crash(r) PROVE TempHeld'
  <2>1. /\ pc' = [pc EXCEPT ![r] = "dead"]
        /\ UNCHANGED <<tmp, kept, code>>
    BY <1>5 DEF Crash
  <2> QED
    BY <2>1 DEF TempHeld, Holding, Ended, TypeOK
<1>6. ASSUME NEW r \in Runs, Step(r) PROVE TempHeld'
  <2>1. CASE OpenLog(r) \/ RefuseInput(r) \/ Elaborate(r) \/ ReportDone(r)
    <3>1. PICK s \in {"input", "exited", "create"} :
            pc' = [pc EXCEPT ![r] = s]
      BY <2>1 DEF OpenLog, RefuseInput, Elaborate, ReportDone
    <3>2. /\ tmp' = tmp /\ kept' = kept
          /\ pc[r] \in {"log", "input", "report"}
          /\ \A q \in Runs \ {r} : code'[q] = code[q]
      BY <2>1 DEF OpenLog, RefuseInput, Elaborate, ReportDone, Finished, TypeOK
    <3> QED
      BY <1>2, <3>1, <3>2 DEF Stages, Guarded, Ended, Holding
  <2>2. CASE Extracted(r) \/ Build(r) \/ Seal(r) \/ PublishFails(r)
    <3>1. PICK s \in {"build", "seal", "publish", "unwind"} :
            pc' = [pc EXCEPT ![r] = s]
      BY <2>2 DEF Extracted, Build, Seal, PublishFails
    <3>2. /\ tmp' = tmp /\ kept' = kept
          /\ pc[r] \in {"rows", "build", "seal", "publish"}
          /\ \A q \in Runs \ {r} : code'[q] = code[q]
      BY <2>2 DEF Extracted, Build, Seal, PublishFails, Finished, TypeOK
    <3> QED
      BY <1>2, <3>1, <3>2 DEF Stages, Guarded, Ended, Holding
  <2>3. CASE WriteBatch(r)
    BY <2>3 DEF WriteBatch, TempHeld
  <2>4. CASE CreateTemp(r)
    <3>1. /\ tmp' = r /\ pc' = [pc EXCEPT ![r] = "rows"]
          /\ UNCHANGED <<kept, code>> /\ pc[r] = "create"
      BY <2>4 DEF CreateTemp
    <3>2. r \notin kept
      BY <3>1 DEF TempHeld, Ended
    <3> QED
      BY <3>1, <3>2 DEF TempHeld, TypeOK, Guarded, Holding
  <2>5. CASE Publish(r)
    <3>1. /\ tmp' = None /\ pc' = [pc EXCEPT ![r] = "report"]
          /\ UNCHANGED <<kept, code>> /\ pc[r] = "publish"
      BY <2>5 DEF Publish
    <3>2. r \notin kept
      BY <3>1 DEF TempHeld, Ended
    <3> QED
      BY <3>1, <3>2, RunsAssumption DEF TempHeld, TypeOK
  <2>6. CASE Unwind(r)
    BY <1>3, <2>6 DEF Unwind, Told, Ended
  <2>7. CASE Throw(r)
    <3>1. CASE pc[r] \in Guarded
      BY <1>3, <2>7, <3>1 DEF Throw, Guarded, Ended
    <3>2. CASE pc[r] = "input"
      BY <1>2, <2>7, <3>2 DEF Throw, Stages, Guarded, Ended, Holding
    <3> QED
      BY <2>7, <3>1, <3>2 DEF Throw
  <2>8. CASE Caught(r)
    <3>1. /\ pc' = [pc EXCEPT ![r] = "exited"] /\ pc[r] = "caught"
          /\ code' = [code EXCEPT ![r] = ExitCode.failed]
          /\ UNCHANGED <<tmp, kept>>
      BY <2>8 DEF Caught, Finished
    <3>2. pc'[r] = "exited" /\ code'[r] = ExitCode.failed
      BY <3>1 DEF TypeOK
    <3>3. \A q \in Runs \ {r} : pc'[q] = pc[q] /\ code'[q] = code[q]
      BY <3>1 DEF TypeOK
    <3>4. kept \subseteq Runs /\ (tmp = r => r \in kept)
      BY <3>1 DEF TypeOK, TempHeld, Holding, Guarded
    <3> QED
      BY <3>1, <3>2, <3>3, <3>4 DEF TempHeld, Ended
  <2> QED
    BY <1>6, <2>1, <2>2, <2>3, <2>4, <2>5, <2>6, <2>7, <2>8 DEF Step
<1> QED
  BY <1>1, <1>4, <1>5, <1>6 DEF Next

(* A run that ends by itself, by whatever way out of main, has taken its    *)
(* temp away or tells its caller that it failed, the removal of the temp    *)
(* included -- even while other runs use the same name.                     *)
THEOREM TempIsTaken == Spec => []NoStrayTemp
<1>1. TempInv => NoStrayTemp
  BY DEF TempInv, TempHeld, NoStrayTemp, Guarded, Holding, ExitInv, TypeInv,
         TypeOK
<1> QED
  BY TempInit, TempStep, <1>1, PTL DEF Spec

-----------------------------------------------------------------------------
(* LogTruth: a run that has had its last word in the log does nothing more  *)
(* to a database than let its guard go.                                     *)
LogSaid ==
    log.says # "nothing" =>
      log.by \in Runs /\ pc[log.by] \in {"unwind"} \cup Ended

LogInv == ExitInv /\ LogSaid /\ LogTruth

LEMMA LogInit == Init => LogInv
  BY ExitInit DEF Init, LogInv, LogSaid, LogTruth, Status

LEMMA LogStep == LogInv /\ [Next]_vars => LogInv'
<1> SUFFICES ASSUME LogInv, [Next]_vars PROVE (LogSaid /\ LogTruth)'
  BY ExitStep DEF LogInv
<1> TypeOK /\ Told /\ LogSaid /\ LogTruth
  BY DEF LogInv, ExitInv, TypeInv
<1>0. "nothing" \notin Status /\ "no_database" \notin Status
  BY DEF Status
<1> USE DEF Go
<1>1. CASE UNCHANGED vars
  BY <1>1 DEF vars, LogSaid, LogTruth
\* The log stays as it is.
<1>2. ASSUME NEW r \in Runs, NEW s \in Stages \cup Ended,
             pc' = [pc EXCEPT ![r] = s], log' = log,
             pc[r] \in {"unwind"} \cup Ended => s \in {"unwind"} \cup Ended,
             \A q \in Runs : pc[q] \in {"unwind"} \cup Ended =>
               /\ db'[q].seal = db[q].seal
               /\ q \in published' <=> q \in published
      PROVE  (LogSaid /\ LogTruth)'
  <2>1. LogSaid'
    BY <1>2 DEF LogSaid, TypeOK
  <2>2. CASE log.says = "nothing"
    <3>1. log'.says \notin Status /\ log'.says # "no_database"
      BY <1>0, <1>2, <2>2
    <3> QED
      BY <2>1, <3>1 DEF LogTruth
  <2>3. CASE log.says # "nothing"
    BY <1>2, <2>1, <2>3 DEF LogTruth, LogSaid
  <2> QED
    BY <2>1, <2>2, <2>3
\* The run has its last word.
<1>3. ASSUME NEW r \in Runs, NEW s \in {"unwind", "exited"},
             pc' = [pc EXCEPT ![r] = s], NEW says \in Says \ {"nothing"},
             log' = IF logging[r] THEN [by |-> r, says |-> says] ELSE log,
             db' = db, published' = published,
             says \in Status => r \in published /\ says = db[r].seal,
             says = "no_database" => r \notin published
      PROVE  (LogSaid /\ LogTruth)'
  <2>1. CASE logging[r]
    <3>1. log'.by = r /\ log'.says = says
      BY <1>3, <2>1
    <3>2. pc'[r] \in {"unwind"} \cup Ended
      BY <1>3 DEF TypeOK, Ended
    <3> QED
      BY <1>3, <3>1, <3>2 DEF LogSaid, LogTruth
  <2>2. CASE ~ logging[r]
    BY <1>2, <1>3, <2>2 DEF Stages, Ended
  <2> QED
    BY <2>1, <2>2
<1>4. ASSUME NEW r \in Runs, Start(r) PROVE (LogSaid /\ LogTruth)'
  <2>1. PICK s \in {"log", "input", "exited"} : pc' = [pc EXCEPT ![r] = s]
    BY <1>4 DEF Start
  <2>2. pc[r] = "idle" /\ log' = log /\ db' = db /\ published' = published
    BY <1>4 DEF Start
  <2> QED
    BY <1>2, <2>1, <2>2 DEF Stages, Guarded, Ended
<1>5. ASSUME NEW r \in Runs, Crash(r) PROVE (LogSaid /\ LogTruth)'
  BY <1>2, <1>5 DEF Crash, Ended
<1>6. ASSUME NEW r \in Runs, Step(r) PROVE (LogSaid /\ LogTruth)'
  <2>1. CASE OpenLog(r)
    <3>1. CASE log' = [by |-> r, says |-> "nothing"]
      BY <1>0, <3>1 DEF LogSaid, LogTruth
    <3>2. CASE log' = log
      <4>1. PICK s \in {"input", "exited"} : pc' = [pc EXCEPT ![r] = s]
        BY <2>1 DEF OpenLog
      <4> QED
        BY <1>2, <2>1, <3>2, <4>1 DEF OpenLog, Stages, Ended
    <3> QED
      BY <2>1, <3>1, <3>2 DEF OpenLog
  <2>2. CASE RefuseInput(r) \/ Caught(r) \/ PublishFails(r)
    <3>1. /\ log' = IF logging[r] THEN [by |-> r, says |-> "no_database"]
                    ELSE log
          /\ db' = db /\ published' = published
      BY <2>2 DEF RefuseInput, Caught, PublishFails, Finished
    <3>2. PICK s \in {"unwind", "exited"} : pc' = [pc EXCEPT ![r] = s]
      BY <2>2 DEF RefuseInput, Caught, PublishFails
    <3>3. r \notin published
      BY <2>2 DEF RefuseInput, Caught, PublishFails, Told, Ended
    <3>4. "no_database" \in Says \ {"nothing"}
      BY DEF Says
    <3> QED
      BY <1>0, <1>3, <3>1, <3>2, <3>3, <3>4
  <2>3. CASE ReportDone(r)
    <3>1. /\ log' = IF logging[r] THEN [by |-> r, says |-> StatusOf(r)]
                    ELSE log
          /\ db' = db /\ published' = published
          /\ pc' = [pc EXCEPT ![r] = "exited"]
      BY <2>3 DEF ReportDone, Finished
    <3>2. r \in published /\ StatusOf(r) = db[r].seal
      BY <2>3 DEF ReportDone, Told
    <3>3. StatusOf(r) \in Says \ {"nothing"} /\ StatusOf(r) # "no_database"
      BY <1>0, StatusType DEF Says
    <3> QED
      BY <1>3, <3>1, <3>2, <3>3
  <2>4. CASE Elaborate(r) \/ Unwind(r) \/ Throw(r) \/ Extracted(r)
    <3>1. PICK s \in {"create", "exited", "caught", "build"} :
            /\ pc' = [pc EXCEPT ![r] = s]
            /\ pc[r] \in {"unwind"} \cup Ended => s = "exited"
      BY <2>4 DEF Elaborate, Unwind, Throw, Extracted, Guarded, Ended
    <3>2. log' = log /\ db' = db /\ published' = published
      BY <2>4 DEF Elaborate, Unwind, Throw, Extracted
    <3> QED
      BY <1>2, <3>1, <3>2 DEF Stages, Guarded, Ended
  <2>5. CASE CreateTemp(r) \/ WriteBatch(r) \/ Build(r) \/ Seal(r)
    <3>1. /\ pc[r] \notin {"unwind"} \cup Ended
          /\ log' = log /\ published' = published
          /\ \A q \in Runs \ {r} : db'[q] = db[q]
      BY <2>5 DEF CreateTemp, WriteBatch, Build, Seal, Ended, TypeOK
    <3>2. PICK s \in {"rows", "seal", "publish"} : pc' = [pc EXCEPT ![r] = s]
      BY <2>5 DEF CreateTemp, WriteBatch, Build, Seal, TypeOK
    <3> QED
      BY <1>2, <3>1, <3>2 DEF Stages, Guarded
  <2>6. CASE Publish(r)
    <3>1. /\ pc[r] \notin {"unwind"} \cup Ended
          /\ log' = log /\ db' = db /\ published' = published \cup {r}
          /\ pc' = [pc EXCEPT ![r] = "report"]
      BY <2>6 DEF Publish, Ended
    <3> QED
      BY <1>2, <3>1 DEF Stages
  <2> QED
    BY <1>6, <2>1, <2>2, <2>3, <2>4, <2>5, <2>6 DEF Step
<1> QED
  BY <1>1, <1>4, <1>5, <1>6 DEF Next

(* What the log last says of a database is that run's own status, and it    *)
(* says a database was not written only of a run that put none in place.    *)
THEOREM LogIsTrue == Spec => []LogTruth
<1>1. LogInv => LogTruth
  BY DEF LogInv
<1> QED
  BY LogInit, LogStep, <1>1, PTL DEF Spec

-----------------------------------------------------------------------------
(* Publishes: under the refinement mapping of Export a rename is Replace,  *)
(* the step that gives a run its exit code is Report, and every other step *)
(* stutters.  A run has no code before that step, and a killed one keeps   *)
(* the word it had given.                                                  *)
Silent ==
    \A r \in Runs :
      /\ pc[r] \notin {"unwind"} \cup Ended => code[r] = -1
      /\ pc[r] = "dead" => code[r] \in {-1, ExitCode.failed}

MapInv == OutInv /\ ExitInv /\ Silent

LEMMA SilentStep == TypeInv /\ Told /\ Silent /\ [Next]_vars => Silent'
<1> SUFFICES ASSUME TypeOK, Told, Silent, [Next]_vars PROVE Silent'
  BY DEF TypeInv
<1>1. CASE UNCHANGED vars
  BY <1>1 DEF vars, Silent
<1>2. ASSUME NEW r \in Runs, Start(r) \/ Step(r) \/ Crash(r) PROVE Silent'
  <2> USE DEF Silent, Go, TypeOK, Ended
  <2>1. CASE Start(r) \/ OpenLog(r)
    BY <2>1 DEF Start, OpenLog
  <2>2. CASE Crash(r)
    BY <2>2 DEF Crash, Told, Stages, Guarded
  <2>3. CASE RefuseInput(r) \/ PublishFails(r) \/ ReportDone(r) \/ Caught(r)
    BY <2>3 DEF RefuseInput, PublishFails, ReportDone, Caught, Finished
  <2>4. CASE Elaborate(r) \/ CreateTemp(r) \/ WriteBatch(r) \/ Extracted(r)
               \/ Build(r) \/ Seal(r) \/ Publish(r) \/ Throw(r)
    <3>1. /\ code' = code
          /\ pc[r] \notin {"unwind"} \cup Ended
      BY <2>4 DEF Elaborate, CreateTemp, WriteBatch, Extracted, Build, Seal,
                  Publish, Throw, Guarded
    <3>2. PICK s \in Stages \ {"unwind"} : pc' = [pc EXCEPT ![r] = s] \/ pc' = pc
      BY <2>4 DEF Elaborate, CreateTemp, WriteBatch, Extracted, Build, Seal,
                  Publish, Throw, Stages, Guarded
    <3> QED
      BY <3>1, <3>2 DEF Stages, Guarded
  <2>5. CASE Unwind(r)
    BY <2>5 DEF Unwind
  <2> QED
    BY <1>2, <2>1, <2>2, <2>3, <2>4, <2>5 DEF Step
<1> QED
  BY <1>1, <1>2 DEF Next

LEMMA MapInit == Init => MapInv /\ P!PInit
<1> SUFFICES ASSUME Init PROVE MapInv /\ P!PInit
  OBVIOUS
<1>1. MapInv
  BY OutInit, ExitInit DEF MapInv, Silent, Init
<1>2. P!PInit
  <2>1. out = None \/ Whole(out)
    BY DEF Init, Whole
  <2>2. \A r \in Runs : Word(r) = "silent"
    BY DEF Init, Word
  <2> QED
    BY <2>1, <2>2 DEF Init, P!PInit
<1> QED
  BY <1>1, <1>2

LEMMA MapStep ==
    ~ Overlap /\ MapInv /\ MapInv' /\ [Next]_vars => [P!PNext]_(P!pvars)
<1> SUFFICES ASSUME ~ Overlap, MapInv, MapInv', [Next]_vars
             PROVE  [P!PNext]_(P!pvars)
  OBVIOUS
<1> DEFINE visible == IF out = None \/ Whole(out) THEN out ELSE "partial"
           words == [r \in Runs |-> Word(r)]
<1>0. visible = out /\ visible' = out'
  BY DEF MapInv, OutInv, OutWhole
<1> TypeOK /\ Told /\ Silent /\ ExitTellsStatus
  BY DEF MapInv, ExitInv, TypeInv
<1> TypeOK' /\ Told' /\ Silent' /\ ExitTellsStatus'
  BY DEF MapInv, ExitInv, TypeInv
<1> HIDE DEF visible
\* Each kind of step, by what it does to the three variables of Publication.
<1>1. ASSUME \A r \in Runs : Word(r)' = Word(r), UNCHANGED <<out, published>>
      PROVE  UNCHANGED P!pvars
  BY <1>0, <1>1 DEF P!pvars, visible
<1>2. ASSUME NEW r \in Runs, Word(r) = "silent",
             Word(r)' = IF r \in published THEN "wrote" ELSE "nothing",
             \A q \in Runs \ {r} : Word(q)' = Word(q),
             UNCHANGED <<out, published>>
      PROVE  P!Report(r)
  <2>1. words' = [words EXCEPT ![r] = IF r \in published THEN "wrote"
                                      ELSE "nothing"]
    BY <1>2
  <2> QED
    BY <1>0, <1>2, <2>1 DEF P!Report, visible
<1>3. ASSUME NEW r \in Runs, Publish(r) PROVE P!Replace(r)
  <2>1. out' = r
    BY <1>3 DEF Publish, MapInv, OutInv, TempOwn, Guarded
  <2>2. \A q \in Runs : Word(q)' = Word(q)
    BY <1>3 DEF Publish, Go, TypeOK, Word
  <2>3. r \notin published /\ Word(r) = "silent"
    BY <1>3 DEF Publish, Told, Ended, Word
  <2>4. UNCHANGED words
    BY <2>2
  <2>5. published' = published \cup {r}
    BY <1>3 DEF Publish
  <2> QED
    BY <1>0, <2>1, <2>3, <2>4, <2>5 DEF P!Replace, visible
<1>4. ASSUME NEW r \in Runs, Start(r) \/ Step(r) \/ Crash(r)
      PROVE  \A q \in Runs \ {r} : Word(q)' = Word(q)
  <2>1. ASSUME NEW q \in Runs \ {r}
        PROVE  pc'[q] = pc[q] /\ code'[q] = code[q]
    BY <1>4 DEF Start, Crash, Step, OpenLog, RefuseInput, Elaborate,
                CreateTemp, WriteBatch, Extracted, Build, Seal, Publish,
                PublishFails, Unwind, ReportDone, Throw, Caught, Finished,
                Go, TypeOK
  <2> QED
    BY <2>1 DEF Word
\* A step that leaves the database in place: it gives the run its code, or
\* it leaves the code alone.
<1>5. ASSUME NEW r \in Runs, Start(r) \/ Step(r) \/ Crash(r), ~ Publish(r)
      PROVE  UNCHANGED P!pvars \/ P!Report(r)
  <2>1. UNCHANGED <<out, published>>
    BY <1>5 DEF Start, Crash, Step, OpenLog, RefuseInput, Elaborate,
                CreateTemp, WriteBatch, Extracted, Build, Seal,
                PublishFails, Unwind, ReportDone, Throw, Caught
  <2>2. CASE Word(r)' = Word(r)
    BY <1>1, <1>4, <1>5, <2>1, <2>2
  <2>3. CASE Word(r)' # Word(r)
    <3>0. ~ Crash(r)
      BY <2>3, CodeType DEF Crash, Go, TypeOK, Silent, Told, Word, Ended,
                            Stages, Guarded
    <3>1. Word(r) = "silent"
      <4>1. CASE Unwind(r)
        BY <2>3, <4>1 DEF Unwind, Go, TypeOK, Word
      <4>2. CASE ~ Unwind(r)
        <5>1. pc[r] \notin {"unwind"} \cup Ended
          BY <1>5, <3>0, <4>2 DEF Start, Step, OpenLog, RefuseInput,
                Elaborate, CreateTemp, WriteBatch, Extracted, Build, Seal,
                PublishFails, ReportDone, Throw, Caught, Guarded, Ended
        <5> QED
          BY <5>1 DEF Word, Ended
      <4> QED
        BY <4>1, <4>2
    <3>2. Word(r)' = IF r \in published THEN "wrote" ELSE "nothing"
      <4>1. pc'[r] # "dead"
        BY <1>5, <3>0 DEF Start, Step, OpenLog, RefuseInput, Elaborate,
              CreateTemp, WriteBatch, Extracted, Build, Seal, PublishFails,
              Unwind, ReportDone, Throw, Caught, Go, TypeOK
      <4>2. CASE pc'[r] = "unwind"
        BY <2>1, <4>2, CodeType DEF Told, Ended, Word
      <4>3. CASE pc'[r] = "exited"
        <5>1. db'[r].seal \in Status \cup {"none"}
          BY DEF TypeOK
        <5>2. CASE r \in published
          BY <2>1, <4>3, <5>1, <5>2, CodeType DEF ExitTellsStatus, Sealed, Word
        <5>3. CASE r \notin published
          BY <2>1, <4>3, <5>3 DEF ExitTellsStatus, Word
        <5> QED
          BY <5>2, <5>3
      <4> QED
        BY <2>3, <3>1, <4>1, <4>2, <4>3 DEF Word
    <3> QED
      BY <1>2, <1>4, <1>5, <2>1, <3>1, <3>2
  <2> QED
    BY <2>2, <2>3
<1>6. CASE UNCHANGED vars
  BY <1>1, <1>6 DEF vars, Word
<1> QED
  BY <1>3, <1>5, <1>6 DEF Next, P!PNext, Step

(* Runs that follow one another implement Publication: the real name shows *)
(* nothing or a whole export, a run replaces it at most once and in one    *)
(* step, and what it reports at its end is what it did.                    *)
THEOREM ExportPublishes == ~ Overlap /\ Spec => Publishes
<1>1. CASE Overlap
  BY <1>1
<1>2. CASE ~ Overlap
  <2>1. MapInv /\ [Next]_vars => MapInv'
    BY <1>2, OutStep, ExitStep, SilentStep DEF MapInv, ExitInv
  <2>2. MapInv /\ MapInv' /\ [Next]_vars => [P!PNext]_(P!pvars)
    BY <1>2, MapStep
  <2> QED
    BY MapInit, <2>1, <2>2, PTL DEF Spec, Publishes, P!PSpec
<1> QED
  BY <1>1, <1>2
=============================================================================
