---------------------------- MODULE Publication ----------------------------
(***************************************************************************)
(* What an export promises a reader of the database's real name            *)
(* (src/src/main.cpp, the comments over publish() and finished()): the     *)
(* name holds nothing, or one whole export; a run replaces it at most once *)
(* and in one step; and what a run reports at its end -- a database or     *)
(* none -- is what it did.                                                 *)
(***************************************************************************)
CONSTANTS Runs, None, Prior

VARIABLES
    visible,    \* the export under the real name, or None
    replaced,   \* the runs that have replaced it
    report      \* per run: "silent", "wrote" or "nothing"

pvars == <<visible, replaced, report>>

PInit ==
    /\ visible \in {None, Prior}
    /\ replaced = {}
    /\ report = [r \in Runs |-> "silent"]

Replace(r) ==
    /\ report[r] = "silent" /\ r \notin replaced
    /\ visible' = r
    /\ replaced' = replaced \cup {r}
    /\ UNCHANGED report

Report(r) ==
    /\ report[r] = "silent"
    /\ report' = [report EXCEPT ![r] =
                    IF r \in replaced THEN "wrote" ELSE "nothing"]
    /\ UNCHANGED <<visible, replaced>>

PNext == \E r \in Runs : Replace(r) \/ Report(r)

PSpec == PInit /\ [][PNext]_pvars
=============================================================================
