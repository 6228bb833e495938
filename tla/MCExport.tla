------------------------------ MODULE MCExport ------------------------------
(***************************************************************************)
(* Two runs: the first may find nothing or an older export under the real  *)
(* name, and may publish, fail or be killed at any step; the second starts *)
(* from whatever it left, a temp and a log included.  All a run reads of   *)
(* what came before is those files, so a third would see nothing new.      *)
(***************************************************************************)
EXTENDS Export

CONSTANTS r1, r2

TwoRuns == {r1, r2}
=============================================================================
