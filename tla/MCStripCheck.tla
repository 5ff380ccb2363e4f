---------------------------- MODULE MCStripCheck ----------------------------
(***************************************************************************)
(* StripCheck instantiated for TLC over the vocabularies of MCLines, with  *)
(* the refinement of MCBlockScan checked in the same runs.                 *)
(***************************************************************************)
EXTENDS StripCheck, MCBlockScan

(***************************************************************************)
(* IntentOnUnnested: on every file in which no guard sits inside another   *)
(* guard's block, the script's loop is the intended stripper: its initial  *)
(* state is one of StripIntent's and each iteration is a StripIntent step  *)
(* (skip as erasing, brace_count as depth).  The file never changes during *)
(* a run, so this is IntentSpec for exactly the behaviours that start on   *)
(* such a file.                                                            *)
(***************************************************************************)
IntentOnUnnested ==
  /\ NoNestedGuard(doc) => Intended!Init
  /\ [][NoNestedGuard(doc) => [Intended!Next]_vars]_cvars
=============================================================================
