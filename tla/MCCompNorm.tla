----------------------------- MODULE MCCompNorm ------------------------------
(***************************************************************************)
(* CompNorm over the calls of MCZap.                                       *)
(***************************************************************************)
EXTENDS CompNorm, MCZap
=============================================================================
