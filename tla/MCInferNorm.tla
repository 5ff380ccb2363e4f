----------------------------- MODULE MCInferNorm -----------------------------
(***************************************************************************)
(* InferNorm over the calls of MCZap.                                      *)
(***************************************************************************)
EXTENDS InferNorm, MCZap
=============================================================================
