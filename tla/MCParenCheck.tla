---------------------------- MODULE MCParenCheck ----------------------------
(***************************************************************************)
(* ParenCheck instantiated for TLC over the vocabularies of MCLines.       *)
(***************************************************************************)
EXTENDS ParenCheck, MCLines
=============================================================================
