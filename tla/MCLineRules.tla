----------------------------- MODULE MCLineRules -----------------------------
(***************************************************************************)
(* LineRules instantiated for TLC: the rule lists of each script and the  *)
(* line vocabularies that exercise them.                                   *)
(***************************************************************************)
EXTENDS LineRules

V2Only == {V2Rules}
JoinScripts == {AllHandlersRules, PluginErrRules}
SecRefsOnly == {SecRefsRules}

\* v2's targets between code, a for-clause line and blank lines.
V2Vocab == {"code", "semi", "blank", "imp", "fld", "audit", "call"}
\* An import block and a struct: fields between kept lines.
JoinVocab == {"code", "blank", "imp", "fld"}
\* A handler body: audit calls and cache assignments between statements.
ReachVocab == {"code", "semi", "audit", "assign"}
=============================================================================
