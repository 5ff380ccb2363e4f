----------------------------- MODULE BlockScan ------------------------------
(***************************************************************************)
(* The brace-depth block stripper of the patch scripts: the line loop of   *)
(* remove_rate_limit_blocks / remove_cache_blocks (fix-all-handlers.py),   *)
(* the two block loops of fix-plugin-security-refs.py, and the combined    *)
(* rate-limit/cache loop of fix-handlers-v2.py.                            *)
(*                                                                         *)
(* The file is content.split('\n'): a sequence of lines.  A line is        *)
(* abstracted to what the loop reads of it: which guard test it passes     *)
(* (kind) and its braces.  o and c are the '{' and '}' that are code; lo   *)
(* and lc are the ones inside string literals, which line.count('{')      *)
(* counts as well.  new_lines is kept as the sequence of the indices of    *)
(* the kept lines (out), so that properties can say which line survived.  *)
(*                                                                         *)
(* A guard test placed before the `if skip` branch in the loop (all of    *)
(* them in the single-kind loops, the rate-limit test in fix-handlers-v2)  *)
(* has its kind in Early; one placed after it (the cache test of          *)
(* fix-handlers-v2) has its kind in Late.                                  *)
(***************************************************************************)
EXTENDS Integers, Sequences, Functions

CONSTANTS
  Lines,   \* the lines a file may contain
  Early,   \* kinds whose opening test runs before the `if skip` branch
  Late,    \* kinds whose opening test runs only when not skipping
  MaxLen   \* the longest file considered

LineRec == [kind : STRING, o : Nat, c : Nat, lo : Nat, lc : Nat]

ASSUME LinesAssumption == Lines \subseteq LineRec
ASSUME KindsAssumption == Early \subseteq STRING /\ Late \subseteq STRING
ASSUME MaxLenAssumption == MaxLen \in Nat

\* Every file of at most MaxLen lines over Lines.
Docs == UNION {[1..n -> Lines] : n \in 0..MaxLen}

VARIABLES
  doc,    \* lines = content.split('\n')
  i,      \* index of the line the for loop looks at next
  skip,   \* skip_rate_limit / skip_cache / skip
  brace,  \* brace_count
  out     \* new_lines, as indices into doc

vars == <<doc, i, skip, brace, out>>

\* line.count('{') - line.count('}'): literal braces are counted too.
Delta(l) == (l.o + l.lo) - (l.c + l.lc)

line == doc[i]

Init ==
  /\ doc \in Docs
  /\ i = 1
  /\ skip = FALSE
  /\ brace = 0
  /\ out = << >>

(***************************************************************************)
(* One iteration of the loop per action.                                   *)
(***************************************************************************)

\* An Early guard test matches: start skipping, whatever `skip` is.
Open ==
  /\ i <= Len(doc)
  /\ line.kind \in Early
  /\ skip' = TRUE
  /\ brace' = Delta(line)
  /\ i' = i + 1
  /\ UNCHANGED <<doc, out>>

\* Variant: the depth test written brace_count < 0 instead of <= 0.
EraseStopBelowZero ==
  /\ i <= Len(doc)
  /\ line.kind \notin Early
  /\ skip
  /\ brace' = brace + Delta(line)
  /\ skip' = (brace' >= 0)
  /\ i' = i + 1
  /\ UNCHANGED <<doc, out>>

\* Inside a block: drop the line, stop skipping once the depth is <= 0.
Erase ==
  /\ i <= Len(doc)
  /\ line.kind \notin Early
  /\ skip
  /\ brace' = brace + Delta(line)
  /\ skip' = (brace' > 0)
  /\ i' = i + 1
  /\ UNCHANGED <<doc, out>>

\* Variant: the Late test placed before the skip branch as well.
OpenLateWhileSkipping ==
  /\ i <= Len(doc)
  /\ line.kind \notin Early
  /\ line.kind \in Late
  /\ skip' = TRUE
  /\ brace' = Delta(line)
  /\ i' = i + 1
  /\ UNCHANGED <<doc, out>>

\* A Late guard test (checked after the skip branch) matches.
OpenLate ==
  /\ i <= Len(doc)
  /\ line.kind \notin Early
  /\ ~skip
  /\ line.kind \in Late
  /\ skip' = TRUE
  /\ brace' = Delta(line)
  /\ i' = i + 1
  /\ UNCHANGED <<doc, out>>

\* Variant: the line after the current one is appended.
KeepNextIndex ==
  /\ i <= Len(doc)
  /\ line.kind \notin Early \cup Late
  /\ ~skip
  /\ out' = Append(out, i + 1)
  /\ i' = i + 1
  /\ UNCHANGED <<doc, skip, brace>>

\* new_lines.append(line)
Keep ==
  /\ i <= Len(doc)
  /\ line.kind \notin Early \cup Late
  /\ ~skip
  /\ out' = Append(out, i)
  /\ i' = i + 1
  /\ UNCHANGED <<doc, skip, brace>>

Next == Open \/ Erase \/ OpenLate \/ Keep

Spec == Init /\ [][Next]_vars

\* Type invariant.
TypeOK ==
  /\ doc \in Seq(Lines)
  /\ i \in 1..(Len(doc) + 1)
  /\ skip \in BOOLEAN
  /\ brace \in Int
  /\ out \in Seq(1..Len(doc))
=============================================================================
