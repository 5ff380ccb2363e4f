----------------------------- MODULE ParenScan ------------------------------
(***************************************************************************)
(* The loop of fix-plugin-security-refs.py that drops multi-line           *)
(* h.auditLogger.LogEvent(...) calls by counting parentheses.              *)
(*                                                                         *)
(* A line is the same record as in BlockScan, read for its parentheses:    *)
(* kind says whether re.search(r'[hp]\.auditLogger\.LogEvent\(', line)     *)
(* matches (a kind in Calls), o and c are the '(' and ')' of the code, lo  *)
(* and lc those inside string literals, which line.count counts too.       *)
(***************************************************************************)
EXTENDS Integers, Sequences, Functions

CONSTANTS
  Lines,   \* the lines a file may contain
  Calls,   \* kinds of the lines the LogEvent( search matches
  MaxLen   \* the longest file considered

LineRec == [kind : STRING, o : Nat, c : Nat, lo : Nat, lc : Nat]

ASSUME PLinesAssumption == Lines \subseteq LineRec
ASSUME CallsAssumption == Calls \subseteq STRING
ASSUME PMaxLenAssumption == MaxLen \in Nat

Docs == UNION {[1..n -> Lines] : n \in 0..MaxLen}

VARIABLES
  doc,   \* lines = content.split('\n')
  i,     \* index of the line the for loop looks at next
  sp,    \* skip_until_paren
  out    \* new_lines, as indices into doc

pvars == <<doc, i, sp, out>>

\* line.count('(') - line.count(')')
PDelta(l) == (l.o + l.lo) - (l.c + l.lc)

\* if skip_until_paren <= 0: skip_until_paren = 0
Clamp(n) == IF n <= 0 THEN 0 ELSE n

PInit ==
  /\ doc \in Docs
  /\ i = 1
  /\ sp = 0
  /\ out = << >>

\* Variant: the two counts swapped, line.count(')') - line.count('(').
SkipSwappedCount ==
  /\ i <= Len(doc)
  /\ sp > 0
  /\ sp' = Clamp(sp - PDelta(doc[i]))
  /\ i' = i + 1
  /\ UNCHANGED <<doc, out>>

\* Inside a call: drop the line and update the count.
Skip ==
  /\ i <= Len(doc)
  /\ sp > 0
  /\ sp' = Clamp(sp + PDelta(doc[i]))
  /\ i' = i + 1
  /\ UNCHANGED <<doc, out>>

\* A LogEvent( line: drop it and start counting from 1 plus its balance.
Start ==
  /\ i <= Len(doc)
  /\ sp = 0
  /\ doc[i].kind \in Calls
  /\ sp' = Clamp(1 + PDelta(doc[i]))
  /\ i' = i + 1
  /\ UNCHANGED <<doc, out>>

\* new_lines.append(line)
Pass ==
  /\ i <= Len(doc)
  /\ sp = 0
  /\ doc[i].kind \notin Calls
  /\ out' = Append(out, i)
  /\ i' = i + 1
  /\ UNCHANGED <<doc, sp>>

PNext == Skip \/ Start \/ Pass

PSpec == PInit /\ [][PNext]_pvars

\* Type invariant: the count is never negative.
PTypeOK ==
  /\ doc \in Seq(Lines)
  /\ i \in 1..(Len(doc) + 1)
  /\ sp \in Nat
  /\ out \in Seq(1..Len(doc))
=============================================================================
