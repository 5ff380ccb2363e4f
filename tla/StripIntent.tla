---------------------------- MODULE StripIntent -----------------------------
(***************************************************************************)
(* What the block stripper promises (spec.md, 4.1 and 8): scanning the    *)
(* lines once, top to bottom, it deletes each block whose opening line     *)
(* satisfies the predicate, from that line through its matching close,     *)
(* and emits every other line unchanged and in order.                      *)
(*                                                                         *)
(*  - the predicate is evaluated only while not erasing, so blocks of the  *)
(*    same kind nested in a deleted block are consumed by the depth count; *)
(*  - depth counts the braces of the code; braces inside string literals   *)
(*    are not block delimiters;                                           *)
(*  - an opening line whose own braces balance (a one-line block) is       *)
(*    removed alone and scanning resumes at the next line;                 *)
(*  - erasing still on at end of input drops the remaining lines.          *)
(***************************************************************************)
EXTENDS Integers, Sequences

CONSTANTS Lines, Preds, MaxLen

Docs == UNION {[1..n -> Lines] : n \in 0..MaxLen}

VARIABLES doc, i, erasing, depth, out

ivars == <<doc, i, erasing, depth, out>>

\* The brace balance of the code on a line.
RealDelta(l) == l.o - l.c

Init ==
  /\ doc \in Docs
  /\ i = 1
  /\ erasing = FALSE
  /\ depth = 0
  /\ out = << >>

\* An opening line: removed; erasing continues only if it leaves a block open.
Begin ==
  /\ i <= Len(doc)
  /\ ~erasing
  /\ doc[i].kind \in Preds
  /\ depth' = RealDelta(doc[i])
  /\ erasing' = (depth' > 0)
  /\ i' = i + 1
  /\ UNCHANGED <<doc, out>>

\* A line inside the block being deleted.
Consume ==
  /\ i <= Len(doc)
  /\ erasing
  /\ depth' = depth + RealDelta(doc[i])
  /\ erasing' = (depth' > 0)
  /\ i' = i + 1
  /\ UNCHANGED <<doc, out>>

\* Any other line is emitted.
Pass ==
  /\ i <= Len(doc)
  /\ ~erasing
  /\ doc[i].kind \notin Preds
  /\ out' = Append(out, i)
  /\ i' = i + 1
  /\ UNCHANGED <<doc, erasing, depth>>

Next == Begin \/ Consume \/ Pass

Spec == Init /\ [][Next]_ivars

TypeOK ==
  /\ doc \in Seq(Lines)
  /\ i \in 1..(Len(doc) + 1)
  /\ erasing \in BOOLEAN
  /\ depth \in Int
  /\ out \in Seq(1..Len(doc))
=============================================================================
