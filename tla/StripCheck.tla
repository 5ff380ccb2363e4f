----------------------------- MODULE StripCheck -----------------------------
(***************************************************************************)
(* The block stripper of the scripts (BlockScan) run in lockstep with the  *)
(* stripper the spec describes (StripIntent) over the same file: each step *)
(* is one iteration of both loops on the same line.  The intended scan     *)
(* treats every guard kind of the loop, Early or Late, as its predicate.   *)
(***************************************************************************)
EXTENDS BlockScan

VARIABLES
  erasing,  \* the intended scan is inside a block
  depth,    \* its depth, counting code braces only
  iout      \* the lines it keeps

Intent == INSTANCE StripIntent WITH out <- iout, Preds <- Early \cup Late

cvars == <<doc, i, skip, brace, out, erasing, depth, iout>>

CInit == Init /\ Intent!Init

CNext == Next /\ Intent!Next

CSpec == CInit /\ [][CNext]_cvars

CTypeOK == TypeOK /\ Intent!TypeOK

(***************************************************************************)
(* The inputs on which the stripper is meant to be safe.                   *)
(*                                                                         *)
(* LiteralsNeverOpen: string literals on a line never hold more '{' than   *)
(* '}', so line.count's balance never exceeds the code's.                  *)
(* GuardsOpen: a guard line opens its block and leaves it open, as gofmt   *)
(* lays out every `if ... {` whose body is not empty.                      *)
(***************************************************************************)
LiteralsNeverOpen == \A l \in Lines : Delta(l) <= Intent!RealDelta(l)

GuardsOpen == \A l \in Lines : l.kind \in Early \cup Late => Intent!RealDelta(l) >= 1

(***************************************************************************)
(* NoOverErase: every line the intended stripper keeps, the script keeps:  *)
(* the brace counting of the loop never deletes a line that lies outside   *)
(* every guard block.  Deleting code outside the guard silently changes    *)
(* the program being patched; this is what the depth test brace_count <= 0 *)
(* and the initial brace_count of the opening line must get right.         *)
(***************************************************************************)
NoOverErase == Range(iout) \subseteq Range(out)

(***************************************************************************)
(* The inductive strengthening of NoOverErase: while the script skips, the *)
(* intended scan is erasing too, at a depth no smaller than brace_count.   *)
(***************************************************************************)
IInv ==
  /\ CTypeOK
  /\ skip => erasing /\ depth >= brace
  /\ erasing => depth > 0
  /\ NoOverErase
=============================================================================
