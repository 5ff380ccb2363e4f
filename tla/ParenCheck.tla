----------------------------- MODULE ParenCheck -----------------------------
(***************************************************************************)
(* The audit-logger loop of fix-plugin-security-refs.py (ParenScan) run in *)
(* lockstep with the intended call stripper over the same file.  The       *)
(* intended stripper is StripIntent read for parentheses: a LogEvent( line *)
(* is removed with the lines that follow it until the parentheses the call *)
(* opened are closed, counting the parentheses of the code only.           *)
(***************************************************************************)
EXTENDS ParenScan

VARIABLES
  erasing,  \* the intended scan is inside a call
  depth,    \* its count of open parentheses of the call
  iout      \* the lines it keeps

Intent == INSTANCE StripIntent WITH out <- iout, Preds <- Calls

qvars == <<doc, i, sp, out, erasing, depth, iout>>

QInit == PInit /\ Intent!Init

QNext == PNext /\ Intent!Next

QSpec == QInit /\ [][QNext]_qvars

\* The types of both loops' variables, which the proofs carry along.
QTypeOK == PTypeOK /\ Intent!TypeOK

(***************************************************************************)
(* LiteralsNeverClose: string literals on a line never hold more ')' than  *)
(* '(', so line.count's balance is never below the code's.                 *)
(***************************************************************************)
LiteralsNeverClose == \A l \in Lines : PDelta(l) >= Intent!RealDelta(l)

(***************************************************************************)
(* NoLeftovers: every line the script keeps, the intended stripper keeps:  *)
(* the loop never leaves a line of a LogEvent call behind, which would     *)
(* leave a dangling fragment of the call in the patched Go file.           *)
(***************************************************************************)
NoLeftovers == Range(out) \subseteq Range(iout)

(***************************************************************************)
(* NoOverErase: every line the intended stripper keeps, the script keeps:  *)
(* the loop stops skipping when the call's parentheses are closed.         *)
(***************************************************************************)
NoOverErase == Range(iout) \subseteq Range(out)

(***************************************************************************)
(* The inductive strengthening of NoLeftovers: while the intended scan is  *)
(* inside a call, its depth is positive and skip_until_paren is above it,  *)
(* so the loop skips too.                                                  *)
(***************************************************************************)
QInv ==
  /\ QTypeOK
  /\ erasing => depth > 0 /\ sp >= depth + 1
  /\ NoLeftovers
=============================================================================
