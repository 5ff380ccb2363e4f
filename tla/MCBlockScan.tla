---------------------------- MODULE MCBlockScan -----------------------------
(***************************************************************************)
(* BlockScan checked against the intended stripper by refinement: with     *)
(* skip as `erasing` and brace_count as `depth`, every iteration of the    *)
(* script's loop must be a step of StripIntent.                            *)
(***************************************************************************)
EXTENDS BlockScan, MCLines

Intended == INSTANCE StripIntent
              WITH erasing <- skip, depth <- brace, Preds <- Early \cup Late

(***************************************************************************)
(* IntentSpec: the script's loop removes exactly the guard blocks, from    *)
(* the opening line through its matching close, keeps every other line,    *)
(* and consumes any guard nested in a removed block as part of it.         *)
(***************************************************************************)
IntentSpec == Intended!Spec

\* The code brace balance of the lines from..to of d.
Balance(d, from, to) ==
  LET b[k \in from - 1..to] == IF k < from THEN 0
                              ELSE b[k - 1] + Intended!RealDelta(d[k])
  IN b[to]

(***************************************************************************)
(* Files in which no Early guard line lies inside the block of an earlier  *)
(* guard: the shape of the streamgate handlers, where a rate-limit check   *)
(* never sits inside another guard block.                                  *)
(***************************************************************************)
NoNestedGuard(d) ==
  \A o, j \in DOMAIN d :
    (/\ o < j
     /\ d[o].kind \in Early \cup Late
     /\ d[j].kind \in Early)
      => \E m \in o..(j - 1) : Balance(d, o, m) <= 0

InitNoNested == Init /\ NoNestedGuard(doc)
=============================================================================
