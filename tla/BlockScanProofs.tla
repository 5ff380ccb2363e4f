--------------------------- MODULE BlockScanProofs --------------------------
(***************************************************************************)
(* Proofs about the block-stripping loop of BlockScan.                     *)
(***************************************************************************)
EXTENDS BlockScan, TLAPS

\* A line of the file read at a valid index is a line record.
LEMMA LineType ==
  ASSUME NEW d \in Seq(Lines), NEW k \in 1..Len(d)
  PROVE  /\ d[k] \in LineRec
         /\ Delta(d[k]) \in Int
<1>1. d[k] \in LineRec
  BY LinesAssumption
<1>2. QED
  BY <1>1 DEF LineRec, Delta

\* Every file the loop may be given is a finite sequence of lines.
LEMMA DocsAreSeqs == Docs \subseteq Seq(Lines)
BY MaxLenAssumption DEF Docs

\* The loop starts in a well-typed state.
LEMMA InitType == Init => TypeOK
<1> SUFFICES ASSUME Init PROVE TypeOK
  OBVIOUS
<1>1. doc \in Seq(Lines)
  BY DocsAreSeqs DEF Init
<1>2. i \in 1..(Len(doc) + 1)
  BY <1>1 DEF Init
<1>3. skip \in BOOLEAN
  BY DEF Init
<1>4. brace \in Int
  BY DEF Init
<1>5. out \in Seq(1..Len(doc))
  BY DEF Init
<1>6. QED
  BY <1>1, <1>2, <1>3, <1>4, <1>5 DEF TypeOK

\* One iteration of the loop preserves the type invariant.
LEMMA TypeStep == TypeOK /\ [Next]_vars => TypeOK'
<1> SUFFICES ASSUME TypeOK, [Next]_vars PROVE TypeOK'
  OBVIOUS
<1>1. CASE Open
  BY <1>1, LineType DEF Open, TypeOK, line
<1>2. CASE Erase
  BY <1>2, LineType DEF Erase, TypeOK, line
<1>3. CASE OpenLate
  BY <1>3, LineType DEF OpenLate, TypeOK, line
<1>4. CASE Keep
  BY <1>4 DEF Keep, TypeOK
<1>5. CASE UNCHANGED vars
  BY <1>5 DEF vars, TypeOK
<1>6. QED
  BY <1>1, <1>2, <1>3, <1>4, <1>5 DEF Next

(***************************************************************************)
(* TypeCorrect: through every iteration of the loop, the index stays in    *)
(* 1..Len(lines)+1, brace_count is an integer, and new_lines holds only    *)
(* indices of lines of the file.                                           *)
(***************************************************************************)
THEOREM TypeCorrect == Spec => []TypeOK
<1>1. Init => TypeOK
  BY InitType
<1>2. TypeOK /\ [Next]_vars => TypeOK'
  BY TypeStep
<1>3. QED
  BY <1>1, <1>2, PTL DEF Spec
=============================================================================
