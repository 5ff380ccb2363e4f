-------------------------- MODULE StripCheckProofs --------------------------
(***************************************************************************)
(* Proof that the script's block loop never deletes a line the intended    *)
(* stripper keeps, for every file, on lines whose literals never open a    *)
(* brace and whose guards open their block (StripCheck).                   *)
(***************************************************************************)
EXTENDS StripCheck, BlockScanProofs

\* Appending to new_lines adds exactly the appended index to its range.
LEMMA RangeAppend ==
  ASSUME NEW S, NEW s \in Seq(S), NEW x
  PROVE  Range(Append(s, x)) = Range(s) \cup {x}
<1>1. /\ DOMAIN Append(s, x) = 1..Len(s) + 1
      /\ \A k \in 1..Len(s) : Append(s, x)[k] = s[k]
      /\ Append(s, x)[Len(s) + 1] = x
  OBVIOUS
<1>2. 1..Len(s) + 1 = (1..Len(s)) \cup {Len(s) + 1} /\ DOMAIN s = 1..Len(s)
  OBVIOUS
<1>3. QED
  BY <1>1, <1>2 DEF Range

\* What the two loops read of the current line, on the assumed inputs.
LEMMA CurrentLine ==
  ASSUME LiteralsNeverOpen, GuardsOpen, TypeOK, i <= Len(doc)
  PROVE  /\ Delta(doc[i]) \in Int
         /\ Intent!RealDelta(doc[i]) \in Int
         /\ Delta(doc[i]) <= Intent!RealDelta(doc[i])
         /\ doc[i].kind \in Early \cup Late => Intent!RealDelta(doc[i]) >= 1
<1>1. doc[i] \in Lines
  <2>1. doc \in Seq(Lines) /\ i \in 1..Len(doc)
    BY DEF TypeOK
  <2>2. QED
    BY <2>1
<1>2. doc[i].o \in Nat /\ doc[i].c \in Nat /\ doc[i].lo \in Nat /\ doc[i].lc \in Nat
  <2>1. doc[i] \in LineRec
    BY <1>1, LinesAssumption, Zenon
  <2>2. QED
    BY <2>1 DEF LineRec
<1>3. Delta(doc[i]) \in Int /\ Intent!RealDelta(doc[i]) \in Int
  <2> DEFINE o == doc[i].o  c == doc[i].c  lo == doc[i].lo  lc == doc[i].lc
  <2>1. (o + lo) - (c + lc) \in Int
    BY <1>2
  <2>2. o - c \in Int
    BY <1>2
  <2>3. QED
    BY <2>1, <2>2 DEF Delta, Intent!RealDelta
<1>4. Delta(doc[i]) <= Intent!RealDelta(doc[i])
  BY <1>1 DEF LiteralsNeverOpen
<1>5. doc[i].kind \in Early \cup Late => Intent!RealDelta(doc[i]) >= 1
  BY <1>1 DEF GuardsOpen
<1>6. QED
  BY <1>3, <1>4, <1>5

\* The intended stripper starts in a well-typed state and stays so.
LEMMA IntentType ==
  /\ Intent!Init => Intent!TypeOK
  /\ TypeOK /\ Intent!TypeOK /\ [CNext]_cvars => Intent!TypeOK'
<1>1. Intent!Init => Intent!TypeOK
  <2> SUFFICES ASSUME Intent!Init PROVE Intent!TypeOK
    OBVIOUS
  <2>1. doc \in Seq(Lines)
    BY DocsAreSeqs DEF Intent!Init, Intent!Docs, Docs
  <2>2. erasing \in BOOLEAN
    BY DEF Intent!Init
  <2>3. depth \in Int
    BY DEF Intent!Init
  <2>4. QED
    BY <2>1, <2>2, <2>3 DEF Intent!Init, Intent!TypeOK
<1>2. TypeOK /\ Intent!TypeOK /\ [CNext]_cvars => Intent!TypeOK'
  <2> SUFFICES ASSUME TypeOK, Intent!TypeOK, [CNext]_cvars PROVE Intent!TypeOK'
    OBVIOUS
  <2>1. CASE Intent!Begin \/ Intent!Consume
    <3>1. i <= Len(doc) /\ i' = i + 1 /\ UNCHANGED <<doc, iout>>
      BY <2>1 DEF Intent!Begin, Intent!Consume
    <3>2. doc[i] \in LineRec
      BY <3>1, LineType DEF TypeOK
    <3>3. depth' \in Int
      <4>1. Intent!RealDelta(doc[i]) \in Int
        BY <3>2 DEF Intent!RealDelta, LineRec
      <4>2. depth \in Int
        BY DEF Intent!TypeOK
      <4>3. depth' = Intent!RealDelta(doc[i])
              \/ depth' = depth + Intent!RealDelta(doc[i])
        BY <2>1 DEF Intent!Begin, Intent!Consume
      <4>4. QED
        BY <4>1, <4>2, <4>3
    <3>4. erasing' = (depth' > 0)
      BY <2>1 DEF Intent!Begin, Intent!Consume
    <3>5. erasing' \in BOOLEAN
      <4>1. CASE depth' > 0
        BY <3>4, <4>1
      <4>2. CASE ~(depth' > 0)
        BY <3>4, <4>2
      <4>3. QED
        BY <4>1, <4>2
    <3>6. QED
      BY <3>1, <3>3, <3>5 DEF Intent!TypeOK
  <2>2. CASE Intent!Pass
    BY <2>2 DEF Intent!Pass, Intent!TypeOK
  <2>3. CASE UNCHANGED cvars
    BY <2>3 DEF cvars, Intent!TypeOK
  <2>4. QED
    BY <2>1, <2>2, <2>3 DEF CNext, Intent!Next
<1>3. QED
  BY <1>1, <1>2

(***************************************************************************)
(* NoOverEraseHolds: for every file and every vocabulary of lines in which *)
(* string literals never hold a net '{' and every guard line opens its     *)
(* block, each line the intended stripper keeps is kept by the script's    *)
(* loop.  The argument is the strengthening IInv: while the loop skips,    *)
(* the intended scan erases too, at a depth at least brace_count, so the   *)
(* loop stops skipping no later than the intended scan does.               *)
(***************************************************************************)
THEOREM NoOverEraseHolds ==
  ASSUME LiteralsNeverOpen, GuardsOpen
  PROVE  CSpec => []NoOverErase
<1>1. CInit => IInv
  <2> SUFFICES ASSUME CInit PROVE IInv
    OBVIOUS
  <2>1. TypeOK /\ Intent!TypeOK
    BY InitType, IntentType DEF CInit
  <2>2. iout = << >>
    BY DEF CInit, Intent!Init
  <2>3. ~skip /\ ~erasing
    BY DEF CInit, Init, Intent!Init
  <2>4. QED
    BY <2>1, <2>2, <2>3 DEF IInv, CTypeOK, NoOverErase, Range
<1>2. IInv /\ [CNext]_cvars => IInv'
  <2> SUFFICES ASSUME IInv, [CNext]_cvars PROVE IInv'
    OBVIOUS
  <2>1. TypeOK'
    <3>1. [Next]_vars
      BY DEF CNext, cvars, vars
    <3>2. QED
      BY <3>1, TypeStep DEF IInv, CTypeOK
  <2>2. Intent!TypeOK'
    BY IntentType DEF IInv, CTypeOK
  <2>3. CASE UNCHANGED cvars
    BY <2>1, <2>2, <2>3 DEF cvars, IInv, CTypeOK, NoOverErase
  <2>4. CASE CNext
    <3> USE DEF IInv, CTypeOK, NoOverErase
    <3>1. i <= Len(doc)
      BY <2>4 DEF CNext, Next, Open, Erase, OpenLate, Keep
    <3>2. /\ Delta(doc[i]) \in Int
          /\ Intent!RealDelta(doc[i]) \in Int
          /\ Delta(doc[i]) <= Intent!RealDelta(doc[i])
          /\ doc[i].kind \in Early \cup Late => Intent!RealDelta(doc[i]) >= 1
      BY <3>1, CurrentLine
    <3>3. brace \in Int /\ depth \in Int
      BY DEF TypeOK, Intent!TypeOK
    <3>4. CASE Open \/ OpenLate
      <4>1. skip' = TRUE /\ brace' = Delta(doc[i]) /\ UNCHANGED out
        BY <3>4 DEF Open, OpenLate, line
      <4>2. doc[i].kind \in Early \cup Late
        BY <3>4 DEF Open, OpenLate, line
      <4>3. Intent!Begin \/ Intent!Consume
        BY <2>4, <4>2 DEF CNext, Intent!Next, Intent!Pass
      <4>4. depth' >= brace' /\ depth' > 0 /\ UNCHANGED iout
        <5>1. CASE Intent!Begin
          BY <5>1, <4>1, <4>2, <3>2 DEF Intent!Begin
        <5>2. CASE Intent!Consume
          BY <5>2, <4>1, <4>2, <3>2, <3>3 DEF Intent!Consume
        <5>3. QED
          BY <4>3, <5>1, <5>2
      <4>5. erasing' = (depth' > 0)
        BY <4>3 DEF Intent!Begin, Intent!Consume
      <4>6. erasing'
        BY <4>4, <4>5, Zenon
      <4>7. QED
        BY <2>1, <2>2, <4>1, <4>4, <4>5, <4>6
    <3>5. CASE Erase
      <4>1. skip /\ brace' = brace + Delta(doc[i]) /\ skip' = (brace' > 0)
            /\ UNCHANGED out
        BY <3>5 DEF Erase, line
      <4>2. erasing /\ depth >= brace
        BY <4>1
      <4>3. Intent!Consume
        BY <2>4, <4>2 DEF CNext, Intent!Next, Intent!Begin, Intent!Pass
      <4>4. depth' = depth + Intent!RealDelta(doc[i]) /\ erasing' = (depth' > 0)
            /\ UNCHANGED iout
        BY <4>3 DEF Intent!Consume
      <4>5. depth' >= brace'
        BY <4>1, <4>2, <4>4, <3>2, <3>3
      <4>6. brace' > 0 => depth' > 0
        BY <4>1, <4>4, <4>5, <3>2, <3>3
      <4>7. (skip' => erasing') /\ (erasing' => depth' > 0)
        BY <4>1, <4>4, <4>6, Zenon
      <4>8. QED
        BY <2>1, <2>2, <4>1, <4>4, <4>5, <4>7
    <3>6. CASE Keep
      <4>1. ~skip /\ UNCHANGED <<skip, brace>> /\ out' = Append(out, i)
            /\ doc[i].kind \notin Early \cup Late
        BY <3>6 DEF Keep, line
      <4>2. Range(out') = Range(out) \cup {i}
        BY <4>1, RangeAppend DEF TypeOK
      <4>3. CASE Intent!Consume
        <5>1. UNCHANGED iout /\ (erasing' => depth' > 0)
          BY <4>3 DEF Intent!Consume
        <5>2. QED
          BY <2>1, <2>2, <4>1, <4>2, <5>1
      <4>4. CASE Intent!Pass
        <5>1. iout' = Append(iout, i) /\ UNCHANGED <<erasing, depth>>
          BY <4>4 DEF Intent!Pass
        <5>2. Range(iout') = Range(iout) \cup {i}
          BY <5>1, RangeAppend DEF Intent!TypeOK
        <5>3. QED
          BY <2>1, <2>2, <4>1, <4>2, <5>1, <5>2
      <4>5. QED
        BY <2>4, <4>1, <4>3, <4>4 DEF CNext, Intent!Next, Intent!Begin
    <3>7. QED
      BY <2>4, <3>4, <3>5, <3>6 DEF CNext, Next
  <2>5. QED
    BY <2>3, <2>4
<1>3. IInv => NoOverErase
  BY DEF IInv
<1>4. QED
  BY <1>1, <1>2, <1>3, PTL DEF CSpec
(***************************************************************************)
(* CTypeOK: on every file and guard set, the script's loop over the lines  *)
(* and the intended stripper it runs beside stay well typed together.      *)
(***************************************************************************)
THEOREM CTypeCorrect == CSpec => []CTypeOK
<1>1. CInit => CTypeOK
  BY InitType, IntentType DEF CInit, CTypeOK
<1>2. CTypeOK /\ [CNext]_cvars => CTypeOK'
  <2> SUFFICES ASSUME CTypeOK, [CNext]_cvars PROVE CTypeOK'
    OBVIOUS
  <2>1. [Next]_vars
    BY DEF CNext, cvars, vars
  <2>2. QED
    BY <2>1, TypeStep, IntentType DEF CTypeOK
<1>3. QED
  BY <1>1, <1>2, PTL DEF CSpec

=============================================================================
