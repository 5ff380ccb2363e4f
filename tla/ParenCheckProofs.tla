-------------------------- MODULE ParenCheckProofs --------------------------
(***************************************************************************)
(* Proofs about the audit-logger loop of fix-plugin-security-refs.py:      *)
(* skip_until_paren is never negative, and the loop never keeps a line of  *)
(* a call the intended stripper removes (ParenCheck).                      *)
(***************************************************************************)
EXTENDS ParenCheck, TLAPS

\* Appending to new_lines adds exactly the appended index to its range.
LEMMA PRangeAppend ==
  ASSUME NEW S, NEW s \in Seq(S), NEW x
  PROVE  Range(Append(s, x)) = Range(s) \cup {x}
<1>1. /\ DOMAIN Append(s, x) = 1..Len(s) + 1
      /\ \A k \in 1..Len(s) : Append(s, x)[k] = s[k]
      /\ Append(s, x)[Len(s) + 1] = x
  OBVIOUS
<1>2. 1..Len(s) + 1 = (1..Len(s)) \cup {Len(s) + 1} /\ DOMAIN s = 1..Len(s)
  OBVIOUS
<1>3. QED
  BY <1>1, <1>2 DEF Range

\* Every file the loop may be given is a finite sequence of lines.
LEMMA PDocsAreSeqs == Docs \subseteq Seq(Lines)
BY PMaxLenAssumption DEF Docs

\* What both loops read of the current line, on the assumed inputs.
LEMMA PCurrentLine ==
  ASSUME NEW d \in Seq(Lines), NEW k \in 1..Len(d)
  PROVE  /\ PDelta(d[k]) \in Int
         /\ Intent!RealDelta(d[k]) \in Int
         /\ LiteralsNeverClose => PDelta(d[k]) >= Intent!RealDelta(d[k])
<1>1. d[k] \in LineRec
  BY PLinesAssumption
<1>2. QED
  BY <1>1 DEF LineRec, PDelta, Intent!RealDelta, LiteralsNeverClose

\* The reset keeps skip_until_paren a natural number.
LEMMA ClampNat ==
  ASSUME NEW n \in Int
  PROVE  /\ Clamp(n) \in Nat
         /\ n > 0 => Clamp(n) = n
         /\ n <= 0 => Clamp(n) = 0
BY DEF Clamp

\* The loop starts in a well-typed state.
LEMMA PInitType == PInit => PTypeOK
<1> SUFFICES ASSUME PInit PROVE PTypeOK
  OBVIOUS
<1>1. doc \in Seq(Lines)
  BY PDocsAreSeqs DEF PInit
<1>2. QED
  BY <1>1 DEF PInit, PTypeOK

\* One iteration of the loop preserves the type invariant.
LEMMA PTypeStep == PTypeOK /\ [PNext]_pvars => PTypeOK'
<1> SUFFICES ASSUME PTypeOK, [PNext]_pvars PROVE PTypeOK'
  OBVIOUS
<1>1. CASE Skip
  <2>1. sp + PDelta(doc[i]) \in Int
    BY <1>1, PCurrentLine DEF Skip, PTypeOK
  <2>2. QED
    BY <1>1, <2>1, ClampNat DEF Skip, PTypeOK
<1>2. CASE Start
  <2>1. 1 + PDelta(doc[i]) \in Int
    BY <1>2, PCurrentLine DEF Start, PTypeOK
  <2>2. QED
    BY <1>2, <2>1, ClampNat DEF Start, PTypeOK
<1>3. CASE Pass
  BY <1>3 DEF Pass, PTypeOK
<1>4. CASE UNCHANGED pvars
  BY <1>4 DEF pvars, PTypeOK
<1>5. QED
  BY <1>1, <1>2, <1>3, <1>4 DEF PNext

(***************************************************************************)
(* PTypeCorrect: through every iteration of the loop skip_until_paren is a *)
(* natural number (the `if skip_until_paren <= 0` resets keep it from      *)
(* going negative on a line that closes more than it opens), the index    *)
(* stays in range, and new_lines holds only indices of lines of the file. *)
(***************************************************************************)
THEOREM PTypeCorrect == PSpec => []PTypeOK
BY PInitType, PTypeStep, PTL DEF PSpec

\* The intended stripper starts in a well-typed state and stays so.
LEMMA QIntentType ==
  /\ Intent!Init => Intent!TypeOK
  /\ PTypeOK /\ Intent!TypeOK /\ [QNext]_qvars => Intent!TypeOK'
<1>1. Intent!Init => Intent!TypeOK
  <2> SUFFICES ASSUME Intent!Init PROVE Intent!TypeOK
    OBVIOUS
  <2>1. doc \in Seq(Lines)
    BY PDocsAreSeqs DEF Intent!Init, Intent!Docs, Docs
  <2>2. erasing \in BOOLEAN
    BY DEF Intent!Init
  <2>3. depth \in Int
    BY DEF Intent!Init
  <2>4. QED
    BY <2>1, <2>2, <2>3 DEF Intent!Init, Intent!TypeOK
<1>2. PTypeOK /\ Intent!TypeOK /\ [QNext]_qvars => Intent!TypeOK'
  <2> SUFFICES ASSUME PTypeOK, Intent!TypeOK, [QNext]_qvars PROVE Intent!TypeOK'
    OBVIOUS
  <2>1. CASE Intent!Begin \/ Intent!Consume
    <3>1. i <= Len(doc) /\ i' = i + 1 /\ UNCHANGED <<doc, iout>>
      BY <2>1 DEF Intent!Begin, Intent!Consume
    <3>2. Intent!RealDelta(doc[i]) \in Int
      BY <3>1, PCurrentLine DEF PTypeOK
    <3>3. depth' \in Int
      BY <2>1, <3>2 DEF Intent!Begin, Intent!Consume, Intent!TypeOK
    <3>4. erasing' = (depth' > 0)
      BY <2>1 DEF Intent!Begin, Intent!Consume
    <3>5. erasing' \in BOOLEAN
      <4>1. CASE depth' > 0
        BY <3>4, <4>1
      <4>2. CASE ~(depth' > 0)
        BY <3>4, <4>2
      <4>3. QED
        BY <4>1, <4>2
    <3>6. QED
      BY <3>1, <3>3, <3>5 DEF Intent!TypeOK
  <2>2. CASE Intent!Pass
    BY <2>2 DEF Intent!Pass, Intent!TypeOK
  <2>3. CASE UNCHANGED qvars
    BY <2>3 DEF qvars, Intent!TypeOK
  <2>4. QED
    BY <2>1, <2>2, <2>3 DEF QNext, Intent!Next
<1>3. QED
  BY <1>1, <1>2

(***************************************************************************)
(* NoLeftoversHolds: for every file over lines whose string literals never *)
(* hold a net ')', every line the audit-logger loop keeps is kept by the   *)
(* intended call stripper: no line of a LogEvent call survives.  The       *)
(* argument is QInv: while the intended scan is inside a call, the loop's  *)
(* count is at least one above the call's depth (the `1 +` of line 52),    *)
(* and each line adds at least as much to it as to the depth.              *)
(***************************************************************************)
THEOREM NoLeftoversHolds ==
  ASSUME LiteralsNeverClose
  PROVE  QSpec => []NoLeftovers
<1>1. QInit => QInv
  <2> SUFFICES ASSUME QInit PROVE QInv
    OBVIOUS
  <2>1. PTypeOK /\ Intent!TypeOK
    BY PInitType, QIntentType DEF QInit
  <2>2. out = << >> /\ ~erasing
    BY DEF QInit, PInit, Intent!Init
  <2>3. QED
    BY <2>1, <2>2 DEF QInv, QTypeOK, NoLeftovers, Range
<1>2. QInv /\ [QNext]_qvars => QInv'
  <2> SUFFICES ASSUME QInv, [QNext]_qvars PROVE QInv'
    OBVIOUS
  <2>1. PTypeOK'
    <3>1. [PNext]_pvars
      BY DEF QNext, qvars, pvars
    <3>2. QED
      BY <3>1, PTypeStep DEF QInv, QTypeOK
  <2>2. Intent!TypeOK'
    BY QIntentType DEF QInv, QTypeOK
  <2>3. CASE UNCHANGED qvars
    BY <2>1, <2>2, <2>3 DEF qvars, QInv, QTypeOK, NoLeftovers
  <2>4. CASE QNext
    <3> USE DEF QInv, QTypeOK
    <3>1. i <= Len(doc)
      BY <2>4 DEF QNext, PNext, Skip, Start, Pass
    <3>2. /\ PDelta(doc[i]) \in Int
          /\ Intent!RealDelta(doc[i]) \in Int
          /\ PDelta(doc[i]) >= Intent!RealDelta(doc[i])
      BY <3>1, PCurrentLine DEF PTypeOK
    <3>3. sp \in Nat /\ depth \in Int
      BY DEF PTypeOK, Intent!TypeOK
    <3>4. Range(iout) \subseteq Range(iout')
      <4>1. CASE Intent!Pass
        BY <4>1, PRangeAppend DEF Intent!Pass, Intent!TypeOK
      <4>2. CASE Intent!Begin \/ Intent!Consume
        BY <4>2 DEF Intent!Begin, Intent!Consume
      <4>3. QED
        BY <2>4, <4>1, <4>2 DEF QNext, Intent!Next
    <3>5. CASE Skip
      <4>1. sp > 0 /\ sp' = Clamp(sp + PDelta(doc[i])) /\ UNCHANGED out
        BY <3>5 DEF Skip
      <4>2. erasing' => depth' > 0 /\ sp' >= depth' + 1
        <5>1. CASE Intent!Pass
          BY <5>1 DEF Intent!Pass
        <5>2. CASE Intent!Begin \/ Intent!Consume
          <6>1. depth' > 0 => sp + PDelta(doc[i]) >= depth' + 1
            <7>1. CASE Intent!Consume
              BY <7>1, <4>1, <3>2, <3>3 DEF Intent!Consume
            <7>2. CASE Intent!Begin
              BY <7>2, <4>1, <3>2, <3>3 DEF Intent!Begin
            <7>3. QED
              BY <5>2, <7>1, <7>2
          <6>2. depth' \in Int
            BY <2>2 DEF Intent!TypeOK
          <6>3. depth' > 0 => sp' >= depth' + 1
            BY <4>1, <6>1, <6>2, <3>2, <3>3, ClampNat
          <6>4. erasing' = (depth' > 0)
            BY <5>2 DEF Intent!Begin, Intent!Consume
          <6>5. QED
            BY <6>3, <6>4, Zenon
        <5>3. QED
          BY <2>4, <5>1, <5>2 DEF QNext, Intent!Next
      <4>3. QED
        BY <2>1, <2>2, <3>4, <4>1, <4>2 DEF NoLeftovers
    <3>6. CASE Start
      <4>1. sp = 0 /\ sp' = Clamp(1 + PDelta(doc[i])) /\ UNCHANGED out
            /\ doc[i].kind \in Calls
        BY <3>6 DEF Start
      <4>2. ~erasing
        BY <4>1, <3>3
      <4>3. Intent!Begin
        BY <2>4, <4>1, <4>2 DEF QNext, Intent!Next, Intent!Consume, Intent!Pass
      <4>4. depth' = Intent!RealDelta(doc[i])
        BY <4>3 DEF Intent!Begin
      <4>5. depth' > 0 => sp' >= depth' + 1
        BY <4>1, <4>4, <3>2, ClampNat
      <4>6. erasing' = (depth' > 0)
        BY <4>3 DEF Intent!Begin
      <4>7. erasing' => depth' > 0 /\ sp' >= depth' + 1
        BY <4>5, <4>6, Zenon
      <4>8. QED
        BY <2>1, <2>2, <3>4, <4>1, <4>7 DEF NoLeftovers
    <3>7. CASE Pass
      <4>1. sp = 0 /\ out' = Append(out, i) /\ UNCHANGED sp
            /\ doc[i].kind \notin Calls
        BY <3>7 DEF Pass
      <4>2. ~erasing
        BY <4>1, <3>3
      <4>3. Intent!Pass
        BY <2>4, <4>1, <4>2 DEF QNext, Intent!Next, Intent!Consume, Intent!Begin
      <4>4. iout' = Append(iout, i) /\ UNCHANGED erasing
        BY <4>3 DEF Intent!Pass
      <4>5. Range(out') = Range(out) \cup {i} /\ Range(iout') = Range(iout) \cup {i}
        BY <4>1, <4>4, PRangeAppend DEF PTypeOK, Intent!TypeOK
      <4>6. QED
        BY <2>1, <2>2, <4>2, <4>4, <4>5 DEF NoLeftovers
    <3>8. QED
      BY <2>4, <3>5, <3>6, <3>7 DEF QNext, PNext
  <2>5. QED
    BY <2>3, <2>4
<1>3. QInv => NoLeftovers
  BY DEF QInv
<1>4. QED
  BY <1>1, <1>2, <1>3, PTL DEF QSpec

=============================================================================
