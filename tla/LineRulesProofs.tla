--------------------------- MODULE LineRulesProofs ---------------------------
(***************************************************************************)
(* Proofs about the scripts' re.sub deletions of LineRules: the text stays *)
(* a token sequence under every rule list, and a script of \n\s+X rules    *)
(* (fix-handlers-v2.py) leaves every kept line whole and no target behind. *)
(***************************************************************************)
EXTENDS LineRules, SequenceTheorems, WellFoundedInduction, TLAPS

\* A nonempty set of naturals has a least element.
LEMMA LeastNat ==
  ASSUME NEW T, T \subseteq Nat, T # {}
  PROVE  \E x \in T : \A y \in T : x <= y
<1>1. PICK x \in T : \A y \in T : ~(<<y, x>> \in OpToRel(<, Nat))
  BY NatLessThanWellFounded, WFMin
<1>2. \A y \in T : x <= y
  <2> TAKE y \in T
  <2>1. <<y, x>> \in Nat \X Nat
    OBVIOUS
  <2>2. ~(y < x)
    BY <1>1, <2>1, Zenon DEF OpToRel
  <2>3. QED
    BY <2>2
<1>3. QED
  BY <1>2

\* A nonempty set of naturals bounded by b has a greatest element.
LEMMA GreatestNat ==
  ASSUME NEW b \in Nat, NEW T, T \subseteq 0..b, T # {}
  PROVE  \E x \in T : \A y \in T : y <= x
<1> DEFINE U == {b - t : t \in T}
<1>1. U \subseteq Nat /\ U # {}
  <2>1. \A t \in T : b - t \in Nat
    OBVIOUS
  <2>2. QED
    BY <2>1, Zenon
<1>2. PICK u \in U : \A v \in U : u <= v
  BY <1>1, LeastNat
<1>3. PICK x \in T : u = b - x
  OBVIOUS
<1>4. \A y \in T : y <= x
  <2> TAKE y \in T
  <2>1. u <= b - y
    BY <1>2
  <2>2. QED
    BY <1>3, <2>1
<1>5. QED
  BY <1>4

\* The least element that CHOOSE picks is in the set and below the rest.
LEMMA ChooseLeast ==
  ASSUME NEW T, T \subseteq Nat, T # {}
  PROVE  LET m == CHOOSE j \in T : \A k \in T : j <= k
         IN  m \in T /\ \A k \in T : m <= k
BY LeastNat

\* The greatest element that CHOOSE picks is in the set and above the rest.
LEMMA ChooseGreatest ==
  ASSUME NEW b \in Nat, NEW T, T \subseteq 0..b, T # {}
  PROVE  LET m == CHOOSE j \in T : \A k \in T : k <= j
         IN  m \in T /\ \A k \in T : k <= m
BY GreatestNat

(***************************************************************************)
(* Cut: what re.sub leaves when it replaces the tokens p..e by ''.         *)
(***************************************************************************)
LEMMA CutProperties ==
  ASSUME NEW S, NEW s \in Seq(S), NEW k \in 1..Len(s), NEW e \in k..Len(s)
  PROVE  /\ Cut(s, k, e) \in Seq(S)
         /\ Len(Cut(s, k, e)) = Len(s) - (e - k + 1)
         /\ \A i \in 1..Len(Cut(s, k, e)) :
              Cut(s, k, e)[i] = IF i < k THEN s[i] ELSE s[i + (e - k + 1)]
<1>1. /\ SubSeq(s, 1, k - 1) \in Seq(S)
      /\ Len(SubSeq(s, 1, k - 1)) = k - 1
      /\ \A i \in 1..k-1 : SubSeq(s, 1, k - 1)[i] = s[i]
  BY SubSeqProperties
<1>2. /\ SubSeq(s, e + 1, Len(s)) \in Seq(S)
      /\ Len(SubSeq(s, e + 1, Len(s))) = Len(s) - e
      /\ \A i \in 1..Len(s) - e : SubSeq(s, e + 1, Len(s))[i] = s[e + i]
  BY SubSeqProperties
<1>3. /\ Cut(s, k, e) \in Seq(S)
      /\ Len(Cut(s, k, e)) = (k - 1) + (Len(s) - e)
      /\ \A i \in 1..(k - 1) + (Len(s) - e) :
           Cut(s, k, e)[i] = IF i <= k - 1 THEN SubSeq(s, 1, k - 1)[i]
                             ELSE SubSeq(s, e + 1, Len(s))[i - (k - 1)]
  <2>1. /\ SubSeq(s, 1, k - 1) \o SubSeq(s, e + 1, Len(s)) \in Seq(S)
        /\ Len(SubSeq(s, 1, k - 1) \o SubSeq(s, e + 1, Len(s)))
             = Len(SubSeq(s, 1, k - 1)) + Len(SubSeq(s, e + 1, Len(s)))
        /\ \A i \in 1..Len(SubSeq(s, 1, k - 1)) + Len(SubSeq(s, e + 1, Len(s))) :
             (SubSeq(s, 1, k - 1) \o SubSeq(s, e + 1, Len(s)))[i]
               = IF i <= Len(SubSeq(s, 1, k - 1)) THEN SubSeq(s, 1, k - 1)[i]
                 ELSE SubSeq(s, e + 1, Len(s))[i - Len(SubSeq(s, 1, k - 1))]
    BY <1>1, <1>2, ConcatProperties
  <2>2. Cut(s, k, e) = SubSeq(s, 1, k - 1) \o SubSeq(s, e + 1, Len(s))
    BY DEF Cut
  <2>3. /\ Cut(s, k, e) \in Seq(S)
        /\ Len(Cut(s, k, e)) = (k - 1) + (Len(s) - e)
    BY <1>1, <1>2, <2>1, <2>2
  <2>4. \A i \in 1..(k - 1) + (Len(s) - e) :
          Cut(s, k, e)[i] = IF i <= k - 1 THEN SubSeq(s, 1, k - 1)[i]
                            ELSE SubSeq(s, e + 1, Len(s))[i - (k - 1)]
    BY <1>1, <1>2, <2>1, <2>2
  <2>5. QED
    BY <2>3, <2>4
<1>4. \A i \in 1..Len(Cut(s, k, e)) :
        Cut(s, k, e)[i] = IF i < k THEN s[i] ELSE s[i + (e - k + 1)]
  <2> TAKE i \in 1..Len(Cut(s, k, e))
  <2>1. CASE i < k
    BY <1>1, <1>3, <2>1
  <2>2. CASE ~(i < k)
    <3>1. Cut(s, k, e)[i] = SubSeq(s, e + 1, Len(s))[i - (k - 1)]
      BY <1>3, <2>2
    <3>2. i - (k - 1) \in 1..Len(s) - e
      BY <1>3, <2>2
    <3>3. QED
      BY <1>2, <2>2, <3>1, <3>2
  <2>3. QED
    BY <2>1, <2>2
<1>5. QED
  BY <1>3, <1>4

\* A function on 1..n is a sequence of length n.
LEMMA FcnIsSeq ==
  ASSUME NEW S, NEW n \in Nat, NEW f \in [1..n -> S]
  PROVE  f \in Seq(S) /\ Len(f) = n
<1>1. f \in Seq(S)
  BY SeqDef
<1>2. DOMAIN f = 1..Len(f) /\ Len(f) \in Nat
  BY <1>1, LenProperties
<1>3. QED
  BY <1>1, <1>2

\* A file the script may be given.
LEMMA DocFacts ==
  ASSUME NEW d \in Docs
  PROVE  /\ d \in Seq(Vocab)
         /\ Len(d) \in 1..MaxLen
         /\ d[1] = "code" /\ d[Len(d)] = "code"
<1>1. PICK n \in 1..MaxLen : d \in [1..n -> Vocab]
  BY DEF Docs
<1>2. d \in Seq(Vocab) /\ Len(d) = n
  BY <1>1, MaxLenAssumption, FcnIsSeq
<1>3. QED
  BY <1>1, <1>2 DEF Docs

(***************************************************************************)
(* Where the patterns' pieces end.                                         *)
(***************************************************************************)
\* The \s run from k ends at the first frag with text, and holds none.
LEMMA RunEndProperties ==
  ASSUME NEW s \in Seq(Tok), NEW k \in 1..Len(s)
  PROVE  /\ NlRunEnd(s, k) \in k..Len(s) + 1
         /\ NlRunEnd(s, k) <= Len(s) =>
              s[NlRunEnd(s, k)].t = "frag" /\ s[NlRunEnd(s, k)].kind # "blank"
         /\ \A j \in k..NlRunEnd(s, k) - 1 :
              ~(s[j].t = "frag" /\ s[j].kind # "blank")
<1>1. CASE {j \in k..Len(s) : s[j].t = "frag" /\ s[j].kind # "blank"} = {}
  <2>1. NlRunEnd(s, k) = Len(s) + 1
    BY <1>1 DEF NlRunEnd
  <2>2. Len(s) \in Nat
    BY LenProperties
  <2>3. QED
    BY <1>1, <2>1, <2>2
<1>2. CASE {j \in k..Len(s) : s[j].t = "frag" /\ s[j].kind # "blank"} # {}
  <2>1. LET m == CHOOSE x \in {j \in k..Len(s) : s[j].t = "frag" /\ s[j].kind # "blank"} :
                   \A i \in {j \in k..Len(s) : s[j].t = "frag" /\ s[j].kind # "blank"} : x <= i
        IN  /\ m \in {j \in k..Len(s) : s[j].t = "frag" /\ s[j].kind # "blank"}
            /\ \A i \in {j \in k..Len(s) : s[j].t = "frag" /\ s[j].kind # "blank"} : m <= i
    <3>1. {j \in k..Len(s) : s[j].t = "frag" /\ s[j].kind # "blank"} \subseteq Nat
      OBVIOUS
    <3>2. QED
      BY <1>2, <3>1, ChooseLeast, Zenon
  <2>2. NlRunEnd(s, k) = CHOOSE x \in {j \in k..Len(s) : s[j].t = "frag" /\ s[j].kind # "blank"} :
                   \A i \in {j \in k..Len(s) : s[j].t = "frag" /\ s[j].kind # "blank"} : x <= i
    BY <1>2 DEF NlRunEnd
  <2>3. QED
    BY <2>1, <2>2
<1>3. QED
  BY <1>1, <1>2

\* The end of the line after q is a '\n' past q, when there is one.
LEMMA LineEndRange ==
  ASSUME NEW s \in Seq(Tok), NEW q \in Nat
  PROVE  LineEnd(s, q) = 0 \/ (LineEnd(s, q) \in q+1..Len(s) /\ s[LineEnd(s, q)].t = "nl")
<1>1. CASE {j \in q+1..Len(s) : s[j].t = "nl"} = {}
  BY <1>1 DEF LineEnd
<1>2. CASE {j \in q+1..Len(s) : s[j].t = "nl"} # {}
  <2>1. {j \in q+1..Len(s) : s[j].t = "nl"} \subseteq Nat
    OBVIOUS
  <2>2. LET m == CHOOSE x \in {j \in q+1..Len(s) : s[j].t = "nl"} :
                   \A i \in {j \in q+1..Len(s) : s[j].t = "nl"} : x <= i
        IN  m \in {j \in q+1..Len(s) : s[j].t = "nl"}
    BY <1>2, <2>1, ChooseLeast, Zenon
  <2>3. QED
    BY <1>2, <2>2 DEF LineEnd
<1>3. QED
  BY <1>1, <1>2

\* [^;]+ stops at the first ';' line after q, or past the end of the text.
LEMMA StopRange ==
  ASSUME NEW s \in Seq(Tok), NEW q \in 0..Len(s)
  PROVE  SemiStop(s, q) \in q+1..Len(s) + 1
<1>1. Len(s) \in Nat
  BY LenProperties
<1>2. CASE {j \in q+1..Len(s) : s[j].kind = "semi"} = {}
  BY <1>1, <1>2 DEF SemiStop
<1>3. CASE {j \in q+1..Len(s) : s[j].kind = "semi"} # {}
  <2>1. {j \in q+1..Len(s) : s[j].kind = "semi"} \subseteq Nat
    OBVIOUS
  <2>2. (CHOOSE x \in {j \in q+1..Len(s) : s[j].kind = "semi"} :
           \A i \in {j \in q+1..Len(s) : s[j].kind = "semi"} : x <= i)
          \in {j \in q+1..Len(s) : s[j].kind = "semi"}
    BY <1>3, <2>1, ChooseLeast, Zenon
  <2>3. SemiStop(s, q) = CHOOSE x \in {j \in q+1..Len(s) : s[j].kind = "semi"} :
           \A i \in {j \in q+1..Len(s) : s[j].kind = "semi"} : x <= i
    BY <1>3, Zenon DEF SemiStop
  <2>4. QED
    BY <2>2, <2>3
<1>4. QED
  BY <1>2, <1>3

\* A match that starts at k ends within the text, at or after k.
LEMMA NlEndRange ==
  ASSUME NEW s \in Seq(Tok), NEW k \in 1..Len(s), NEW rl
  PROVE  NlEnd(s, k, rl) \in {0} \cup k..Len(s)
BY RunEndProperties DEF NlEnd

LEMMA JoinEndRange ==
  ASSUME NEW s \in Seq(Tok), NEW k \in 1..Len(s), NEW rl
  PROVE  JoinEnd(s, k, rl) \in {0} \cup k..Len(s)
<1>1. NlRunEnd(s, k) \in k..Len(s) + 1
  BY RunEndProperties
<1>2. LineEnd(s, NlRunEnd(s, k)) \in {0} \cup k..Len(s)
  BY <1>1, LineEndRange
<1>3. QED
  BY <1>2 DEF JoinEnd

LEMMA ReachEndRange ==
  ASSUME NEW s \in Seq(Tok), NEW k \in 1..Len(s), NEW rl
  PROVE  ReachEnd(s, k, rl) \in {0} \cup k..Len(s)
<1>1. NlRunEnd(s, k) \in k..Len(s) + 1
  BY RunEndProperties
<1>2. CASE NlRunEnd(s, k) > Len(s)
  BY <1>2 DEF ReachEnd
<1>3. CASE NlRunEnd(s, k) \in k..Len(s)
  <2>1. SemiStop(s, NlRunEnd(s, k)) \in NlRunEnd(s, k)+1..Len(s) + 1
    BY <1>3, StopRange
  <2>2. {j \in NlRunEnd(s, k)+1..SemiStop(s, NlRunEnd(s, k))-1 : s[j].t = "nl"}
          \subseteq k..Len(s)
    BY <1>3, <2>1
  <2>3. CASE {j \in NlRunEnd(s, k)+1..SemiStop(s, NlRunEnd(s, k))-1 : s[j].t = "nl"} = {}
    BY <2>3 DEF ReachEnd
  <2>4. CASE {j \in NlRunEnd(s, k)+1..SemiStop(s, NlRunEnd(s, k))-1 : s[j].t = "nl"} # {}
    <3>1. Len(s) \in Nat /\ k..Len(s) \subseteq 0..Len(s)
      BY LenProperties
    <3>2. (CHOOSE x \in {j \in NlRunEnd(s, k)+1..SemiStop(s, NlRunEnd(s, k))-1 : s[j].t = "nl"} :
             \A i \in {j \in NlRunEnd(s, k)+1..SemiStop(s, NlRunEnd(s, k))-1 : s[j].t = "nl"} :
               i <= x)
            \in k..Len(s)
      BY <2>2, <2>4, <3>1, ChooseGreatest, Zenon
    <3>3. QED
      BY <3>2 DEF ReachEnd
  <2>5. QED
    BY <2>3, <2>4
<1>4. QED
  BY <1>1, <1>2, <1>3

LEMMA MatchEndRange ==
  ASSUME NEW s \in Seq(Tok), NEW k \in 1..Len(s), NEW rl \in RuleRec
  PROVE  MatchEnd(s, k, rl) \in {0} \cup k..Len(s)
<1>1. CASE rl.form = "join"
  BY <1>1, JoinEndRange DEF MatchEnd
<1>2. CASE rl.form = "nl"
  BY <1>2, NlEndRange DEF MatchEnd
<1>3. CASE rl.form = "reach"
  BY <1>3, ReachEndRange DEF MatchEnd
<1>4. QED
  BY <1>1, <1>2, <1>3 DEF RuleRec

(***************************************************************************)
(* Type correctness.                                                       *)
(***************************************************************************)
\* The text of a file the script may be given is a token sequence with a
\* frag and a '\n' per line.
LEMMA RenderType ==
  ASSUME NEW d \in Docs
  PROVE  Render(d) \in Seq(Tok) /\ Len(Render(d)) = 2 * Len(d)
<1>1. d \in Seq(Vocab) /\ Len(d) \in 1..MaxLen
  BY DocFacts
<1>2. \A j \in 1..2 * Len(d) : j % 2 = 1 => (j + 1) \div 2 \in 1..Len(d)
  BY <1>1
<1>3. \A n \in 1..Len(d) : Frag(d, n) \in Tok
  BY <1>1, MaxLenAssumption, VocabAssumption DEF Frag, Tok
<1>4. Render(d) \in [1..2 * Len(d) -> Tok]
  BY <1>2, <1>3 DEF Render, Tok, NL
<1>5. QED
  BY <1>1, <1>4, FcnIsSeq

\* The type invariant with the file and the rule list it is about.
TypeInv == LRTypeOK /\ doc \in Docs /\ rules \in RuleSets

LEMMA TypeInit == LRInit => TypeInv
<1> SUFFICES ASSUME LRInit PROVE TypeInv
  OBVIOUS
<1>1. text \in Seq(Tok) /\ Len(text) = 2 * Len(doc) /\ Len(doc) \in Nat
  BY RenderType, DocFacts DEF LRInit
<1>2. rules \in Seq(RuleRec)
  BY RuleSetsAssumption DEF LRInit
<1>3. QED
  BY <1>1, <1>2, LenProperties DEF LRInit, TypeInv, LRTypeOK

LEMMA TypeStep == TypeInv /\ [LRNext]_lrvars => TypeInv'
<1> SUFFICES ASSUME TypeInv, [LRNext]_lrvars PROVE TypeInv'
  OBVIOUS
<1>1. text \in Seq(Tok) /\ rules \in Seq(RuleRec)
      /\ r \in 1..Len(rules) + 1 /\ p \in 1..Len(text) + 1
  BY RuleSetsAssumption DEF TypeInv, LRTypeOK
<1>2. CASE Match
  <2>1. r \in 1..Len(rules) /\ p \in 1..Len(text)
    BY <1>1, <1>2 DEF Match
  <2>2. rules[r] \in RuleRec
    BY <1>1, <2>1, ElementOfSeq
  <2>3. MatchEnd(text, p, rules[r]) \in p..Len(text)
    BY <1>1, <1>2, <2>1, <2>2, MatchEndRange DEF Match
  <2>4. text' \in Seq(Tok)
        /\ Len(text') = Len(text) - (MatchEnd(text, p, rules[r]) - p + 1)
    BY <1>1, <1>2, <2>1, <2>3, CutProperties DEF Match
  <2>5. QED
    BY <1>2, <2>1, <2>3, <2>4 DEF Match, TypeInv, LRTypeOK
<1>3. CASE NoMatch
  BY <1>1, <1>3 DEF NoMatch, TypeInv, LRTypeOK
<1>4. CASE NextRule
  BY <1>1, <1>4, LenProperties DEF NextRule, TypeInv, LRTypeOK
<1>5. CASE UNCHANGED lrvars
  BY <1>5 DEF lrvars, TypeInv, LRTypeOK
<1>6. QED
  BY <1>2, <1>3, <1>4, <1>5 DEF LRNext

(***************************************************************************)
(* The \n\s+X rules of fix-handlers-v2.py.                                *)
(***************************************************************************)
\* A token is a '\n' or a frag of a line.
LEMMA TokCases ==
  ASSUME NEW x \in Tok
  PROVE  \/ x = NL
         \/ x.t = "frag" /\ x.kind \in Kinds /\ x.kind # "nl"
BY DEF Tok, NL, Kinds

\* What a \n\s+X match starting at k spans: a '\n', then '\n's and blank
\* lines only, then the target's frag, which it ends at.
LEMMA NlMatch ==
  ASSUME NEW s \in Seq(Tok), NEW k \in 1..Len(s), NEW rl, NlEnd(s, k, rl) # 0
  PROVE  /\ NlEnd(s, k, rl) \in k+1..Len(s)
         /\ s[k] = NL
         /\ s[NlEnd(s, k, rl)].t = "frag"
         /\ s[NlEnd(s, k, rl)].kind = rl.target
         /\ \A j \in k..NlEnd(s, k, rl) - 1 : s[j] = NL \/ s[j].kind = "blank"
<1>1. /\ s[k].t = "nl" /\ NlRunEnd(s, k) <= Len(s)
      /\ s[NlRunEnd(s, k)].kind = rl.target
      /\ NlEnd(s, k, rl) = NlRunEnd(s, k)
  BY DEF NlEnd
<1>2. s[k] = NL
  BY <1>1, TokCases, ElementOfSeq DEF NL
<1>3. \A j \in k..NlRunEnd(s, k) - 1 : s[j] = NL \/ s[j].kind = "blank"
  <2> TAKE j \in k..NlRunEnd(s, k) - 1
  <2>1. j \in 1..Len(s) /\ ~(s[j].t = "frag" /\ s[j].kind # "blank")
    BY <1>1, RunEndProperties
  <2>2. s[j] \in Tok
    BY <2>1, ElementOfSeq
  <2>3. QED
    BY <2>1, <2>2, TokCases
<1>4. NlRunEnd(s, k) \in k..Len(s) /\ s[NlRunEnd(s, k)].t = "frag"
  BY <1>1, RunEndProperties
<1>5. NlRunEnd(s, k) # k
  BY <1>1, <1>4
<1>6. QED
  BY <1>1, <1>2, <1>3, <1>4, <1>5

\* Cutting out a span that ends at a frag leaves every frag on a line of
\* its own: the '\n' after the span's frag now follows what came before it.
LEMMA CutWellFormed ==
  ASSUME NEW s \in Seq(Tok), WellFormed(s),
         NEW k \in 2..Len(s), NEW e \in k..Len(s), s[e].t = "frag"
  PROVE  WellFormed(Cut(s, k, e))
<1>0. \A m \in 1..Len(s) :
        s[m].t = "frag" => m < Len(s) /\ s[m + 1] = NL /\ (m = 1 \/ s[m - 1] = NL)
  BY DEF WellFormed
<1>1. /\ Cut(s, k, e) \in Seq(Tok)
      /\ Len(Cut(s, k, e)) = Len(s) - (e - k + 1)
      /\ \A i \in 1..Len(Cut(s, k, e)) :
           Cut(s, k, e)[i] = IF i < k THEN s[i] ELSE s[i + (e - k + 1)]
  BY CutProperties
<1>2. e < Len(s) /\ s[e + 1] = NL
  BY <1>0
<1>3. SUFFICES ASSUME NEW i \in 1..Len(Cut(s, k, e)), Cut(s, k, e)[i].t = "frag"
               PROVE  /\ i < Len(Cut(s, k, e))
                      /\ Cut(s, k, e)[i + 1] = NL
                      /\ i = 1 \/ Cut(s, k, e)[i - 1] = NL
  BY DEF WellFormed
<1>4. CASE i < k - 1
  <2>1. i \in 1..Len(s) /\ s[i].t = "frag"
    BY <1>1, <1>3, <1>4
  <2>2. i < Len(s) /\ s[i + 1] = NL /\ (i = 1 \/ s[i - 1] = NL)
    BY <1>0, <2>1
  <2>3. i + 1 \in 1..Len(Cut(s, k, e)) /\ Cut(s, k, e)[i + 1] = s[i + 1]
    BY <1>1, <1>3, <1>4
  <2>4. i > 1 => Cut(s, k, e)[i - 1] = s[i - 1]
    <3> HAVE i > 1
    <3>1. i - 1 \in 1..Len(Cut(s, k, e)) /\ i - 1 < k
      BY <1>3, <1>4
    <3>2. QED
      BY <1>1, <3>1
  <2>5. QED
    BY <2>2, <2>3, <2>4
<1>5. CASE i = k - 1
  <2>1. i \in 1..Len(s) /\ s[i].t = "frag"
    BY <1>1, <1>3, <1>5
  <2>2. i = 1 \/ s[i - 1] = NL
    BY <1>0, <2>1
  <2>3. k <= Len(Cut(s, k, e)) /\ Cut(s, k, e)[k] = s[e + 1]
    BY <1>1, <1>2
  <2>4. QED
    BY <1>1, <1>2, <1>3, <1>5, <2>2, <2>3
<1>6. CASE i = k
  <2>1. Cut(s, k, e)[i] = NL
    BY <1>1, <1>2, <1>3, <1>6
  <2>2. QED
    BY <1>3, <2>1 DEF NL
<1>7. CASE i > k
  <2>1. PICK m \in 1..Len(s) : m = i + (e - k + 1) /\ s[m].t = "frag"
    BY <1>1, <1>3, <1>7
  <2>2. m < Len(s) /\ s[m + 1] = NL /\ (m = 1 \/ s[m - 1] = NL)
    BY <1>0, <2>1
  <2>3. i + 1 \in 1..Len(Cut(s, k, e)) /\ Cut(s, k, e)[i + 1] = s[m + 1]
    BY <1>1, <1>3, <1>7, <2>1, <2>2
  <2>4. Cut(s, k, e)[i - 1] = s[m - 1] /\ m # 1
    <3>1. i - 1 \in 1..Len(Cut(s, k, e)) /\ ~(i - 1 < k)
      BY <1>3, <1>7
    <3>2. Cut(s, k, e)[i - 1] = s[(i - 1) + (e - k + 1)]
      BY <1>1, <3>1
    <3>3. QED
      BY <2>1, <3>2
  <2>5. QED
    BY <2>2, <2>3, <2>4
<1>8. QED
  BY <1>4, <1>5, <1>6, <1>7

\* The text of a file as read: each line's frag at an odd index, each
\* followed by its '\n'.
LEMMA RenderShape ==
  ASSUME NEW d \in Docs
  PROVE  /\ WellFormed(Render(d))
         /\ Render(d)[1] = Frag(d, 1)
         /\ \A n \in 1..Len(d) : 2 * n - 1 \in 1..Len(Render(d)) /\ Render(d)[2 * n - 1] = Frag(d, n)
         /\ \A j \in 1..Len(Render(d)) :
              Render(d)[j] = NL
              \/ (Render(d)[j].id \in 1..Len(d) /\ Render(d)[j] = Frag(d, Render(d)[j].id))
<1>1. Render(d) \in Seq(Tok) /\ Len(Render(d)) = 2 * Len(d) /\ Len(d) \in 1..MaxLen
  BY RenderType, DocFacts
<1>2. \A j \in 1..2 * Len(d) :
        Render(d)[j] = IF j % 2 = 1 THEN Frag(d, (j + 1) \div 2) ELSE NL
  BY DEF Render
<1>3. \A j \in 1..2 * Len(d) : j % 2 = 1 => (j + 1) \div 2 \in 1..Len(d)
  BY <1>1
<1>4. WellFormed(Render(d))
  <2> SUFFICES ASSUME NEW j \in 1..Len(Render(d)), Render(d)[j].t = "frag"
               PROVE  /\ j < Len(Render(d)) /\ Render(d)[j + 1] = NL
                      /\ (j = 1 \/ Render(d)[j - 1] = NL)
    BY DEF WellFormed
  <2>1. j % 2 = 1
    BY <1>1, <1>2 DEF NL
  <2>2. j < 2 * Len(d) /\ (j + 1) % 2 = 0 /\ (j > 1 => (j - 1) % 2 = 0)
    BY <1>1, <2>1
  <2>3. QED
    BY <1>1, <1>2, <2>2
<1>5. \A n \in 1..Len(d) : 2 * n - 1 \in 1..Len(Render(d)) /\ Render(d)[2 * n - 1] = Frag(d, n)
  <2> TAKE n \in 1..Len(d)
  <2>1. 2 * n - 1 \in 1..2 * Len(d) /\ (2 * n - 1) % 2 = 1 /\ (2 * n - 1 + 1) \div 2 = n
    BY <1>1
  <2>2. QED
    BY <1>1, <1>2, <2>1
<1>6. \A j \in 1..Len(Render(d)) :
        Render(d)[j] = NL
        \/ (Render(d)[j].id \in 1..Len(d) /\ Render(d)[j] = Frag(d, Render(d)[j].id))
  <2> TAKE j \in 1..Len(Render(d))
  <2>1. CASE j % 2 = 1
    <3>1. Render(d)[j] = Frag(d, (j + 1) \div 2) /\ (j + 1) \div 2 \in 1..Len(d)
      BY <1>1, <1>2, <1>3, <2>1
    <3>2. Frag(d, (j + 1) \div 2).id = (j + 1) \div 2
      BY DEF Frag
    <3>3. QED
      BY <3>1, <3>2
  <2>2. CASE j % 2 # 1
    BY <1>1, <1>2, <2>2
  <2>3. QED
    BY <2>1, <2>2
<1>7. Render(d)[1] = Frag(d, 1)
  BY <1>1, <1>5
<1>8. QED
  BY <1>4, <1>5, <1>6, <1>7

LEMMA KInit == LRInit => KInv
<1> SUFFICES ASSUME LRInit PROVE KInv
  OBVIOUS
<1>1. TypeInv
  BY TypeInit
<1>2. doc \in Seq(Vocab) /\ DOMAIN doc = 1..Len(doc)
  BY <1>1, DocFacts, LenProperties DEF TypeInv
<1>3. text = Render(doc)
  BY DEF LRInit
<1>4. WellFormed(text) /\ text[1] = Frag(doc, 1) /\ Len(text) >= 1
  BY <1>1, <1>3, RenderShape, RenderType, DocFacts DEF TypeInv
<1>5. FragsOfDoc
  BY <1>1, <1>2, <1>3, RenderShape DEF TypeInv, FragsOfDoc
<1>6. KeptPresent
  BY <1>1, <1>2, <1>3, RenderShape DEF TypeInv, KeptPresent
<1>7. QED
  BY <1>1, <1>4, <1>5, <1>6 DEF TypeInv, KInv

LEMMA KStep ==
  ASSUME NlRulesOnly
  PROVE  KInv /\ [LRNext]_lrvars => KInv'
<1> SUFFICES ASSUME KInv, [LRNext]_lrvars PROVE KInv'
  OBVIOUS
<1>1. TypeInv'
  BY TypeStep DEF KInv, TypeInv
<1>2. CASE Match
  <2>1. /\ text \in Seq(Tok) /\ rules \in Seq(RuleRec)
        /\ r \in 1..Len(rules) /\ p \in 1..Len(text)
    BY <1>2, RuleSetsAssumption DEF KInv, LRTypeOK, Match
  <2>2. rules[r].form = "nl" /\ rules[r].target \notin Kept \cup {"blank"}
    BY <2>1 DEF KInv, NlRulesOnly
  <2>3. MatchEnd(text, p, rules[r]) = NlEnd(text, p, rules[r])
    BY <2>2 DEF MatchEnd
  <2>4. PICK e \in Nat : e = NlEnd(text, p, rules[r])
    BY <2>1, NlEndRange
  <2>5. /\ e \in p+1..Len(text)
        /\ text[p] = NL
        /\ text[e].t = "frag"
        /\ text[e].kind = rules[r].target
        /\ \A j \in p..e - 1 : text[j] = NL \/ text[j].kind = "blank"
    BY <1>2, <2>1, <2>3, <2>4, NlMatch DEF Match
  <2>6. p >= 2
    BY <2>1, <2>5 DEF KInv, Frag, NL
  <2>7. text' = Cut(text, p, e)
    BY <1>2, <2>3, <2>4 DEF Match
  <2>8. /\ Len(text') = Len(text) - (e - p + 1)
        /\ \A i \in 1..Len(text') :
             text'[i] = IF i < p THEN text[i] ELSE text[i + (e - p + 1)]
    <3>1. /\ Len(Cut(text, p, e)) = Len(text) - (e - p + 1)
          /\ \A i \in 1..Len(Cut(text, p, e)) :
               Cut(text, p, e)[i] = IF i < p THEN text[i] ELSE text[i + (e - p + 1)]
      BY <2>1, <2>5, CutProperties
    <3>2. QED
      BY <2>7, <3>1
  <2>9. WellFormed(text')
    BY <2>1, <2>5, <2>6, <2>7, CutWellFormed DEF KInv
  <2>10. Len(text') >= 1 /\ text'[1] = Frag(doc, 1)
    <3>1. Len(text') >= 1
      BY <2>1, <2>5, <2>6, <2>8
    <3>2. 1 \in 1..Len(text') /\ 1 < p
      BY <2>1, <2>5, <2>6, <2>8, <3>1
    <3>3. text'[1] = text[1]
      BY <2>8, <3>2
    <3>4. QED
      BY <3>1, <3>3 DEF KInv
  <2>11. \A i \in 1..Len(text') : \E j \in 1..Len(text) : text'[i] = text[j]
    <3> SUFFICES ASSUME NEW i \in 1..Len(text')
                 PROVE  \E j \in 1..Len(text) : text'[i] = text[j]
      OBVIOUS
    <3>1. CASE i < p
      <4>1. i \in 1..Len(text)
        BY <2>1, <3>1
      <4>2. QED
        BY <2>8, <3>1, <4>1
    <3>2. CASE ~(i < p)
      <4>1. i + (e - p + 1) \in 1..Len(text)
        BY <2>1, <2>5, <2>8
      <4>2. QED
        BY <2>8, <3>2, <4>1
    <3>3. QED
      BY <3>1, <3>2
  <2>12. FragsOfDoc'
    BY <1>2, <2>11 DEF KInv, FragsOfDoc, Match
  <2>13. KeptPresent'
    <3> SUFFICES ASSUME NEW n \in DOMAIN doc, doc[n] \in Kept
                 PROVE  \E m \in 1..Len(text') : text'[m] = Frag(doc, n)
      BY <1>2 DEF KeptPresent, Match
    <3>1. PICK m \in 1..Len(text) : text[m] = Frag(doc, n)
      BY DEF KInv, KeptPresent
    <3>2. text[m].kind \in Kept /\ text[m].t = "frag"
      BY <3>1 DEF Frag
    <3>3. ~(m \in p..e)
      <4>1. m # e
        BY <2>2, <2>5, <3>2
      <4>2. ~(m \in p..e-1)
        BY <2>5, <3>2 DEF NL, Kept
      <4>3. QED
        BY <2>1, <2>5, <4>1, <4>2
    <3>4. CASE m < p
      <4>1. m \in 1..Len(text')
        BY <2>1, <2>5, <2>8, <3>4
      <4>2. QED
        BY <2>8, <3>1, <3>4, <4>1
    <3>5. CASE ~(m < p)
      <4>1. m - (e - p + 1) \in 1..Len(text') /\ ~(m - (e - p + 1) < p)
        BY <2>1, <2>5, <2>8, <3>3, <3>5
      <4>2. text'[m - (e - p + 1)] = text[m - (e - p + 1) + (e - p + 1)]
        BY <2>8, <4>1
      <4>3. m - (e - p + 1) + (e - p + 1) = m
        BY <2>1, <2>5
      <4>4. QED
        BY <3>1, <4>1, <4>2, <4>3
    <3>6. QED
      BY <3>4, <3>5
  <2>14. QED
    BY <1>1, <2>9, <2>10, <2>12, <2>13, <1>2 DEF KInv, TypeInv, Match
<1>3. CASE NoMatch \/ NextRule \/ UNCHANGED lrvars
  <2>1. UNCHANGED <<doc, rules, text>>
    BY <1>3 DEF NoMatch, NextRule, lrvars
  <2>2. QED
    BY <1>1, <2>1 DEF KInv, TypeInv, FragsOfDoc, KeptPresent
<1>4. QED
  BY <1>2, <1>3 DEF LRNext

\* KInv gives every kept frag a '\n' on each side.
LEMMA KeptIntactFromKInv == KInv => KeptLinesIntact
<1> SUFFICES ASSUME KInv, NEW n \in DOMAIN doc, doc[n] \in Kept
             PROVE  \E m \in 1..Len(text) :
                      text[m] = Frag(doc, n) /\ AtLineStart(text, m) /\ AtLineEnd(text, m)
  BY DEF KeptLinesIntact
<1>1. PICK m \in 1..Len(text) : text[m] = Frag(doc, n)
  BY DEF KInv, KeptPresent
<1>2. m < Len(text) /\ text[m + 1] = NL /\ (m = 1 \/ text[m - 1] = NL)
  BY <1>1 DEF KInv, WellFormed, Frag
<1>3. AtLineStart(text, m)
  <2>1. CASE m = 1
    BY <2>1 DEF AtLineStart
  <2>2. CASE m # 1
    <3>1. m - 1 \in 0..m-1 /\ text[m - 1].t = "nl"
      BY <1>2, <2>2 DEF NL
    <3>2. QED
      BY <3>1 DEF AtLineStart
  <2>3. QED
    BY <2>1, <2>2
<1>4. AtLineEnd(text, m)
  <2>1. m + 1 \in m+1..Len(text) /\ text[m + 1].t = "nl"
    BY <1>2 DEF NL
  <2>2. QED
    BY <2>1 DEF AtLineEnd
<1>5. QED
  BY <1>1, <1>3, <1>4

(***************************************************************************)
(* KeptLinesIntact: for every script whose rules are all of the \n\s+X    *)
(* form and target lines with text that are not kept, as                  *)
(* fix-handlers-v2.py's are, each kept line of every file stays whole on a *)
(* line of its own through every re.sub call.  The argument is KInv: every *)
(* frag keeps a '\n' on each side, since a match runs from a '\n' to the  *)
(* end of a target frag, whose own '\n' then follows what preceded the    *)
(* match; and a match never takes a kept frag.                             *)
(***************************************************************************)
THEOREM KeptLinesIntactHolds ==
  ASSUME NlRulesOnly
  PROVE  LRSpec => []KeptLinesIntact
<1>1. KInv /\ [LRNext]_lrvars => KInv'
  BY KStep
<1>2. QED
  BY KInit, <1>1, KeptIntactFromKInv, PTL DEF LRSpec

(***************************************************************************)
(* The sweep of one \n\s+X call.                                           *)
(***************************************************************************)
\* A '\n' at k right before a frag with text at k+1: a \s run that starts
\* at k ends at k+1.
LEMMA RunEndNext ==
  ASSUME NEW s \in Seq(Tok), NEW k \in 1..Len(s), k + 1 <= Len(s), s[k] = NL,
         s[k + 1].t = "frag", s[k + 1].kind # "blank"
  PROVE  NlRunEnd(s, k) = k + 1
<1>1. /\ NlRunEnd(s, k) \in k..Len(s) + 1
      /\ NlRunEnd(s, k) <= Len(s) =>
           s[NlRunEnd(s, k)].t = "frag" /\ s[NlRunEnd(s, k)].kind # "blank"
      /\ \A j \in k..NlRunEnd(s, k) - 1 : ~(s[j].t = "frag" /\ s[j].kind # "blank")
  BY RunEndProperties
<1>2. ~(k + 1 \in k..NlRunEnd(s, k) - 1)
  BY <1>1
<1>3. NlRunEnd(s, k) # k
  BY <1>1 DEF NL
<1>4. QED
  BY <1>1, <1>2, <1>3

LEMMA TInit ==
  ASSUME NlRulesOnly
  PROVE  LRInit => TInv
<1> SUFFICES ASSUME LRInit PROVE TInv
  OBVIOUS
<1>1. KInv
  BY KInit
<1>2. r = 1 /\ p = 1
  BY DEF LRInit
<1>3. text[1].kind = "code"
  BY <1>1, DocFacts DEF KInv, Frag
<1>4. \A j \in 1..Len(rules) : rules[j].target \notin Kept
  BY <1>1 DEF KInv, NlRulesOnly
<1>5. QED
  BY <1>1, <1>2, <1>3, <1>4 DEF TInv, Kept

LEMMA TStep ==
  ASSUME NlRulesOnly
  PROVE  TInv /\ [LRNext]_lrvars => TInv'
<1> SUFFICES ASSUME TInv, [LRNext]_lrvars PROVE TInv'
  OBVIOUS
<1>1. KInv'
  BY KStep DEF TInv
<1>2. /\ text \in Seq(Tok) /\ rules \in Seq(RuleRec)
      /\ r \in 1..Len(rules) + 1 /\ p \in 1..Len(text) + 1
      /\ WellFormed(text)
  BY RuleSetsAssumption DEF TInv, KInv, LRTypeOK
<1>3. \A j \in 1..Len(rules) :
        rules[j].form = "nl" /\ rules[j].target \notin Kept \cup {"blank"}
  BY DEF TInv, KInv, NlRulesOnly
<1>4. \A j \in 1..Len(rules) : rules[j].target \in Kinds
  <2> SUFFICES ASSUME NEW j \in 1..Len(rules) PROVE rules[j].target \in Kinds
    OBVIOUS
  <2>1. rules[j] \in RuleRec
    BY <1>2, ElementOfSeq
  <2>2. QED
    BY <2>1 DEF RuleRec
<1>5. CASE Match
  <2>1. r \in 1..Len(rules) /\ p \in 1..Len(text)
    BY <1>2, <1>5 DEF Match
  <2>2. MatchEnd(text, p, rules[r]) = NlEnd(text, p, rules[r])
    BY <1>3, <2>1 DEF MatchEnd
  <2>3. PICK e \in Nat : e = NlEnd(text, p, rules[r])
    BY <1>2, <2>1, NlEndRange
  <2>4. /\ e \in p+1..Len(text)
        /\ text[e].t = "frag"
    BY <1>2, <1>5, <2>1, <2>2, <2>3, NlMatch DEF Match
  <2>5. e < Len(text) /\ text[e + 1] = NL
    BY <1>2, <2>4 DEF WellFormed
  <2>6. /\ text' = Cut(text, p, e)
        /\ UNCHANGED <<rules, r, p>>
    BY <1>5, <2>2, <2>3 DEF Match
  <2>7. /\ Len(Cut(text, p, e)) = Len(text) - (e - p + 1)
        /\ \A i \in 1..Len(Cut(text, p, e)) :
             Cut(text, p, e)[i] = IF i < p THEN text[i] ELSE text[i + (e - p + 1)]
    BY <1>2, <2>1, <2>4, CutProperties
  <2>8. \A i \in 1..Len(text') : \E j \in 1..Len(text) : text'[i] = text[j]
    <3> SUFFICES ASSUME NEW i \in 1..Len(text')
                 PROVE  \E j \in 1..Len(text) : text'[i] = text[j]
      OBVIOUS
    <3>1. CASE i < p
      <4>1. i \in 1..Len(text) /\ i \in 1..Len(Cut(text, p, e))
        BY <1>2, <2>1, <2>6, <3>1
      <4>2. text'[i] = text[i]
        BY <2>6, <2>7, <3>1, <4>1
      <4>3. QED
        BY <4>1, <4>2
    <3>2. CASE ~(i < p)
      <4>0. /\ Len(text') = Len(text) - (e - p + 1)
            /\ Len(text) \in Nat /\ i \in 1..Len(text')
        BY <1>2, <2>6, <2>7
      <4>1. i + (e - p + 1) \in 1..Len(text)
        BY <2>1, <2>4, <4>0
      <4>2. QED
        BY <2>6, <2>7, <3>2, <4>1
    <3>3. QED
      BY <3>1, <3>2
  <2>9. \A j \in 1..r-1 : \A m \in 1..Len(text') : text'[m].kind # rules[j].target
    BY <2>6, <2>8 DEF TInv
  <2>10. \A m \in 1..p : m <= Len(text') => text'[m].kind # rules[r].target
    <3> SUFFICES ASSUME NEW m \in 1..p, m <= Len(text')
                 PROVE  text'[m].kind # rules[r].target
      OBVIOUS
    <3>1. CASE m < p
      <4>1. text'[m] = text[m] /\ m <= Len(text)
        BY <1>2, <2>1, <2>6, <2>7, <3>1
      <4>2. QED
        BY <2>1, <4>1 DEF TInv
    <3>2. CASE m = p
      <4>0. /\ m \in 1..Len(Cut(text, p, e)) /\ ~(m < p)
            /\ m + (e - p + 1) = e + 1
        BY <1>2, <2>1, <2>4, <2>6, <3>2
      <4>1. text'[m] = text[e + 1]
        BY <2>6, <2>7, <4>0
      <4>2. text'[m].kind = "nl"
        BY <2>5, <4>1 DEF NL
      <4>3. rules[r].target \in Kinds
        BY <1>4, <2>1
      <4>4. QED
        BY <4>2, <4>3 DEF Kinds
    <3>3. QED
      BY <2>1, <3>1, <3>2
  <2>11. QED
    BY <1>1, <2>6, <2>9, <2>10 DEF TInv
<1>6. CASE NoMatch
  <2>1. r \in 1..Len(rules) /\ p \in 1..Len(text)
    BY <1>2, <1>6 DEF NoMatch
  <2>2. NlEnd(text, p, rules[r]) = 0
    BY <1>3, <1>6, <2>1 DEF NoMatch, MatchEnd
  <2>3. p + 1 <= Len(text) => text[p + 1].kind # rules[r].target
    <3> SUFFICES ASSUME p + 1 <= Len(text), text[p + 1].kind = rules[r].target
                 PROVE  FALSE
      OBVIOUS
    <3>1. text[p + 1].t = "frag" /\ text[p + 1].kind # "blank"
      <4>1. text[p + 1] \in Tok
        BY <1>2, <2>1
      <4>2. QED
        BY <1>3, <1>4, <2>1, <4>1, TokCases DEF NL, Kinds
    <3>2. text[p] = NL
      BY <1>2, <2>1, <3>1 DEF WellFormed
    <3>3. NlRunEnd(text, p) = p + 1
      BY <1>2, <2>1, <3>1, <3>2, RunEndNext
    <3>4. NlEnd(text, p, rules[r]) = p + 1
      BY <3>2, <3>3 DEF NlEnd, NL
    <3>5. QED
      BY <2>1, <2>2, <3>4
  <2>4. UNCHANGED <<text, rules, r>> /\ p' = p + 1
    BY <1>6 DEF NoMatch
  <2>5. \A m \in 1..p + 1 : m <= Len(text) => text[m].kind # rules[r].target
    BY <2>1, <2>3 DEF TInv
  <2>6. QED
    BY <1>1, <2>4, <2>5 DEF TInv
<1>7. CASE NextRule
  <2>1. r \in 1..Len(rules) /\ p > Len(text)
    BY <1>2, <1>7 DEF NextRule
  <2>2. UNCHANGED <<text, rules>> /\ r' = r + 1 /\ p' = 1
    BY <1>7 DEF NextRule
  <2>3. \A m \in 1..Len(text) : text[m].kind # rules[r].target
    BY <1>2, <2>1 DEF TInv
  <2>4. \A j \in 1..r : \A m \in 1..Len(text) : text[m].kind # rules[j].target
    BY <1>2, <2>1, <2>3 DEF TInv
  <2>5. r + 1 <= Len(rules) => text[1].kind # rules[r + 1].target
    <3>1. text[1].kind = "code"
      BY DocFacts DEF TInv, KInv, Frag
    <3>2. QED
      BY <1>2, <1>3, <2>1, <3>1 DEF Kept
  <2>6. \A j \in 1..r'-1 : \A m \in 1..Len(text') : text'[m].kind # rules'[j].target
    BY <2>1, <2>2, <2>4
  <2>7. r' <= Len(rules') =>
          \A m \in 1..p' : m <= Len(text') => text'[m].kind # rules'[r'].target
    BY <2>2, <2>5
  <2>8. QED
    BY <1>1, <2>6, <2>7 DEF TInv
<1>8. CASE UNCHANGED lrvars
  BY <1>1, <1>8 DEF TInv, lrvars
<1>9. QED
  BY <1>5, <1>6, <1>7, <1>8 DEF LRNext

\* With every line kind kept, blank or targeted, TInv leaves no target of a
\* finished call, and so nothing but kept lines, blanks and '\n's, at Done.
LEMMA TargetsFromTInv ==
  ASSUME VocabTargeted
  PROVE  TInv => TargetsRemoved
<1> SUFFICES ASSUME TInv, Done, NEW m \in 1..Len(text)
             PROVE  text[m].kind \in Kept \cup {"nl", "blank"}
  BY DEF TargetsRemoved
<1>1. r = Len(rules) + 1 /\ rules \in RuleSets
  BY DEF TInv, KInv, LRTypeOK, Done
<1>2. \A j \in 1..Len(rules) : text[m].kind # rules[j].target
  BY <1>1 DEF TInv
<1>3. CASE text[m] = NL
  BY <1>3 DEF NL
<1>4. CASE text[m].id \in DOMAIN doc /\ text[m] = Frag(doc, text[m].id)
  <2>1. doc \in Seq(Vocab)
    BY DocFacts DEF TInv, KInv
  <2>2. text[m].kind \in Vocab
    BY <1>4, <2>1 DEF Frag
  <2>3. text[m].kind \in Kept \cup {"blank"} \cup {rules[j].target : j \in 1..Len(rules)}
    BY <1>1, <2>2 DEF VocabTargeted
  <2>4. QED
    BY <1>2, <2>3
<1>5. QED
  BY <1>3, <1>4 DEF TInv, KInv, FragsOfDoc

(***************************************************************************)
(* TargetsRemoved: for every script of \n\s+X rules on lines with text    *)
(* that are not kept, as fix-handlers-v2.py's are, run on a file each of   *)
(* whose line kinds is kept, blank or targeted, every re.sub call sweeps   *)
(* its target out: the scan never passes a target, because a '\n' before a *)
(* target line starts a match there, and a match leaves the target's own   *)
(* '\n' at the scan position.  When the last call is done no target line   *)
(* of any call is left.                                                    *)
(***************************************************************************)
THEOREM TargetsRemovedHolds ==
  ASSUME NlRulesOnly, VocabTargeted
  PROVE  LRSpec => []TargetsRemoved
<1>1. TInv /\ [LRNext]_lrvars => TInv'
  BY TStep
<1>2. TInv => TargetsRemoved
  BY TargetsFromTInv
<1>3. LRInit => TInv
  BY TInit
<1>4. QED
  BY <1>1, <1>2, <1>3, PTL DEF LRSpec
=============================================================================
