------------------------------ MODULE LineRules ------------------------------
(***************************************************************************)
(* The line-deleting regular expressions of the patch scripts (the Inline  *)
(* Rewriter): each script runs a fixed list of re.sub(pattern, '', content) *)
(* calls, one after the other, over the whole text of a handler file.      *)
(*                                                                         *)
(* A file is a sequence of line kinds (doc).  Its text is a sequence of    *)
(* tokens: a line's content is one "frag" token naming the line it came    *)
(* from (its indentation included), and every '\n' is an "nl" token.  A    *)
(* blank line's frag is of kind "blank" and holds no text, so the patterns *)
(* see through it.  Whitespace the patterns' \s match is the nl tokens,    *)
(* the blank frags and the indentation at the start of a frag.             *)
(*                                                                         *)
(* A rule has a target kind and one of three pattern forms:                *)
(*   "nl"    \n\s+X       (fix-handlers-v2.py)                            *)
(*   "join"  \s*X\n or \s+X\n  (fix-all-handlers.py, fix-plugin-errors.py, *)
(*           fix-plugin-security-refs.py); eol marks X ending in [^\n]+    *)
(*   "reach" \s*X[^;]+\n  (fix-plugin-security-refs.py lines 36 and 39)    *)
(* \s+ and \s* differ only for a target on the file's first line without  *)
(* indentation; the first line of a Go file is its package clause.         *)
(*                                                                         *)
(* re.sub is modelled as its scan: at position p it tries a match; on a    *)
(* match the matched tokens are cut out and the scan resumes where the     *)
(* match ended, which is p in the new text; otherwise it moves on to p+1.  *)
(***************************************************************************)
EXTENDS Integers, Sequences

CONSTANTS
  RuleSets,  \* the scripts' rule lists the model chooses from
  Vocab,     \* the line kinds a file is made of
  MaxLen     \* the most lines a file has

\* Line kinds.  Kept lines are those no rule targets.
\*   code    a Go line with no ';'          semi    a line with a ';'
\*   blank   an empty line                  imp     "streamgate/pkg/security" import
\*   time    the "time" import              fld     a field, initialiser or statement
\*   audit   h.auditLogger.LogEvent(ctx, ev)  assign  h.cache = optimization.New...
\*   call    h.cache.Set(k, v), h.metricsCollector.RecordTimer(.., time.Since(..))
Kinds == {"code", "semi", "blank", "imp", "time", "fld", "audit", "assign", "call"}
Kept == {"code", "semi"}

NL == [t |-> "nl", id |-> 0, kind |-> "nl"]
Frag(d, n) == [t |-> "frag", id |-> n, kind |-> d[n]]
Tok == {NL} \cup [t : {"frag"}, id : 1..MaxLen, kind : Kinds]
RuleRec == [form : {"nl", "join", "reach"}, target : Kinds, eol : BOOLEAN]

ASSUME MaxLenAssumption == MaxLen \in Nat
ASSUME VocabAssumption == Vocab \subseteq Kinds
ASSUME RuleSetsAssumption == RuleSets \subseteq Seq(RuleRec)

(***************************************************************************)
(* The text of a file: every line, blank or not, is its frag and a '\n'.  *)
(***************************************************************************)
Render(d) ==
  [j \in 1..2 * Len(d) |-> IF j % 2 = 1 THEN Frag(d, (j + 1) \div 2) ELSE NL]

\* The first frag with text at or after p, or Len(s)+1: the \s run that
\* starts at p.
NlRunEnd(s, p) ==
  LET F == {j \in p..Len(s) : s[j].t = "frag" /\ s[j].kind # "blank"}
  IN  IF F = {} THEN Len(s) + 1 ELSE CHOOSE j \in F : \A k \in F : j <= k

\* The first nl after q, or 0.
LineEnd(s, q) ==
  LET N == {j \in q+1..Len(s) : s[j].t = "nl"}
  IN  IF N = {} THEN 0 ELSE CHOOSE j \in N : \A k \in N : j <= k

(***************************************************************************)
(* Where a match that starts at p ends, 0 if none starts there.            *)
(***************************************************************************)
\* \s*X\n: the whitespace before X, X, and the '\n' right after it (or, for
\* X ending in [^\n]+, everything up to the end of its line).
JoinEnd(s, p, rl) ==
  LET q == NlRunEnd(s, p)
      e == LineEnd(s, q)
  IN  IF q > Len(s) \/ s[q].kind # rl.target THEN 0
      ELSE IF rl.eol THEN e
      ELSE IF e # 0 /\ \A j \in q+1..e-1 : s[j].kind = "blank" THEN e ELSE 0

\* Mutant: the match also takes X's own '\n'.
NlEndWithNewline(s, p, rl) ==
  LET q == NlRunEnd(s, p)
  IN  IF s[p].t = "nl" /\ q < Len(s) /\ s[q].kind = rl.target THEN q + 1 ELSE 0

\* \n\s+X: a '\n', the whitespace after it, and X; X's own '\n' stays.
NlEnd(s, p, rl) ==
  LET q == NlRunEnd(s, p)
  IN  IF s[p].t = "nl" /\ q <= Len(s) /\ s[q].kind = rl.target THEN q ELSE 0

\* Where [^;]+ after q must stop: the first ';' line after q, or past the
\* end of the text.
SemiStop(s, q) ==
  LET Semi == {j \in q+1..Len(s) : s[j].kind = "semi"}
  IN  IF Semi = {} THEN Len(s) + 1 ELSE CHOOSE j \in Semi : \A k \in Semi : j <= k

\* \s*X[^;]+\n: [^;]+ runs up to the next ';' (or the end of the text) and
\* gives back what follows its last '\n'.
ReachEnd(s, p, rl) ==
  LET q == NlRunEnd(s, p)
      N == {j \in q+1..SemiStop(s, q)-1 : s[j].t = "nl"}
  IN  IF q > Len(s) \/ s[q].kind # rl.target \/ N = {} THEN 0
      ELSE CHOOSE j \in N : \A k \in N : k <= j

MatchEnd(s, p, rl) ==
  CASE rl.form = "join"  -> JoinEnd(s, p, rl)
    [] rl.form = "nl"    -> NlEnd(s, p, rl)
    [] rl.form = "reach" -> ReachEnd(s, p, rl)

\* re.sub's replacement of the tokens p..e by ''.
Cut(s, p, e) == SubSeq(s, 1, p - 1) \o SubSeq(s, e + 1, Len(s))

Rule(form, target, eol) == [form |-> form, target |-> target, eol |-> eol]

(***************************************************************************)
(* The scripts' rule lists.  Consecutive calls with the same form on lines *)
(* of one model kind are one rule.                                         *)
(***************************************************************************)
\* Mutant: the audit-call rule left out.
V2RulesNoAudit ==
  << Rule("nl", "imp", FALSE), Rule("nl", "fld", FALSE),
     Rule("nl", "call", FALSE) >>

\* fix-handlers-v2.py 15-43 (line 71 never matches: see the README).
V2Rules ==
  << Rule("nl", "imp", FALSE), Rule("nl", "fld", FALSE),
     Rule("nl", "audit", FALSE), Rule("nl", "call", FALSE) >>

\* fix-all-handlers.py 58-87 (line 90 never matches: see the README).
AllHandlersRules ==
  << Rule("join", "imp", FALSE), Rule("join", "time", FALSE),
     Rule("join", "fld", FALSE), Rule("join", "audit", TRUE),
     Rule("join", "call", TRUE) >>

\* fix-plugin-security-refs.py 19-40.
SecRefsRules ==
  << Rule("join", "imp", FALSE), Rule("join", "fld", FALSE),
     Rule("reach", "assign", FALSE), Rule("reach", "audit", FALSE),
     Rule("join", "audit", FALSE) >>

\* fix-plugin-errors.py 17-26.
PluginErrRules ==
  << Rule("join", "imp", FALSE), Rule("join", "fld", FALSE) >>

VARIABLES
  doc,    \* the file as read
  rules,  \* the script's rule list
  text,   \* content
  r,      \* the re.sub call being run
  p       \* where that call's scan is
lrvars == <<doc, rules, text, r, p>>

\* Files that open with their package clause and end with a closing brace.
Docs == {d \in UNION {[1..n -> Vocab] : n \in 1..MaxLen} :
           d[1] = "code" /\ d[Len(d)] = "code"}

LRInit ==
  /\ doc \in Docs
  /\ rules \in RuleSets
  /\ text = Render(doc)
  /\ r = 1
  /\ p = 1

\* A match of the current rule starts at p: cut it out, scan on from p.
Match ==
  /\ r <= Len(rules) /\ p <= Len(text)
  /\ MatchEnd(text, p, rules[r]) # 0
  /\ text' = Cut(text, p, MatchEnd(text, p, rules[r]))
  /\ UNCHANGED <<doc, rules, r, p>>

\* No match starts at p: try the next position.
NoMatch ==
  /\ r <= Len(rules) /\ p <= Len(text)
  /\ MatchEnd(text, p, rules[r]) = 0
  /\ p' = p + 1
  /\ UNCHANGED <<doc, rules, text, r>>

\* The scan reached the end of the text: the next re.sub call starts.
NextRule ==
  /\ r <= Len(rules) /\ p > Len(text)
  /\ r' = r + 1
  /\ p' = 1
  /\ UNCHANGED <<doc, rules, text>>

LRNext == Match \/ NoMatch \/ NextRule

LRSpec == LRInit /\ [][LRNext]_lrvars

Done == r > Len(rules)

\* The types of the variables, which the proofs carry along.
LRTypeOK ==
  /\ text \in Seq(Tok)
  /\ r \in 1..Len(rules) + 1
  /\ p \in 1..Len(text) + 1

(***************************************************************************)
(* Properties.                                                             *)
(***************************************************************************)

\* Token m starts a line: only blank frags lie between it and the '\n' (or
\* the start of the text) before it.
AtLineStart(s, m) ==
  \E k \in 0..m-1 : (k = 0 \/ s[k].t = "nl") /\ \A j \in k+1..m-1 : s[j].kind = "blank"

\* Token m ends a line: only blank frags lie between it and the next '\n'.
AtLineEnd(s, m) ==
  \E k \in m+1..Len(s) : s[k].t = "nl" /\ \A j \in m+1..k-1 : s[j].kind = "blank"

\* KeptLinesIntact: every line no rule targets is still in the text, on a
\* line of its own: nothing before it on its line and a '\n' after it.
\* Deleting a field must not fuse the fields around it.
KeptLinesIntact ==
  \A n \in DOMAIN doc :
    doc[n] \in Kept =>
      \E m \in 1..Len(text) :
        text[m] = Frag(doc, n) /\ AtLineStart(text, m) /\ AtLineEnd(text, m)

\* TargetsRemoved: when the last re.sub call is done, every line left is a
\* kept one: no import, field, initialiser, audit call or cache call of the
\* removed packages survives (a left-over reference would not compile).
TargetsRemoved ==
  Done => \A m \in 1..Len(text) : text[m].kind \in Kept \cup {"nl", "blank"}

(***************************************************************************)
(* What the proofs assume of a script and rest on.                         *)
(***************************************************************************)
\* Every rule is of the \n\s+X form and targets a line with text that is
\* not kept (fix-handlers-v2.py).
NlRulesOnly ==
  \A rs \in RuleSets : \A j \in 1..Len(rs) :
    rs[j].form = "nl" /\ rs[j].target \notin Kept \cup {"blank"}

\* Every line kind a file may hold is kept, blank or targeted by some rule.
VocabTargeted ==
  \A rs \in RuleSets :
    Vocab \subseteq Kept \cup {"blank"} \cup {rs[j].target : j \in 1..Len(rs)}

\* Every frag stands on a line of its own: a '\n' right after it and right
\* before it, unless it opens the text.
WellFormed(s) ==
  \A m \in 1..Len(s) :
    s[m].t = "frag" => m < Len(s) /\ s[m+1] = NL /\ (m = 1 \/ s[m-1] = NL)

\* Every token is a '\n' or the frag of a line of the file.
FragsOfDoc ==
  \A m \in 1..Len(text) :
    text[m] = NL \/ (text[m].id \in DOMAIN doc /\ text[m] = Frag(doc, text[m].id))

\* Every kept line's frag is still in the text.
KeptPresent ==
  \A n \in DOMAIN doc : doc[n] \in Kept => \E m \in 1..Len(text) : text[m] = Frag(doc, n)

\* KInv: the strengthening of KeptLinesIntact that a \n\s+X step keeps.
KInv ==
  /\ LRTypeOK
  /\ doc \in Docs /\ rules \in RuleSets
  /\ WellFormed(text) /\ FragsOfDoc /\ KeptPresent
  /\ Len(text) >= 1 /\ text[1] = Frag(doc, 1)

\* TInv: with KInv, no target of a finished call is left, and none of the
\* running call's target lies at or before its scan position.
TInv ==
  /\ KInv
  /\ \A j \in 1..r-1 : \A m \in 1..Len(text) : text[m].kind # rules[j].target
  /\ r <= Len(rules) =>
       \A m \in 1..p : m <= Len(text) => text[m].kind # rules[r].target
=============================================================================
