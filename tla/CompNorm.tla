------------------------------ MODULE CompNorm -------------------------------
(***************************************************************************)
(* fix_file / fix_logger_call of fix-zap-comprehensive.py: the re.sub of   *)
(* line 163 hands each match of the call pattern (line 161) to             *)
(* fix_logger_call, which reads group 1 as the call, group 2 as the        *)
(* message and group 3 as the argument text, scans that text for           *)
(* "key", value pairs and rebuilds the call.                               *)
(*                                                                         *)
(* The pattern's groups are: 1 the call (logger.Info), 2 the method name   *)
(* (Info), 3 the message, 4 the "key", value ... text.                     *)
(*                                                                         *)
(* The text the loop scans is a sequence of tokens: a "str" token is a     *)
(* quoted string (s is its content), "comma" a ',', "space" a run of       *)
(* blanks, "val" a value expression (v) with no ',', ')' or '"' in it.     *)
(* When the loop cannot parse at a token it skips it one character at a    *)
(* time; with no ',' right after a string's closing quote, nothing inside  *)
(* the token can start a match, so the model skips the token whole.        *)
(***************************************************************************)
EXTENDS Integers, Sequences, ZapFields

CONSTANTS
  Calls   \* the logger calls a file may hold

\* A call site logger.<method>(<msg>, <args>): msg is its first argument.
Msg == [text : STRING, lit : BOOLEAN, comma : BOOLEAN]
CallRec == [method : STRING, msg : Msg, args : Seq(Pair)]

\* Calls is a set of CallRec records.

NoVal == [text |-> "", word |-> "", quoted |-> FALSE, intLit |-> FALSE,
          boolLit |-> FALSE, int64 |-> FALSE, timeTok |-> FALSE, paren |-> FALSE]
Tok == [t : {"str", "comma", "space", "val"}, s : STRING, v : Val]
Seps == {"comma", "space"}

\* The pattern of line 161 matches the call: the message ([^,]+) holds no
\* comma and at least one "key", value pair follows it.
Matches(c) == ~c.msg.comma /\ Len(c.args) >= 1

\* match.group(3): the message, as the text the loop scans.
Group3(c) ==
  << IF c.msg.lit THEN [t |-> "str", s |-> c.msg.text, v |-> NoVal]
                  ELSE [t |-> "val", s |-> "", v |-> [NoVal EXCEPT !.text = c.msg.text]] >>

None == [method |-> "", msg |-> "", fields |-> << >>]

VARIABLES
  call,    \* the call being rewritten
  rest,    \* rest = match.group(3), as tokens
  pos,     \* current_pos, as a token index
  pairs,   \* the fields built so far
  result   \* the rebuilt call, None until fix_logger_call returns

cvars == <<call, rest, pos, pairs, result>>

\* Index of the value after "key",\s* at p.
ValIdx(p) == IF p + 2 <= Len(rest) /\ rest[p + 2].t = "space" THEN p + 3 ELSE p + 2

\* re.match(r'"error",\s*(\w+)', rest[current_pos:])
ErrorMatch(p) ==
  /\ rest[p].t = "str" /\ rest[p].s = "error"
  /\ p + 1 <= Len(rest) /\ rest[p + 1].t = "comma"
  /\ ValIdx(p) <= Len(rest) /\ rest[ValIdx(p)].t = "val"
  /\ rest[ValIdx(p)].v.word # ""

\* re.match(r'"([^"]+)",\s*([^,)]+)', rest[current_pos:])
KVMatch(p) ==
  /\ rest[p].t = "str" /\ rest[p].s # ""
  /\ p + 1 <= Len(rest) /\ rest[p + 1].t = "comma"
  /\ ValIdx(p) <= Len(rest) /\ rest[ValIdx(p)].t = "val"

\* FIELD_TYPES.get(key, 'String')
TableType(key) == IF key \in DOMAIN FIELD_TYPES THEN FIELD_TYPES[key] ELSE "String"

\* Lines 125-138; the String branch and the final else give the same field.
CompCtor(key, v) ==
  IF v.text \in {"err", "error"} /\ key = "error" THEN "Error"
  ELSE IF TableType(key) \in {"Int", "Int64", "Duration", "Bool"} THEN TableType(key)
  ELSE "String"

CInit ==
  /\ call \in {c \in Calls : Matches(c)}
  /\ rest = Group3(call)
  /\ pos = 1
  /\ pairs = << >>
  /\ result = None

\* while rest[current_pos] in ', \t\n': current_pos += 1
SkipSep ==
  /\ pos <= Len(rest)
  /\ rest[pos].t \in Seps
  /\ pos' = pos + 1
  /\ UNCHANGED <<call, rest, pairs, result>>

\* "error", err: zap.Error over the \w+ run of the value.  The rest of the
\* value holds no quote, so skipping it character by character adds nothing.
TakeError ==
  /\ pos <= Len(rest)
  /\ rest[pos].t \notin Seps
  /\ ErrorMatch(pos)
  /\ pairs' = Append(pairs, Field("Error", "error", rest[ValIdx(pos)].v.word))
  /\ pos' = ValIdx(pos) + 1
  /\ UNCHANGED <<call, rest, result>>

\* "key", value: the field type from the table, then the special cases.
TakeKV ==
  /\ pos <= Len(rest)
  /\ rest[pos].t \notin Seps
  /\ ~ErrorMatch(pos)
  /\ KVMatch(pos)
  /\ LET key == rest[pos].s
         v   == rest[ValIdx(pos)].v
     IN  pairs' = Append(pairs, Field(CompCtor(key, v), key, v.text))
  /\ pos' = ValIdx(pos) + 1
  /\ UNCHANGED <<call, rest, result>>

\* Can't parse: current_pos += 1.
SkipChar ==
  /\ pos <= Len(rest)
  /\ rest[pos].t \notin Seps
  /\ ~ErrorMatch(pos)
  /\ ~KVMatch(pos)
  /\ pos' = pos + 1
  /\ UNCHANGED <<call, rest, pairs, result>>

\* Lines 146-149: logger_call(message, fields), message being match.group(2).
Rebuild ==
  /\ pos > Len(rest)
  /\ result = None
  /\ result' = [method |-> call.method, msg |-> call.method, fields |-> pairs]
  /\ UNCHANGED <<call, rest, pos, pairs>>

CNext == SkipSep \/ TakeError \/ TakeKV \/ SkipChar \/ Rebuild

CSpec == CInit /\ [][CNext]_cvars

(***************************************************************************)
(* CallAsSpecified: a rewritten call keeps its message and carries one     *)
(* field per "key", value pair, typed as spec.md 4.2 prescribes (scenario  *)
(* 2: logger.Info("started", "port", 8080) becomes                         *)
(* logger.Info("started", zap.Int("port", 8080))).                         *)
(***************************************************************************)
CallAsSpecified ==
  result # None =>
    result = [method |-> call.method, msg |-> call.msg.text,
              fields |-> SpecFields(call.args)]
=============================================================================
