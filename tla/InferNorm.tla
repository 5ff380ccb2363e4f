------------------------------ MODULE InferNorm ------------------------------
(***************************************************************************)
(* fix_logger_call / replace_args of fix-remaining-logger-errors.py: on a  *)
(* line holding logger.<Method>("msg", "k1", v1, ...), the pattern of      *)
(* line 17 matches from the call up to the first ')' after the pairs,      *)
(* re.findall splits the matched text into pairs, each pair is given a     *)
(* zap constructor by the shape of its key and value, and the call is      *)
(* rebuilt with one field per line.                                        *)
(*                                                                         *)
(* Values hold no ','.  A value holding ')' ends the match there: the      *)
(* pairs after it stay in the line as they were (the tail of the result).  *)
(***************************************************************************)
EXTENDS Integers, Sequences, ZapFields

CONSTANTS
  Calls   \* the logger calls a line may hold

Msg == [text : STRING, lit : BOOLEAN, comma : BOOLEAN]
CallRec == [method : STRING, msg : Msg, args : Seq(Pair)]

\* Calls is a set of CallRec records.

\* The index of the first pair whose value holds a ')', else the last pair.
Cut(c) ==
  IF \E n \in 1..Len(c.args) : c.args[n].val.paren
  THEN CHOOSE n \in 1..Len(c.args) :
         c.args[n].val.paren /\ \A m \in 1..(n - 1) : ~c.args[m].val.paren
  ELSE Len(c.args)

\* Line 17: "([^"]+)" then one or more ,\s*"[^"]+",\s*[^,)]+ then \).
Matches(c) == c.msg.lit /\ Len(c.args) >= 1

\* Line 27: re.findall(arg_pattern, args_str), args_str = match.group(4).
Found(c) == SubSeq(c.args, 1, Cut(c))

\* The text the match leaves after it: the pairs after the cut.
Rest(c) == SubSeq(c.args, Cut(c) + 1, Len(c.args))

\* Lines 38-52: the constructor chosen for one pair, first test first.
InferCtor(p) ==
  IF p.val.text = "err" \/ p.key.hasError THEN "Error"
  ELSE IF p.val.quoted THEN "String"
  ELSE IF p.val.intLit THEN "Int"
  ELSE IF p.val.boolLit THEN "Bool"
  ELSE IF p.val.int64 THEN "Int64"
  ELSE IF p.val.timeTok \/ p.key.hasDuration THEN "Duration"
  ELSE "String"

None == [method |-> "", msg |-> "", fields |-> << >>, tail |-> << >>]

VARIABLES
  call,    \* the call on the line
  args,    \* the pairs re.findall returned
  n,       \* the loop's position in args
  fields,  \* zap_fields
  result   \* the rewritten call, None until replace_args returns

ivars == <<call, args, n, fields, result>>

IInit ==
  /\ call \in {c \in Calls : Matches(c)}
  /\ args = Found(call)
  /\ n = 1
  /\ fields = << >>
  /\ result = None

\* One iteration of `for key, value in args`.
Convert ==
  /\ n <= Len(args)
  /\ fields' = Append(fields, Field(InferCtor(args[n]), args[n].key.name,
                                    args[n].val.text))
  /\ n' = n + 1
  /\ UNCHANGED <<call, args, result>>

\* Lines 29-30 and 55-59: the rebuilt call, or the match unchanged.
Rebuild ==
  /\ n > Len(args)
  /\ result = None
  /\ result' = IF args = << >>
                 THEN [method |-> call.method, msg |-> call.msg.text,
                       fields |-> << >>, tail |-> call.args]
                 ELSE [method |-> call.method, msg |-> call.msg.text,
                       fields |-> fields, tail |-> Rest(call)]
  /\ UNCHANGED <<call, args, n, fields>>

INext == Convert \/ Rebuild

ISpec == IInit /\ [][INext]_ivars

(***************************************************************************)
(* ErrorOnlyForErrorKey: a pair becomes zap.Error exactly when its key is  *)
(* "error" (spec.md 8, field inference priority; 4.2 step 1).  Any other   *)
(* key keeps its name and gets a type from the table or the value.         *)
(***************************************************************************)
ErrorOnlyForErrorKey ==
  \A k \in 1..Len(fields) :
    (fields[k].ctor = "Error") <=> (args[k].key.name = "error")
=============================================================================
