-------------------------------- MODULE MCZap --------------------------------
(***************************************************************************)
(* Keys, values and calls for checking the logger-call normalizers.       *)
(***************************************************************************)
EXTENDS Integers, Sequences

\* "port": an Int key of FIELD_TYPES
KPort     == [name |-> "port", hasError |-> FALSE, hasDuration |-> FALSE]
\* "error"
KError    == [name |-> "error", hasError |-> TRUE, hasDuration |-> FALSE]
\* "error_count": not in the table, 'error' in its name
KErrCount == [name |-> "error_count", hasError |-> TRUE, hasDuration |-> FALSE]
\* "user": in no table
KUser     == [name |-> "user", hasError |-> FALSE, hasDuration |-> FALSE]

Base == [text |-> "", word |-> "", quoted |-> FALSE, intLit |-> FALSE,
         boolLit |-> FALSE, int64 |-> FALSE, timeTok |-> FALSE, paren |-> FALSE]
\* 8080
V8080   == [Base EXCEPT !.text = "8080", !.word = "8080", !.intLit = TRUE]
\* err
VErr    == [Base EXCEPT !.text = "err", !.word = "err"]
\* p
VIdent  == [Base EXCEPT !.text = "p", !.word = "p"]
\* "x"
VQuoted == [Base EXCEPT !.text = "\"x\"", !.quoted = TRUE]
\* res.Err
VDotted == [Base EXCEPT !.text = "res.Err", !.word = "res"]
\* time.Since(start), as the text up to its ')'
VSince  == [Base EXCEPT !.text = "time.Since(start", !.word = "time",
                        !.timeTok = TRUE, !.paren = TRUE]

\* "started": the message of the calls
MStarted == [text |-> "\"started\"", lit |-> TRUE, comma |-> FALSE]

\* Every call of method ms whose argument list has 1..n pairs over ks x vs.
CallsOver(ms, ks, vs, n) ==
  LET ps == {[key |-> k, val |-> v] : k \in ks, v \in vs}
  IN  {[method |-> m, msg |-> MStarted, args |-> a] :
         m \in ms, a \in UNION {[1..l -> ps] : l \in 1..n}}

CompCalls == CallsOver({"Info", "Error"}, {KPort, KError, KUser},
                       {V8080, VErr, VQuoted, VDotted}, 2)
InferCalls == CallsOver({"Info"}, {KPort, KError, KErrCount, KUser},
                        {V8080, VErr, VIdent, VSince}, 2)
=============================================================================
