------------------------------ MODULE ZapFields ------------------------------
(***************************************************************************)
(* What the two logger-call normalizers read of a call, the field table    *)
(* FIELD_TYPES of fix-zap-comprehensive.py, and the per-pair rule of       *)
(* spec.md 4.2 as a reference definition.                                  *)
(*                                                                         *)
(* A key is the text between the quotes of a "key" argument, with the two  *)
(* substring tests fix-remaining-logger-errors.py makes on key.lower().    *)
(* A value is the text of a value expression, with the tests both scripts  *)
(* make on it: its leading \w+ run (word, "" when it starts otherwise),    *)
(* whether it is a quoted literal, a (signed) digit string, true/false,    *)
(* holds '.Int64()' or 'int64', holds 'time.', and holds a ')'.            *)
(***************************************************************************)
EXTENDS Integers, Sequences

Key == [name : STRING, hasError : BOOLEAN, hasDuration : BOOLEAN]

Val == [text : STRING, word : STRING, quoted : BOOLEAN, intLit : BOOLEAN,
        boolLit : BOOLEAN, int64 : BOOLEAN, timeTok : BOOLEAN, paren : BOOLEAN]

Pair == [key : Key, val : Val]

\* The constructors a field may be built with: zap.String(...), zap.Error(...).
Ctors == {"String", "Int", "Int64", "Duration", "Bool", "Error"}

\* zap.Error(v) logs v under the key "error"; the other constructors keep theirs.
Field(ctor, key, val) ==
  [ctor |-> ctor, key |-> IF ctor = "Error" THEN "error" ELSE key, val |-> val]

(***************************************************************************)
(* FIELD_TYPES (fix-zap-comprehensive.py 13-86), grouped by the type the   *)
(* table gives.                                                            *)
(***************************************************************************)
StringKeys ==
  {"address", "chain_id", "contract", "cid", "filename", "name", "service_id",
   "service_name", "path", "method", "from", "to", "key", "type", "subject",
   "event_type", "event_id", "tx_hash", "function", "mode", "url", "version",
   "rpc_url", "host", "challenge_id", "from_chain", "alert_id", "signal",
   "owner", "token_id", "asset", "amount", "event", "from_block", "to_block",
   "value", "gas_limit", "expected", "gas_price_wei", "gas_price", "gas",
   "balance"}
IntKeys == {"port", "count", "size", "nonce", "failures", "message_length", "length"}
Int64Keys == {"id", "user_id", "content_id", "block_number"}
DurationKeys == {"duration", "elapsed", "update_interval"}
BoolKeys == {"success", "is_owner", "has_nft", "is_contract"}

FIELD_TYPES ==
  [k \in StringKeys \cup IntKeys \cup Int64Keys \cup DurationKeys \cup BoolKeys \cup {"error"} |->
     IF k \in StringKeys THEN "String"
     ELSE IF k \in IntKeys THEN "Int"
     ELSE IF k \in Int64Keys THEN "Int64"
     ELSE IF k \in DurationKeys THEN "Duration"
     ELSE IF k \in BoolKeys THEN "Bool"
     ELSE "Error"]

(***************************************************************************)
(* spec.md 4.2, per pair: the "error" key always gives an Error field; a   *)
(* key of the table takes the table's type; any other key takes the type   *)
(* of the value's shape.                                                   *)
(***************************************************************************)
ShapeType(v) ==
  IF v.quoted THEN "String"
  ELSE IF v.intLit THEN "Int"
  ELSE IF v.boolLit THEN "Bool"
  ELSE IF v.timeTok THEN "Duration"
  ELSE "String"

SpecType(p) ==
  IF p.key.name = "error" THEN "Error"
  ELSE IF p.key.name \in DOMAIN FIELD_TYPES THEN FIELD_TYPES[p.key.name]
  ELSE ShapeType(p.val)

SpecField(p) == Field(SpecType(p), p.key.name, p.val.text)

\* The fields spec.md 4.2 gives for a list of pairs: one per pair, in order.
SpecFields(ps) == [n \in 1..Len(ps) |-> SpecField(ps[n])]
=============================================================================
