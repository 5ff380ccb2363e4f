------------------------------ MODULE MCLines -------------------------------
(***************************************************************************)
(* Line vocabularies for checking the block stripper with TLC.  Each      *)
(* record is one kind of Go line the scripts meet in the plugin handlers. *)
(***************************************************************************)

\* if !h.rateLimiter.Allow(clientIP) {
RateGuard   == [kind |-> "rate",  o |-> 1, c |-> 0, lo |-> 0, lc |-> 0]
\* if cached, ok := h.cache.Get(key); ok {
CacheGuard  == [kind |-> "cache", o |-> 1, c |-> 0, lo |-> 0, lc |-> 0]
\* a statement: return, w.WriteHeader(...), ...
Stmt        == [kind |-> "code",  o |-> 0, c |-> 0, lo |-> 0, lc |-> 0]
\* if err != nil {
OpenIf      == [kind |-> "code",  o |-> 1, c |-> 0, lo |-> 0, lc |-> 0]
\* }
CloseBrace  == [kind |-> "code",  o |-> 0, c |-> 1, lo |-> 0, lc |-> 0]
\* } else {
ElseLine    == [kind |-> "code",  o |-> 1, c |-> 1, lo |-> 0, lc |-> 0]

\* Lines as gofmt writes them: guards end in '{', no brace in a literal.
GofmtLines == {RateGuard, CacheGuard, Stmt, OpenIf, CloseBrace, ElseLine}

\* if !h.rateLimiter.Allow(id) { return }   (a one-line guard)
OneLineGuard == [kind |-> "rate", o |-> 1, c |-> 1, lo |-> 0, lc |-> 0]

OneLineLines == {OneLineGuard, Stmt, OpenIf, CloseBrace}

\* w.Write([]byte("{"))   (an opening brace inside a string literal)
LiteralBrace == [kind |-> "code", o |-> 0, c |-> 0, lo |-> 1, lc |-> 0]

LiteralLines == {RateGuard, Stmt, CloseBrace, LiteralBrace}

\* Both ways a line's braces stop counting a block: a one-line guard and a
\* brace inside a literal.
UnbalancedLines == OneLineLines \cup LiteralLines
(***************************************************************************)
(* Line vocabulary for the audit-logger loop: o and c count parentheses.   *)
(***************************************************************************)

\* h.auditLogger.LogEvent(ctx, security.AuditEvent{
CallStart   == [kind |-> "audit", o |-> 1, c |-> 0, lo |-> 0, lc |-> 0]
\* if err := h.auditLogger.LogEvent(ctx, ev); err != nil {   (lines 39-40 leave it)
CallLine    == [kind |-> "audit", o |-> 1, c |-> 1, lo |-> 0, lc |-> 0]
\* Action: "upload",   or any line without parentheses
Plain       == [kind |-> "code",  o |-> 0, c |-> 0, lo |-> 0, lc |-> 0]
\* resp, err := client.Do(
OpenCall    == [kind |-> "code",  o |-> 1, c |-> 0, lo |-> 0, lc |-> 0]
\* })
CloseCall   == [kind |-> "code",  o |-> 0, c |-> 1, lo |-> 0, lc |-> 0]
\* }))
DoubleClose == [kind |-> "code",  o |-> 0, c |-> 2, lo |-> 0, lc |-> 0]

ParenLines == {CallStart, CallLine, Plain, OpenCall, CloseCall, DoubleClose}
=============================================================================
