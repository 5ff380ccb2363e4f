# Verification project for the streamgate patch scripts

The repository's `src/scripts/` holds seven Python scripts that patch the Go
sources of streamgate in place. They delete everything that belongs to the
rate-limiter/audit-logger (`pkg/security`) and local-cache (`pkg/optimization`)
facilities, and they rewrite logger calls that pass loose key/value
pairs (`logger.Info("msg", "port", p)`) into zap's typed fields
(`logger.Info("msg", zap.Int("port", p))`). `spec.md` describes them as one
source-patch engine. This directory holds the TLA+ model of that engine,
the TLC runs that check it, and the TLAPS proofs about it.

## 1. Inventory

### Components

| Component | Code | State it keeps | Operations |
|---|---|---|---|
| Block Stripper | `remove_rate_limit_blocks`, `remove_cache_blocks` (fix-all-handlers.py 7-47); loops at fix-plugin-security-refs.py 64-98; combined loop at fix-handlers-v2.py 46-68 | the lines of the file, the loop index, `skip`, `brace_count`, `new_lines` | one loop iteration: open a guard block, erase a line inside it, keep a line |
| Paren Stripper | fix-plugin-security-refs.py 42-57 | lines, `skip_until_paren`, `new_lines` | one iteration: start skipping at `auditLogger.LogEvent(`, erase, keep |
| Inline Rewriter | the `re.sub` lists of every `fix_file` (for example fix-handlers-v2.py 15-43, fix-plugin-security-refs.py 19-40, fix-all-handlers.py 58-90) | the file text | one substitution per rule, in a fixed order |
| Call Normalizer | `fix_logger_call` in fix-zap-comprehensive.py 88-163 and fix-remaining-logger-errors.py 11-61; the fixed patterns of fix-plugin-errors.py 17-53, fix-plugin-security-refs.py 110-119 and fix-cmd-logger.py 13-54 | the text of one call: position in the argument text, the fields built so far | skip separators, take an `"error", err` pair, take a key/value pair, skip one unparsable character, rebuild the call |
| Rule Catalog | `FIELD_TYPES` (fix-zap-comprehensive.py 13-86) and the pattern lists | none (constant) | lookup |
| Patch Driver | the `main` / `__main__` loop of each script and the read/compare/write tail of each `fix_file` | worklist position, the files on disk, the change count | read a file, transform, write if changed, skip a missing file, stop or go on after an error |

The components interact only by passing the text of one file along a fixed
pipeline inside one process: Driver -> Inline Rewriter -> Block Stripper
passes -> Call Normalizer -> Driver (compare and write). There are no
threads, callbacks or messages. What is hard is therefore not concurrency but
(a) hand-written scanners whose state (a depth counter, a skip flag) must
track the nesting of text they do not parse, (b) regular expressions whose
greedy classes and leading `\s*` reach further than the line they mean to
delete, (c) the order of rules and tests inside one loop, and (d) a driver
that writes files one by one with no rollback, so a failure half-way leaves
the tree partly patched.

### What makes each component correct

* Block Stripper: removes exactly each guard block, opening line through
  matching close, consumes nested blocks, and keeps every other line in order
  (spec.md 4.1, 8 "block balance" and "non-erasure of unrelated lines").
* Paren Stripper: removes exactly the lines of the multi-line call.
* Inline Rewriter: each rule deletes only the construct it names; other
  lines are kept byte for byte, each on its own line; running the rules again
  changes nothing (idempotence).
* Call Normalizer: one field per key/value pair, in order; `"error"` always
  gives `zap.Error(value)` over the whole value; a table entry wins over
  the value's shape; the message is kept.
* Patch Driver: a file is written if and only if its text changed; a
  missing file is skipped; an I/O error stops the run; the count is the
  number of files written.

## 2. Plan

Modules, in the order they are built (the most important behaviour first):

1. `BlockScan` (done): the brace-depth loop, parameterised by the guard
   kinds tested before (`Early`) and after (`Late`) the `if skip` branch,
   so one module covers all five loops of the scripts.
2. `StripIntent` (done): the stripper of spec.md 4.1 as an abstract
   specification; `MCBlockScan` and `MCStripCheck` check refinement with
   `INSTANCE StripIntent WITH erasing <- skip, depth <- brace`.
3. `StripCheck` (done): code loop and intended loop in lockstep, so that
   "never deletes a line the intent keeps" is a state invariant that TLAPS
   can prove.
4. `ParenScan`, `ParenCheck` (done): the audit-logger loop, with the same lockstep property.
5. `ZapFields`, `CompNorm`, `InferNorm` (done): the key/value loop of fix-zap-comprehensive.py with
   FIELD_TYPES as a constant, and the inference of
   fix-remaining-logger-errors.py, each checked against the field list
   spec.md 4.2 specifies (a reference operator over bounded argument lists).
6. `LineRules` (done): the regex deletions modelled on the line structure (which
   lines go, which neighbours are joined), checked for non-erasure of
   unrelated lines, for leaving no target behind and for termination.
   Idempotence is not checked yet.
7. `PatchDriver` (done): the worklist loop with missing, unreadable and unwritable
   files and a crash between files, checked for write-iff-changed, the change
   count and what a failed run leaves on disk.
8. `Pipeline` (not yet): composes LineRules, the BlockScan passes and CallNorm in
   the order one script applies them, checked for idempotence of the whole
   script (spec.md 8, scenario 4).

Theorems worth proving, in order: type correctness of each loop (done for
BlockScan, ParenScan and PatchDriver); NoOverErase for every file (done);
NoLeftovers for the audit-logger loop (done); the change count for
PatchDriver (done); DoneMeansAllFixed (done); for the normalizers, that one loop iteration never
consumes more than one key/value pair (not yet).

## 3. What is modelled and how

### BlockScan (fix-all-handlers.py 7-47 and its copies)

`doc` is `content.split('\n')`. A line is a record: `kind` is which guard
substring test it passes (`"rate"` for `if !h.rateLimiter.Allow(` /
`if !p.rateLimiter.Allow(`, `"cache"` for `if cached, ok := h.cache.Get(`,
`"code"` otherwise), `o`/`c` are its code braces, and `lo`/`lc` the braces
inside string literals, which `line.count('{')` counts too (`Delta`).
`out` is `new_lines`, held as the indices of the kept lines so that a
property can say which line survived. One action per branch of the loop
body: `Open` (guard test before the skip branch: lines 15-18), `Erase`
(lines 19-23), `OpenLate` (the cache test that fix-handlers-v2.py places
after the skip branch, lines 61-65), `Keep` (line 24). Every file of at most
`MaxLen` lines over the vocabulary `Lines` is an initial state.

Which script is which constant assignment:

| Loop | Early | Late |
|---|---|---|
| remove_rate_limit_blocks, security-refs 83-98 | {"rate"} | {} |
| remove_cache_blocks, security-refs 65-80 | {"cache"} | {} |
| fix-handlers-v2.py 46-68 | {"rate"} | {"cache"} |

### StripIntent and StripCheck

`StripIntent` is spec.md 4.1: the predicate is tested only when not
erasing, depth counts code braces only (`RealDelta`), a self-closing
opening line is removed alone. `StripCheck` runs BlockScan's `Next` and
StripIntent's `Next` as one step over the same `doc` and `i` (each
advances the index by one), with the intent's variables `erasing`, `depth`,
`iout`.

### ParenScan and ParenCheck (fix-plugin-security-refs.py 42-57)

The same line records as BlockScan; `o`/`c` and `lo`/`lc` now count
parentheses (`PDelta`). `sp` is `skip_until_paren`. `Start` is the test at
line 51 (`auditLogger.LogEvent(` in the line, `kind \in Calls`), which sets
`sp` to `1 + count('(') - count(')')` and clears it when that is not
positive; `Skip` is lines 46-50; `Pass` is line 56. The code's `1 +` counts
the call's own `(` twice. `ParenCheck` runs the loop in lockstep with
`StripIntent` instantiated over parentheses (`Preds <- Calls`), exactly as
StripCheck does for braces. `NoLeftovers` says the loop keeps no line the
intended stripper removes; `NoOverErase` the converse.

### ZapFields, CompNorm, InferNorm (the two logger-call normalizers)

A call is a record: the method, the message (`lit`: a string literal;
`comma`: it holds a `,`) and a list of key/value pairs. A key carries its
name and the two substring tests fix-remaining-logger-errors.py makes on
it; a value carries its text and the tests both scripts make on it (leading
`\w+` run, quoted, digits, true/false, int64, `time.`, holds `)`).
`ZapFields` holds `FIELD_TYPES` as written (13-86) and the reference rule of
spec.md 4.2 (`SpecFields`: `"error"` first, then the table, then the
value's shape).

`CompNorm` is `fix_logger_call` of fix-zap-comprehensive.py. `Matches` is
the pattern of line 161; `CInit` does what lines 90-96 do: it reads group 3
(the message) as the text to scan. The scan loop 98-143 is four actions
over that text as tokens: `SkipSep` (100-101), `TakeError` (106-113),
`TakeKV` (115-140, the type by `CompCtor`) and `SkipChar` (141-143).
`Rebuild` (145-149) puts group 2, the method name, where the message was.

`InferNorm` is fix-remaining-logger-errors.py. The match of line 17 stops
at the first `)` (`Cut`), `re.findall` returns the pairs before it
(`Found`), `Convert` is one iteration of the for loop 34-52 (`InferCtor`
is its if-chain, first test first), and `Rebuild` builds the result
(29-30 and 54-59), with the pairs after the cut left as they were.

### PatchDriver (the loop of every script's `main`)

One state machine for all seven scripts. A constant record per script
gives its four policies (`ExitDriver`, `BareDriver`, `CheckDriver`,
`CmdDriver`, `WalkDriver`; the comment above each names the lines).
The file system is fixed at the start: each file of the worklist is
present, missing, unreadable or unwritable (`env`); `disk` is what each
file holds. Actions: `SkipMissing` (the `Path.exists()` test, or a walk
that never lists a missing file), `ReadFail`, `NoChange` (the content is
compared with the original and nothing is written), `Truncate`
(`open(f, 'w')`, which empties the file), then `WriteOk` or `WriteFail`,
and `Finish` (the summary line). `OnError` is what the script does with
the exception: `sys.exit(1)`, an uncaught exception, or `except ...:
return False`. The transformation is abstracted to whether it changes a
file (`Changes`).

### LineRules (the `re.sub` deletion lists)

A file is a sequence of line kinds (`doc`): `code` and `semi` (a line
holding a `;`, such as a for clause) are kept; `imp`, `time`, `fld`
(field, initialiser, `startTime :=`/`clientIP :=`), `audit`, `assign`
(`h.cache = ...`) and `call` (`h.cache.Set(...)`, `RecordTimer(...)`) are
targets; `blank` is an empty line. `Render` turns it into the text
`content`: one `frag` token per line (indentation included; a blank line's
frag is of kind `blank` and holds no text, so `\s` matches it), one `nl`
token per `\n`. `Cut` is `re.sub`'s replacement of a match by `''`. A rule is a target kind and a pattern form: `nl`
(`\n\s+X`, fix-handlers-v2.py), `join` (`\s*X\n` or `\s+X\n`, with `eol`
for an `X` that ends in `[^\n]+`) and `reach` (`\s*X[^;]+\n`,
fix-plugin-security-refs.py 36 and 39). Consecutive calls with one form on
one model kind are one rule (`V2Rules`, `AllHandlersRules`, `SecRefsRules`,
`PluginErrRules`). One `re.sub` is its scan: `Match` cuts the match that
starts at position `p` and scans on from `p` (where the old text's match
ended), `NoMatch` moves to `p+1`, `NextRule` starts the next call.
`JoinEnd`, `NlEnd` and `ReachEnd` say where a match starting at `p` ends;
they are the leftmost-match and greedy-backtracking semantics of Python's
`re` for these patterns. The model's output was compared with `re.sub` on
the scripts' own patterns for every file of up to 5 lines over all kinds
and all four lists: they agree on every one. Files start with their package
clause and end with a closing brace (`Docs`).

## 4. Runs

| Run | Checks | Bounds | Shows |
|---|---|---|---|
| strip_no_over_erase | CTypeOK, NoOverErase, IntentOnUnnested | gofmt vocabulary (6 line kinds), files up to 5 lines, fix-handlers-v2 loop | the loop never deletes a line outside every guard block, and on files with no guard inside a guard block it is exactly the intended stripper (refinement of StripIntent) |
| strip_unbalanced_guard | NoOverErase (violation) | `if !h.rateLimiter.Allow(id) { return }` and `w.Write([]byte("{"))` added, files up to 4 lines | a one-line guard deletes the next line too; a `{` in a literal makes the loop delete lines after the block's `}` (TLC prints the shorter trace, the one-line guard; with `OneLineLines` alone or `LiteralLines` alone each one shows) |
| strip_nested_guard | IntentSpec (violation) | gofmt vocabulary, any file | a nested guard ends erasure at the inner `}` |
| paren_no_leftovers | NoLeftovers | 6 line kinds (the call's first line, a one-line call, lines opening, closing and twice closing a paren), files up to 5 lines | the loop never keeps a line of a multi-line audit call |
| paren_over_erase | NoOverErase (violation) | same | `if err := h.auditLogger.LogEvent(ctx, ev); err != nil {` survives the line-joining regexes; the loop then erases every later line to the end of the file |
| comp_groups | CallAsSpecified (violation) | calls Info/Error, keys port/error/user, 4 value shapes, 1-2 pairs | every matched call becomes `logger.Info(Info)` |
| infer_error_key | ErrorOnlyForErrorKey (violation) | keys port/error/error_count/user, 4 values, 1-2 pairs | `"error_count", p` becomes `zap.Error(p)` |
| driver_counts | DTypeOK, CountIsFilesFixed, DoneMeansAllFixed | 3 files, 2 of them changed, every env, all 5 policies | the count is right and a run that ends normally fixed every file it could |
| driver_errors | ErrorsAsSpecified (violation) | same, all 5 policies | spec.md 7's error table fails both ways: under the `sys.exit` policy a missing file ends the run, under the walk policy a failed read or write is printed and the run goes on |
| rules_v2_intact | KeptLinesIntact, TargetsRemoved | V2Rules, 7 kinds, files up to 6 lines | the `\n\s+X` deletions leave every kept line whole on its own line and no target behind |
| rules_join_lines | KeptLinesIntact (violation) | AllHandlersRules and PluginErrRules, 4 kinds, files up to 4 lines | `code / import / code` becomes one line: the neighbours of a deleted line are joined |
| rules_reach_to_semicolon | KeptLinesIntact (violation) | SecRefsRules, 4 kinds, files up to 4 lines | `code / h.cache = ... / code` loses the last line: the match runs to the last newline before the next `;` |

Five lines suffice for every shape the loop distinguishes: a guard, a
nested `if`, an `else`, the closes, and a line after the block (for example
guard, guard, statement, `}`, `}` is the smallest nesting witness, and
guard, `}`, statement the smallest over-erase witness). The vocabulary
holds every brace balance a gofmt line has (-1, 0, +1, and `} else {`).
The loops stop when the file ends, so the runs set `CHECK_DEADLOCK FALSE`.
No fairness is assumed: every property is a safety property.

For LineRules, six lines hold a target between two kept lines next to a
blank line and another target, which is where the three forms differ;
the violations show on three. No termination property is stated: a
finite list of `re.sub` calls always ends, whatever the patterns, so
such a property would be about Python's `re`, not about the scripts; the
same holds of the scan's type invariant `LRTypeOK`, which is kept only as
a conjunct of the proofs' invariants.

For the paren loop, five lines hold the smallest witness of each outcome
(call start, a line closing one paren, a following line). For the
normalizers, two pairs suffice: the group bug shows on one pair, and the
inference rule is per pair. One pair before a `)` value and one after it
show the cut. For the driver, three files, one of them unchanged, let
every policy meet a missing, an unreadable and an unwritable file before
and after a file it fixes. Every environment is an initial state.
Every script is sequential, single-threaded code: there is no
interleaving to explore. Each loop ends because its index grows, and the
driver may stop (`exited`, `crashed`, `done`), so no liveness property is
stated.

## 5. Proofs

* `BlockScanProofs!TypeCorrect`: `Spec => []TypeOK` for every vocabulary
  and file length (lemmas `InitType`, `TypeStep`).
* `StripCheckProofs!NoOverEraseHolds`: under `LiteralsNeverOpen` (no line's
  literals hold more `{` than `}`) and `GuardsOpen` (every guard line has
  code balance at least 1, which is how gofmt lays out an `if` with a body),
  `CSpec => []NoOverErase` for every file. NoOverErase is not inductive on
  its own; the strengthening `IInv` adds that while the loop skips, the
  intended scan is erasing at a depth no smaller than `brace_count`, and that
  an erasing intended scan has positive depth. Each of the loop's actions
  is paired with the intended scan's possible steps; on `Erase` the two
  depths grow by `Delta` and `RealDelta`, and `Delta <= RealDelta` keeps
  the order, so the loop stops skipping no later than the intended scan.
  The hypotheses are exactly what the violation runs break.

* `ParenCheckProofs!PTypeCorrect` and `ParenCheckProofs!NoLeftoversHolds`:
  `skip_until_paren` is a natural number, and, under `LiteralsNeverClose`
  (no line's literals hold more `)` than `(`), the loop keeps no line the
  intended call stripper removes. The strengthening `QInv` says that while
  the intended scan erases, its depth is positive and `sp >= depth + 1`:
  the code's count starts one higher (the doubled `(`) and drops no faster.
* `PatchDriverProofs!DTypeCorrect` and
  `PatchDriverProofs!CountIsFilesFixedHolds`: for every worklist of
  distinct files and each of the five policies, the count is the number
  of fixed files. The strengthening `DInv` says three things. While the run
  goes on, no file at or after the loop position has been touched; this
  needs the worklist to be free of duplicates (`WorkAssumption`). Between
  `open(f, 'w')` and the end of the write, `f` is empty and is a file the
  script means to write. No script both counts and writes unchanged files
  (`Scripts`). With these, `WriteOk` adds exactly one file to the fixed set
  (`FixedAdd`, from `FS_AddElement`), and no other step changes that set.
* `PatchDriverProofs!DoneMeansAllFixedHolds`: a run that reaches `done`
  has fixed every changed file the file system lets it read and write. The
  strengthening `FInv` adds to `DInv` that every such file behind the loop
  position is already fixed (`BehindFixed`; a step that moves past a file
  either fixes it or passes a file that is unchanged, missing or failing),
  and that `done` is reached only with the position past the end of the
  worklist (`DoneAtEnd`). Since the worklist lists every file of `Files`,
  the two give the property.

* `StripCheckProofs!CTypeCorrect`: the type invariant of the composed
  run (the script's loop beside the intended stripper), from the type
  lemmas of each part.
* The LineRules theorems below rest on lemmas about the model's
  operators: `CutProperties` (what `Cut` returns: its length and each
  token, from `SubSeq` and `\o` in SequenceTheorems), `MatchEndRange` (a
  match starting at `p` ends in `p..Len(content)`), and `TypeInit` and
  `TypeStep` (the content stays a token sequence and the scan within it,
  for every rule list). The least and greatest elements that `NlRunEnd`,
  `LineEnd`, `SemiStop` and `ReachEnd` choose come from
  WellFoundedInduction's `WFMin` over `<` on `Nat` (`LeastNat`,
  `GreatestNat`).
* `LineRulesProofs!KeptLinesIntactHolds`: under `NlRulesOnly` (every rule
  is of the `\n\s+X` form and targets a non-kept line with text, which
  `V2Rules` satisfies and the join and reach lists do not), every kept line
  stays whole on a line of its own. The strengthening `KInv` says the
  content is `WellFormed` (every frag has an `nl` after it and one before
  it unless it opens the text), that every token is an `nl` or a frag of
  the file (`FragsOfDoc`), that every kept frag is present (`KeptPresent`),
  and that the first token is the package line. `NlMatch` shows a
  `\n\s+X` match runs from an `nl` at `p` through `nl`s and blank frags to
  a target frag; cutting it (`CutWellFormed`) leaves the target's own `nl`
  after what came before `p`, and never takes a kept frag.
* `LineRulesProofs!TargetsRemovedHolds`: under `NlRulesOnly` and
  `VocabTargeted` (every line kind of the file is kept, blank or the target
  of a rule), no target is left at `Done`. The strengthening `TInv` adds to
  `KInv` that no target of a finished call is left and that no target of
  the running call lies at or before the scan position. A `NoMatch` step
  keeps this because an `nl` followed by a target frag is a match
  (`RunEndNext`); a `Match` step because it leaves the target's `nl` at
  `p`; `NextRule` because the first line is kept code.

Only model-checked: the refinement `IntentOnUnnested` (StripIntent's
`Spec` on files without nested guards, checked in strip_no_over_erase).
Its precondition `NoNestedGuard` needs a sum over a range of lines, a
recursive definition TLAPS cannot reason about here. Also only
model-checked: the violations of KeptLinesIntact by the
join and reach lists, which fall outside `NlRulesOnly`.

## 6. Findings

* fix-plugin-security-refs.py 52: see paren_over_erase.
* fix-zap-comprehensive.py 91: group indices off by one (comp_groups).
* fix-remaining-logger-errors.py 38: substring test on the key (infer_error_key).
* fix-all-handlers.py 122 and fix-plugin-security-refs.py 151: a missing file
  is fatal (driver_errors); fix-handlers-v2.py has no handler at all.
* fix-remaining-logger-errors.py 90 and fix-zap-comprehensive.py 171: I/O
  errors are swallowed (driver_errors).
* Block Stripper findings: strip_unbalanced_guard (one-line guard, brace in
  a literal), strip_nested_guard.
* fix-all-handlers.py 59-87, fix-plugin-errors.py 18-26 and
  fix-plugin-security-refs.py 20-33: a deleted line's neighbours are joined
  (rules_join_lines).
* fix-plugin-security-refs.py 36 and 39: `[^;]+` deletes down to the next
  `;` or the end of the file (rules_reach_to_semicolon).
* fix-handlers-v2.py 42 runs before 71, so 71 never matches and
  `if p.cache != nil {` with an empty body is left; fix-all-handlers.py 86
  and 90 are in the same order (a hazard; not checked, see section 7).
* fix-handlers-v2.py 74 removes the `"time"` import when only
  `time.Now`/`time.Since`/`time.Sleep` remain, and fix-all-handlers.py 61
  removes it always (a hazard; not checked).

## 7. Not modelled

* The rewrites that run after the block loops: fix-handlers-v2.py 71-75
  (cache-stop block, conditional `"time"` removal), fix-all-handlers.py 90,
  fix-plugin-security-refs.py 60-62 and 101-102, and the fixed rate-limit
  block pattern of fix-plugin-errors.py 29-38. Composing LineRules with the
  block loops (the planned `Pipeline`) would reach them.
* Idempotence of the rule lists (spec.md 4.3).
* The dead two-pair rule of fix-plugin-errors.py 42-53.
* The literal call rewrites of fix-cmd-logger.py 13-54 and the fixed
  patterns of fix-plugin-errors.py: they are constant string replacements.
* Console output, directory discovery (`os.walk`, `glob`) beyond "a
  walk never lists a missing file", and the text a field is printed as.
