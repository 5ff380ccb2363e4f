----------------------------- MODULE PatchDriver -----------------------------
(***************************************************************************)
(* The per-file driver loop of the patch scripts: for each file of the     *)
(* worklist, read it, transform it, write it back, count it, and deal with *)
(* a missing, unreadable or unwritable file.  The scripts differ in four   *)
(* policies, one record per script (the Drivers below): whether a file is  *)
(* checked to exist before it is opened (or comes from a directory walk),  *)
(* what an exception does (sys.exit(1), propagate out of the script, or be *)
(* swallowed by fix_file's except), whether the text is written only when  *)
(* it changed, and whether a count of fixed files is kept.                 *)
(*                                                                         *)
(* The transformation itself is abstracted to whether it changes the text  *)
(* of a file (Changes).  The environment is fixed at the start: each file  *)
(* is present, missing, unreadable or unwritable (Env).  open(f, 'w')      *)
(* truncates the file before f.write runs, so a write that fails leaves   *)
(* the file empty.                                                         *)
(***************************************************************************)
EXTENDS Integers, Sequences, FiniteSets, Functions

CONSTANTS
  Work,      \* the worklist, a sequence of distinct files
  Changes,   \* the files whose text the transformation changes
  Drivers    \* the driver policies considered

DriverRec == [exists : BOOLEAN, onError : {"exit", "raise", "swallow"},
              writeAlways : BOOLEAN, counts : BOOLEAN]

\* fix-all-handlers.py 105-124 and fix-plugin-security-refs.py 130-153:
\* open without a check, sys.exit(1) on any exception, count.
ExitDriver == [exists |-> FALSE, onError |-> "exit", writeAlways |-> FALSE, counts |-> TRUE]
\* fix-handlers-v2.py 86-96: no check, no try, no count.
BareDriver == [exists |-> FALSE, onError |-> "raise", writeAlways |-> FALSE, counts |-> FALSE]
\* fix-plugin-errors.py 62-89: Path.exists() first, no try, count.
CheckDriver == [exists |-> TRUE, onError |-> "raise", writeAlways |-> FALSE, counts |-> TRUE]
\* fix-cmd-logger.py 61-77: Path.exists() first, no try, write always, no count.
CmdDriver == [exists |-> TRUE, onError |-> "raise", writeAlways |-> TRUE, counts |-> FALSE]
\* fix-remaining-logger-errors.py 94-116, fix-zap-comprehensive.py 175-190:
\* files found by walking, every exception swallowed by fix_file, count.
WalkDriver == [exists |-> TRUE, onError |-> "swallow", writeAlways |-> FALSE, counts |-> TRUE]

\* The five scripts' policies.
Scripts == {ExitDriver, BareDriver, CheckDriver, CmdDriver, WalkDriver}

Files == Range(Work)
Envs == {"ok", "missing", "unreadable", "unwritable"}

ASSUME WorkAssumption == Work \in Seq(STRING) /\ IsInjective(Work)
ASSUME DriversAssumption == Drivers \subseteq Scripts /\ Changes \subseteq Files

VARIABLES
  drv,      \* the script's policies
  env,      \* what the file system does with each file
  disk,     \* each file's content: "orig", "fixed", "empty" or "none"
  k,        \* index of the file the loop is at
  stage,    \* "open": about to read Work[k]; "write": the file is truncated
  status,   \* "running", "done", "exited" (sys.exit(1)) or "crashed"
  count,    \* fixed / fixed_count / modified_count
  written,  \* the files opened for writing
  failed    \* the files whose read or write raised

dvars == <<drv, env, disk, k, stage, status, count, written, failed>>

f == Work[k]

DInit ==
  /\ drv \in Drivers
  /\ env \in [Files -> Envs]
  /\ disk = [x \in Files |-> IF env[x] = "missing" THEN "none" ELSE "orig"]
  /\ k = 1
  /\ stage = "open"
  /\ status = "running"
  /\ count = 0
  /\ written = {}
  /\ failed = {}

\* Variant: a swallowed exception skips the next file of the worklist too.
OnErrorSkipNext(next) ==
  /\ failed' = failed \cup {f}
  /\ CASE drv.onError = "exit"    -> status' = "exited" /\ k' = k
       [] drv.onError = "raise"   -> status' = "crashed" /\ k' = k
       [] drv.onError = "swallow" -> status' = status /\ k' = next + 1

\* The exception of a failed open or write, as the script handles it.
OnError(next) ==
  /\ failed' = failed \cup {f}
  /\ CASE drv.onError = "exit"    -> status' = "exited" /\ k' = k
       [] drv.onError = "raise"   -> status' = "crashed" /\ k' = k
       [] drv.onError = "swallow" -> status' = status /\ k' = next

\* if Path(f).exists(): ... else: print("Not found"); a walk never lists it.
SkipMissing ==
  /\ status = "running" /\ k <= Len(Work) /\ stage = "open"
  /\ drv.exists /\ env[f] = "missing"
  /\ k' = k + 1
  /\ UNCHANGED <<drv, env, disk, stage, status, count, written, failed>>

\* open(filepath, 'r') raises: the file is missing and unchecked, or unreadable.
ReadFail ==
  /\ status = "running" /\ k <= Len(Work) /\ stage = "open"
  /\ \/ env[f] = "missing" /\ ~drv.exists
     \/ env[f] = "unreadable"
  /\ OnError(k + 1)
  /\ UNCHANGED <<drv, env, disk, stage, count, written>>

\* Variant: the loop counts every file it processed.
NoChangeCounted ==
  /\ status = "running" /\ k <= Len(Work) /\ stage = "open"
  /\ env[f] \in {"ok", "unwritable"}
  /\ f \notin Changes /\ ~drv.writeAlways
  /\ count' = count + 1
  /\ k' = k + 1
  /\ UNCHANGED <<drv, env, disk, stage, status, written, failed>>

\* Variant: the comparison with the original text left out.
NoChangeUncompared ==
  /\ status = "running" /\ k <= Len(Work) /\ stage = "open"
  /\ env[f] \in {"ok", "unwritable"}
  /\ ~drv.writeAlways
  /\ k' = k + 1
  /\ UNCHANGED <<drv, env, disk, stage, status, count, written, failed>>

\* Read, transform, compare: content == original returns False unwritten.
NoChange ==
  /\ status = "running" /\ k <= Len(Work) /\ stage = "open"
  /\ env[f] \in {"ok", "unwritable"}
  /\ f \notin Changes /\ ~drv.writeAlways
  /\ k' = k + 1
  /\ UNCHANGED <<drv, env, disk, stage, status, count, written, failed>>

\* Read, transform, and open(filepath, 'w'), which empties the file.
Truncate ==
  /\ status = "running" /\ k <= Len(Work) /\ stage = "open"
  /\ env[f] \in {"ok", "unwritable"}
  /\ f \in Changes \/ drv.writeAlways
  /\ disk' = [disk EXCEPT ![f] = "empty"]
  /\ written' = written \cup {f}
  /\ stage' = "write"
  /\ UNCHANGED <<drv, env, k, status, count, failed>>

\* f.write(content) succeeds; fix_file returns True and the loop counts it.
WriteOk ==
  /\ status = "running" /\ stage = "write"
  /\ env[f] = "ok"
  /\ disk' = [disk EXCEPT ![f] = IF f \in Changes THEN "fixed" ELSE "orig"]
  /\ count' = IF drv.counts THEN count + 1 ELSE count
  /\ k' = k + 1
  /\ stage' = "open"
  /\ UNCHANGED <<drv, env, status, written, failed>>

\* f.write raises (disk full, I/O error) after the truncation.
WriteFail ==
  /\ status = "running" /\ stage = "write"
  /\ env[f] = "unwritable"
  /\ OnError(k + 1)
  /\ stage' = "open"
  /\ UNCHANGED <<drv, env, disk, count, written>>

\* The loop ends and the summary is printed.
Finish ==
  /\ status = "running" /\ k > Len(Work)
  /\ status' = "done"
  /\ UNCHANGED <<drv, env, disk, k, stage, count, written, failed>>

DNext == SkipMissing \/ ReadFail \/ NoChange \/ Truncate \/ WriteOk
         \/ WriteFail \/ Finish

DSpec == DInit /\ [][DNext]_dvars

\* Type invariant.
DTypeOK ==
  /\ drv \in DriverRec
  /\ env \in [Files -> Envs]
  /\ disk \in [Files -> {"orig", "fixed", "empty", "none"}]
  /\ k \in 1..(Len(Work) + 1)
  /\ stage \in {"open", "write"}
  /\ status \in {"running", "done", "exited", "crashed"}
  /\ count \in Nat
  /\ written \subseteq Files
  /\ failed \subseteq Files

(***************************************************************************)
(* CountIsFilesFixed: the count a counting script prints is the number of  *)
(* files that now hold their transformed text: a file is counted exactly   *)
(* when its write succeeded, never for a file left unchanged, truncated by *)
(* a failed write or skipped.                                              *)
(***************************************************************************)
CountIsFilesFixed ==
  drv.counts => count = Cardinality({x \in Files : disk[x] = "fixed"})

(***************************************************************************)
(* DoneMeansAllFixed: when the loop has run to its end, every file of the  *)
(* worklist that the transformation changes and the file system lets the  *)
(* script read and write holds its transformed text.                       *)
(***************************************************************************)
DoneMeansAllFixed ==
  status = "done" => \A x \in Changes : env[x] = "ok" => disk[x] = "fixed"

(***************************************************************************)
(* MissingNotFatal: a worklist entry naming no file is skipped and does   *)
(* not end the run (spec.md 7, MissingFile; 8, scenario 5).               *)
(***************************************************************************)
MissingNotFatal ==
  status \in {"exited", "crashed"} => env[f] # "missing"

(***************************************************************************)
(* IOErrorStopsRun: a file that could not be read or written ends the run  *)
(* at once (spec.md 7, UnreadableFile / UnwritableFile are fatal).        *)
(***************************************************************************)
IOErrorStopsRun ==
  failed # {} => status \in {"exited", "crashed"}

(***************************************************************************)
(* ErrorsAsSpecified: spec.md 7's error table for a driver run: a missing  *)
(* file is skipped and the run goes on, an I/O failure ends the run.       *)
(***************************************************************************)
ErrorsAsSpecified == MissingNotFatal /\ IOErrorStopsRun

(***************************************************************************)
(* DInv: the inductive strengthening of CountIsFilesFixed.  While the run  *)
(* goes on, no file at or after the loop's position has been touched (the  *)
(* worklist has no duplicates); between open(f, 'w') and the end of        *)
(* f.write, f is empty and is a file the script means to write; and no     *)
(* script both counts and writes unchanged files.                          *)
(***************************************************************************)
AheadUntouched ==
  status = "running" =>
    \A j \in k..Len(Work) :
      (j > k \/ stage = "open") => disk[Work[j]] \in {"orig", "none"}

WriteStage ==
  stage = "write" =>
    /\ status = "running" /\ k <= Len(Work)
    /\ disk[f] = "empty"
    /\ f \in Changes \/ drv.writeAlways

DInv == DTypeOK /\ drv \in Scripts /\ AheadUntouched /\ WriteStage /\ CountIsFilesFixed

(***************************************************************************)
(* FInv: DInv, and two facts DoneMeansAllFixed rests on.  Every file the  *)
(* loop has passed that the transformation changes and the file system    *)
(* lets the script read and write holds its transformed text, and a run   *)
(* that is done has passed the whole worklist.                             *)
(***************************************************************************)
BehindFixed ==
  \A j \in 1..(k - 1) :
    Work[j] \in Changes /\ env[Work[j]] = "ok" => disk[Work[j]] = "fixed"
DoneAtEnd == status = "done" => k = Len(Work) + 1
FInv == DInv /\ BehindFixed /\ DoneAtEnd
=============================================================================
