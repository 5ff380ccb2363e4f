------------------------- MODULE PatchDriverProofs --------------------------
(***************************************************************************)
(* Proofs about the per-file driver loop of the patch scripts              *)
(* (PatchDriver): the state stays well typed, and the number of fixed      *)
(* files a counting script prints is the number of files that hold their  *)
(* transformed text, and a run that ends has fixed every file it could,   *)
(* for every worklist and every behaviour of the file                      *)
(* system.                                                                 *)
(***************************************************************************)
EXTENDS PatchDriver, FiniteSetTheorems, TLAPS

\* The files that hold their transformed text.
Fixed(d) == {x \in Files : d[x] = "fixed"}

\* What the proofs use of the worklist: a list of distinct files.
LEMMA WorkFacts ==
  /\ Work \in Seq(STRING)
  /\ DOMAIN Work = 1..Len(Work)
  /\ \A j \in 1..Len(Work) : Work[j] \in Files
  /\ \A i, j \in 1..Len(Work) : Work[i] = Work[j] => i = j
BY WorkAssumption DEF Files, Range, IsInjective

\* The worklist names finitely many files.
LEMMA FilesFinite == IsFiniteSet(Files)
<1>1. Work \in Surjection(1..Len(Work), Files)
  BY WorkFacts DEF Surjection, Files, Range
<1>2. IsFiniteSet(1..Len(Work))
  BY WorkFacts, FS_Interval
<1>3. QED
  BY <1>1, <1>2, FS_Surjection

\* No script counts its files and also writes the ones it did not change.
LEMMA ScriptsFacts ==
  /\ Scripts \subseteq DriverRec
  /\ \A d \in Scripts : d.writeAlways => ~d.counts
BY DEF Scripts, DriverRec, ExitDriver, BareDriver, CheckDriver, CmdDriver,
       WalkDriver

\* Writing a value other than "fixed" over a file that is not fixed leaves
\* the set of fixed files as it was.
LEMMA FixedSame ==
  ASSUME NEW d, NEW x, NEW v, v # "fixed", d[x] # "fixed"
  PROVE  Fixed([d EXCEPT ![x] = v]) = Fixed(d)
BY DEF Fixed

\* Fixing a file that was not fixed adds one to the number of fixed files.
LEMMA FixedAdd ==
  ASSUME NEW d \in [Files -> {"orig", "fixed", "empty", "none"}],
         NEW x \in Files, d[x] # "fixed"
  PROVE  Cardinality(Fixed([d EXCEPT ![x] = "fixed"])) = Cardinality(Fixed(d)) + 1
<1>1. Fixed([d EXCEPT ![x] = "fixed"]) = Fixed(d) \cup {x}
  BY DEF Fixed
<1>2. IsFiniteSet(Fixed(d)) /\ x \notin Fixed(d)
  BY FilesFinite, FS_Subset DEF Fixed
<1>3. QED
  BY <1>1, <1>2, FS_AddElement

\* The exception handler either ends the run where it is or moves on.
LEMMA OnErrorCases ==
  ASSUME DTypeOK, NEW n, OnError(n)
  PROVE  /\ failed' = failed \cup {f}
         /\ \/ status' \in {"exited", "crashed"} /\ k' = k
            \/ status' = status /\ k' = n
BY DEF OnError, DTypeOK, DriverRec

\* The loop starts with nothing fixed, nothing counted and nothing touched.
LEMMA DInitInv == DInit => DInv
<1> SUFFICES ASSUME DInit PROVE DInv
  OBVIOUS
<1>1. drv \in Scripts
  BY DriversAssumption DEF DInit
<1>2. DTypeOK
  <2>1. drv \in DriverRec /\ env \in [Files -> Envs]
    BY <1>1, ScriptsFacts DEF DInit
  <2>2. disk \in [Files -> {"orig", "fixed", "empty", "none"}]
    BY DEF DInit
  <2>3. k \in 1..(Len(Work) + 1)
    BY WorkFacts DEF DInit
  <2>4. QED
    BY <2>1, <2>2, <2>3 DEF DInit, DTypeOK
<1>3. AheadUntouched
  BY WorkFacts DEF DInit, AheadUntouched
<1>4. WriteStage
  BY DEF DInit, WriteStage
<1>5. CountIsFilesFixed
  <2>1. Fixed(disk) = {}
    BY DEF DInit, Fixed
  <2>2. QED
    BY <2>1, FS_EmptySet DEF DInit, CountIsFilesFixed, Fixed
<1>6. QED
  BY <1>1, <1>2, <1>3, <1>4, <1>5 DEF DInv

\* A step that leaves the disk, the position and the stage alone and keeps
\* the run going, or ends it, keeps the files ahead untouched.
LEMMA AheadAdvance ==
  ASSUME DTypeOK, AheadUntouched, disk' = disk, stage' = "open",
         status' # "running" \/ (status' = status /\ k' = k + 1),
         status = "running" => stage = "open" \/ k' = k + 1
  PROVE  AheadUntouched'
BY WorkFacts DEF AheadUntouched, DTypeOK

\* Every step of the loop preserves DInv.
LEMMA DStepInv == DInv /\ [DNext]_dvars => DInv'
<1> SUFFICES ASSUME DInv, [DNext]_dvars PROVE DInv'
  OBVIOUS
<1>0. /\ DTypeOK /\ drv \in Scripts /\ AheadUntouched /\ WriteStage
      /\ CountIsFilesFixed
  BY DEF DInv
<1>1. CASE SkipMissing \/ NoChange
  <2>1. DTypeOK'
    BY <1>0, <1>1 DEF SkipMissing, NoChange, DTypeOK
  <2>2. AheadUntouched'
    BY <1>0, <1>1, AheadAdvance DEF SkipMissing, NoChange
  <2>3. QED
    BY <1>0, <1>1, <2>1, <2>2
       DEF SkipMissing, NoChange, DInv, WriteStage, CountIsFilesFixed
<1>2. CASE ReadFail
  <2>1. f \in Files
    BY <1>0, <1>2, WorkFacts DEF ReadFail, f, DTypeOK
  <2>2. /\ failed' = failed \cup {f}
        /\ \/ status' \in {"exited", "crashed"} /\ k' = k
           \/ status' = status /\ k' = k + 1
    BY <1>0, <1>2, OnErrorCases DEF ReadFail
  <2>3. DTypeOK'
    BY <1>0, <1>2, <2>1, <2>2 DEF ReadFail, DTypeOK
  <2>4. AheadUntouched'
    BY <1>0, <1>2, <2>2, AheadAdvance DEF ReadFail
  <2>5. QED
    BY <1>0, <1>2, <2>3, <2>4 DEF ReadFail, DInv, WriteStage, CountIsFilesFixed
<1>3. CASE Truncate
  <2>1. k \in 1..Len(Work) /\ f \in Files
    BY <1>0, <1>3, WorkFacts DEF Truncate, f, DTypeOK
  <2>2. disk[f] \in {"orig", "none"}
    BY <1>0, <1>3, <2>1 DEF Truncate, AheadUntouched, f
  <2>3. DTypeOK'
    BY <1>0, <1>3, <2>1 DEF Truncate, DTypeOK
  <2>4. AheadUntouched'
    <3> SUFFICES ASSUME NEW j \in (k + 1)..Len(Work)
                 PROVE  disk'[Work[j]] \in {"orig", "none"}
      BY <1>0, <1>3, WorkFacts DEF Truncate, AheadUntouched, DTypeOK
    <3>1. Work[j] # f
      BY <2>1, WorkFacts DEF f
    <3>2. QED
      BY <1>0, <1>3, <2>1, <3>1, WorkFacts DEF Truncate, AheadUntouched, DTypeOK
  <2>5. WriteStage'
    BY <1>0, <1>3, <2>1 DEF Truncate, WriteStage, f, DTypeOK
  <2>6. CountIsFilesFixed'
    <3>1. Fixed(disk') = Fixed(disk)
      BY <1>3, <2>2, FixedSame DEF Truncate
    <3>2. QED
      BY <1>0, <1>3, <3>1 DEF Truncate, CountIsFilesFixed, Fixed
  <2>7. QED
    BY <1>0, <1>3, <2>3, <2>4, <2>5, <2>6 DEF Truncate, DInv
<1>4. CASE WriteOk
  <2>1. /\ k \in 1..Len(Work) /\ f \in Files /\ status = "running"
        /\ disk[f] = "empty" /\ (f \in Changes \/ drv.writeAlways)
    BY <1>0, <1>4, WorkFacts DEF WriteOk, WriteStage, f, DTypeOK
  <2>2. DTypeOK'
    BY <1>0, <1>4, <2>1 DEF WriteOk, DTypeOK
  <2>3. AheadUntouched'
    <3> SUFFICES ASSUME NEW j \in (k + 1)..Len(Work)
                 PROVE  disk'[Work[j]] \in {"orig", "none"}
      BY <1>0, <1>4, WorkFacts DEF WriteOk, AheadUntouched, DTypeOK
    <3>1. Work[j] # f
      BY <2>1, WorkFacts DEF f
    <3>2. QED
      BY <1>0, <1>4, <2>1, <3>1, WorkFacts DEF WriteOk, AheadUntouched, DTypeOK
  <2>4. WriteStage'
    BY <1>4 DEF WriteOk, WriteStage
  <2>5. CountIsFilesFixed'
    <3>1. CASE f \in Changes
      <4>1. disk' = [disk EXCEPT ![f] = "fixed"]
        BY <1>4, <3>1 DEF WriteOk
      <4>2. Cardinality(Fixed(disk')) = Cardinality(Fixed(disk)) + 1
        BY <1>0, <2>1, <4>1, FixedAdd DEF DTypeOK
      <4>3. QED
        BY <1>0, <1>4, <4>2 DEF WriteOk, CountIsFilesFixed, Fixed
    <3>2. CASE f \notin Changes
      <4>1. ~drv.counts
        BY <1>0, <2>1, <3>2, ScriptsFacts
      <4>2. QED
        BY <1>4, <4>1 DEF WriteOk, CountIsFilesFixed
    <3>3. QED
      BY <3>1, <3>2
  <2>6. QED
    BY <1>0, <1>4, <2>2, <2>3, <2>4, <2>5 DEF WriteOk, DInv
<1>5. CASE WriteFail
  <2>1. /\ k \in 1..Len(Work) /\ f \in Files /\ status = "running"
    BY <1>0, <1>5, WorkFacts DEF WriteFail, WriteStage, f, DTypeOK
  <2>2. /\ failed' = failed \cup {f}
        /\ \/ status' \in {"exited", "crashed"} /\ k' = k
           \/ status' = status /\ k' = k + 1
    BY <1>0, <1>5, OnErrorCases DEF WriteFail
  <2>3. DTypeOK'
    BY <1>0, <1>5, <2>1, <2>2 DEF WriteFail, DTypeOK
  <2>4. AheadUntouched'
    <3>1. CASE status' \in {"exited", "crashed"}
      BY <3>1 DEF AheadUntouched
    <3>2. CASE status' = status /\ k' = k + 1
      BY <1>0, <1>5, <2>1, <3>2, WorkFacts DEF WriteFail, AheadUntouched, DTypeOK
    <3>3. QED
      BY <2>2, <3>1, <3>2
  <2>5. QED
    BY <1>0, <1>5, <2>3, <2>4 DEF WriteFail, DInv, WriteStage, CountIsFilesFixed
<1>6. CASE Finish
  <2>1. stage = "open"
    BY <1>0, <1>6, WorkFacts DEF Finish, WriteStage, DTypeOK
  <2>2. QED
    BY <1>0, <1>6, <2>1
       DEF Finish, DInv, DTypeOK, AheadUntouched, WriteStage, CountIsFilesFixed
<1>7. CASE UNCHANGED dvars
  BY <1>0, <1>7
     DEF dvars, DInv, DTypeOK, AheadUntouched, WriteStage, CountIsFilesFixed, f
<1>8. QED
  BY <1>1, <1>2, <1>3, <1>4, <1>5, <1>6, <1>7 DEF DNext

(***************************************************************************)
(* The driver's state stays well typed through every run of every script:  *)
(* the loop index never leaves the worklist and the count is a natural     *)
(* number.                                                                 *)
(***************************************************************************)
THEOREM DTypeCorrect == DSpec => []DTypeOK
<1>1. DInv => DTypeOK
  BY DEF DInv
<1>2. QED
  BY <1>1, DInitInv, DStepInv, PTL DEF DSpec

(***************************************************************************)
(* The count a counting script prints (fixed, fixed_count, modified_count) *)
(* is the number of files that now hold their transformed text, whatever   *)
(* files are missing, unreadable or unwritable, for every worklist.        *)
(***************************************************************************)
THEOREM CountIsFilesFixedHolds == DSpec => []CountIsFilesFixed
<1>1. DInv => CountIsFilesFixed
  BY DEF DInv
<1>2. QED
  BY <1>1, DInitInv, DStepInv, PTL DEF DSpec

\* The loop starts at the first file, so nothing is behind it.
LEMMA FInitInv == DInit => FInv
BY DInitInv DEF DInit, FInv, BehindFixed, DoneAtEnd

\* A step that keeps the disk and either keeps the position or moves past a
\* file the script may not fix keeps the files behind the loop fixed.
LEMMA BehindAdvance ==
  ASSUME DTypeOK, BehindFixed, disk' = disk, env' = env,
         k' = k \/ (k' = k + 1 /\ (f \notin Changes \/ env[f] # "ok"))
  PROVE  BehindFixed'
BY WorkFacts DEF BehindFixed, DTypeOK, f

\* Every step of the loop preserves FInv.
LEMMA FStepInv == FInv /\ [DNext]_dvars => FInv'
<1> SUFFICES ASSUME FInv, [DNext]_dvars PROVE FInv'
  OBVIOUS
<1>0. /\ DInv /\ DTypeOK /\ BehindFixed /\ DoneAtEnd /\ DInv'
  BY DStepInv DEF FInv, DInv
<1>1. CASE SkipMissing \/ NoChange
  <2>1. BehindFixed'
    BY <1>0, <1>1, BehindAdvance DEF SkipMissing, NoChange
  <2>2. QED
    BY <1>0, <1>1, <2>1 DEF SkipMissing, NoChange, FInv, DoneAtEnd
<1>2. CASE ReadFail \/ WriteFail
  <2>1. /\ env[f] # "ok" /\ disk' = disk /\ env' = env
    BY <1>2 DEF ReadFail, WriteFail
  <2>2. \/ status' \in {"exited", "crashed"} /\ k' = k
        \/ status' = status /\ k' = k + 1
    BY <1>0, <1>2, OnErrorCases DEF ReadFail, WriteFail
  <2>3. status = "running"
    BY <1>2 DEF ReadFail, WriteFail
  <2>4. BehindFixed'
    BY <1>0, <2>1, <2>2, BehindAdvance
  <2>5. QED
    BY <1>0, <2>2, <2>3, <2>4 DEF FInv, DoneAtEnd
<1>3. CASE Truncate
  <2>1. k \in 1..Len(Work)
    BY <1>0, <1>3 DEF Truncate, DTypeOK
  <2>2. BehindFixed'
    <3> SUFFICES ASSUME NEW j \in 1..(k - 1),
                        Work[j] \in Changes, env[Work[j]] = "ok"
                 PROVE  disk'[Work[j]] = "fixed"
      BY <1>3 DEF Truncate, BehindFixed
    <3>1. Work[j] # f /\ Work[j] \in Files
      BY <2>1, WorkFacts DEF f
    <3>2. QED
      BY <1>0, <1>3, <3>1 DEF Truncate, BehindFixed, DTypeOK
  <2>3. QED
    BY <1>0, <1>3, <2>2 DEF Truncate, FInv, DoneAtEnd
<1>4. CASE WriteOk
  <2>1. /\ k \in 1..Len(Work) /\ f \in Files /\ status = "running"
    BY <1>0, <1>4, WorkFacts DEF WriteOk, WriteStage, DInv, f, DTypeOK
  <2>2. BehindFixed'
    <3> SUFFICES ASSUME NEW j \in 1..k,
                        Work[j] \in Changes, env[Work[j]] = "ok"
                 PROVE  disk'[Work[j]] = "fixed"
      BY <1>4, <2>1 DEF WriteOk, BehindFixed
    <3>1. CASE j = k
      BY <1>0, <1>4, <2>1, <3>1 DEF WriteOk, DTypeOK, f
    <3>2. CASE j # k
      <4>1. Work[j] # f /\ Work[j] \in Files /\ j \in 1..(k - 1)
        BY <2>1, <3>2, WorkFacts DEF f
      <4>2. QED
        BY <1>0, <1>4, <4>1 DEF WriteOk, BehindFixed, DTypeOK
    <3>3. QED
      BY <3>1, <3>2
  <2>3. QED
    BY <1>0, <1>4, <2>2 DEF WriteOk, FInv, DoneAtEnd
<1>5. CASE Finish
  <2>1. k = Len(Work) + 1
    BY <1>0, <1>5 DEF Finish, DTypeOK
  <2>2. QED
    BY <1>0, <1>5, <2>1 DEF Finish, FInv, DoneAtEnd, BehindFixed
<1>6. CASE UNCHANGED dvars
  BY <1>0, <1>6 DEF dvars, FInv, BehindFixed, DoneAtEnd
<1>7. QED
  BY <1>1, <1>2, <1>3, <1>4, <1>5, <1>6 DEF DNext

(***************************************************************************)
(* A run that reaches the summary line has fixed every file of the        *)
(* worklist that the transformation changes and that the file system lets *)
(* it read and write: no file is skipped by the loop or left truncated.    *)
(***************************************************************************)
THEOREM DoneMeansAllFixedHolds == DSpec => []DoneMeansAllFixed
<1>1. FInv => DoneMeansAllFixed
  <2> SUFFICES ASSUME FInv, status = "done", NEW x \in Changes, env[x] = "ok"
               PROVE  disk[x] = "fixed"
    BY DEF DoneMeansAllFixed
  <2>1. k = Len(Work) + 1
    BY DEF FInv, DoneAtEnd
  <2>2. PICK j \in 1..Len(Work) : Work[j] = x
    BY DriversAssumption, WorkFacts DEF Files, Range
  <2>3. QED
    BY <2>1, <2>2 DEF FInv, BehindFixed
<1>2. QED
  BY <1>1, FInitInv, FStepInv, PTL DEF DSpec

=============================================================================
