---------------------------- MODULE BackupProofs ----------------------------
(***************************************************************************)
(* The safety of backups and restores, for any number of administrators,   *)
(* archives and crashes, on the hypothesis that no job outlasts the        *)
(* lifetime of the lock.  Three parts:                                     *)
(*   - exclusion: every job past its acquireLock and before its            *)
(*     releaseLock is the one the lock names, and conversely;              *)
(*   - the archives: who has one, which rows name it, what a deletion may  *)
(*     take;                                                               *)
(*   - one job at a time: the window, and what a restore overwrites.       *)
(***************************************************************************)
EXTENDS Backup, TLAPS

\* Steps a job reaches only with the lock.
Holding == Working \cup {"close", "shut", "yield", "release"}

HoldersHold == \A j \in Jobs : At(j, Holding) => lock = j

\* A job that makes an archive has dumped the database, and has an archive to
\* name in its row; one about to restore has extracted a dump.
Ready(c) ==
    /\ c.pc \in {"pack", "insert"} => c.file \in Files
    /\ c.pc = "pack" => c.dump \in Versions
    /\ c.pc = "archive" => c.dump \in Versions
    /\ c.pc = "apply" => c.dump \in Versions

Prepared == \A j \in Jobs : Ready(job[j])

IInv ==
    /\ TypeOK
    /\ HoldersHold
    /\ LockOwnerRuns
    /\ Prepared

USE DEF At

-----------------------------------------------------------------------------
(* Types.                                                                  *)

\* A job past its start is a full record.
LEMMA BusyTyped ==
    ASSUME TypeOK, NEW j \in Jobs, job[j].pc # "idle"
    PROVE  job[j] \in JobStates
  BY DEF TypeOK, Idle

\* A new request is one.
LEMMA CallTyped ==
    ASSUME NEW op \in Ops, NEW pc \in Steps, NEW r \in Rows \cup {None},
           NEW f \in Files \cup {None}
    PROVE  Call(op, pc, r, f) \in JobStates
  BY DEF Call, JobStates

\* Moving on keeps the table of the jobs.
LEMMA GotoTyped ==
    ASSUME TypeOK, NEW j \in Jobs, job[j].pc # "idle", NEW pc \in Steps, Goto(j, pc)
    PROVE  /\ job' \in [Jobs -> JobStates \cup {Idle}]
           /\ job'[j].pc = pc
           /\ \A i \in Jobs \ {j} : job'[i] = job[i]
<1>1. job[j] \in JobStates
  BY BusyTyped
<1>2. job' = [job EXCEPT ![j] = [job[j] EXCEPT !.pc = pc]]
  BY DEF Goto
<1>3. [job[j] EXCEPT !.pc = pc] \in JobStates /\ [job[j] EXCEPT !.pc = pc].pc = pc
  BY <1>1 DEF JobStates
<1>4. QED
  BY <1>2, <1>3 DEF TypeOK

\* So does returning.
LEMMA ReturnTyped ==
    ASSUME TypeOK, NEW j \in Jobs, Return(j)
    PROVE  /\ job' \in [Jobs -> JobStates \cup {Idle}]
           /\ job'[j].pc = "idle"
           /\ \A i \in Jobs \ {j} : job'[i] = job[i]
  BY DEF Return, TypeOK, Idle

-----------------------------------------------------------------------------
(* How a step may treat the lock.                                          *)

\* A step of one job that leaves the lock alone and neither enters a step
\* reserved to its holder nor leaves one that the holder must be at.
LEMMA LockUntouched ==
    ASSUME IInv, NEW j \in Jobs, lock' = lock,
           \A i \in Jobs \ {j} : job'[i] = job[i],
           job'[j].pc \in Holding => job[j].pc \in Holding,
           job[j].pc \in Working \cup {"close", "shut", "yield", "release", "finish"} =>
               job'[j].pc \in Working \cup {"close", "shut", "yield", "release", "finish"}
    PROVE  HoldersHold' /\ LockOwnerRuns'
<1>1. HoldersHold'
  BY DEF IInv, HoldersHold
<1>2. LockOwnerRuns'
  BY DEF IInv, LockOwnerRuns
<1>3. QED
  BY <1>1, <1>2

\* A step of one job after which it does not need the lock, and which frees
\* or loses the lock if it was its own.
LEMMA LockDropped ==
    ASSUME IInv, NEW j \in Jobs,
           \A i \in Jobs \ {j} : job'[i] = job[i],
           job'[j].pc \notin Holding,
           lock = j => lock' \in {Free, Lost},
           lock # j => lock' = lock
    PROVE  HoldersHold' /\ LockOwnerRuns'
<1>1. HoldersHold'
  BY DEF IInv, HoldersHold
<1>2. LockOwnerRuns'
  BY BackupAssumption DEF IInv, LockOwnerRuns
<1>3. QED
  BY <1>1, <1>2

\* A step of one job that does not bring it there unprepared.
LEMMA PreparedKept ==
    ASSUME IInv, NEW j \in Jobs, \A i \in Jobs \ {j} : job'[i] = job[i],
           Ready(job'[j])
    PROVE  Prepared'
  BY DEF IInv, Prepared, Ready

-----------------------------------------------------------------------------
(* The steps.                                                              *)

\* What is left of TypeOK once the table of the jobs is typed.
RestTyped ==
    /\ lock \in Jobs \cup {Free, Lost}
    /\ gate \in {0, 30, 60}
    /\ disk \in [Files -> Archives]
    /\ rows \in [Rows -> (Files \X BOOLEAN) \cup {<<>>}]
    /\ data \in Versions
    /\ written \in Versions
    /\ crashes \in 0 .. MaxCrashes

LEMMA TypeSplits ==
    /\ TypeOK <=> RestTyped /\ job \in [Jobs -> JobStates \cup {Idle}]
    /\ TypeOK' <=> RestTyped' /\ (job \in [Jobs -> JobStates \cup {Idle}])'
  BY DEF TypeOK, RestTyped

LEMMA InitEstablishes == Init => IInv
  BY BackupAssumption
  DEF Init, IInv, TypeOK, HoldersHold, LockOwnerRuns, Prepared, Ready, Holding, Working, Idle, Versions, Archives

\* The beginnings of the four requests.
LEMMA StartKeeps ==
    ASSUME IInv, NEW j \in Jobs, job[j] = Idle,
           NEW c \in JobStates, job' = [job EXCEPT ![j] = c],
           c.pc \in {"acquire", "lock", "erase", "scan"},
           UNCHANGED <<lock, gate, disk, rows, data, written, crashes>>
    PROVE  IInv'
<1>1. TypeOK'
  BY TypeSplits DEF IInv, TypeOK, RestTyped
<1>2. job'[j].pc = c.pc /\ \A i \in Jobs \ {j} : job'[i] = job[i]
  BY DEF IInv, TypeOK
<1>3. HoldersHold' /\ LockOwnerRuns'
  BY <1>2, LockUntouched DEF Idle, Holding, Working
<1>4. QED
  BY <1>1, <1>2, <1>3, PreparedKept DEF IInv, Ready

\* acquireLock: the job becomes the holder of a free lock.
LEMMA AcquireKeeps ==
    ASSUME IInv, NEW j \in Jobs, Acquire(j)
    PROVE  IInv'
<1>1. job[j].pc # "idle" /\ lock = Free
  BY DEF Acquire
<1>2. PICK pc \in {"close", "shut", "extract"} : lock' = j /\ Goto(j, pc)
  BY DEF Acquire
<1>3. /\ job' \in [Jobs -> JobStates \cup {Idle}]
      /\ job'[j].pc = pc
      /\ \A i \in Jobs \ {j} : job'[i] = job[i]
  BY <1>1, <1>2, GotoTyped DEF IInv, Steps
<1>4. TypeOK'
  BY <1>2, <1>3, TypeSplits DEF IInv, RestTyped, Acquire
<1>5. \A i \in Jobs \ {j} : ~At(i, Holding)
  BY <1>1, BackupAssumption DEF IInv, HoldersHold
<1>6. HoldersHold'
  BY <1>2, <1>3, <1>5 DEF HoldersHold
<1>7. LockOwnerRuns'
  BY <1>2, <1>3 DEF LockOwnerRuns, Working
<1>8. QED
  BY <1>3, <1>4, <1>6, <1>7, PreparedKept DEF IInv, Ready

\* A refusal, or a failure to release at the start of the snapshot: the job
\* goes on without the lock, or with the lock it has, to its finally block.
LEMMA RefusedKeeps ==
    ASSUME IInv, NEW j \in Jobs,
           Refused(j) \/ (ReleaseFails(j) /\ At(j, {"yield"}))
    PROVE  IInv'
<1>1. job[j].pc # "idle"
  BY DEF Refused, ReleaseFails
<1>2. /\ lock' = lock
      /\ \/ Goto(j, "finish") /\ job[j].pc \in {"acquire", "reacquire", "yield"}
         \/ Return(j) /\ job[j].pc \in {"acquire", "lock", "reacquire"}
  BY DEF Refused, ReleaseFails
<1>3. /\ job' \in [Jobs -> JobStates \cup {Idle}]
      /\ job'[j].pc \in {"finish", "idle"}
      /\ \A i \in Jobs \ {j} : job'[i] = job[i]
  BY <1>1, <1>2, GotoTyped, ReturnTyped DEF IInv, Steps
<1>4. TypeOK'
  BY <1>2, <1>3, TypeSplits DEF IInv, RestTyped, Refused, ReleaseFails
<1>5. HoldersHold' /\ LockOwnerRuns'
  <2>1. CASE Goto(j, "finish") /\ job[j].pc \in {"acquire", "reacquire", "yield"}
    <3>1. job'[j].pc = "finish"
      BY <1>1, <2>1, GotoTyped DEF IInv, Steps
    <3>2. QED
      BY <1>2, <1>3, <3>1, LockUntouched DEF Holding, Working
  <2>2. CASE Return(j) /\ job[j].pc \in {"acquire", "lock", "reacquire"}
    <3>1. job'[j].pc = "idle"
      BY <2>2, ReturnTyped DEF IInv
    <3>2. QED
      BY <1>2, <1>3, <2>2, <3>1, LockUntouched DEF Holding, Working
  <2>3. QED
    BY <1>2, <2>1, <2>2
<1>6. QED
  BY <1>3, <1>4, <1>5, PreparedKept DEF IInv, Ready

\* releaseLock, and the failures that abandon the lock.
LEMMA DropKeeps ==
    ASSUME IInv, NEW j \in Jobs,
           \/ MaintenanceFails(j) \/ Release(j)
           \/ ReleaseFails(j) /\ ~At(j, {"yield"})
    PROVE  IInv'
<1>1. job[j].pc # "idle"
  BY DEF MaintenanceFails, Release, ReleaseFails
<1>2. \/ Return(j)
      \/ \E pc \in {"finish", "acquire", "clear", "reacquire"} : Goto(j, pc)
  BY DEF MaintenanceFails, Release, ReleaseFails, AfterRelease
<1>3. /\ job' \in [Jobs -> JobStates \cup {Idle}]
      /\ job'[j].pc \in {"idle", "finish", "acquire", "clear", "reacquire"}
      /\ \A i \in Jobs \ {j} : job'[i] = job[i]
  BY <1>1, <1>2, GotoTyped, ReturnTyped DEF IInv, Steps
<1>4. /\ lock = j => lock' \in {Free, Lost}
      /\ lock # j => lock' = lock
  BY DEF MaintenanceFails, Release, ReleaseFails, Unlock
<1>5. TypeOK'
  BY <1>3, <1>4, TypeSplits DEF IInv, RestTyped, MaintenanceFails, Release, ReleaseFails, Unlock
<1>6. HoldersHold' /\ LockOwnerRuns'
  BY <1>3, <1>4, LockDropped DEF Holding, Working
<1>7. QED
  BY <1>3, <1>5, <1>6, PreparedKept DEF IInv, Ready

\* The steps that only move one job on, between two steps of the same side of
\* the lock, and whose other effects are typed.
LEMMA MoveKeeps ==
    ASSUME IInv, RestTyped', NEW j \in Jobs, lock' = lock,
           job' \in [Jobs -> JobStates \cup {Idle}],
           \A i \in Jobs \ {j} : job'[i] = job[i],
           Ready(job'[j]),
           \/ job[j].pc \in Holding /\ job'[j].pc \in Holding \cup {"finish"}
           \/ job[j].pc \in {"clear", "erase", "drop", "scan", "index"}
              /\ job'[j].pc \in {"idle", "drop", "index"}
    PROVE  IInv'
<1>1. TypeOK'
  BY TypeSplits
<1>2. HoldersHold' /\ LockOwnerRuns'
  BY LockUntouched DEF Holding, Working
<1>3. QED
  BY <1>1, <1>2, PreparedKept DEF IInv, Ready

\* A job that works is typed, and so is what it becomes.
LEMMA WorkerTyped ==
    ASSUME TypeOK, NEW j \in Jobs, job[j].pc # "idle", NEW c \in JobStates,
           job' = [job EXCEPT ![j] = c]
    PROVE  /\ job' \in [Jobs -> JobStates \cup {Idle}]
           /\ job'[j] = c
           /\ \A i \in Jobs \ {j} : job'[i] = job[i]
  BY DEF TypeOK

\* The body of createBackup.
LEMMA CreateKeeps ==
    ASSUME IInv, NEW j \in Jobs,
           SetMaintenance(j) \/ Dump(j) \/ Archive(j) \/ Pack(j) \/ InsertRow(j) \/ Unlink(j)
    PROVE  IInv'
<1>1. TypeOK
  BY DEF IInv
<1>2. RestTyped
  BY <1>1, TypeSplits
<1>3. job[j].pc # "idle"
  BY DEF SetMaintenance, Dump, Archive, Pack, InsertRow, Unlink, Working
<1>4. job[j] \in JobStates
  BY <1>1, <1>3, BusyTyped
<1>5. CASE SetMaintenance(j)
  <2>1. PICK pc \in {"dump", "yield"} : Goto(j, pc)
    BY <1>5 DEF SetMaintenance
  <2>2. QED
    BY <1>1, <1>2, <1>3, <1>5, <2>1, GotoTyped, MoveKeeps
    DEF Ready, SetMaintenance, RestTyped, Steps, Holding, Working
<1>6. CASE Dump(j)
  <2>1. /\ job' = [job EXCEPT ![j] = [job[j] EXCEPT !.pc = "archive", !.dump = data]]
        /\ job[j].pc = "dump"
        /\ UNCHANGED <<lock, gate, disk, rows, data, written, crashes>>
    BY <1>6 DEF Dump
  <2>2. /\ [job[j] EXCEPT !.pc = "archive", !.dump = data] \in JobStates
        /\ [job[j] EXCEPT !.pc = "archive", !.dump = data].pc = "archive"
        /\ [job[j] EXCEPT !.pc = "archive", !.dump = data].dump \in Versions
    BY <1>2, <1>4 DEF JobStates, Steps, RestTyped
  <2>3. RestTyped'
    BY <1>2, <2>1 DEF RestTyped
  <2>4. /\ job' \in [Jobs -> JobStates \cup {Idle}]
        /\ job'[j].pc = "archive" /\ job'[j].dump \in Versions
        /\ \A i \in Jobs \ {j} : job'[i] = job[i]
    BY <1>1, <1>3, <2>1, <2>2, WorkerTyped
  <2>5. QED
    BY <2>1, <2>3, <2>4, MoveKeeps DEF Ready, Holding, Working
<1>7. CASE Archive(j)
  <2>1. /\ job[j].pc = "archive"
        /\ UNCHANGED <<lock, gate, rows, data, written, crashes>>
    BY <1>7 DEF Archive
  <2>2. PICK f \in Files :
          /\ disk' = [disk EXCEPT ![f] = Torn]
          /\ job' = [job EXCEPT ![j].pc = "pack", ![j].file = f]
    <3>1. Unused \subseteq Files
      BY DEF Unused
    <3>2. QED
      BY <1>7, <3>1 DEF Archive
  <2> DEFINE c == [job[j] EXCEPT !.pc = "pack", !.file = f]
  <2>3. job' = [job EXCEPT ![j] = c]
    BY <2>2
  <2>4. c \in JobStates /\ c.pc = "pack" /\ c.file = f /\ c.dump \in Versions
    BY <1>4, <2>1 DEF JobStates, Steps, IInv, Prepared, Ready
  <2>5. RestTyped'
    BY <1>2, <2>1, <2>2 DEF RestTyped, Archives
  <2>6. /\ job' \in [Jobs -> JobStates \cup {Idle}]
        /\ job'[j] = c
        /\ \A i \in Jobs \ {j} : job'[i] = job[i]
    <3> HIDE DEF c
    <3> QED
      BY <1>1, <1>3, <2>3, <2>4, WorkerTyped
  <2>7. Ready(job'[j]) /\ job'[j].pc = "pack"
    <3> HIDE DEF c
    <3> QED
      BY <2>4, <2>6 DEF Ready
  <2>8. QED
    BY <2>1, <2>5, <2>6, <2>7, MoveKeeps DEF Holding, Working
<1>8. CASE Pack(j)
  <2>1. /\ job[j].pc = "pack" /\ Goto(j, "insert")
        /\ disk' = [disk EXCEPT ![job[j].file] = IF @ = Torn THEN job[j].dump ELSE @]
        /\ UNCHANGED <<lock, gate, rows, data, written, crashes>>
    BY <1>8 DEF Pack
  <2>2. job[j].file \in Files /\ job[j].dump \in Versions
    BY <2>1 DEF IInv, Prepared, Ready
  <2>3. RestTyped'
    BY <1>2, <2>1, <2>2 DEF RestTyped, Archives
  <2>4. /\ job' \in [Jobs -> JobStates \cup {Idle}]
        /\ job'[j].pc = "insert" /\ job'[j].file \in Files
        /\ \A i \in Jobs \ {j} : job'[i] = job[i]
    <3>1. job' = [job EXCEPT ![j] = [job[j] EXCEPT !.pc = "insert"]]
      BY <2>1 DEF Goto
    <3>2. /\ [job[j] EXCEPT !.pc = "insert"] \in JobStates
          /\ [job[j] EXCEPT !.pc = "insert"].pc = "insert"
          /\ [job[j] EXCEPT !.pc = "insert"].file \in Files
      BY <1>4, <2>2 DEF JobStates, Steps
    <3>3. QED
      BY <1>1, <1>3, <3>1, <3>2, WorkerTyped
  <2>5. QED
    BY <2>1, <2>3, <2>4, MoveKeeps DEF Ready, Holding, Working
<1>9. CASE InsertRow(j)
  <2>1. job' = [job EXCEPT ![j] = [job[j] EXCEPT !.pc = "release", !.made = TRUE]]
    BY <1>9 DEF InsertRow
  <2>2. /\ [job[j] EXCEPT !.pc = "release", !.made = TRUE] \in JobStates
        /\ [job[j] EXCEPT !.pc = "release", !.made = TRUE].pc = "release"
    BY <1>4 DEF JobStates, Steps
  <2>3. /\ job[j].pc = "insert"
        /\ UNCHANGED <<lock, gate, disk, data, written, crashes>>
        /\ AddRow(job[j].file, Nested(j))
    BY <1>9 DEF InsertRow
  <2>4. rows' \in [Rows -> (Files \X BOOLEAN) \cup {<<>>}]
    <3>1. job[j].file \in Files
      BY <2>3 DEF IInv, Prepared, Ready
    <3>2. Nested(j) \in BOOLEAN
      BY DEF Nested
    <3>3. PICK r \in Rows : rows' = [rows EXCEPT ![r] = <<job[j].file, Nested(j)>>]
      BY <2>3 DEF AddRow, FreshRows
    <3>4. QED
      BY <1>2, <3>1, <3>2, <3>3 DEF RestTyped
  <2>5. RestTyped'
    BY <1>2, <2>3, <2>4 DEF RestTyped
  <2>6. QED
    BY <1>1, <1>3, <2>1, <2>2, <2>3, <2>5, WorkerTyped, MoveKeeps DEF Ready, Holding, Working
<1>10. CASE Unlink(j)
  <2>1. disk' \in [Files -> Archives]
    BY <1>2, <1>10 DEF Unlink, RestTyped, Archives
  <2>2. QED
    BY <1>1, <1>2, <1>3, <1>10, <2>1, GotoTyped, MoveKeeps DEF Ready, Unlink, RestTyped, Steps, Holding, Working
<1>11. QED
  BY <1>5, <1>6, <1>7, <1>8, <1>9, <1>10

\* The catch blocks.
LEMMA FailsKeeps ==
    ASSUME IInv, NEW j \in Jobs, Fails(j)
    PROVE  IInv'
<1>1. TypeOK /\ RestTyped
  BY TypeSplits DEF IInv
<1>2. /\ job[j].pc # "idle"
      /\ UNCHANGED <<lock, gate, disk, rows, data, written, crashes>>
  BY DEF Fails
<1>3. RestTyped'
  BY <1>1, <1>2 DEF RestTyped
<1>4. CASE At(j, {"dump", "archive", "pack", "insert", "extract", "apply"})
  <2>1. PICK pc \in {"unlink", "release", "finish"} : Goto(j, pc)
    BY <1>4 DEF Fails
  <2>2. QED
    BY <1>1, <1>2, <1>3, <1>4, <2>1, GotoTyped, MoveKeeps DEF Ready, Steps, Holding, Working
<1>5. CASE At(j, {"erase", "drop", "scan"})
  <2>1. Return(j)
    BY <1>5 DEF Fails
  <2>2. QED
    BY <1>1, <1>2, <1>3, <1>5, <2>1, ReturnTyped, MoveKeeps DEF Ready
<1>6. QED
  BY <1>4, <1>5 DEF Fails

\* The restore after its snapshot, the end of the window, deletions and the
\* re-indexing.
LEMMA OthersKeep ==
    ASSUME IInv, NEW j \in Jobs,
           Clear(j) \/ ClearFails(j) \/ Extract(j) \/ Apply(j) \/ Erase(j) \/ Drop(j) \/ Scan(j) \/ Index(j)
    PROVE  IInv'
<1>1. TypeOK /\ RestTyped
  BY TypeSplits DEF IInv
<1>2. job[j].pc # "idle"
  BY DEF Clear, ClearFails, Extract, Apply, Erase, Drop, Scan, Index
<1>3. /\ job[j] \in JobStates
      /\ job[j].dump \in Versions \cup {0}
      /\ job[j].todo \subseteq Files
  BY <1>1, <1>2, BusyTyped DEF JobStates
<1>4. CASE Clear(j) \/ ClearFails(j)
  <2>1. RestTyped'
    BY <1>1, <1>4 DEF Clear, ClearFails, RestTyped
  <2>2. job[j].pc = "clear" /\ Return(j) /\ lock' = lock
    BY <1>4 DEF Clear, ClearFails
  <2>3. QED
    BY <1>1, <2>1, <2>2, ReturnTyped, MoveKeeps DEF Ready
<1>5. CASE Extract(j)
  <2>1. /\ job' = [job EXCEPT ![j] = [job[j] EXCEPT !.pc = "apply",
                                                   !.dump = disk[job[j].target]]]
        /\ job[j].pc = "extract"
        /\ job[j].target \in Files
        /\ UNCHANGED <<lock, gate, disk, rows, data, written, crashes>>
    BY <1>5 DEF Extract, Whole
  <2>2. disk[job[j].target] \in Versions
    BY <1>1, <1>5, <2>1 DEF RestTyped, Extract, Whole
  <2>3. /\ [job[j] EXCEPT !.pc = "apply", !.dump = disk[job[j].target]] \in JobStates
        /\ [job[j] EXCEPT !.pc = "apply", !.dump = disk[job[j].target]].pc = "apply"
        /\ [job[j] EXCEPT !.pc = "apply", !.dump = disk[job[j].target]].dump \in Versions
    BY <1>3, <2>2 DEF JobStates, Steps
  <2>4. RestTyped'
    BY <1>1, <2>1 DEF RestTyped
  <2>5. QED
    BY <1>1, <1>2, <2>1, <2>3, <2>4, WorkerTyped, MoveKeeps DEF Ready, Holding, Working
<1>6. CASE Apply(j)
  <2>1. /\ job[j].pc = "apply" /\ Goto(j, "finish")
        /\ data' = job[j].dump
        /\ UNCHANGED <<lock, gate, disk, rows, written, crashes>>
    BY <1>6 DEF Apply
  <2>2. job[j].dump \in Versions
    BY <2>1 DEF IInv, Prepared, Ready
  <2>3. RestTyped'
    BY <1>1, <1>3, <2>1, <2>2 DEF RestTyped
  <2>4. QED
    BY <1>1, <2>1, <2>3, GotoTyped, MoveKeeps DEF Ready, Steps, Holding, Working
<1>7. CASE Erase(j)
  <2>1. /\ job[j].pc = "erase" /\ Goto(j, "drop")
        /\ disk' = [disk EXCEPT ![job[j].target] = 0]
        /\ UNCHANGED <<lock, gate, rows, data, written, crashes>>
    BY <1>7 DEF Erase
  <2>2. RestTyped'
    BY <1>1, <2>1 DEF RestTyped, Archives
  <2>3. QED
    BY <1>1, <2>1, <2>2, GotoTyped, MoveKeeps DEF Ready, Steps
<1>8. CASE Drop(j)
  <2>1. /\ job[j].pc = "drop" /\ Return(j)
        /\ rows' = [rows EXCEPT ![job[j].row] = <<>>]
        /\ UNCHANGED <<lock, gate, disk, data, written, crashes>>
    BY <1>8 DEF Drop
  <2>2. RestTyped'
    BY <1>1, <2>1 DEF RestTyped
  <2>3. QED
    BY <1>1, <2>1, <2>2, ReturnTyped, MoveKeeps DEF Ready
<1>9. ASSUME NEW left \in SUBSET Files, Proceed(j, left)
      PROVE  /\ job' \in [Jobs -> JobStates \cup {Idle}]
             /\ job'[j].pc \in {"idle", "index"}
             /\ \A i \in Jobs \ {j} : job'[i] = job[i]
  <2>1. CASE left = {}
    BY <1>1, <1>9, <2>1, ReturnTyped DEF Proceed, Return
  <2>2. CASE left # {}
    <3>1. /\ [job[j] EXCEPT !.pc = "index", !.todo = left] \in JobStates
          /\ [job[j] EXCEPT !.pc = "index", !.todo = left].pc = "index"
      BY <1>3 DEF JobStates, Steps
    <3>2. job' = [job EXCEPT ![j] = [job[j] EXCEPT !.pc = "index", !.todo = left]]
      BY <1>9, <2>2 DEF Proceed
    <3>3. QED
      BY <1>1, <1>2, <3>1, <3>2, WorkerTyped
  <2>3. QED
    BY <2>1, <2>2
<1>10. CASE Scan(j)
  <2>1. /\ job[j].pc = "scan" /\ Proceed(j, job[j].todo \ Catalogued)
        /\ UNCHANGED <<lock, gate, disk, rows, data, written, crashes>>
    BY <1>10 DEF Scan
  <2>2. RestTyped'
    BY <1>1, <2>1 DEF RestTyped
  <2>3. QED
    BY <1>3, <1>9, <2>1, <2>2, MoveKeeps DEF Ready
<1>11. CASE Index(j)
  <2>1. PICK f \in job[j].todo :
          /\ AddRow(f, FALSE) \/ UNCHANGED rows
          /\ Proceed(j, job[j].todo \ {f})
    BY <1>11 DEF Index
  <2>2. job[j].pc = "index" /\ UNCHANGED <<lock, gate, disk, data, written, crashes>>
    BY <1>11 DEF Index
  <2>3. rows' \in [Rows -> (Files \X BOOLEAN) \cup {<<>>}]
    <3>1. f \in Files /\ rows \in [Rows -> (Files \X BOOLEAN) \cup {<<>>}]
      BY <1>1, <1>3 DEF RestTyped
    <3>2. rows' = rows \/ \E r \in Rows : rows' = [rows EXCEPT ![r] = <<f, FALSE>>]
      BY <2>1 DEF AddRow, FreshRows
    <3>3. CASE rows' = rows
      BY <3>1, <3>3
    <3>4. ASSUME NEW r \in Rows, rows' = [rows EXCEPT ![r] = <<f, FALSE>>]
          PROVE  rows' \in [Rows -> (Files \X BOOLEAN) \cup {<<>>}]
      BY <3>1, <3>4
    <3>5. QED
      BY <3>2, <3>3, <3>4
  <2>4. RestTyped'
    BY <1>1, <2>2, <2>3 DEF RestTyped
  <2>5. QED
    BY <1>3, <1>9, <2>1, <2>2, <2>4, MoveKeeps DEF Ready
<1>12. QED
  BY <1>4, <1>5, <1>6, <1>7, <1>8, <1>10, <1>11

\* The clocks, the users and a crash.
LEMMA SurroundingsKeep ==
    ASSUME IInv, Slow = FALSE, LockExpires \/ GateExpires \/ Write \/ Crash
    PROVE  IInv'
<1>1. TypeOK /\ RestTyped
  BY TypeSplits DEF IInv
<1>2. CASE LockExpires
  <2>1. lock = Lost /\ lock' = Free /\ job' = job
    BY <1>2 DEF LockExpires
  <2>2. TypeOK'
    BY <1>1, <1>2 DEF LockExpires, TypeOK
  <2>3. \A j \in Jobs : ~At(j, Holding)
    BY <2>1, BackupAssumption DEF IInv, HoldersHold
  <2>4. QED
    BY <2>1, <2>2, <2>3, BackupAssumption
    DEF IInv, HoldersHold, LockOwnerRuns, Prepared, Ready
<1>3. CASE GateExpires
  BY <1>1, <1>3
  DEF GateExpires, IInv, TypeOK, HoldersHold, LockOwnerRuns, Prepared, Ready
<1>4. CASE Write
  <2>1. written + 1 \in Versions
    BY <1>1, <1>4, BackupAssumption DEF Write, RestTyped, Versions
  <2>2. TypeOK'
    BY <1>1, <1>4, <2>1 DEF Write, TypeOK
  <2>3. QED
    BY <1>4, <2>2 DEF Write, IInv, HoldersHold, LockOwnerRuns, Prepared, Ready
<1>5. CASE Crash
  <2>1. crashes' \in 0 .. MaxCrashes
    BY <1>1, <1>5, BackupAssumption DEF Crash, RestTyped
  <2>2. lock' \in {Free, Lost} /\ job' = [j \in Jobs |-> Idle]
    BY <1>5 DEF Crash
  <2>3. TypeOK'
    BY <1>1, <1>5, <2>1, <2>2 DEF Crash, TypeOK
  <2>4. \A j \in Jobs : job'[j].pc = "idle"
    BY <2>2 DEF Idle
  <2>5. QED
    BY <2>2, <2>3, <2>4, BackupAssumption
    DEF IInv, HoldersHold, LockOwnerRuns, Prepared, Ready, Holding, Working
<1>6. QED
  BY <1>2, <1>3, <1>4, <1>5

-----------------------------------------------------------------------------
(* The theorems.                                                           *)

LEMMA StepKeeps ==
    ASSUME Slow = FALSE
    PROVE  IInv /\ [Next]_vars => IInv'
<1> SUFFICES ASSUME IInv, [Next]_vars PROVE IInv'
  OBVIOUS
<1>1. ASSUME NEW j \in Jobs, Work(j) PROVE IInv'
  BY <1>1, AcquireKeeps, RefusedKeeps, DropKeeps, CreateKeeps, FailsKeeps, OthersKeep DEF Work
<1>2. ASSUME NEW j \in Jobs, StartCreate(j) PROVE IInv'
  <2>1. Call("create", "acquire", None, None) \in JobStates
    BY <1>2, CallTyped DEF StartCreate, Steps
  <2>2. QED
    BY <1>2, <2>1, StartKeeps DEF StartCreate, Call
<1>3. ASSUME NEW j \in Jobs, StartReindex(j) PROVE IInv'
  <2> DEFINE c == [Call("reindex", "scan", None, None) EXCEPT !.todo = OnDisk]
  <2>1. Call("reindex", "scan", None, None) \in JobStates
    BY <1>3, CallTyped DEF StartReindex, Steps
  <2>2. c \in JobStates /\ c.pc = "scan"
    BY <2>1 DEF JobStates, OnDisk, Call
  <2>3. QED
    BY <1>3, <2>2, StartKeeps DEF StartReindex
<1>4. ASSUME NEW j \in Jobs, NEW r \in Rows, StartRestore(j, r) PROVE IInv'
  <2>1. "restore" \in Ops /\ rows[r][1] \in Files
    BY <1>4 DEF StartRestore, Whole
  <2>2. Call("restore", "lock", r, rows[r][1]) \in JobStates
    BY <2>1, CallTyped DEF Steps
  <2>3. QED
    BY <1>4, <2>2, StartKeeps DEF StartRestore, Call
<1>5. ASSUME NEW j \in Jobs, NEW r \in Rows, StartDelete(j, r) PROVE IInv'
  <2>1. "delete" \in Ops /\ rows[r][1] \in Files
    BY <1>5 DEF StartDelete, Listed, IInv, TypeOK
  <2>2. Call("delete", "erase", r, rows[r][1]) \in JobStates
    BY <2>1, CallTyped DEF Steps
  <2>3. QED
    BY <1>5, <2>2, StartKeeps DEF StartDelete, Call
<1>6. CASE LockExpires \/ GateExpires \/ Write \/ Crash
  BY <1>6, SurroundingsKeep
<1>7. CASE UNCHANGED vars
  BY <1>7 DEF vars, IInv, TypeOK, HoldersHold, LockOwnerRuns, Prepared, Ready
<1>8. QED
  BY <1>1, <1>2, <1>3, <1>4, <1>5, <1>6, <1>7 DEF Next

\* The inductive invariant holds of every behaviour in which no job outlasts
\* the lock.
THEOREM InductiveInvariant ==
    ASSUME Slow = FALSE
    PROVE  Spec => []IInv
BY InitEstablishes, StepKeeps, PTL DEF Spec

\* Two backups, or a backup and a restore, never work at once, for any number
\* of administrators and with any crashes and failures.
THEOREM BackupsExclude ==
    ASSUME Slow = FALSE
    PROVE  Spec => []JobsExclude
<1>1. IInv => JobsExclude
  BY DEF IInv, HoldersHold, JobsExclude, Holding
<1>2. QED
  BY <1>1, InductiveInvariant, PTL

\* No path through the catch and finally blocks leaves the lock to a job that
\* has forgotten it.
THEOREM LockNeverForgotten ==
    ASSUME Slow = FALSE
    PROVE  Spec => []LockOwnerRuns
<1>1. IInv => LockOwnerRuns
  BY DEF IInv
<1>2. QED
  BY <1>1, InductiveInvariant, PTL

\* The lock excludes and is released: both at once, as the run checks them.
THEOREM LockAlwaysGuards ==
    ASSUME Slow = FALSE
    PROVE  Spec => []LockGuards
<1>1. IInv => LockGuards
  BY DEF IInv, HoldersHold, JobsExclude, Holding, LockGuards
<1>2. QED
  BY <1>1, InductiveInvariant, PTL

-----------------------------------------------------------------------------
(* The archives: what is on the disk is accounted for.                     *)

\* Steps in which a job has an archive that no row may name yet.
Held == {"pack", "insert", "unlink"}
Erasing == {"erase", "drop"}
Under(j) == job[j].pc # "idle"

\* An archive is made by one job, until that job ends.
OneMaker ==
    \A i, j \in Jobs :
        Under(i) /\ Under(j) /\ job[i].file = job[j].file /\ job[j].file \in Files => i = j

\* A deletion names the row of its own archive, or one that is gone, and drops
\* it when the archive is off the disk.
DeletesOwnRow ==
    \A j \in Jobs : At(j, Erasing) =>
        /\ job[j].row \in Rows /\ job[j].target \in Files
        /\ rows[job[j].row] = <<>> \/ rows[job[j].row] = <<job[j].target, FALSE>>
        /\ At(j, {"drop"}) => disk[job[j].target] = 0

\* What is on the disk is whole and listed, or a job sees to it.
Accounted ==
    crashes = 0 => \A f \in Files :
        /\ disk[f] = Torn => \E j \in Jobs : At(j, {"pack", "unlink"}) /\ job[j].file = f
        /\ disk[f] # 0 => f \in Catalogued \/ \E j \in Jobs : At(j, Held) /\ job[j].file = f

\* The steps of each operation, and how far a snapshot has come in them.
Staged(c) ==
    /\ c.pc \in {"scan", "index"} => c.op = "reindex"
    /\ c.pc \in {"reacquire", "extract", "apply"} => c.op = "restore" /\ c.made
    /\ c.pc \in {"acquire", "lock", "close", "shut", "yield", "dump", "archive"} \cup Held
         => ~c.made

Kinds == \A j \in Jobs : Staged(job[j])

DiskInv == OneMaker /\ DeletesOwnRow /\ Accounted /\ Kinds

\* Nobody knows of an archive before its row is there.
Unknown ==
    \A j \in Jobs : At(j, {"pack", "insert"}) =>
        /\ job[j].file \notin Catalogued
        /\ \A i \in Jobs : At(i, Erasing) => job[i].target # job[j].file
        /\ At(j, {"pack"}) => disk[job[j].file] = Torn
        /\ At(j, {"insert"}) => disk[job[j].file] \in Versions

\* The snapshot of a restore is whole, and every row of it is protected.
Kept(c) ==
    c.pc # "idle" /\ c.op = "restore" /\ c.made =>
        /\ c.file \in Files /\ disk[c.file] \in Versions
        /\ \E r \in Rows : rows[r] = <<c.file, TRUE>>
        /\ \A i \in Jobs : At(i, Erasing) => job[i].target # c.file
        /\ \A r \in Rows : rows[r] # <<c.file, FALSE>>

Snapshots == \A j \in Jobs : Kept(job[j])

SnapInv == Unknown /\ Snapshots

\* An archive of the disk is whole, torn, or not there.
LEMMA ArchiveKinds == 0 \notin Versions /\ Torn \notin Versions /\ Torn # 0
  BY BackupAssumption DEF Versions, Torn

\* Pairs are told apart by their parts.
LEMMA PairsApart ==
    ASSUME NEW f, NEW g, NEW b, NEW c
    PROVE  <<f, b>> # <<>> /\ (f # g => <<f, b>> # <<g, c>>) /\ <<f, TRUE>> # <<g, FALSE>>
  OBVIOUS

\* A row that is there.
LEMMA RowParts ==
    ASSUME NEW x \in (Files \X BOOLEAN) \cup {<<>>}, x # <<>>
    PROVE  /\ x[1] \in Files /\ x[2] \in BOOLEAN /\ x = <<x[1], x[2]>>
           /\ ~x[2] => x = <<x[1], FALSE>>
<1>1. x[1] \in Files /\ x[2] \in BOOLEAN /\ x = <<x[1], x[2]>>
  OBVIOUS
<1>2. ASSUME ~x[2] PROVE x = <<x[1], FALSE>>
  <2>1. x[2] = FALSE
    BY <1>1, <1>2
  <2>2. QED
    BY <1>1, <2>1
<1>3. QED
  BY <1>1, <1>2

\* Who is catalogued, before and after a step.
LEMMA CatalogueRows ==
    /\ TypeOK => \A f : f \in Catalogued <=> \E r \in Rows, b \in BOOLEAN : rows[r] = <<f, b>>
    /\ TypeOK' => \A f : f \in Catalogued' <=> \E r \in Rows, b \in BOOLEAN : rows'[r] = <<f, b>>
<1>1. ASSUME NEW t \in [Rows -> (Files \X BOOLEAN) \cup {<<>>}], NEW f
      PROVE  f \in {t[r][1] : r \in {q \in Rows : t[q] # <<>>}} <=>
                 \E r \in Rows, b \in BOOLEAN : t[r] = <<f, b>>
  <2>1. ASSUME NEW r \in Rows, t[r] # <<>>, t[r][1] = f
        PROVE  \E b \in BOOLEAN : t[r] = <<f, b>>
    <3>1. t[r] \in (Files \X BOOLEAN) \cup {<<>>}
      OBVIOUS
    <3>2. t[r][2] \in BOOLEAN /\ t[r] = <<t[r][1], t[r][2]>>
      BY <2>1, <3>1, RowParts
    <3>3. QED
      BY <2>1, <3>2
  <2>2. ASSUME NEW r \in Rows, NEW b \in BOOLEAN, t[r] = <<f, b>>
        PROVE  t[r] # <<>> /\ t[r][1] = f
    BY <2>2
  <2>3. QED
    BY <2>1, <2>2
<1>2. TypeOK => Catalogued = {rows[r][1] : r \in {q \in Rows : rows[q] # <<>>}}
  BY DEF Catalogued, Listed
<1>3. TypeOK' => Catalogued' = {rows'[r][1] : r \in {q \in Rows : rows'[q] # <<>>}}
  BY DEF Catalogued, Listed
<1>4. ASSUME TypeOK, NEW f
      PROVE  f \in Catalogued <=> \E r \in Rows, b \in BOOLEAN : rows[r] = <<f, b>>
  <2>1. rows \in [Rows -> (Files \X BOOLEAN) \cup {<<>>}]
    BY <1>4 DEF TypeOK
  <2>2. QED
    BY <1>1, <1>2, <1>4, <2>1, Zenon
<1>5. ASSUME TypeOK', NEW f
      PROVE  f \in Catalogued' <=> \E r \in Rows, b \in BOOLEAN : rows'[r] = <<f, b>>
  <2>1. rows' \in [Rows -> (Files \X BOOLEAN) \cup {<<>>}]
    BY <1>5 DEF TypeOK
  <2>2. QED
    BY <1>1, <1>3, <1>5, <2>1, Zenon
<1>6. QED
  BY <1>4, <1>5

\* A step that moves one job and touches neither the disk nor the table: it
\* starts no archive and no deletion, and passes a held archive to the catch
\* block only.
Calm(c, d) ==
    /\ d.pc \notin Erasing \cup {"pack", "insert"}
    /\ d.pc # "idle" /\ d.file \in Files => c.pc # "idle" /\ d.file = c.file
    /\ c.pc \in Held => d.pc = "unlink" /\ d.file = c.file
    /\ Staged(d)
    /\ d.pc # "idle" /\ d.op = "restore" /\ d.made =>
           c.pc # "idle" /\ c.op = "restore" /\ c.made /\ d.file = c.file

LEMMA CalmKeeps ==
    ASSUME TypeOK, DiskInv, NEW j \in Jobs, \A i \in Jobs \ {j} : job'[i] = job[i],
           Calm(job[j], job'[j]), UNCHANGED <<disk, rows, crashes>>
    PROVE  DiskInv' /\ (SnapInv => SnapInv')
<1>1. OneMaker'
  BY DEF DiskInv, OneMaker, Calm, Under
<1>2. DeletesOwnRow'
  BY DEF DiskInv, DeletesOwnRow, Calm, Erasing
<1>3. Catalogued' = Catalogued
  BY DEF Catalogued, Listed
<1>4. ASSUME NEW i \in Jobs, At(i, Held)
      PROVE  /\ At(i, Held)' /\ job'[i].file = job[i].file
             /\ At(i, {"pack", "unlink"}) => At(i, {"pack", "unlink"})'
  BY <1>4 DEF Calm, Held
<1>5. Accounted'
  BY <1>3, <1>4 DEF DiskInv, Accounted, Held
<1>6. Kinds'
  BY DEF DiskInv, Kinds, Calm, Staged
<1>7. ASSUME SnapInv PROVE SnapInv'
  <2>1. \A i \in Jobs : At(i, Erasing)' => job'[i] = job[i]
    BY DEF Calm
  <2>2. Unknown'
    BY <1>3, <1>7, <2>1 DEF SnapInv, Unknown, Calm
  <2>3. Snapshots'
    <3> SUFFICES ASSUME NEW i \in Jobs PROVE Kept(job[i])'
      BY DEF Snapshots
    <3>1. Kept(job[i])
      BY <1>7 DEF SnapInv, Snapshots
    <3>2. CASE i # j
      BY <2>1, <3>1, <3>2 DEF Kept
    <3>3. CASE i = j
      BY <2>1, <3>1, <3>3 DEF Kept, Calm
    <3>4. QED
      BY <3>2, <3>3
  <2>4. QED
    BY <2>2, <2>3 DEF SnapInv
<1>8. QED
  BY <1>1, <1>2, <1>5, <1>6, <1>7 DEF DiskInv

\* What Goto leaves of a record.
LEMMA GotoFields ==
    ASSUME TypeOK, NEW j \in Jobs, job[j].pc # "idle", NEW pc, Goto(j, pc)
    PROVE  /\ \A i \in Jobs \ {j} : job'[i] = job[i]
           /\ job'[j].pc = pc /\ job'[j].op = job[j].op /\ job'[j].row = job[j].row
           /\ job'[j].target = job[j].target /\ job'[j].file = job[j].file
           /\ job'[j].dump = job[j].dump /\ job'[j].made = job[j].made
<1>1. job[j] \in JobStates
  BY BusyTyped
<1>2. job' = [job EXCEPT ![j] = [job[j] EXCEPT !.pc = pc]]
  BY DEF Goto
<1>3. job'[j] = [job[j] EXCEPT !.pc = pc] /\ \A i \in Jobs \ {j} : job'[i] = job[i]
  BY <1>2 DEF TypeOK
<1>4. QED
  BY <1>1, <1>3 DEF JobStates

\* A move within an operation, and an end, are calm.
LEMMA GotoCalm ==
    ASSUME TypeOK, NEW j \in Jobs, job[j].pc # "idle", NEW pc, Goto(j, pc),
           pc \notin Erasing \cup {"pack", "insert", "scan", "index"},
           job[j].pc \in Held => pc = "unlink",
           pc \in {"reacquire", "extract", "apply"} => job[j].op = "restore" /\ job[j].made,
           pc \in {"acquire", "lock", "close", "shut", "yield", "dump", "archive", "unlink"}
             => ~job[j].made
    PROVE  Calm(job[j], job'[j]) /\ \A i \in Jobs \ {j} : job'[i] = job[i]
  BY GotoFields DEF Calm, Staged, Held

LEMMA ReturnCalm ==
    ASSUME TypeOK, NEW j \in Jobs, job[j].pc \notin Held, Return(j)
    PROVE  Calm(job[j], job'[j]) /\ \A i \in Jobs \ {j} : job'[i] = job[i]
  BY ReturnTyped DEF Calm, Staged, Erasing, Held

LEMMA ProceedCalm ==
    ASSUME TypeOK, NEW j \in Jobs, job[j].pc \in {"scan", "index"}, job[j].op = "reindex",
           NEW left, Proceed(j, left)
    PROVE  Calm(job[j], job'[j]) /\ \A i \in Jobs \ {j} : job'[i] = job[i]
<1>1. job[j] \in JobStates
  BY BusyTyped
<1>2. CASE left = {}
  <2>1. Return(j)
    BY <1>2 DEF Proceed, Return
  <2>2. QED
    BY <2>1, ReturnCalm DEF Held
<1>3. CASE left # {}
  <2>1. job' = [job EXCEPT ![j] = [job[j] EXCEPT !.pc = "index", !.todo = left]]
    BY <1>3 DEF Proceed
  <2>2. /\ job'[j] = [job[j] EXCEPT !.pc = "index", !.todo = left]
        /\ \A i \in Jobs \ {j} : job'[i] = job[i]
    BY <2>1 DEF TypeOK
  <2>3. /\ job'[j].pc = "index" /\ job'[j].op = "reindex" /\ job'[j].file = job[j].file
    BY <1>1, <2>2 DEF JobStates
  <2>4. QED
    BY <2>2, <2>3 DEF Calm, Staged, Erasing, Held
<1>4. QED
  BY <1>2, <1>3

\* So are the steps about the lock and the window, the failures, and the
\* restore of the database.
LEMMA CalmSteps ==
    ASSUME TypeOK, DiskInv, NEW j \in Jobs,
           \/ Acquire(j) \/ Refused(j) \/ SetMaintenance(j) \/ MaintenanceFails(j)
           \/ Release(j) \/ ReleaseFails(j) \/ Clear(j) \/ ClearFails(j)
           \/ Dump(j) \/ Fails(j) \/ Extract(j) \/ Apply(j) \/ Scan(j)
    PROVE  DiskInv' /\ (SnapInv => SnapInv')
<1>1. job[j].pc # "idle"
  BY DEF Acquire, Refused, SetMaintenance, MaintenanceFails, Release, ReleaseFails, Clear,
         ClearFails, Dump, Fails, Extract, Apply, Scan
<1>2. UNCHANGED <<disk, rows, crashes>>
  BY DEF Acquire, Refused, SetMaintenance, MaintenanceFails, Release, ReleaseFails, Clear,
         ClearFails, Dump, Fails, Extract, Apply, Scan
<1>3. Staged(job[j])
  BY DEF DiskInv, Kinds
<1> DEFINE Quiet == Calm(job[j], job'[j]) /\ \A i \in Jobs \ {j} : job'[i] = job[i]
<1>4. CASE Acquire(j)
  <2>1. \/ job[j].pc = "acquire" /\ Goto(j, "close")
        \/ job[j].pc = "lock" /\ Goto(j, "shut")
        \/ job[j].pc = "reacquire" /\ Goto(j, "extract")
    BY <1>4 DEF Acquire
  <2>2. Quiet
    BY <1>1, <1>3, <2>1, GotoCalm DEF Staged, Erasing, Held
  <2>3. QED
    BY <1>2, <2>2, CalmKeeps
<1>5. CASE Refused(j) \/ MaintenanceFails(j) \/ Clear(j) \/ ClearFails(j) \/ ReleaseFails(j)
  <2>1. job[j].pc \notin Held /\ (Goto(j, "finish") \/ Return(j))
    BY <1>5 DEF Refused, MaintenanceFails, Clear, ClearFails, ReleaseFails, Held
  <2>2. Quiet
    BY <1>1, <2>1, GotoCalm, ReturnCalm DEF Erasing
  <2>3. QED
    BY <1>2, <2>2, CalmKeeps
<1>6. CASE SetMaintenance(j)
  <2>1. \/ job[j].pc = "close" /\ Goto(j, "dump")
        \/ job[j].pc = "shut" /\ Goto(j, "yield")
    BY <1>6 DEF SetMaintenance
  <2>2. Quiet
    BY <1>1, <1>3, <2>1, GotoCalm DEF Staged, Erasing, Held
  <2>3. QED
    BY <1>2, <2>2, CalmKeeps
<1>7. CASE Release(j)
  <2>1. \/ job[j].pc = "yield" /\ Goto(j, "acquire")
        \/ job[j].pc = "finish" /\ Goto(j, "clear")
        \/ job[j].pc = "release" /\ Nested(j) /\ job[j].made /\ Goto(j, "reacquire")
        \/ job[j].pc = "release" /\ (Goto(j, "finish") \/ Goto(j, "clear"))
    <3>1. job[j].pc \in {"yield", "release", "finish"}
      BY <1>7 DEF Release, AfterRelease
    <3>2. CASE job[j].pc \in {"yield", "finish"}
      BY <1>7, <3>2 DEF Release, AfterRelease
    <3>3. CASE job[j].pc = "release" /\ ~Nested(j)
      BY <1>7, <3>3 DEF Release, AfterRelease
    <3>4. CASE job[j].pc = "release" /\ Nested(j)
      <4>1. CASE job[j].made
        BY <1>7, <3>4, <4>1 DEF Release, AfterRelease
      <4>2. CASE ~job[j].made
        BY <1>7, <3>4, <4>2 DEF Release, AfterRelease
      <4>3. QED
        BY <3>4, <4>1, <4>2
    <3>5. QED
      BY <3>1, <3>2, <3>3, <3>4
  <2>2. Quiet
    BY <1>1, <1>3, <2>1, GotoCalm DEF Staged, Erasing, Held, Nested
  <2>3. QED
    BY <1>2, <2>2, CalmKeeps
<1>8. CASE Fails(j)
  <2>1. \/ job[j].pc \in {"pack", "insert"} /\ Goto(j, "unlink")
        \/ job[j].pc \in {"dump", "archive"} /\ Goto(j, "release")
        \/ job[j].pc \in {"extract", "apply"} /\ Goto(j, "finish")
        \/ job[j].pc \in {"erase", "drop", "scan"} /\ Return(j)
    BY <1>8 DEF Fails
  <2>2. Quiet
    BY <1>1, <1>3, <2>1, GotoCalm, ReturnCalm DEF Staged, Erasing, Held
  <2>3. QED
    BY <1>2, <2>2, CalmKeeps
<1>9. CASE Apply(j)
  <2>1. job[j].pc = "apply" /\ Goto(j, "finish")
    BY <1>9 DEF Apply
  <2>2. Quiet
    BY <1>1, <2>1, GotoCalm DEF Erasing, Held
  <2>3. QED
    BY <1>2, <2>2, CalmKeeps
<1>10. CASE Dump(j) \/ Extract(j)
  <2>1. PICK pc, d :
          /\ job' = [job EXCEPT ![j] = [job[j] EXCEPT !.pc = pc, !.dump = d]]
          /\ \/ job[j].pc = "dump" /\ pc = "archive"
             \/ job[j].pc = "extract" /\ pc = "apply"
    BY <1>10 DEF Dump, Extract
  <2>2. job[j] \in JobStates
    BY <1>1, BusyTyped
  <2>3. /\ job'[j] = [job[j] EXCEPT !.pc = pc, !.dump = d]
        /\ \A i \in Jobs \ {j} : job'[i] = job[i]
    BY <2>1 DEF TypeOK
  <2>4. /\ job'[j].pc = pc /\ job'[j].op = job[j].op
        /\ job'[j].file = job[j].file /\ job'[j].made = job[j].made
    BY <2>2, <2>3 DEF JobStates
  <2>5. Quiet
    BY <1>1, <1>3, <2>1, <2>3, <2>4 DEF Calm, Staged, Erasing, Held
  <2>6. QED
    BY <1>2, <2>5, CalmKeeps
<1>11. CASE Scan(j)
  <2>1. job[j].pc = "scan" /\ Proceed(j, job[j].todo \ Catalogued)
    BY <1>11 DEF Scan
  <2>2. Quiet
    BY <1>3, <2>1, ProceedCalm DEF Staged, Held
  <2>3. QED
    BY <1>2, <2>2, CalmKeeps
<1>12. QED
  BY <1>4, <1>5, <1>6, <1>7, <1>8, <1>9, <1>10, <1>11

\* An unused name is on no disk, in no row, and no job has it.
LEMMA UnusedApart ==
    ASSUME TypeOK, NEW f \in Unused
    PROVE  /\ f \in Files /\ disk[f] = 0 /\ f \notin Catalogued
           /\ \A i \in Jobs : Under(i) => job[i].file # f /\ job[i].target # f
<1>1. \A i \in Jobs : Under(i) => i \in Busy
  BY DEF Under, Busy, Idle
<1>2. QED
  BY <1>1 DEF Unused, OnDisk

\* A new row takes no other's place, and none that a deletion names.
LEMMA FreshApart ==
    ASSUME NEW r \in FreshRows
    PROVE  /\ r \in Rows /\ rows[r] = <<>>
           /\ \A i \in Jobs : Under(i) => job[i].row # r
<1>1. \A i \in Jobs : Under(i) => i \in Busy
  BY DEF Under, Busy, Idle
<1>2. QED
  BY <1>1 DEF FreshRows, Listed

\* tar creates the archive.
LEMMA ArchiveAccounted ==
    ASSUME TypeOK, TypeOK', Prepared, DiskInv, NEW j \in Jobs, Archive(j)
    PROVE  DiskInv' /\ (SnapInv => SnapInv')
<1>1. /\ job[j].pc = "archive" /\ job[j] \in JobStates
      /\ UNCHANGED <<rows, crashes>>
  BY BusyTyped DEF Archive
<1>2. PICK f \in Unused :
        /\ disk' = [disk EXCEPT ![f] = Torn]
        /\ job' = [job EXCEPT ![j] = [job[j] EXCEPT !.pc = "pack", !.file = f]]
  BY DEF Archive
<1>3. \A i \in Jobs \ {j} : job'[i] = job[i]
  BY <1>2 DEF TypeOK
<1>4. job'[j].pc = "pack" /\ job'[j].file = f /\ job'[j].made = job[j].made
  <2>1. job'[j] = [job[j] EXCEPT !.pc = "pack", !.file = f]
    BY <1>2 DEF TypeOK
  <2>2. QED
    BY <1>1, <2>1 DEF JobStates
<1>5. /\ f \in Files /\ disk[f] = 0 /\ f \notin Catalogued
      /\ \A i \in Jobs : Under(i) => job[i].file # f /\ job[i].target # f
  BY UnusedApart
<1>6. disk'[f] = Torn /\ \A g \in Files \ {f} : disk'[g] = disk[g]
  BY <1>2, <1>5 DEF TypeOK
<1>7. Catalogued' = Catalogued
  BY <1>1 DEF Catalogued, Listed
<1>8. ~job[j].made
  BY <1>1 DEF DiskInv, Kinds, Staged
<1>9. OneMaker'
  <2> SUFFICES ASSUME NEW i \in Jobs, NEW k \in Jobs, Under(i)', Under(k)',
                      job'[i].file = job'[k].file, job'[k].file \in Files
               PROVE  i = k
    BY DEF OneMaker
  <2>1. CASE i # j /\ k # j
    BY <1>3, <2>1 DEF DiskInv, OneMaker, Under
  <2>2. CASE i = j \/ k = j
    BY <1>3, <1>4, <1>5, <2>2 DEF Under
  <2>3. QED
    BY <2>1, <2>2
<1>10. DeletesOwnRow'
  <2> SUFFICES ASSUME NEW i \in Jobs, At(i, Erasing)'
               PROVE  /\ job'[i].row \in Rows /\ job'[i].target \in Files
                      /\ rows'[job'[i].row] = <<>> \/ rows'[job'[i].row] = <<job'[i].target, FALSE>>
                      /\ At(i, {"drop"})' => disk'[job'[i].target] = 0
    BY DEF DeletesOwnRow
  <2>1. i # j /\ job'[i] = job[i] /\ Under(i) /\ At(i, Erasing)
    BY <1>3, <1>4 DEF Erasing, Under
  <2>2. job[i].target # f
    BY <1>5, <2>1
  <2>3. QED
    BY <1>1, <1>6, <2>1, <2>2 DEF DiskInv, DeletesOwnRow
<1>11. Accounted'
  <2> SUFFICES ASSUME crashes' = 0, NEW g \in Files
               PROVE  /\ disk'[g] = Torn =>
                           \E i \in Jobs : At(i, {"pack", "unlink"})' /\ job'[i].file = g
                      /\ disk'[g] # 0 => g \in Catalogued' \/
                           \E i \in Jobs : At(i, Held)' /\ job'[i].file = g
    BY DEF Accounted
  <2>1. CASE g # f
    <3>1. \A i \in Jobs : At(i, Held) => job'[i] = job[i]
      BY <1>1, <1>3 DEF Held
    <3>2. QED
      BY <1>1, <1>6, <1>7, <2>1, <3>1 DEF DiskInv, Accounted, Held
  <2>2. CASE g = f
    BY <1>4, <2>2 DEF Held
  <2>3. QED
    BY <2>1, <2>2
<1>12. Kinds'
  BY <1>3, <1>4, <1>8 DEF DiskInv, Kinds, Staged
<1>13. ASSUME SnapInv PROVE SnapInv'
  <2>1. \A i \in Jobs : At(i, Erasing)' => job'[i] = job[i] /\ job[i].target # f
    BY <1>3, <1>4, <1>5 DEF Erasing, Under
  <2>2. Unknown'
    <3> SUFFICES ASSUME NEW i \in Jobs, At(i, {"pack", "insert"})'
                 PROVE  /\ job'[i].file \notin Catalogued'
                        /\ \A k \in Jobs : At(k, Erasing)' => job'[k].target # job'[i].file
                        /\ At(i, {"pack"})' => disk'[job'[i].file] = Torn
                        /\ At(i, {"insert"})' => disk'[job'[i].file] \in Versions'
      BY DEF Unknown
    <3>1. CASE i = j
      BY <1>4, <1>5, <1>6, <1>7, <2>1, <3>1
    <3>2. CASE i # j
      <4>1. job'[i] = job[i] /\ job[i].file # f /\ job[i].file \in Files
        BY <1>3, <1>5, <3>2 DEF Prepared, Ready, Under
      <4>2. QED
        BY <1>6, <1>7, <1>13, <2>1, <4>1 DEF SnapInv, Unknown, Versions
    <3>3. QED
      BY <3>1, <3>2
  <2>3. Snapshots'
    <3> SUFFICES ASSUME NEW i \in Jobs PROVE Kept(job[i])'
      BY DEF Snapshots
    <3>1. CASE i = j
      BY <1>4, <1>8, <3>1 DEF Kept
    <3>2. CASE i # j
      <4>1. job'[i] = job[i] /\ Kept(job[i])
        BY <1>3, <1>13, <3>2 DEF SnapInv, Snapshots
      <4>2. Under(i) => job[i].file # f
        BY <1>5
      <4>3. QED
        BY <1>1, <1>6, <2>1, <4>1, <4>2 DEF Kept, Versions, Under
    <3>3. QED
      BY <3>1, <3>2
  <2>4. QED
    BY <2>2, <2>3 DEF SnapInv
<1>14. QED
  BY <1>9, <1>10, <1>11, <1>12, <1>13 DEF DiskInv

\* What a job does to its own archive does not concern those of others.
LEMMA MakersApart ==
    ASSUME DiskInv, Prepared, NEW j \in Jobs, Under(j), NEW i \in Jobs, i # j
    PROVE  /\ At(i, {"pack", "insert"}) => job[i].file # job[j].file
           /\ Kept(job[i]) /\ Under(i) /\ job[i].op = "restore" /\ job[i].made
                => job[i].file # job[j].file
  BY DEF DiskInv, OneMaker, Under, Prepared, Ready, Kept

\* tar fills it; the catch block removes it.
LEMMA PackAccounted ==
    ASSUME TypeOK, TypeOK', Prepared, DiskInv, NEW j \in Jobs, Pack(j) \/ Unlink(j)
    PROVE  DiskInv' /\ (SnapInv => SnapInv')
<1> DEFINE f == job[j].file
<1>1. /\ job[j].pc \in {"pack", "unlink"} /\ Under(j)
      /\ UNCHANGED <<rows, crashes>>
  BY DEF Pack, Unlink, Under
<1>2. /\ \A i \in Jobs \ {j} : job'[i] = job[i]
      /\ job'[j].file = f /\ job'[j].made = job[j].made
      /\ \/ job[j].pc = "pack" /\ job'[j].pc = "insert"
         \/ job[j].pc = "unlink" /\ job'[j].pc = "release"
  BY <1>1, GotoFields DEF Pack, Unlink, Under
<1>3. ~job[j].made
  BY <1>1 DEF DiskInv, Kinds, Staged, Held
<1>4. \A g \in Files \ {f} : disk'[g] = disk[g]
  BY DEF Pack, Unlink, TypeOK
<1>5. Unlink(j) /\ f \in Files => disk'[f] = 0
  BY DEF Unlink, TypeOK
<1>6. ASSUME Pack(j)
      PROVE  /\ f \in Files /\ job[j].dump \in Versions
             /\ disk'[f] = IF disk[f] = Torn THEN job[j].dump ELSE disk[f]
  <2>1. f \in Files /\ job[j].dump \in Versions
    BY <1>6 DEF Pack, Prepared, Ready
  <2>2. QED
    BY <1>6, <2>1 DEF Pack, TypeOK
<1>7. Pack(j) <=> job[j].pc = "pack"
  BY DEF Pack, Unlink
<1>8. Catalogued' = Catalogued
  BY <1>1 DEF Catalogued, Listed
<1>9. OneMaker'
  BY <1>1, <1>2 DEF DiskInv, OneMaker, Under
<1>10. DeletesOwnRow'
  <2> SUFFICES ASSUME NEW i \in Jobs, At(i, Erasing)'
               PROVE  /\ job'[i].row \in Rows /\ job'[i].target \in Files
                      /\ rows'[job'[i].row] = <<>> \/ rows'[job'[i].row] = <<job'[i].target, FALSE>>
                      /\ At(i, {"drop"})' => disk'[job'[i].target] = 0
    BY DEF DeletesOwnRow
  <2>1. i # j /\ job'[i] = job[i] /\ At(i, Erasing)
    BY <1>2 DEF Erasing
  <2>2. \A g \in Files : disk[g] = 0 => disk'[g] = 0
    BY <1>1, <1>4, <1>5, <1>6, <1>7, ArchiveKinds
  <2>3. QED
    BY <1>1, <2>1, <2>2 DEF DiskInv, DeletesOwnRow
<1>11. Accounted'
  <2> SUFFICES ASSUME crashes' = 0, NEW g \in Files
               PROVE  /\ disk'[g] = Torn =>
                           \E i \in Jobs : At(i, {"pack", "unlink"})' /\ job'[i].file = g
                      /\ disk'[g] # 0 => g \in Catalogued' \/
                           \E i \in Jobs : At(i, Held)' /\ job'[i].file = g
    BY DEF Accounted
  <2>1. CASE g # f
    BY <1>1, <1>2, <1>4, <1>8, <2>1 DEF DiskInv, Accounted, Held
  <2>2. CASE g = f
    BY <1>1, <1>2, <1>5, <1>6, <1>7, <2>2, ArchiveKinds DEF Held
  <2>3. QED
    BY <2>1, <2>2
<1>12. Kinds'
  BY <1>1, <1>2, <1>3 DEF DiskInv, Kinds, Staged
<1>13. ASSUME SnapInv PROVE SnapInv'
  <2>1. \A i \in Jobs : At(i, Erasing)' => job'[i] = job[i]
    BY <1>2 DEF Erasing
  <2>2. Unknown'
    <3> SUFFICES ASSUME NEW i \in Jobs, At(i, {"pack", "insert"})'
                 PROVE  /\ job'[i].file \notin Catalogued'
                        /\ \A k \in Jobs : At(k, Erasing)' => job'[k].target # job'[i].file
                        /\ At(i, {"pack"})' => disk'[job'[i].file] = Torn
                        /\ At(i, {"insert"})' => disk'[job'[i].file] \in Versions'
      BY DEF Unknown
    <3>1. CASE i = j
      BY <1>1, <1>2, <1>6, <1>7, <1>8, <1>13, <2>1, <3>1 DEF SnapInv, Unknown, Versions
    <3>2. CASE i # j
      <4>1. job[i].file # f /\ job[i].file \in Files
        BY <1>1, <1>2, <3>2, MakersApart DEF Prepared, Ready
      <4>2. QED
        BY <1>2, <1>4, <1>8, <1>13, <2>1, <3>2, <4>1 DEF SnapInv, Unknown, Versions
    <3>3. QED
      BY <3>1, <3>2
  <2>3. Snapshots'
    <3> SUFFICES ASSUME NEW i \in Jobs PROVE Kept(job[i])'
      BY DEF Snapshots
    <3>1. Kept(job[i])
      BY <1>13 DEF SnapInv, Snapshots
    <3>2. CASE i = j
      BY <1>2, <1>3, <3>2 DEF Kept
    <3>3. CASE i # j
      <4>1. job'[i] = job[i]
        BY <1>2, <3>3
      <4>2. Under(i) /\ job[i].op = "restore" /\ job[i].made => job[i].file # f
        BY <1>1, <3>1, <3>3, MakersApart
      <4>3. QED
        BY <1>1, <1>4, <2>1, <3>1, <4>1, <4>2 DEF Kept, Versions, Under
    <3>4. QED
      BY <3>2, <3>3
  <2>4. QED
    BY <2>2, <2>3 DEF SnapInv
<1>14. QED
  BY <1>9, <1>10, <1>11, <1>12, <1>13 DEF DiskInv

\* The row of a new archive.
LEMMA InsertAccounted ==
    ASSUME TypeOK, TypeOK', Prepared, DiskInv, NEW j \in Jobs, InsertRow(j)
    PROVE  DiskInv' /\ (SnapInv => SnapInv')
<1> DEFINE f == job[j].file
<1>1. /\ job[j].pc = "insert" /\ Under(j) /\ f \in Files /\ job[j] \in JobStates
      /\ UNCHANGED <<disk, crashes>>
  BY BusyTyped DEF InsertRow, Under, Prepared, Ready
<1>2. \A i \in Jobs \ {j} : job'[i] = job[i]
  BY DEF InsertRow, TypeOK
<1>3. /\ job'[j].pc = "release" /\ job'[j].file = f
      /\ job'[j].op = job[j].op
  <2>1. job'[j] = [job[j] EXCEPT !.pc = "release", !.made = TRUE]
    BY DEF InsertRow, TypeOK
  <2>2. QED
    BY <1>1, <2>1 DEF JobStates
<1>4. PICK r \in FreshRows : rows' = [rows EXCEPT ![r] = <<f, Nested(j)>>]
  BY DEF InsertRow, AddRow
<1>5. r \in Rows /\ rows[r] = <<>> /\ \A i \in Jobs : Under(i) => job[i].row # r
  BY FreshApart
<1>6. rows'[r] = <<f, Nested(j)>> /\ \A q \in Rows \ {r} : rows'[q] = rows[q]
  BY <1>4, <1>5 DEF TypeOK
<1>7. f \in Catalogued' /\ \A g : g \in Catalogued => g \in Catalogued'
  <2>1. Nested(j) \in BOOLEAN
    BY DEF Nested
  <2>2. \A g, b : rows[r] # <<g, b>>
    BY <1>5
  <2>3. f \in Catalogued'
    BY <1>5, <1>6, <2>1, CatalogueRows
  <2>4. ASSUME NEW g, g \in Catalogued PROVE g \in Catalogued'
    <3>1. PICK q \in Rows, b \in BOOLEAN : rows[q] = <<g, b>>
      BY <2>4, CatalogueRows
    <3>2. rows'[q] = <<g, b>>
      BY <1>6, <2>2, <3>1
    <3>3. QED
      BY <3>2, CatalogueRows
  <2>5. QED
    BY <2>3, <2>4
<1>8. \A g : g # f /\ g \in Catalogued' => g \in Catalogued
  <2>1. \A g, b : g # f => rows'[r] # <<g, b>>
    BY <1>6
  <2>2. QED
    BY <1>6, <2>1, CatalogueRows
<1>9. OneMaker'
  BY <1>1, <1>2, <1>3 DEF DiskInv, OneMaker, Under
<1>10. DeletesOwnRow'
  <2> SUFFICES ASSUME NEW i \in Jobs, At(i, Erasing)'
               PROVE  /\ job'[i].row \in Rows /\ job'[i].target \in Files
                      /\ rows'[job'[i].row] = <<>> \/ rows'[job'[i].row] = <<job'[i].target, FALSE>>
                      /\ At(i, {"drop"})' => disk'[job'[i].target] = 0
    BY DEF DeletesOwnRow
  <2>1. job'[i] = job[i] /\ At(i, Erasing) /\ job[i].row # r
    BY <1>2, <1>3, <1>5 DEF Erasing, Under
  <2>2. QED
    BY <1>1, <1>6, <2>1 DEF DiskInv, DeletesOwnRow
<1>11. Accounted'
  <2> SUFFICES ASSUME crashes' = 0, NEW g \in Files
               PROVE  /\ disk'[g] = Torn =>
                           \E i \in Jobs : At(i, {"pack", "unlink"})' /\ job'[i].file = g
                      /\ disk'[g] # 0 => g \in Catalogued' \/
                           \E i \in Jobs : At(i, Held)' /\ job'[i].file = g
    BY DEF Accounted
  <2>1. disk'[g] = Torn => \E i \in Jobs : At(i, {"pack", "unlink"})' /\ job'[i].file = g
    BY <1>1, <1>2 DEF DiskInv, Accounted
  <2>2. disk'[g] # 0 => g \in Catalogued' \/ \E i \in Jobs : At(i, Held)' /\ job'[i].file = g
    BY <1>1, <1>2, <1>7 DEF DiskInv, Accounted
  <2>3. QED
    BY <2>1, <2>2
<1>12. Kinds'
  BY <1>2, <1>3 DEF DiskInv, Kinds, Staged, Held
<1>13. ASSUME SnapInv PROVE SnapInv'
  <2>1. \A i \in Jobs : At(i, Erasing)' => job'[i] = job[i]
    BY <1>2, <1>3 DEF Erasing
  <2>2. /\ f \notin Catalogued
        /\ \A i \in Jobs : At(i, Erasing) => job[i].target # f
        /\ disk[f] \in Versions
    BY <1>1, <1>13 DEF SnapInv, Unknown
  <2>3. Unknown'
    <3> SUFFICES ASSUME NEW i \in Jobs, At(i, {"pack", "insert"})'
                 PROVE  /\ job'[i].file \notin Catalogued'
                        /\ \A k \in Jobs : At(k, Erasing)' => job'[k].target # job'[i].file
                        /\ At(i, {"pack"})' => disk'[job'[i].file] = Torn
                        /\ At(i, {"insert"})' => disk'[job'[i].file] \in Versions'
      BY DEF Unknown
    <3>1. i # j /\ job'[i] = job[i] /\ At(i, {"pack", "insert"})
      BY <1>2, <1>3
    <3>2. job[i].file # f
      BY <1>1, <3>1, MakersApart
    <3>3. QED
      BY <1>1, <1>8, <1>13, <2>1, <3>1, <3>2 DEF SnapInv, Unknown, Versions
  <2>4. Snapshots'
    <3> SUFFICES ASSUME NEW i \in Jobs, job'[i].pc # "idle", job'[i].op = "restore", job'[i].made
                 PROVE  /\ job'[i].file \in Files /\ disk'[job'[i].file] \in Versions'
                        /\ \E q \in Rows : rows'[q] = <<job'[i].file, TRUE>>
                        /\ \A k \in Jobs : At(k, Erasing)' => job'[k].target # job'[i].file
                        /\ \A q \in Rows : rows'[q] # <<job'[i].file, FALSE>>
      BY DEF Snapshots, Kept
    <3>1. CASE i = j
      <4>1. Nested(j) = TRUE
        BY <1>3, <3>1 DEF Nested
      <4>2. rows'[r] = <<f, TRUE>> /\ rows'[r] # <<f, FALSE>>
        BY <1>6, <4>1
      <4>3. \A q \in Rows \ {r} : rows'[q] # <<f, FALSE>>
        BY <1>6, <2>2, CatalogueRows
      <4>4. QED
        BY <1>1, <1>3, <1>5, <2>1, <2>2, <3>1, <4>2, <4>3 DEF Versions
    <3>2. CASE i # j
      <4>1. job'[i] = job[i] /\ Under(i) /\ Kept(job[i])
        BY <1>2, <1>13, <3>2 DEF SnapInv, Snapshots, Under
      <4>2. job[i].file # f
        BY <1>1, <3>2, <4>1, MakersApart
      <4>3. rows'[r] # <<job[i].file, FALSE>> /\ rows[r] # <<job[i].file, TRUE>>
        <5>1. rows[r] # <<job[i].file, TRUE>>
          BY <1>5
        <5>2. \A g, b : g # f => rows'[r] # <<g, b>>
          BY <1>6
        <5>3. QED
          BY <4>2, <5>1, <5>2
      <4>4. QED
        BY <1>1, <1>6, <2>1, <4>1, <4>3 DEF Kept, Under, Versions
    <3>3. QED
      BY <3>1, <3>2
  <2>5. QED
    BY <2>3, <2>4 DEF SnapInv
<1>14. QED
  BY <1>9, <1>10, <1>11, <1>12, <1>13 DEF DiskInv

\* The archive of a deletion leaves the disk.
LEMMA EraseAccounted ==
    ASSUME TypeOK, TypeOK', DiskInv, NEW j \in Jobs, Erase(j)
    PROVE  DiskInv' /\ (SnapInv => SnapInv')
<1> DEFINE t == job[j].target
<1>1. /\ job[j].pc = "erase" /\ Under(j)
      /\ UNCHANGED <<rows, crashes>>
  BY DEF Erase, Under
<1>2. /\ \A i \in Jobs \ {j} : job'[i] = job[i]
      /\ job'[j].pc = "drop" /\ job'[j].file = job[j].file /\ job'[j].made = job[j].made
      /\ job'[j].target = t /\ job'[j].row = job[j].row /\ job'[j].op = job[j].op
  BY <1>1, GotoFields DEF Erase, Under
<1>3. /\ t \in Files /\ job[j].row \in Rows
      /\ rows[job[j].row] = <<>> \/ rows[job[j].row] = <<t, FALSE>>
  BY <1>1 DEF DiskInv, DeletesOwnRow, Erasing
<1>4. disk'[t] = 0 /\ \A g \in Files \ {t} : disk'[g] = disk[g]
  BY <1>3 DEF Erase, TypeOK
<1>5. Catalogued' = Catalogued
  BY <1>1 DEF Catalogued, Listed
<1>6. OneMaker'
  BY <1>1, <1>2 DEF DiskInv, OneMaker, Under
<1>7. DeletesOwnRow'
  <2> SUFFICES ASSUME NEW i \in Jobs, At(i, Erasing)'
               PROVE  /\ job'[i].row \in Rows /\ job'[i].target \in Files
                      /\ rows'[job'[i].row] = <<>> \/ rows'[job'[i].row] = <<job'[i].target, FALSE>>
                      /\ At(i, {"drop"})' => disk'[job'[i].target] = 0
    BY DEF DeletesOwnRow
  <2>1. CASE i = j
    BY <1>1, <1>2, <1>3, <1>4, <2>1
  <2>2. CASE i # j
    BY <1>1, <1>2, <1>4, <2>2 DEF DiskInv, DeletesOwnRow
  <2>3. QED
    BY <2>1, <2>2
<1>8. Accounted'
  <2> SUFFICES ASSUME crashes' = 0, NEW g \in Files
               PROVE  /\ disk'[g] = Torn =>
                           \E i \in Jobs : At(i, {"pack", "unlink"})' /\ job'[i].file = g
                      /\ disk'[g] # 0 => g \in Catalogued' \/
                           \E i \in Jobs : At(i, Held)' /\ job'[i].file = g
    BY DEF Accounted
  <2>1. CASE g = t
    BY <1>4, <2>1, ArchiveKinds
  <2>2. CASE g # t
    BY <1>1, <1>2, <1>4, <1>5, <2>2 DEF DiskInv, Accounted, Held
  <2>3. QED
    BY <2>1, <2>2
<1>9. Kinds'
  BY <1>2 DEF DiskInv, Kinds, Staged, Held
<1>10. ASSUME SnapInv PROVE SnapInv'
  <2>1. \A i \in Jobs : At(i, Erasing)' => At(i, Erasing) /\ job'[i].target = job[i].target
    BY <1>1, <1>2 DEF Erasing
  <2>2. Unknown'
    <3> SUFFICES ASSUME NEW i \in Jobs, At(i, {"pack", "insert"})'
                 PROVE  /\ job'[i].file \notin Catalogued'
                        /\ \A k \in Jobs : At(k, Erasing)' => job'[k].target # job'[i].file
                        /\ At(i, {"pack"})' => disk'[job'[i].file] = Torn
                        /\ At(i, {"insert"})' => disk'[job'[i].file] \in Versions'
      BY DEF Unknown
    <3>1. i # j /\ job'[i] = job[i] /\ At(i, {"pack", "insert"})
      BY <1>2
    <3>2. job[i].file # t
      BY <1>1, <1>10, <3>1 DEF SnapInv, Unknown, Erasing
    <3>3. disk'[job[i].file] = disk[job[i].file]
      BY <3>2 DEF Erase, TypeOK
    <3>4. QED
      BY <1>5, <1>10, <2>1, <3>1, <3>3 DEF SnapInv, Unknown, Versions
  <2>3. Snapshots'
    <3> SUFFICES ASSUME NEW i \in Jobs, job'[i].pc # "idle", job'[i].op = "restore", job'[i].made
                 PROVE  /\ job'[i].file \in Files /\ disk'[job'[i].file] \in Versions'
                        /\ \E q \in Rows : rows'[q] = <<job'[i].file, TRUE>>
                        /\ \A k \in Jobs : At(k, Erasing)' => job'[k].target # job'[i].file
                        /\ \A q \in Rows : rows'[q] # <<job'[i].file, FALSE>>
      BY DEF Snapshots, Kept
    <3>1. /\ job'[i].file = job[i].file
          /\ job[i].pc # "idle" /\ job[i].op = "restore" /\ job[i].made
      BY <1>1, <1>2
    <3>2. Kept(job[i])
      BY <1>10 DEF SnapInv, Snapshots
    <3>3. job[i].file # t
      BY <1>1, <3>1, <3>2 DEF Kept, Erasing
    <3>4. QED
      BY <1>1, <1>4, <2>1, <3>1, <3>2, <3>3 DEF Kept, Versions
  <2>4. QED
    BY <2>2, <2>3 DEF SnapInv
<1>11. QED
  BY <1>6, <1>7, <1>8, <1>9, <1>10 DEF DiskInv

\* Its row leaves the table.
LEMMA DropAccounted ==
    ASSUME TypeOK, TypeOK', DiskInv, NEW j \in Jobs, Drop(j)
    PROVE  DiskInv' /\ (SnapInv => SnapInv')
<1> DEFINE t == job[j].target
           r == job[j].row
<1>1. /\ job[j].pc = "drop" /\ Return(j)
      /\ UNCHANGED <<disk, crashes>>
  BY DEF Drop
<1>2. job'[j].pc = "idle" /\ \A i \in Jobs \ {j} : job'[i] = job[i]
  BY <1>1, ReturnTyped
<1>3. /\ t \in Files /\ r \in Rows /\ disk[t] = 0
      /\ rows[r] = <<>> \/ rows[r] = <<t, FALSE>>
  BY <1>1 DEF DiskInv, DeletesOwnRow, Erasing
<1>4. rows'[r] = <<>> /\ \A q \in Rows \ {r} : rows'[q] = rows[q]
  BY <1>3 DEF Drop, TypeOK
<1>5. \A g, b : rows'[r] # <<g, b>>
  BY <1>4
<1>6. \A g : g \in Catalogued' => g \in Catalogued
  <2> SUFFICES ASSUME NEW g, g \in Catalogued' PROVE g \in Catalogued
    OBVIOUS
  <2>1. PICK q \in Rows, b \in BOOLEAN : rows'[q] = <<g, b>>
    BY CatalogueRows
  <2>2. q # r
    BY <1>5, <2>1
  <2>3. rows[q] = <<g, b>>
    BY <1>4, <2>1, <2>2
  <2>4. QED
    BY <2>3, CatalogueRows
<1>7. \A g : g # t /\ g \in Catalogued => g \in Catalogued'
  <2> SUFFICES ASSUME NEW g, g # t, g \in Catalogued PROVE g \in Catalogued'
    OBVIOUS
  <2>1. PICK q \in Rows, b \in BOOLEAN : rows[q] = <<g, b>>
    BY CatalogueRows
  <2>2. rows[r] # <<g, b>>
    BY <1>3, PairsApart, Zenon
  <2>3. rows'[q] = <<g, b>>
    BY <1>4, <2>1, <2>2
  <2>4. QED
    BY <2>3, CatalogueRows
<1>8. OneMaker'
  BY <1>2 DEF DiskInv, OneMaker, Under
<1>9. DeletesOwnRow'
  <2> SUFFICES ASSUME NEW i \in Jobs, At(i, Erasing)'
               PROVE  /\ job'[i].row \in Rows /\ job'[i].target \in Files
                      /\ rows'[job'[i].row] = <<>> \/ rows'[job'[i].row] = <<job'[i].target, FALSE>>
                      /\ At(i, {"drop"})' => disk'[job'[i].target] = 0
    BY DEF DeletesOwnRow
  <2>1. job'[i] = job[i]
    BY <1>2 DEF Erasing
  <2>2. QED
    BY <1>1, <1>4, <2>1 DEF DiskInv, DeletesOwnRow
<1>10. Accounted'
  <2> SUFFICES ASSUME crashes' = 0, NEW g \in Files, disk'[g] # 0
               PROVE  /\ disk'[g] = Torn =>
                           \E i \in Jobs : At(i, {"pack", "unlink"})' /\ job'[i].file = g
                      /\ g \in Catalogued' \/ \E i \in Jobs : At(i, Held)' /\ job'[i].file = g
    BY ArchiveKinds DEF Accounted
  <2>1. g # t
    BY <1>1, <1>3
  <2>2. \A i \in Jobs : At(i, Held) => job'[i] = job[i]
    BY <1>1, <1>2 DEF Held
  <2>3. QED
    BY <1>1, <1>7, <2>1, <2>2 DEF DiskInv, Accounted, Held
<1>11. Kinds'
  BY <1>2 DEF DiskInv, Kinds, Staged, Held
<1>12. ASSUME SnapInv PROVE SnapInv'
  <2>1. \A i \in Jobs : At(i, Erasing)' => job'[i] = job[i]
    BY <1>2 DEF Erasing
  <2>2. Unknown'
    BY <1>1, <1>2, <1>6, <1>12, <2>1 DEF SnapInv, Unknown, Versions
  <2>3. Snapshots'
    <3> SUFFICES ASSUME NEW i \in Jobs, job'[i].pc # "idle", job'[i].op = "restore", job'[i].made
                 PROVE  /\ job'[i].file \in Files /\ disk'[job'[i].file] \in Versions'
                        /\ \E q \in Rows : rows'[q] = <<job'[i].file, TRUE>>
                        /\ \A k \in Jobs : At(k, Erasing)' => job'[k].target # job'[i].file
                        /\ \A q \in Rows : rows'[q] # <<job'[i].file, FALSE>>
      BY DEF Snapshots, Kept
    <3>1. job'[i] = job[i] /\ Kept(job[i])
      BY <1>2, <1>12 DEF SnapInv, Snapshots
    <3>2. PICK q \in Rows : rows[q] = <<job[i].file, TRUE>>
      BY <3>1 DEF Kept
    <3>3. rows[r] # <<job[i].file, TRUE>>
      BY <1>3, PairsApart, Zenon
    <3>4. ASSUME NEW p \in Rows PROVE rows'[p] # <<job[i].file, FALSE>>
      <4>1. job'[i].pc # "idle" /\ job[i].op = "restore" /\ job[i].made
        BY <3>1
      <4>2. rows[p] # <<job[i].file, FALSE>>
        BY <3>1, <4>1 DEF Kept
      <4>3. QED
        BY <1>4, <1>5, <4>2
    <3>5. QED
      BY <1>1, <1>4, <2>1, <3>1, <3>2, <3>3, <3>4 DEF Kept, Versions
  <2>4. QED
    BY <2>2, <2>3 DEF SnapInv
<1>13. QED
  BY <1>8, <1>9, <1>10, <1>11, <1>12 DEF DiskInv

\* A new row for an archive that was found: it may be the snapshot of a restore
\* under way, which is why reindexing is left out of SnapInv.
LEMMA IndexAccounted ==
    ASSUME TypeOK, TypeOK', DiskInv, NEW j \in Jobs, Index(j)
    PROVE  DiskInv' /\ "reindex" \in Ops
<1>1. /\ job[j].pc = "index" /\ Under(j) /\ job[j] \in JobStates
      /\ UNCHANGED <<disk, crashes>>
  BY BusyTyped DEF Index, Under
<1>2. job[j].op = "reindex"
  BY <1>1 DEF DiskInv, Kinds, Staged
<1>3. PICK f \in job[j].todo :
        /\ AddRow(f, FALSE) \/ UNCHANGED rows
        /\ Proceed(j, job[j].todo \ {f})
  BY DEF Index
<1>4. Calm(job[j], job'[j]) /\ \A i \in Jobs \ {j} : job'[i] = job[i]
  BY <1>1, <1>2, <1>3, ProceedCalm
<1>5. OneMaker' /\ Kinds'
  BY <1>4 DEF DiskInv, OneMaker, Kinds, Calm, Under, Staged
<1>6. \A i \in Jobs : /\ At(i, Erasing)' => job'[i] = job[i]
                      /\ At(i, Held) => job'[i] = job[i]
  BY <1>1, <1>4 DEF Calm, Erasing, Held
<1>7. \A q \in Rows : rows'[q] = rows[q] \/ (rows[q] = <<>> /\ q \in FreshRows)
  <2>1. CASE UNCHANGED rows
    BY <2>1
  <2>2. ASSUME NEW r \in FreshRows, rows' = [rows EXCEPT ![r] = <<f, FALSE>>]
        PROVE  \A q \in Rows : rows'[q] = rows[q] \/ (rows[q] = <<>> /\ q \in FreshRows)
    <3>1. r \in Rows /\ rows[r] = <<>>
      BY FreshApart
    <3>2. \A q \in Rows : q # r => rows'[q] = rows[q]
      BY <2>2, <3>1 DEF TypeOK
    <3>3. QED
      BY <3>1, <3>2
  <2>3. QED
    BY <1>3, <2>1, <2>2 DEF AddRow
<1>8. \A g : g \in Catalogued => g \in Catalogued'
  <2> SUFFICES ASSUME NEW g, g \in Catalogued PROVE g \in Catalogued'
    OBVIOUS
  <2>1. PICK q \in Rows, b \in BOOLEAN : rows[q] = <<g, b>>
    BY CatalogueRows
  <2>2. rows[q] # <<>>
    BY <2>1
  <2>3. QED
    BY <1>7, <2>1, <2>2, CatalogueRows
<1>9. DeletesOwnRow'
  <2> SUFFICES ASSUME NEW i \in Jobs, At(i, Erasing)'
               PROVE  /\ job'[i].row \in Rows /\ job'[i].target \in Files
                      /\ rows'[job'[i].row] = <<>> \/ rows'[job'[i].row] = <<job'[i].target, FALSE>>
                      /\ At(i, {"drop"})' => disk'[job'[i].target] = 0
    BY DEF DeletesOwnRow
  <2>1. job'[i] = job[i] /\ Under(i)
    BY <1>6 DEF Erasing, Under
  <2>2. job[i].row \notin FreshRows
    BY <2>1, FreshApart
  <2>3. QED
    BY <1>1, <1>7, <2>1, <2>2 DEF DiskInv, DeletesOwnRow
<1>10. Accounted'
  BY <1>1, <1>6, <1>8 DEF DiskInv, Accounted, Held
<1>11. QED
  BY <1>1, <1>2, <1>5, <1>9, <1>10 DEF DiskInv, JobStates

\* The four requests.
LEMMA StartAccounted ==
    ASSUME TypeOK, TypeOK', DiskInv, NEW j \in Jobs,
           \/ StartCreate(j) \/ StartReindex(j)
           \/ \E r \in Rows : StartRestore(j, r) \/ StartDelete(j, r)
    PROVE  DiskInv' /\ (SnapInv => SnapInv')
<1>1. job[j].pc = "idle" /\ UNCHANGED <<disk, rows, crashes>>
  BY DEF StartCreate, StartReindex, StartRestore, StartDelete, Idle
<1>2. None \notin Files
  BY BackupAssumption
<1>3. ASSUME NEW c, job' = [job EXCEPT ![j] = c], c.pc \in {"acquire", "lock", "scan"},
             c.file = None, ~c.made, c.pc = "scan" => c.op = "reindex"
      PROVE  DiskInv' /\ (SnapInv => SnapInv')
  <2>1. job'[j] = c /\ \A i \in Jobs \ {j} : job'[i] = job[i]
    BY <1>3 DEF TypeOK
  <2>2. Calm(job[j], job'[j])
    BY <1>1, <1>2, <1>3, <2>1 DEF Calm, Staged, Erasing, Held
  <2>3. QED
    BY <1>1, <2>1, <2>2, CalmKeeps
<1>4. CASE StartCreate(j)
  <2> DEFINE c == Call("create", "acquire", None, None)
  <2>1. job' = [job EXCEPT ![j] = c] /\ c.pc = "acquire" /\ c.file = None /\ ~c.made
    BY <1>4 DEF StartCreate, Call
  <2> HIDE DEF c
  <2>2. QED
    BY <1>3, <2>1
<1>5. CASE StartReindex(j)
  <2> DEFINE c == [Call("reindex", "scan", None, None) EXCEPT !.todo = OnDisk]
  <2>1. /\ job' = [job EXCEPT ![j] = c]
        /\ c.pc = "scan" /\ c.op = "reindex" /\ c.file = None /\ ~c.made
    BY <1>5 DEF StartReindex, Call
  <2> HIDE DEF c
  <2>2. QED
    BY <1>3, <2>1
<1>6. ASSUME NEW r \in Rows, StartRestore(j, r)
      PROVE  DiskInv' /\ (SnapInv => SnapInv')
  <2> DEFINE c == Call("restore", "lock", r, rows[r][1])
  <2>1. job' = [job EXCEPT ![j] = c] /\ c.pc = "lock" /\ c.file = None /\ ~c.made
    BY <1>6 DEF StartRestore, Call
  <2> HIDE DEF c
  <2>2. QED
    BY <1>3, <2>1
<1>7. ASSUME NEW r \in Rows, StartDelete(j, r)
      PROVE  DiskInv' /\ (SnapInv => SnapInv')
  <2> DEFINE t == rows[r][1]
  <2>1. rows[r] = <<t, FALSE>> /\ t \in Files
    <3>1. rows[r] # <<>> /\ ~rows[r][2]
      BY <1>7 DEF StartDelete, Listed
    <3>2. rows[r] \in (Files \X BOOLEAN) \cup {<<>>}
      BY DEF TypeOK
    <3>3. QED
      BY <3>1, <3>2, RowParts
  <2>2. t \in Catalogued
    BY <2>1, CatalogueRows
  <2>3. \A i \in Jobs \ {j} : job'[i] = job[i]
    BY <1>7 DEF StartDelete, TypeOK
  <2>4. /\ job'[j].pc = "erase" /\ job'[j].op = "delete" /\ job'[j].row = r
        /\ job'[j].target = t /\ job'[j].file = None
    BY <1>7 DEF StartDelete, TypeOK, Call
  <2>5. Catalogued' = Catalogued
    BY <1>1 DEF Catalogued, Listed
  <2>6. OneMaker'
    BY <1>2, <2>3, <2>4 DEF DiskInv, OneMaker, Under
  <2>7. DeletesOwnRow'
    <3> SUFFICES ASSUME NEW i \in Jobs, At(i, Erasing)'
                 PROVE  /\ job'[i].row \in Rows /\ job'[i].target \in Files
                        /\ rows'[job'[i].row] = <<>> \/ rows'[job'[i].row] = <<job'[i].target, FALSE>>
                        /\ At(i, {"drop"})' => disk'[job'[i].target] = 0
      BY DEF DeletesOwnRow
    <3>1. CASE i = j
      BY <1>1, <2>1, <2>4, <3>1
    <3>2. CASE i # j
      BY <1>1, <2>3, <3>2 DEF DiskInv, DeletesOwnRow
    <3>3. QED
      BY <3>1, <3>2
  <2>8. Accounted'
    BY <1>1, <2>3, <2>5 DEF DiskInv, Accounted, Held
  <2>9. Kinds'
    BY <2>3, <2>4 DEF DiskInv, Kinds, Staged, Held
  <2>10. ASSUME SnapInv PROVE SnapInv'
    <3>1. Unknown'
      <4> SUFFICES ASSUME NEW i \in Jobs, At(i, {"pack", "insert"})'
                   PROVE  /\ job'[i].file \notin Catalogued'
                          /\ \A k \in Jobs : At(k, Erasing)' => job'[k].target # job'[i].file
                          /\ At(i, {"pack"})' => disk'[job'[i].file] = Torn
                          /\ At(i, {"insert"})' => disk'[job'[i].file] \in Versions'
        BY DEF Unknown
      <4>1. job'[i] = job[i]
        BY <2>3, <2>4
      <4>2. job[i].file \notin Catalogued /\ job[i].file # t
        BY <2>2, <2>10, <4>1 DEF SnapInv, Unknown
      <4>3. QED
        BY <1>1, <2>3, <2>4, <2>5, <2>10, <4>1, <4>2 DEF SnapInv, Unknown, Versions
    <3>2. Snapshots'
      <4> SUFFICES ASSUME NEW i \in Jobs, job'[i].pc # "idle", job'[i].op = "restore", job'[i].made
                   PROVE  /\ job'[i].file \in Files /\ disk'[job'[i].file] \in Versions'
                          /\ \E q \in Rows : rows'[q] = <<job'[i].file, TRUE>>
                          /\ \A k \in Jobs : At(k, Erasing)' => job'[k].target # job'[i].file
                          /\ \A q \in Rows : rows'[q] # <<job'[i].file, FALSE>>
        BY DEF Snapshots, Kept
      <4>1. job'[i] = job[i] /\ Kept(job[i])
        BY <2>3, <2>4, <2>10 DEF SnapInv, Snapshots
      <4>2. job[i].file # t
        <5>1. job[i].pc # "idle" /\ job[i].op = "restore" /\ job[i].made
          BY <4>1
        <5>2. rows[r] # <<job[i].file, FALSE>>
          BY <4>1, <5>1 DEF Kept
        <5>3. QED
          BY <2>1, <5>2
      <4>3. QED
        BY <1>1, <2>3, <2>4, <4>1, <4>2 DEF Kept, Versions
    <3>3. QED
      BY <3>1, <3>2 DEF SnapInv
  <2>11. QED
    BY <2>6, <2>7, <2>8, <2>9, <2>10 DEF DiskInv
<1>8. QED
  BY <1>4, <1>5, <1>6, <1>7

LEMMA StepAccounted ==
    ASSUME Slow = FALSE
    PROVE  IInv /\ IInv' /\ DiskInv /\ [Next]_vars =>
               DiskInv' /\ ("reindex" \notin Ops /\ SnapInv => SnapInv')
<1> SUFFICES ASSUME IInv, IInv', DiskInv, [Next]_vars
             PROVE  DiskInv' /\ ("reindex" \notin Ops /\ SnapInv => SnapInv')
  OBVIOUS
<1>1. TypeOK /\ TypeOK' /\ Prepared
  BY DEF IInv
<1>2. ASSUME NEW j \in Jobs, Work(j)
      PROVE  DiskInv' /\ ("reindex" \notin Ops /\ SnapInv => SnapInv')
  BY <1>1, <1>2, CalmSteps, ArchiveAccounted, PackAccounted, InsertAccounted, EraseAccounted,
     DropAccounted, IndexAccounted
  DEF Work
<1>3. ASSUME NEW j \in Jobs,
             \/ StartCreate(j) \/ StartReindex(j)
             \/ \E r \in Rows : StartRestore(j, r) \/ StartDelete(j, r)
      PROVE  DiskInv' /\ ("reindex" \notin Ops /\ SnapInv => SnapInv')
  BY <1>1, <1>3, StartAccounted
<1>4. CASE UNCHANGED <<disk, rows, job, crashes>>
  <2>1. DiskInv'
    <3>1. OneMaker' /\ DeletesOwnRow' /\ Kinds'
      BY <1>4 DEF DiskInv, OneMaker, DeletesOwnRow, Kinds, Staged, Under
    <3>2. Catalogued' = Catalogued
      BY <1>4 DEF Catalogued, Listed
    <3>3. Accounted'
      BY <1>4, <3>2 DEF DiskInv, Accounted
    <3>4. QED
      BY <3>1, <3>3 DEF DiskInv
  <2>2. SnapInv => SnapInv'
    BY <1>4 DEF SnapInv, Unknown, Snapshots, Kept, Catalogued, Listed, Versions
  <2>3. QED
    BY <2>1, <2>2
<1>5. CASE Crash
  <2>1. crashes' # 0 /\ \A j \in Jobs : job'[j].pc = "idle"
    BY <1>1, <1>5, BackupAssumption DEF Crash, Idle, TypeOK
  <2>2. DiskInv'
    BY <2>1 DEF DiskInv, OneMaker, DeletesOwnRow, Accounted, Kinds, Staged, Under, Erasing, Held
  <2>3. SnapInv'
    BY <2>1 DEF SnapInv, Unknown, Snapshots, Kept
  <2>4. QED
    BY <2>2, <2>3
<1>6. LockExpires \/ GateExpires \/ Write \/ UNCHANGED vars => UNCHANGED <<disk, rows, job, crashes>>
  BY DEF LockExpires, GateExpires, Write, vars
<1>7. QED
  BY <1>2, <1>3, <1>4, <1>5, <1>6 DEF Next

LEMMA InitAccounted == Init => DiskInv /\ SnapInv
<1> SUFFICES ASSUME Init PROVE DiskInv /\ SnapInv
  OBVIOUS
<1>1. \A j \in Jobs : job[j].pc = "idle"
  BY DEF Init, Idle
<1>2. \A f \in Files : disk[f] = 0
  BY DEF Init
<1>3. DiskInv
  BY <1>1, <1>2, ArchiveKinds
  DEF DiskInv, OneMaker, DeletesOwnRow, Accounted, Kinds, Staged, Under, Erasing, Held
<1>4. SnapInv
  BY <1>1 DEF SnapInv, Unknown, Snapshots, Kept
<1>5. QED
  BY <1>3, <1>4

\* The state keeps its types.
THEOREM BackupTyped ==
    ASSUME Slow = FALSE
    PROVE  Spec => []TypeOK
<1>1. IInv => TypeOK
  BY DEF IInv
<1>2. QED
  BY <1>1, InductiveInvariant, PTL

\* Without a crash, whatever the administrators ask and whatever fails on the
\* way, the directory holds only whole, listed archives once the jobs are over.
THEOREM NoArchiveOrphaned ==
    ASSUME Slow = FALSE
    PROVE  Spec => []NoOrphanArchive
<1>1. Init => DiskInv
  BY InitAccounted
<1>2. IInv /\ IInv' /\ DiskInv /\ [Next]_vars => DiskInv'
  BY StepAccounted
<1>3. IInv /\ DiskInv => NoOrphanArchive
  <2> SUFFICES ASSUME IInv, DiskInv, Busy = {}, crashes = 0, NEW f \in OnDisk
               PROVE  f \in Whole \cap Catalogued
    BY DEF NoOrphanArchive
  <2>1. \A j \in Jobs : job[j].pc = "idle"
    BY DEF Busy, Idle
  <2>2. f \in Files /\ disk[f] # 0 /\ disk[f] \in Archives
    BY DEF OnDisk, IInv, TypeOK
  <2>3. disk[f] # Torn /\ f \in Catalogued
    BY <2>1, <2>2 DEF DiskInv, Accounted, Held
  <2>4. QED
    BY <2>2, <2>3 DEF Whole, Archives
<1>4. QED
  BY <1>1, <1>2, <1>3, InductiveInvariant, PTL DEF Spec

\* Where nobody reindexes, the snapshot of a restore is whole and protected as
\* long as the restore is under way, however many jobs make, delete and
\* restore at once.
THEOREM SnapshotIsKept ==
    ASSUME Slow = FALSE, "reindex" \notin Ops
    PROVE  Spec => []SafetyNet
<1>1. Init => DiskInv /\ SnapInv
  BY InitAccounted
<1>2. IInv /\ IInv' /\ DiskInv /\ SnapInv /\ [Next]_vars => DiskInv' /\ SnapInv'
  BY StepAccounted
<1>3. IInv /\ DiskInv /\ SnapInv => SafetyNet
  <2> SUFFICES ASSUME IInv, DiskInv, SnapInv, NEW j \in Jobs, At(j, {"extract", "apply"})
               PROVE  job[j].file \in Whole \cap Protected
    BY DEF SafetyNet
  <2>1. job[j].op = "restore" /\ job[j].made
    BY DEF DiskInv, Kinds, Staged
  <2>2. PICK r \in Rows : rows[r] = <<job[j].file, TRUE>>
    BY <2>1 DEF SnapInv, Snapshots, Kept
  <2>3. job[j].file \in Whole
    BY <2>1 DEF SnapInv, Snapshots, Kept, Whole
  <2>4. rows[r] # <<>> /\ rows[r][1] = job[j].file /\ rows[r][2]
    BY <2>2
  <2>5. job[j].file \in Protected
    BY <2>4 DEF Protected, Listed
  <2>6. QED
    BY <2>3, <2>5
<1>4. QED
  BY <1>1, <1>2, <1>3, InductiveInvariant, PTL DEF Spec

-----------------------------------------------------------------------------
(* One job at a time: the window covers its work, and a restore overwrites *)
(* nothing that its snapshot does not hold.  With two jobs neither is      *)
(* true: one clears the window of the other.                               *)

Alone == \A i, j \in Jobs : i = j

Closed == \A j \in Jobs : InWindow(j) => gate # 0

\* From its dump to the end of the restore the snapshot is the database.
Current ==
    \A j \in Jobs :
        /\ At(j, {"archive", "pack"}) => job[j].dump = data
        /\ At(j, {"pack"}) => disk[job[j].file] = Torn
        /\ At(j, {"insert", "reacquire", "extract", "apply"}) \/ (At(j, {"release"}) /\ job[j].made)
             => disk[job[j].file] = data

\* Whoever is in the window was in it, or has just closed it.
LEMMA WindowEntered ==
    ASSUME TypeOK, NEW j \in Jobs, Work(j), InWindow(j)'
    PROVE  gate' # 0 \/ (InWindow(j) /\ gate' = gate)
<1>1. job'[j].pc # "idle"
  BY DEF InWindow
<1>2. ~Return(j)
  BY <1>1, ReturnTyped
<1>3. CASE SetMaintenance(j)
  BY <1>3 DEF SetMaintenance
<1>4. ASSUME NEW pc, Goto(j, pc), job[j].pc # "idle"
      PROVE  job'[j].pc = pc /\ (Nested(j)' <=> Nested(j))
  BY <1>4, GotoFields DEF Nested
<1>5. CASE Acquire(j)
  <2>1. \/ job[j].pc = "acquire" /\ Goto(j, "close")
        \/ job[j].pc = "lock" /\ Goto(j, "shut")
        \/ job[j].pc = "reacquire" /\ Goto(j, "extract")
    BY <1>5 DEF Acquire
  <2>2. gate' = gate
    BY <1>5 DEF Acquire
  <2>3. QED
    BY <1>4, <2>1, <2>2 DEF InWindow
<1>6. CASE Refused(j) \/ MaintenanceFails(j) \/ ReleaseFails(j)
  <2>1. gate' = gate /\ InWindow(j)
    BY <1>2, <1>6 DEF Refused, MaintenanceFails, ReleaseFails, InWindow
  <2>2. QED
    BY <2>1
<1>7. CASE Release(j)
  BY <1>7 DEF Release, InWindow
<1>8. CASE Clear(j) \/ ClearFails(j)
  BY <1>2, <1>8 DEF Clear, ClearFails
<1>9. CASE \/ Dump(j) \/ Archive(j) \/ Pack(j) \/ InsertRow(j) \/ Unlink(j)
           \/ Extract(j) \/ Apply(j)
  BY <1>9 DEF Dump, Archive, Pack, InsertRow, Unlink, Extract, Apply, InWindow
<1>10. CASE Fails(j)
  BY <1>2, <1>10 DEF Fails, InWindow
<1>11. CASE Erase(j)
  <2>1. job'[j].pc = "drop"
    BY <1>4, <1>11 DEF Erase
  <2>2. QED
    BY <2>1 DEF InWindow
<1>12. CASE Drop(j)
  BY <1>2, <1>12 DEF Drop
<1>13. CASE Scan(j) \/ Index(j)
  <2>1. PICK left : Proceed(j, left)
    BY <1>13 DEF Scan, Index
  <2>2. job' = [job EXCEPT ![j] = [job[j] EXCEPT !.pc = "index", !.todo = left]]
    BY <1>2, <2>1 DEF Proceed, Return
  <2>3. job[j] \in JobStates
    BY <1>13, BusyTyped DEF Scan, Index
  <2>4. job'[j] = [job[j] EXCEPT !.pc = "index", !.todo = left]
    BY <2>2 DEF TypeOK
  <2>5. job'[j].pc = "index"
    BY <2>3, <2>4 DEF JobStates
  <2>6. QED
    BY <2>5 DEF InWindow
<1>14. QED
  BY <1>3, <1>5, <1>6, <1>7, <1>8, <1>9, <1>10, <1>11, <1>12, <1>13 DEF Work

LEMMA ClosedKept ==
    ASSUME Slow = FALSE, Alone
    PROVE  IInv /\ Closed /\ [Next]_vars => Closed'
<1> SUFFICES ASSUME IInv, Closed, [Next]_vars PROVE Closed'
  OBVIOUS
<1>1. TypeOK
  BY DEF IInv
<1>2. ASSUME NEW j \in Jobs, Work(j) PROVE Closed'
  BY <1>1, <1>2, WindowEntered DEF Closed, Alone
<1>3. ASSUME NEW j \in Jobs,
             \/ StartCreate(j) \/ StartReindex(j)
             \/ \E r \in Rows : StartRestore(j, r) \/ StartDelete(j, r)
      PROVE  Closed'
  <2>1. /\ job'[j].pc \in {"acquire", "lock", "erase", "scan"}
        /\ job'[j].pc = "acquire" => job'[j].op = "create"
    BY <1>1, <1>3 DEF StartCreate, StartReindex, StartRestore, StartDelete, Call, TypeOK
  <2>2. ~InWindow(j)'
    BY <2>1 DEF InWindow, Nested
  <2>3. QED
    BY <2>2 DEF Closed, Alone
<1>4. CASE LockExpires \/ Write \/ UNCHANGED vars
  BY <1>4 DEF LockExpires, Write, vars, Closed, InWindow, Nested
<1>5. CASE GateExpires
  BY <1>5 DEF GateExpires, Closed, InWindow, Nested
<1>6. CASE Crash
  <2>1. \A j \in Jobs : job'[j].pc = "idle"
    BY <1>6 DEF Crash, Idle
  <2>2. QED
    BY <2>1 DEF Closed, InWindow
<1>7. QED
  BY <1>2, <1>3, <1>4, <1>5, <1>6 DEF Next

\* A step of the only job.
LEMMA CurrentWork ==
    ASSUME TypeOK, Prepared, DiskInv, Current, Alone, NEW j \in Jobs, Work(j)
    PROVE  Current'
<1> DEFINE D == job'[j].dump
           F == job'[j].file
<1>1. SUFFICES /\ At(j, {"archive", "pack"})' => D = data'
               /\ At(j, {"pack"})' => disk'[F] = Torn
               /\ At(j, {"insert", "reacquire", "extract", "apply"})'
                  \/ (At(j, {"release"})' /\ job'[j].made) => disk'[F] = data'
  BY DEF Current, Alone
<1>2. Staged(job[j])
  BY DEF DiskInv, Kinds
<1> DEFINE Elsewhere == /\ ~At(j, {"archive", "pack", "insert", "reacquire", "extract", "apply"})'
                        /\ At(j, {"release"})' => ~job'[j].made
<1>3. SUFFICES ASSUME ~Elsewhere
               PROVE  /\ At(j, {"archive", "pack"})' => D = data'
                      /\ At(j, {"pack"})' => disk'[F] = Torn
                      /\ At(j, {"insert", "reacquire", "extract", "apply"})'
                         \/ (At(j, {"release"})' /\ job'[j].made) => disk'[F] = data'
  OBVIOUS
<1>4. ~Return(j)
  BY <1>3, ReturnTyped
<1>5. ASSUME NEW pc, Goto(j, pc), job[j].pc # "idle"
      PROVE  job'[j].pc = pc /\ D = job[j].dump /\ F = job[j].file /\ job'[j].made = job[j].made
  BY <1>5, GotoFields
<1>6. CASE Acquire(j)
  <2>1. /\ \/ job[j].pc = "acquire" /\ Goto(j, "close")
           \/ job[j].pc = "lock" /\ Goto(j, "shut")
           \/ job[j].pc = "reacquire" /\ Goto(j, "extract")
        /\ UNCHANGED <<disk, data>>
    BY <1>6 DEF Acquire
  <2>2. job[j].pc = "reacquire" /\ job'[j].pc = "extract" /\ F = job[j].file
    BY <1>3, <1>5, <2>1
  <2>3. QED
    BY <2>1, <2>2 DEF Current
<1>7. CASE Refused(j) \/ MaintenanceFails(j) \/ ReleaseFails(j) \/ Clear(j) \/ ClearFails(j)
  <2>1. Goto(j, "finish") /\ job[j].pc # "idle"
    BY <1>4, <1>7 DEF Refused, MaintenanceFails, ReleaseFails, Clear, ClearFails
  <2>2. QED
    BY <1>3, <1>5, <2>1
<1>8. CASE SetMaintenance(j)
  <2>1. (Goto(j, "dump") \/ Goto(j, "yield")) /\ job[j].pc # "idle"
    BY <1>8 DEF SetMaintenance
  <2>2. QED
    BY <1>3, <1>5, <2>1
<1>9. CASE Release(j)
  <2>1. /\ job[j].pc \in {"yield", "release", "finish"}
        /\ Goto(j, AfterRelease(j))
        /\ UNCHANGED <<disk, data>>
    BY <1>9 DEF Release
  <2>2. job'[j].pc = AfterRelease(j) /\ F = job[j].file
    BY <1>5, <2>1
  <2>3. AfterRelease(j) \in {"acquire", "reacquire", "finish", "clear"}
    BY DEF AfterRelease
  <2>4. AfterRelease(j) = "reacquire" => job[j].pc = "release" /\ job[j].made
    BY DEF AfterRelease
  <2>5. QED
    BY <1>3, <2>1, <2>2, <2>3, <2>4 DEF Current
<1>10. CASE Dump(j)
  <2>1. /\ job[j].pc = "dump" /\ UNCHANGED <<disk, data>>
        /\ job' = [job EXCEPT ![j] = [job[j] EXCEPT !.pc = "archive", !.dump = data]]
    BY <1>10 DEF Dump
  <2>2. job[j] \in JobStates /\ job'[j] = [job[j] EXCEPT !.pc = "archive", !.dump = data]
    BY <2>1, BusyTyped DEF TypeOK
  <2>3. job'[j].pc = "archive" /\ D = data
    BY <2>2 DEF JobStates
  <2>4. QED
    BY <2>1, <2>3
<1>11. CASE Archive(j)
  <2>1. PICK f \in Unused :
          /\ disk' = [disk EXCEPT ![f] = Torn]
          /\ job' = [job EXCEPT ![j] = [job[j] EXCEPT !.pc = "pack", !.file = f]]
    BY <1>11 DEF Archive
  <2>2. job[j].pc = "archive" /\ job[j] \in JobStates /\ data' = data
    BY <1>11, BusyTyped DEF Archive
  <2>3. job'[j] = [job[j] EXCEPT !.pc = "pack", !.file = f]
    BY <2>1 DEF TypeOK
  <2>4. job'[j].pc = "pack" /\ F = f /\ D = job[j].dump
    BY <2>2, <2>3 DEF JobStates
  <2>5. disk'[f] = Torn
    BY <2>1 DEF TypeOK, Unused
  <2>6. QED
    BY <2>2, <2>4, <2>5 DEF Current
<1>12. CASE Pack(j)
  <2>1. job[j].pc = "pack" /\ Goto(j, "insert") /\ data' = data
    BY <1>12 DEF Pack
  <2>2. job[j].file \in Files
    BY <2>1 DEF Prepared, Ready
  <2>3. disk'[job[j].file] = data
    BY <1>12, <2>1, <2>2 DEF Pack, Current, TypeOK
  <2>4. job'[j].pc = "insert" /\ F = job[j].file
    BY <1>5, <2>1
  <2>5. QED
    BY <2>1, <2>3, <2>4
<1>13. CASE InsertRow(j)
  <2>1. /\ job[j].pc = "insert" /\ UNCHANGED <<disk, data>>
        /\ job' = [job EXCEPT ![j] = [job[j] EXCEPT !.pc = "release", !.made = TRUE]]
    BY <1>13 DEF InsertRow
  <2>2. job[j] \in JobStates /\ job'[j] = [job[j] EXCEPT !.pc = "release", !.made = TRUE]
    BY <2>1, BusyTyped DEF TypeOK
  <2>3. job'[j].pc = "release" /\ F = job[j].file
    BY <2>2 DEF JobStates
  <2>4. QED
    BY <2>1, <2>3 DEF Current
<1>14. CASE Unlink(j)
  <2>1. job[j].pc = "unlink" /\ Goto(j, "release")
    BY <1>14 DEF Unlink
  <2>2. QED
    BY <1>2, <1>3, <1>5, <2>1 DEF Staged, Held
<1>15. CASE Fails(j)
  <2>1. \/ job[j].pc \in {"pack", "insert"} /\ Goto(j, "unlink")
        \/ job[j].pc \in {"dump", "archive"} /\ Goto(j, "release")
        \/ job[j].pc \in {"extract", "apply"} /\ Goto(j, "finish")
    BY <1>4, <1>15 DEF Fails
  <2>2. QED
    BY <1>2, <1>3, <1>5, <2>1 DEF Staged
<1>16. CASE Extract(j)
  <2>1. /\ job[j].pc = "extract" /\ UNCHANGED <<disk, data>>
        /\ job' = [job EXCEPT ![j] = [job[j] EXCEPT !.pc = "apply",
                                                   !.dump = disk[job[j].target]]]
    BY <1>16 DEF Extract
  <2>2. job[j] \in JobStates
    BY <2>1, BusyTyped
  <2>3. job'[j] = [job[j] EXCEPT !.pc = "apply", !.dump = disk[job[j].target]]
    BY <2>1 DEF TypeOK
  <2>4. job'[j].pc = "apply" /\ F = job[j].file
    BY <2>2, <2>3 DEF JobStates
  <2>5. QED
    BY <2>1, <2>4 DEF Current
<1>17. CASE Apply(j) \/ Erase(j)
  <2>1. (Goto(j, "finish") \/ Goto(j, "drop")) /\ job[j].pc # "idle"
    BY <1>17 DEF Apply, Erase
  <2>2. QED
    BY <1>3, <1>5, <2>1
<1>18. CASE Drop(j)
  BY <1>4, <1>18 DEF Drop
<1>19. CASE Scan(j) \/ Index(j)
  <2>1. PICK left : Proceed(j, left)
    BY <1>19 DEF Scan, Index
  <2>2. job' = [job EXCEPT ![j] = [job[j] EXCEPT !.pc = "index", !.todo = left]]
    BY <1>4, <2>1 DEF Proceed, Return
  <2>3. job[j] \in JobStates
    BY <1>19, BusyTyped DEF Scan, Index
  <2>4. job'[j] = [job[j] EXCEPT !.pc = "index", !.todo = left]
    BY <2>2 DEF TypeOK
  <2>5. job'[j].pc = "index"
    BY <2>3, <2>4 DEF JobStates
  <2>6. QED
    BY <1>3, <2>5
<1>20. QED
  BY <1>6, <1>7, <1>8, <1>9, <1>10, <1>11, <1>12, <1>13, <1>14, <1>15, <1>16, <1>17, <1>18,
     <1>19
  DEF Work

LEMMA CurrentKept ==
    ASSUME Slow = FALSE, Alone, LateWrites = FALSE
    PROVE  IInv /\ DiskInv /\ Closed /\ Current /\ [Next]_vars => Current'
<1> SUFFICES ASSUME IInv, DiskInv, Closed, Current, [Next]_vars PROVE Current'
  OBVIOUS
<1>1. TypeOK /\ Prepared
  BY DEF IInv
<1>2. ASSUME NEW j \in Jobs, Work(j) PROVE Current'
  BY <1>1, <1>2, CurrentWork
<1>3. ASSUME NEW j \in Jobs,
             \/ StartCreate(j) \/ StartReindex(j)
             \/ \E r \in Rows : StartRestore(j, r) \/ StartDelete(j, r)
      PROVE  Current'
  <2>1. job'[j].pc \in {"acquire", "lock", "erase", "scan"}
    BY <1>1, <1>3 DEF StartCreate, StartReindex, StartRestore, StartDelete, Call, TypeOK
  <2>2. QED
    BY <2>1 DEF Current, Alone
<1>4. CASE LockExpires \/ GateExpires \/ UNCHANGED vars
  BY <1>4 DEF LockExpires, GateExpires, vars, Current
<1>5. CASE Write
  <2>1. gate = 0 /\ UNCHANGED <<disk, job>>
    BY <1>5 DEF Write
  <2>2. \A j \in Jobs : ~InWindow(j)
    BY <2>1 DEF Closed
  <2>3. QED
    BY <2>1, <2>2 DEF Current, InWindow
<1>6. CASE Crash
  <2>1. \A j \in Jobs : job'[j].pc = "idle"
    BY <1>6 DEF Crash, Idle
  <2>2. QED
    BY <2>1 DEF Current
<1>7. QED
  BY <1>2, <1>3, <1>4, <1>5, <1>6 DEF Next

LEMMA InitAlone == Init => Closed /\ Current
  BY DEF Init, Idle, Closed, Current, InWindow

\* With one job at a time the users are kept out while it works.
THEOREM WorkIsClosedToUsers ==
    ASSUME Slow = FALSE, Alone
    PROVE  Spec => []GateCoversWork
<1>1. Init => Closed
  BY InitAlone
<1>2. IInv /\ Closed /\ [Next]_vars => Closed'
  BY ClosedKept
<1>3. Closed => GateCoversWork
  BY DEF Closed, GateCoversWork, InWindow, Working
<1>4. QED
  BY <1>1, <1>2, <1>3, InductiveInvariant, PTL DEF Spec

\* With one job at a time, and writes that respect the window, what a restore
\* replaces is what its snapshot holds.
THEOREM RestoreLosesNothing ==
    ASSUME Slow = FALSE, Alone, LateWrites = FALSE
    PROVE  Spec => NoLostWrite
<1>1. Init => DiskInv /\ Closed /\ Current
  BY InitAccounted, InitAlone
<1>2. IInv /\ IInv' /\ DiskInv /\ [Next]_vars => DiskInv'
  BY StepAccounted
<1>3. IInv /\ Closed /\ [Next]_vars => Closed'
  BY ClosedKept
<1>4. IInv /\ DiskInv /\ Closed /\ Current /\ [Next]_vars => Current'
  BY CurrentKept
<1>5. Current => [\A j \in Jobs : Apply(j) => data = disk[job[j].file]]_vars
  BY DEF Current, Apply
<1>6. QED
  BY <1>1, <1>2, <1>3, <1>4, <1>5, InductiveInvariant, PTL DEF Spec, NoLostWrite

=============================================================================
