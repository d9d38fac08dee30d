------------------------------- MODULE Resume -------------------------------
(***************************************************************************)
(* A receive and its resume record: receive_resumable and receive_impl of  *)
(* crates/core/src/transfer, check_resume of crates/cli/src/receive.rs.    *)
(* The record, the blob store and the target directories are on disk and   *)
(* survive a crash; the attempt in memory does not.                        *)
(*                                                                         *)
(* An export copies into the target path itself, so between its start and  *)
(* its end the target is there in part.  Saving a record is atomic (temp   *)
(* file, sync, rename) and loading one is too.  Attempts do not overlap:   *)
(* the blob store of a data dir belongs to one process.                    *)
(*                                                                         *)
(* Between two attempts the user may move a received file away, and may    *)
(* give another directory or another overwrite setting to the next one.    *)
(***************************************************************************)
EXTENDS Integers, Sequences, FiniteSets

CONSTANTS
  Dirs,          \* target directories
  FileCount,     \* files of the collection, in its order: 1 .. FileCount
  MaxAttempts    \* bound: receives of this collection

ASSUME ResumeAssumption ==
  /\ FileCount \in Nat \ {0}
  /\ MaxAttempts \in Nat

VARIABLES
  target,     \* what is at each file's target path, in each directory
  saved,      \* the record file: {} or {record}
  step,       \* where the attempt stands
  dir,        \* its target_dir
  overwrite,  \* its overwrite option
  record,     \* its record in memory
  next,       \* the file the export loop is at
  attempts

attempt == <<dir, overwrite>>
vars == <<target, saved, step, attempt, record, next, attempts>>

Files == 1 .. FileCount

\* "foreign": put there by somebody else; "part": a copy that never ended;
\* "moved": received in full, then taken away by the user.
Content == {"absent", "part", "whole", "foreign", "moved"}

Record == [dir : Dirs, exported : SUBSET Files, status : {"InProgress", "Done"}]

Steps == {"idle", "starting", "downloading", "exporting", "copying", "recording",
          "deleting", "ok", "error"}

Between == step \in {"idle", "ok", "error"}

Init ==
  /\ target \in [Dirs -> [Files -> {"absent", "foreign"}]]
  /\ saved = {}
  /\ step = "idle"
  /\ dir \in Dirs
  /\ overwrite = FALSE
  /\ record = [dir |-> dir, exported |-> {}, status |-> "InProgress"]
  /\ next = 1
  /\ attempts = 0

-----------------------------------------------------------------------------
(* One attempt.                                                            *)

\* TransferRecord::new.
Fresh(d) == [dir |-> d, exported |-> {}, status |-> "InProgress"]

LoadAnyDirMutant(d) == saved

\* RecordStore::load: a record for another directory is no record.  Its status is
\* not looked at.
Load(d) == {r \in saved : r.dir = d}

\* The command line's resume prompt comes first; declining drops the record.
Start(d, o, resume) ==
  /\ Between
  /\ attempts < MaxAttempts
  /\ attempts' = attempts + 1
  /\ dir' = d
  /\ overwrite' = o
  /\ ~resume => Load(d) # {}
  /\ saved' = IF resume THEN saved ELSE {}
  /\ step' = "starting"
  /\ UNCHANGED <<target, record, next>>

LoadsRecord ==
  /\ step = "starting"
  /\ IF Load(dir) = {} THEN record' = Fresh(dir) ELSE record' \in Load(dir)
  /\ saved' = {record'}
  /\ next' = 1
  /\ step' = "downloading"
  /\ UNCHANGED <<target, attempt, attempts>>

\* Until every chunk is in the blob store, of which the sender need only send the
\* missing ones; bytes_received, which only the progress bar reads, is left out.
Downloads ==
  /\ step = "downloading"
  /\ step' = "exporting"
  /\ UNCHANGED <<target, saved, attempt, record, next, attempts>>

At(d, f) == target[d][f]

Exists(d, f) == At(d, f) \in {"part", "whole", "foreign"}

Place(f, content) == target' = [target EXCEPT ![dir][f] = content]

SkipsRecordedOnlyMutant(f) == f \in record.exported

SkipsExistingAlwaysMutant(f) == f \in record.exported \/ Exists(dir, f)

\* Which files the export loop leaves alone.
Skips(f) == f \in record.exported \/ (Exists(dir, f) /\ ~overwrite)

SkipsFile ==
  /\ step = "exporting" /\ next \in Files
  /\ Skips(next)
  /\ next' = next + 1
  /\ UNCHANGED <<target, saved, step, attempt, record, attempts>>

\* remove_file, then the export creates the target and copies into it.
StartsCopy ==
  /\ step = "exporting" /\ next \in Files
  /\ ~Skips(next)
  /\ Place(next, "part")
  /\ step' = "copying"
  /\ UNCHANGED <<saved, attempt, record, next, attempts>>

RecordedOneAheadMutant(r, f) == [r EXCEPT !.exported = @ \cup {f + 1}]

RecordedAheadMutant(r, f) == [r EXCEPT !.exported = (1 .. f + 1) \cap Files]

\* exported_files.push.
Recorded(r, f) == [r EXCEPT !.exported = @ \cup {f}]

EndsCopy ==
  /\ step = "copying"
  /\ Place(next, "whole")
  /\ record' = Recorded(record, next)
  /\ step' = "recording"
  /\ UNCHANGED <<saved, attempt, next, attempts>>

SavesRecord ==
  /\ step = "recording"
  /\ saved' = {record}
  /\ next' = next + 1
  /\ step' = "exporting"
  /\ UNCHANGED <<target, attempt, record, attempts>>

SavesDone ==
  /\ step = "exporting" /\ next \notin Files
  /\ record' = [record EXCEPT !.status = "Done"]
  /\ saved' = {record'}
  /\ step' = "deleting"
  /\ UNCHANGED <<target, attempt, next, attempts>>

\* A delete that fails is only logged: the record stays, Done.
DeletesRecord ==
  /\ step = "deleting"
  /\ saved' \in {{}, saved}
  /\ step' = "ok"
  /\ UNCHANGED <<target, attempt, record, next, attempts>>

\* A save, a download, a remove or a copy that fails aborts the receive.  A failed
\* copy leaves what it wrote; a failed remove or save leaves things as they were.
Fails ==
  /\ step \in {"starting", "downloading", "exporting", "copying", "recording"}
  /\ step' = "error"
  /\ UNCHANGED <<target, saved, attempt, record, next, attempts>>

\* With overwrite the old file is gone before the export can fail.
FailsAfterRemove ==
  /\ step = "exporting" /\ next \in Files
  /\ ~Skips(next) /\ Exists(dir, next)
  /\ Place(next, "absent")
  /\ step' = "error"
  /\ UNCHANGED <<saved, attempt, record, next, attempts>>

Receive ==
  \/ LoadsRecord \/ Downloads \/ SkipsFile \/ StartsCopy \/ EndsCopy
  \/ SavesRecord \/ SavesDone \/ DeletesRecord

-----------------------------------------------------------------------------
(* Around the attempts.                                                    *)

\* The process dies, or FLOW_TIMEOUT drops the flow.
Crash ==
  /\ ~Between
  /\ step' = "idle"
  /\ UNCHANGED <<target, saved, attempt, record, next, attempts>>

UserMoves ==
  /\ Between
  /\ \E d \in Dirs, f \in Files :
       /\ At(d, f) = "whole"
       /\ target' = [target EXCEPT ![d][f] = "moved"]
  /\ UNCHANGED <<saved, step, attempt, record, next, attempts>>

Next ==
  \/ \E d \in Dirs, o, resume \in BOOLEAN : Start(d, o, resume)
  \/ Receive \/ Fails \/ FailsAfterRemove \/ Crash \/ UserMoves

Spec == Init /\ [][Next]_vars

-----------------------------------------------------------------------------
(* Properties.                                                             *)

TypeOK ==
  /\ target \in [Dirs -> [Files -> Content]]
  /\ saved \subseteq Record
  /\ step \in Steps
  /\ dir \in Dirs
  /\ overwrite \in BOOLEAN
  /\ record \in Record
  /\ next \in 1 .. FileCount + 1
  /\ attempts \in 0 .. MaxAttempts

\* What the record on disk says was exported was exported, in the directory it
\* names, whatever crashed or failed between two saves (record.rs:71, core.rs:196).
RecordIsTrue ==
  \A r \in saved : \A f \in r.exported : At(r.dir, f) \in {"whole", "moved"}

\* A receive that returns Ok, first attempt or fifth, here or in a directory tried
\* before, has passed no target over: each file was there when it came to it, or
\* its record says so truly.  What the file holds is not asked, nor whether it was
\* taken away since.
NothingMissing == step = "ok" => \A f \in Files : At(dir, f) # "absent"

\* The attempt has dealt with file f.
Settled(f) ==
  /\ At(dir, f) # "absent"
  /\ overwrite => At(dir, f) \in {"whole", "moved"}

\* While an attempt runs, its record is as true as the saved one, which does not
\* run ahead of it, and the files before next are settled.
AttemptIsTrue ==
  step \in {"downloading", "exporting", "copying", "recording", "deleting"} =>
    /\ record.dir = dir
    /\ \A f \in record.exported : At(dir, f) \in {"whole", "moved"}
    /\ \A r \in saved : r.dir = dir /\ r.exported \subseteq record.exported
    /\ \A f \in Files : f < next => Settled(f)

\* The file being copied: in part, then whole, and recorded only then.
CopyIsTrue ==
  /\ step \in {"copying", "recording"} => next \in Files
  /\ step = "copying" => At(dir, next) = "part" /\ next \notin record.exported
  /\ step = "recording" => At(dir, next) = "whole"

EndIsTrue ==
  /\ step = "deleting" => next \notin Files
  /\ step = "ok" => \A f \in Files : Settled(f)

Inv ==
  /\ TypeOK
  /\ RecordIsTrue
  /\ AttemptIsTrue
  /\ CopyIsTrue
  /\ EndIsTrue

\* With overwrite, what an interrupted attempt left in part is replaced: after Ok
\* every file is whole, or was when the user took it away.
OverwriteRepairs ==
  step = "ok" /\ overwrite => \A f \in Files : At(dir, f) \in {"whole", "moved"}

\* A file of somebody else is never touched by a receive without overwrite, nor by
\* one into another directory (core.rs:154-167).
ForeignKept ==
  [][\A d \in Dirs, f \in Files :
       At(d, f) = "foreign" /\ target'[d][f] # "foreign" => overwrite /\ d = dir]_vars

\* receive.rs:12-15: a crash mid-transfer can be resumed.  An Ok after a crash
\* would then not leave a file in part.
OkLeavesNoPart == step = "ok" => \A f \in Files : At(dir, f) # "part"
=============================================================================
