---------------------------- MODULE ResumeProofs ----------------------------
(***************************************************************************)
(* The resumable receive, for every number of files, directories and       *)
(* attempts: the inductive invariant Inv of Resume, what it says of the    *)
(* record on disk and of a receive that returns Ok, and that files of      *)
(* somebody else are left alone.                                           *)
(***************************************************************************)
EXTENDS Resume, TLAPS

\* Putting something at one target path of the attempt's directory.
LEMMA PlaceAt ==
  ASSUME TypeOK, NEW f \in Files, NEW content \in Content, Place(f, content)
  PROVE  /\ target' \in [Dirs -> [Files -> Content]]
         /\ target'[dir][f] = content
         /\ \A d \in Dirs, g \in Files :
              ~(d = dir /\ g = f) => target'[d][g] = target[d][g]
BY DEF TypeOK, Place

LEMMA InvInit == Init => Inv
<1> SUFFICES ASSUME Init PROVE Inv
  OBVIOUS
<1>1. TypeOK
  <2>1. record \in Record
    BY DEF Init, Record
  <2>2. target \in [Dirs -> [Files -> Content]]
    BY DEF Init, Content
  <2>3. 1 \in 1 .. FileCount + 1 /\ 0 \in 0 .. MaxAttempts
    BY ResumeAssumption
  <2>4. saved \subseteq Record /\ step \in Steps
    BY DEF Init, Steps
  <2>5. overwrite \in BOOLEAN
    BY Zenon DEF Init
  <2> QED BY <2>1, <2>2, <2>3, <2>4, <2>5 DEF Init, TypeOK
<1> QED
  BY <1>1 DEF Init, Inv, RecordIsTrue, AttemptIsTrue, CopyIsTrue, EndIsTrue

-----------------------------------------------------------------------------
(* One lemma per action, or per group of actions that do alike.            *)

LEMMA StartInv ==
  ASSUME Inv, NEW d \in Dirs, NEW o \in BOOLEAN, NEW resume \in BOOLEAN, Start(d, o, resume)
  PROVE  Inv'
<1>1. TypeOK'
  <2>1. attempts + 1 \in 0 .. MaxAttempts
    BY ResumeAssumption DEF Inv, TypeOK, Start
  <2>2. saved' \subseteq Record
    BY DEF Inv, TypeOK, Start
  <2> QED BY <2>1, <2>2 DEF Inv, TypeOK, Start, Steps
<1>2. RecordIsTrue'
  BY DEF Inv, RecordIsTrue, Start, At
<1> QED
  BY <1>1, <1>2 DEF Start, Inv, AttemptIsTrue, CopyIsTrue, EndIsTrue

LEMMA LoadsRecordInv ==
  ASSUME Inv, LoadsRecord
  PROVE  Inv'
<1>1. record' \in Record /\ record'.dir = dir
      /\ \A f \in record'.exported : At(dir, f) \in {"whole", "moved"}
  <2>1. CASE Load(dir) = {}
    BY <2>1 DEF LoadsRecord, Fresh, Record, Inv, TypeOK
  <2>2. CASE Load(dir) # {}
    BY <2>2 DEF LoadsRecord, Load, Inv, TypeOK, RecordIsTrue
  <2> QED BY <2>1, <2>2
<1>2. TypeOK'
  BY <1>1, ResumeAssumption DEF Inv, TypeOK, LoadsRecord, attempt, Steps, Files
<1>3. RecordIsTrue'
  BY <1>1 DEF LoadsRecord, RecordIsTrue, At
<1>4. AttemptIsTrue'
  BY <1>1 DEF LoadsRecord, attempt, AttemptIsTrue, At, Files
<1> QED
  BY <1>2, <1>3, <1>4 DEF LoadsRecord, Inv, CopyIsTrue, EndIsTrue

\* The steps between the copies, which leave the targets alone.
LEMMA LoopStepInv ==
  ASSUME Inv, Downloads \/ SkipsFile \/ SavesRecord
  PROVE  Inv'
<1> USE DEF Inv
<1>1. CASE Downloads
  BY <1>1 DEF Downloads, attempt, TypeOK, Steps, RecordIsTrue, AttemptIsTrue, CopyIsTrue,
     EndIsTrue, Settled, At
<1>2. CASE SkipsFile
  <2>1. Settled(next)
    BY <1>2 DEF SkipsFile, Skips, Exists, Settled, AttemptIsTrue
  <2>2. \A f \in Files : f < next + 1 => f < next \/ f = next
    BY DEF Files, TypeOK
  <2>3. TypeOK'
    BY <1>2, ResumeAssumption DEF SkipsFile, attempt, TypeOK, Files
  <2>4. AttemptIsTrue'
    BY <1>2, <2>1, <2>2 DEF SkipsFile, attempt, AttemptIsTrue, Settled, At
  <2> QED
    BY <1>2, <2>3, <2>4 DEF SkipsFile, attempt, RecordIsTrue, CopyIsTrue, EndIsTrue, At
<1>3. CASE SavesRecord
  <2>1. Settled(next) /\ next \in Files
    BY <1>3 DEF SavesRecord, Settled, CopyIsTrue
  <2>2. \A f \in Files : f < next + 1 => f < next \/ f = next
    BY DEF Files, TypeOK
  <2>3. TypeOK'
    BY <1>3, <2>1, ResumeAssumption DEF SavesRecord, attempt, TypeOK, Files, Steps
  <2>4. RecordIsTrue'
    BY <1>3 DEF SavesRecord, RecordIsTrue, AttemptIsTrue, At
  <2>5. AttemptIsTrue'
    BY <1>3, <2>1, <2>2 DEF SavesRecord, attempt, AttemptIsTrue, Settled, At
  <2> QED
    BY <1>3, <2>3, <2>4, <2>5 DEF SavesRecord, CopyIsTrue, EndIsTrue
<1> QED BY <1>1, <1>2, <1>3

\* A copy starts on a file that the record does not name, so the record stays true.
LEMMA StartsCopyInv ==
  ASSUME Inv, StartsCopy
  PROVE  Inv'
<1>1. next \in Files /\ next \notin record.exported /\ TypeOK /\ "part" \in Content
  BY DEF Inv, StartsCopy, Skips, Content
<1>2. /\ target' \in [Dirs -> [Files -> Content]]
      /\ target'[dir][next] = "part"
      /\ \A d \in Dirs, g \in Files : ~(d = dir /\ g = next) => target'[d][g] = target[d][g]
  BY <1>1, PlaceAt DEF StartsCopy
<1>3. TypeOK'
  BY <1>2 DEF Inv, TypeOK, StartsCopy, attempt, Steps
<1>4. RecordIsTrue'
  BY <1>1, <1>2 DEF Inv, TypeOK, StartsCopy, RecordIsTrue, AttemptIsTrue, At, Record
<1>5. AttemptIsTrue'
  <2>1. \A f \in Files : f < next => f # next
    BY DEF Files
  <2> QED BY <1>1, <1>2, <2>1 DEF Inv, TypeOK, StartsCopy, attempt, AttemptIsTrue, Settled, At, Record
<1>6. CopyIsTrue' /\ EndIsTrue'
  BY <1>1, <1>2 DEF StartsCopy, attempt, CopyIsTrue, EndIsTrue, At
<1> QED BY <1>3, <1>4, <1>5, <1>6 DEF Inv

LEMMA EndsCopyInv ==
  ASSUME Inv, EndsCopy
  PROVE  Inv'
<1>1. next \in Files /\ TypeOK /\ "whole" \in Content
  BY DEF Inv, EndsCopy, CopyIsTrue, Content
<1>2. /\ target' \in [Dirs -> [Files -> Content]]
      /\ target'[dir][next] = "whole"
      /\ \A d \in Dirs, g \in Files : ~(d = dir /\ g = next) => target'[d][g] = target[d][g]
  BY <1>1, PlaceAt DEF EndsCopy
<1>3. /\ record' \in Record
      /\ record'.dir = record.dir
      /\ record'.exported = record.exported \cup {next}
  BY <1>1 DEF EndsCopy, Recorded, TypeOK, Record
<1>4. TypeOK'
  BY <1>2, <1>3 DEF Inv, TypeOK, EndsCopy, attempt, Steps
<1>5. RecordIsTrue'
  BY <1>2 DEF Inv, TypeOK, EndsCopy, RecordIsTrue, At, Record
<1>6. AttemptIsTrue'
  BY <1>1, <1>2, <1>3 DEF Inv, TypeOK, EndsCopy, attempt, AttemptIsTrue, Settled, At, Record
<1>7. CopyIsTrue' /\ EndIsTrue'
  BY <1>1, <1>2 DEF EndsCopy, attempt, CopyIsTrue, EndIsTrue, At
<1> QED BY <1>4, <1>5, <1>6, <1>7 DEF Inv

\* The record that says Done names what the last one named; then it goes, or stays.
LEMMA FinishInv ==
  ASSUME Inv, SavesDone \/ DeletesRecord
  PROVE  Inv'
<1>1. CASE SavesDone
  <2>1. /\ record' \in Record
        /\ record'.dir = record.dir
        /\ record'.exported = record.exported
    BY <1>1 DEF SavesDone, Inv, TypeOK, Record
  <2>2. TypeOK'
    BY <1>1, <2>1 DEF Inv, TypeOK, SavesDone, attempt, Steps
  <2>3. RecordIsTrue' /\ AttemptIsTrue'
    BY <1>1, <2>1 DEF Inv, SavesDone, attempt, RecordIsTrue, AttemptIsTrue, Settled, At
  <2> QED
    BY <1>1, <2>2, <2>3 DEF SavesDone, Inv, CopyIsTrue, EndIsTrue
<1>2. CASE DeletesRecord
  <2>1. \A f \in Files : f < next
    BY <1>2, ResumeAssumption DEF DeletesRecord, Inv, EndIsTrue, TypeOK, Files
  <2>2. saved' \subseteq saved
    BY <1>2 DEF DeletesRecord
  <2>3. TypeOK'
    BY <1>2, <2>2 DEF DeletesRecord, attempt, Inv, TypeOK, Steps
  <2>4. RecordIsTrue'
    BY <1>2, <2>2 DEF DeletesRecord, Inv, RecordIsTrue, At
  <2>5. EndIsTrue'
    BY <1>2, <2>1 DEF DeletesRecord, attempt, Inv, EndIsTrue, AttemptIsTrue, Settled, At
  <2> QED
    BY <1>2, <2>3, <2>4, <2>5 DEF DeletesRecord, Inv, AttemptIsTrue, CopyIsTrue
<1> QED BY <1>1, <1>2

\* An attempt may stop anywhere: what is on disk is true by itself.
LEMMA StopsShortInv ==
  ASSUME Inv, Fails \/ FailsAfterRemove \/ Crash
  PROVE  Inv'
<1>1. CASE Fails \/ Crash
  <2>1. TypeOK'
    BY <1>1 DEF Fails, Crash, attempt, Inv, TypeOK, Steps
  <2> QED
    BY <1>1, <2>1 DEF Fails, Crash, attempt, Inv, RecordIsTrue, AttemptIsTrue, CopyIsTrue,
       EndIsTrue, At
<1>2. CASE FailsAfterRemove
  <2>1. next \in Files /\ next \notin record.exported /\ TypeOK /\ "absent" \in Content
    BY <1>2 DEF Inv, FailsAfterRemove, Skips, Content
  <2>2. /\ target' \in [Dirs -> [Files -> Content]]
        /\ \A d \in Dirs, g \in Files : ~(d = dir /\ g = next) => target'[d][g] = target[d][g]
    BY <1>2, <2>1, PlaceAt DEF FailsAfterRemove
  <2>3. TypeOK'
    BY <1>2, <2>2 DEF Inv, TypeOK, FailsAfterRemove, attempt, Steps
  <2>4. RecordIsTrue'
    BY <1>2, <2>1, <2>2 DEF Inv, TypeOK, FailsAfterRemove, RecordIsTrue, AttemptIsTrue, At, Record
  <2> QED
    BY <1>2, <2>3, <2>4 DEF FailsAfterRemove, Inv, AttemptIsTrue, CopyIsTrue, EndIsTrue
<1> QED BY <1>1, <1>2

LEMMA UserMovesInv ==
  ASSUME Inv, UserMoves
  PROVE  Inv'
<1>1. PICK d \in Dirs, f \in Files :
        At(d, f) = "whole" /\ target' = [target EXCEPT ![d][f] = "moved"]
  BY DEF UserMoves
<1>2. /\ target' \in [Dirs -> [Files -> Content]]
      /\ \A e \in Dirs, g \in Files :
           target'[e][g] = target[e][g] \/ (target[e][g] = "whole" /\ target'[e][g] = "moved")
  BY <1>1 DEF Inv, TypeOK, At, Content
<1>3. TypeOK'
  BY <1>2 DEF UserMoves, attempt, Inv, TypeOK
<1>4. RecordIsTrue'
  BY <1>2 DEF UserMoves, Inv, TypeOK, RecordIsTrue, At, Record
<1>5. EndIsTrue'
  BY <1>2 DEF UserMoves, Between, attempt, Inv, TypeOK, EndIsTrue, Settled, At
<1> QED
  BY <1>3, <1>4, <1>5 DEF UserMoves, Between, Inv, AttemptIsTrue, CopyIsTrue

-----------------------------------------------------------------------------

LEMMA InvNext == Inv /\ [Next]_vars => Inv'
<1> SUFFICES ASSUME Inv, [Next]_vars PROVE Inv'
  OBVIOUS
<1>1. CASE \E d \in Dirs, o, resume \in BOOLEAN : Start(d, o, resume)
  BY <1>1, StartInv
<1>2. CASE Receive
  BY <1>2, LoadsRecordInv, LoopStepInv, StartsCopyInv, EndsCopyInv, FinishInv DEF Receive
<1>3. CASE Fails \/ FailsAfterRemove \/ Crash
  BY <1>3, StopsShortInv
<1>4. CASE UserMoves
  BY <1>4, UserMovesInv
<1>5. CASE UNCHANGED vars
  BY <1>5 DEF vars, attempt, Inv, TypeOK, RecordIsTrue, AttemptIsTrue, CopyIsTrue, EndIsTrue,
     Settled, At
<1> QED BY <1>1, <1>2, <1>3, <1>4, <1>5 DEF Next

\* The invariant holds in every state of every run of receives.
THEOREM Invariance == Spec => []Inv
BY InvInit, InvNext, PTL DEF Spec

\* The record, the targets and the place of the attempt stay of their types; the
\* export loop never runs past the last file (core.rs:145-204).
THEOREM TypeCorrect == Spec => []TypeOK
<1>1. Inv => TypeOK
  BY DEF Inv
<1> QED BY <1>1, Invariance, PTL

\* The record on disk is true after any number of crashed, failed and resumed
\* attempts at collections of any size (record.rs:71, core.rs:196).
THEOREM RecordTrue == Spec => []RecordIsTrue
<1>1. Inv => RecordIsTrue
  BY DEF Inv
<1> QED BY <1>1, Invariance, PTL

\* A receive that returns Ok has passed no target over: something was there when it
\* came to the file, if only a part or somebody else's file (core.rs:145-204).
THEOREM NoneMissing == Spec => []NothingMissing
<1>1. Inv => NothingMissing
  BY DEF Inv, EndIsTrue, Settled, NothingMissing
<1> QED BY <1>1, Invariance, PTL

\* With overwrite, an Ok leaves nothing in part behind (core.rs:154-167).
THEOREM OverwriteMakesWhole == Spec => []OverwriteRepairs
<1>1. Inv => OverwriteRepairs
  BY DEF Inv, EndIsTrue, Settled, OverwriteRepairs
<1> QED BY <1>1, Invariance, PTL

\* A file of somebody else is replaced only with overwrite, and only in the
\* directory of the attempt (core.rs:154-167).
THEOREM ForeignUntouched == Spec => ForeignKept
<1> DEFINE Allowed == \A d \in Dirs, f \in Files :
                        At(d, f) = "foreign" /\ target'[d][f] # "foreign" => overwrite /\ d = dir
<1>1. ASSUME Inv, [Next]_vars PROVE [Allowed]_vars
  <2> SUFFICES ASSUME NEW d \in Dirs, NEW f \in Files, At(d, f) = "foreign",
                      target'[d][f] # "foreign"
               PROVE  overwrite /\ d = dir
    BY DEF Allowed
  <2>1. target' # target
    BY DEF At
  <2>2. CASE StartsCopy \/ FailsAfterRemove \/ EndsCopy
    <3>0. PICK content : target' = [target EXCEPT ![dir][next] = content]
      BY <2>2 DEF StartsCopy, FailsAfterRemove, EndsCopy, Place
    <3>1. d = dir /\ f = next
      BY <1>1, <3>0 DEF Inv, TypeOK, At
    <3>2. CASE EndsCopy
      BY <1>1, <3>1, <3>2 DEF EndsCopy, Inv, CopyIsTrue
    <3>3. CASE StartsCopy \/ FailsAfterRemove
      BY <3>1, <3>3 DEF StartsCopy, FailsAfterRemove, Skips, Exists
    <3> QED BY <2>2, <3>2, <3>3, <3>1
  <2>3. CASE UserMoves
    BY <2>3 DEF UserMoves, Inv, TypeOK, At
  <2> QED
    BY <1>1, <2>1, <2>2, <2>3 DEF Next, vars, Start, Receive, LoadsRecord, Downloads, SkipsFile,
       SavesRecord, SavesDone, DeletesRecord, Fails, Crash
<1> QED BY <1>1, Invariance, PTL DEF Spec, ForeignKept
=============================================================================
