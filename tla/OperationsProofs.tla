-------------------------- MODULE OperationsProofs --------------------------
(***************************************************************************)
(* What operators run, for any number of each: what the preflights of a    *)
(* deploy accept, what a restore brings back, what schema the served       *)
(* revision finds, and what passes and runs of the pilot, stopped anywhere,*)
(* leave of the corpus.                                                    *)
(*                                                                         *)
(* Each promise passes through several hands: a record is written by one   *)
(* run and read by a deploy while another run overwrites it; an artifact   *)
(* is put down under one name and may be swapped in by another deploy.     *)
(* The invariants below therefore follow the thing itself (the snapshot,   *)
(* the artifact, the files a run of up still holds) and not the process.   *)
(***************************************************************************)
EXTENDS MCOperations, FiniteSetTheorems, WellFoundedInduction,
        NaturalsInduction, TLAPS

-----------------------------------------------------------------------------
(* The store, the archives and the record. *)

\* Nobody disappears but by expiry or erasure, and no dump holds anybody else.
UsersAccounted ==
  /\ minted \subseteq live \cup expired \cup erased
  /\ \A s \in repo : s.dump \subseteq minted
  /\ \A b \in Runs : run[b].dump \subseteq minted
  /\ scratch \subseteq minted

\* A run has one snapshot from its upload on, so retention, which compares the snapshots
\* of one label, keeps it.
Uploaded == {"forget", "clean", "done"}
SnapshotsOfRuns ==
  /\ \A s, t \in repo : s.label = t.label => s = t
  /\ \A s \in repo : run[s.label].pc \notin {"idle", "start", "dump", "count", "upload"}
  /\ \A b \in Runs : run[b].pc \in Uploaded => \E s \in repo : s.label = b

Backed(b) == b \in Runs /\ run[b].pc = "done"

\* A success on record is that of a run that finished, with none begun since.
RecordHolds == record.status = "ok" => begun = {} /\ Backed(record.run)

\* How far a restore is from its archive.
RestoreHolds ==
  /\ restore.pc # "idle" => \E s \in repo : s.label = restore.from
  /\ restore.pc \in {"verify", "reclaim"} => scratch = Archive.dump
  /\ restore.pc = "erase" => Archive.dump \ expired \subseteq scratch
  /\ restore.pc = "done" => /\ restore.named \notin scratch
                            /\ (Archive.dump \ expired) \ {restore.named} \subseteq scratch

BackupInv == BackupTypeOK /\ UsersAccounted /\ SnapshotsOfRuns /\ RecordHolds /\ RestoreHolds

RunRecord == [pc : RunPcs, unit : BOOLEAN, started : 0..day, dump : SUBSET Users,
              count : Nat, tmp : BOOLEAN]
Outcome == [status : {"none", "pending", "running", "ok", "failed"},
            started : 0..day, completed : 0..day, run : Runs \cup {None}]

LEMMA CountsAreNaturals == \A S \in SUBSET Users : Cardinality(S) \in Nat
BY BackupAssumption, FS_Subset, FS_CardinalityType

LEMMA ArchiveFound ==
  ASSUME BackupInv, restore.pc # "idle"
  PROVE  Archive \in repo /\ Archive.label = restore.from
BY DEF BackupInv, RestoreHolds, Archive

LEMMA BackupInvInit == BackupInit => BackupInv
<1> SUFFICES ASSUME BackupInit PROVE BackupInv
  OBVIOUS
<1> USE DEF BackupInit
<1>1. NoRun \in RunRecord /\ NoRun.dump = {} /\ NoRun.pc = "idle" /\ day = 0
  BY DEF NoRun, RunRecord, RunPcs
<1>2. NoRestore \in [pc : RestorePcs, from : Runs \cup {None}, named : Users \cup {None},
                     skip : BOOLEAN] /\ NoRestore.pc = "idle"
  BY DEF NoRestore, RestorePcs
<1>3. BackupTypeOK
  BY <1>1, <1>2 DEF BackupTypeOK, RunRecord
<1>4. UsersAccounted /\ SnapshotsOfRuns /\ RecordHolds /\ RestoreHolds
  BY <1>1, <1>2 DEF UsersAccounted, SnapshotsOfRuns, RecordHolds, RestoreHolds, Uploaded
<1> QED BY <1>3, <1>4 DEF BackupInv

\* Every snapshot survives retention: it is the only one of its label.
LEMMA RetentionKeepsAll ==
  ASSUME BackupInv, NEW s \in repo
  PROVE  Kept(s)
<1>1. \A t \in Group(s) : t = s
  BY DEF BackupInv, SnapshotsOfRuns, Group
<1>2. s.day \in Nat /\ ~(s.day > s.day)
  BY DEF BackupInv, BackupTypeOK
<1>3. {x \in Group(s) : x.day > s.day} = {}
  BY <1>1, <1>2
<1>4. {t.day : t \in {x \in Group(s) : x.day > s.day}} = {}
  BY <1>3
<1>5. Cardinality({t.day : t \in {x \in Group(s) : x.day > s.day}}) = 0
  BY <1>4, FS_EmptySet
<1> QED BY <1>1, <1>5, BackupAssumption DEF Kept

\* The steps of the job: the store and the restore are left alone.
LEMMA RunKeepsBackupInv ==
  ASSUME BackupInv, NEW b \in Runs, RunStep(b)
  PROVE  BackupInv'
<1> USE DEF BackupInv
<1>1. /\ RunFrame /\ faults' \in Nat
      /\ run \in [Runs -> RunRecord] /\ run[b] \in RunRecord /\ record \in Outcome
      /\ day \in Nat /\ day \in 0..day /\ 0 \in 0..day
  <2>1. RunFrame
    BY DEF RunStep, StartUnit, StartByHand, Begin, Dump, CountTables, Upload, Forget, Finish,
         FailRun, Kill
  <2>2. faults' = faults \/ faults' = faults + 1
    BY DEF RunStep, StartUnit, StartByHand, Begin, Dump, CountTables, Upload, Forget, Finish,
         FailRun, Kill, Writes, Fault
  <2> QED BY <2>1, <2>2 DEF BackupTypeOK, RunRecord, Outcome
<1>2. PICK rec \in RunRecord :
        /\ run' = [run EXCEPT ![b] = rec]
        /\ rec.dump \subseteq minted
        /\ \/ rec.pc \in {"start", "dump", "count", "upload"}
              /\ run[b].pc \in {"idle", "start", "dump", "count"} /\ repo' = repo
           \/ rec.pc = "forget" /\ Upload(b)
           \/ rec.pc = "clean" /\ Forget(b)
           \/ rec.pc = "done" /\ run[b].pc = "clean" /\ repo' = repo
           \/ rec.pc \in {"failed", "killed"} /\ Active(b) /\ repo' = repo
  <2>1. CASE StartUnit(b) \/ StartByHand(b)
    <3>1. PICK unit \in BOOLEAN :
            run' = [run EXCEPT ![b] = [run[b] EXCEPT !.pc = "start", !.unit = unit, !.started = day]]
      <4>1. CASE StartUnit(b)
        BY <1>1, <4>1 DEF StartUnit
      <4>2. CASE StartByHand(b)
        <5>1. run[b].unit \in BOOLEAN
          BY <1>1 DEF RunRecord
        <5>2. [run[b] EXCEPT !.pc = "start", !.unit = run[b].unit, !.started = day]
                = [run[b] EXCEPT !.pc = "start", !.started = day]
          BY <1>1 DEF RunRecord
        <5> QED BY <1>1, <4>2, <5>1, <5>2 DEF StartByHand
      <4> QED BY <2>1, <4>1, <4>2
    <3>2. [run[b] EXCEPT !.pc = "start", !.unit = unit, !.started = day] \in RunRecord
      <4>1. "start" \in RunPcs
        BY DEF RunPcs, Working
      <4> QED BY <1>1, <4>1 DEF RunRecord
    <3> QED BY <1>1, <2>1, <3>1, <3>2 DEF StartUnit, StartByHand, RunRecord, UsersAccounted
  <2>2. CASE Begin(b) \/ Dump(b) \/ CountTables(b)
    <3>1. [run[b] EXCEPT !.pc = "dump", !.tmp = TRUE] \in RunRecord
      BY <1>1 DEF RunRecord, RunPcs, Working
    <3>2. [run[b] EXCEPT !.pc = "count", !.dump = live] \in RunRecord
      BY <1>1 DEF RunRecord, RunPcs, Working, BackupTypeOK
    <3>3. [run[b] EXCEPT !.pc = "upload", !.count = Cardinality(live)] \in RunRecord
      BY <1>1, CountsAreNaturals DEF RunRecord, RunPcs, Working, BackupTypeOK
    <3>4. live \subseteq minted /\ run[b].dump \subseteq minted
      BY DEF BackupTypeOK, UsersAccounted
    <3>5. CASE Begin(b)
      BY <1>1, <3>1, <3>4, <3>5 DEF Begin, RunRecord
    <3>6. CASE Dump(b)
      BY <1>1, <3>2, <3>4, <3>6 DEF Dump, RunRecord
    <3>7. CASE CountTables(b)
      BY <1>1, <3>3, <3>4, <3>7 DEF CountTables, RunRecord
    <3> QED BY <2>2, <3>5, <3>6, <3>7
  <2>3. CASE Upload(b)
    <3>1. [run[b] EXCEPT !.pc = "forget", !.dump = {}, !.count = 0] \in RunRecord
      BY <1>1 DEF RunRecord, RunPcs, Working
    <3> QED BY <1>1, <2>3, <3>1 DEF Upload, RunRecord
  <2>4. CASE Forget(b)
    <3>1. [run[b] EXCEPT !.pc = "clean"] \in RunRecord
      BY <1>1 DEF RunRecord, RunPcs, Working
    <3>2. run[b].dump \subseteq minted
      BY DEF UsersAccounted
    <3> QED BY <1>1, <2>4, <3>1, <3>2 DEF Forget, RunTo, RunRecord
  <2>5. ASSUME NEW pc \in {"done", "failed", "killed"}, NEW tmp \in BOOLEAN, Exits(b, pc, tmp)
        PROVE  \E rec \in RunRecord : /\ run' = [run EXCEPT ![b] = rec]
                                      /\ rec.pc = pc /\ rec.dump = {}
    <3>1. [NoRun EXCEPT !.pc = pc, !.tmp = tmp /\ ~run[b].unit] \in RunRecord
      <4>1. pc \in RunPcs /\ (tmp /\ ~run[b].unit) \in BOOLEAN
        BY DEF RunPcs
      <4>2. ASSUME NEW x \in BOOLEAN PROVE [NoRun EXCEPT !.pc = pc, !.tmp = x] \in RunRecord
        BY <1>1, <4>1 DEF NoRun, RunRecord
      <4> QED BY <4>1, <4>2
    <3>2. [NoRun EXCEPT !.pc = pc, !.tmp = tmp /\ ~run[b].unit].pc = pc
      BY DEF NoRun
    <3>3. [NoRun EXCEPT !.pc = pc, !.tmp = tmp /\ ~run[b].unit].dump = {}
      BY DEF NoRun
    <3> QED BY <2>5, <3>1, <3>2, <3>3 DEF Exits
  <2>6. CASE Finish(b) \/ FailRun(b) \/ Kill(b)
    <3>1. run[b].tmp \in BOOLEAN
      BY <1>1 DEF RunRecord
    <3>2. CASE Finish(b)
      BY <2>5, <3>2 DEF Finish
    <3>3. CASE FailRun(b)
      BY <2>5, <3>1, <3>3 DEF FailRun, Active, Working
    <3>4. CASE Kill(b)
      BY <2>5, <3>1, <3>4 DEF Kill
    <3> QED BY <2>6, <3>2, <3>3, <3>4
  <2> QED BY <2>1, <2>2, <2>3, <2>4, <2>6 DEF RunStep
<1>3. run' \in [Runs -> RunRecord] /\ run'[b] = rec /\ \A c \in Runs \ {b} : run'[c] = run[c]
  BY <1>1, <1>2
<1>4. \/ repo' = repo
      \/ Upload(b) /\ repo' = repo \cup {Snapshot(b)}
  <2>1. Forget(b) => repo' = repo
    BY RetentionKeepsAll DEF Forget
  <2>2. Upload(b) => repo' = repo \cup {Snapshot(b)}
    BY DEF Upload
  <2> QED BY <1>2, <2>1, <2>2
<1>5. Snapshot(b) \in [label : Runs, day : 0..day, dump : SUBSET Users, count : Nat]
      /\ Snapshot(b).label = b /\ Snapshot(b).dump \subseteq minted
  BY <1>1 DEF Snapshot, RunRecord, UsersAccounted
<1>6. record' \in Outcome
  <2>1. run[b].started \in 0..day
    BY <1>1 DEF RunRecord
  <2>2. \/ record' = record
        \/ \E status \in {"pending", "running", "ok", "failed"}, started, completed \in 0..day :
             record' = [status |-> status, started |-> started, completed |-> completed, run |-> b]
    <3>1. ASSUME NEW status, NEW started, NEW completed, Writes(status, started, completed, b)
          PROVE  \/ record' = record
                 \/ record' = [status |-> status, started |-> started, completed |-> completed,
                               run |-> b]
      BY <3>1 DEF Writes
    <3>2. CASE StartUnit(b) \/ FailRun(b)
      BY <1>1, <2>1, <3>2 DEF StartUnit, FailRun
    <3>3. CASE Begin(b)
      BY <1>1, <2>1, <3>1, <3>3 DEF Begin
    <3>4. CASE Finish(b)
      BY <1>1, <2>1, <3>1, <3>4 DEF Finish
    <3> QED BY <3>2, <3>3, <3>4 DEF RunStep, StartByHand, Dump, CountTables, Upload, Forget, Kill
  <2> QED BY <1>1, <2>2 DEF Outcome
<1>7. begun' \subseteq Runs
  BY DEF RunStep, StartUnit, StartByHand, Begin, Dump, CountTables, Upload, Forget, Finish,
       FailRun, Kill, BackupTypeOK
<1>8. BackupTypeOK'
  BY <1>1, <1>3, <1>4, <1>5, <1>6, <1>7
     DEF RunFrame, BackupTypeOK, RunRecord, Outcome, store, target
<1>9. UsersAccounted'
  BY <1>1, <1>2, <1>3, <1>4, <1>5 DEF RunFrame, UsersAccounted, store, target
<1>10. SnapshotsOfRuns'
  <2>1. Upload(b) => run[b].pc = "upload"
    BY DEF Upload
  <2>2. Forget(b) => run[b].pc = "forget"
    BY DEF Forget
  <2>3. \A s \in repo' : s \in repo \/ (Upload(b) /\ s = Snapshot(b))
    BY <1>4
  <2>4. \A s \in repo : s.label \in Runs
    BY DEF BackupTypeOK
  <2>5. ASSUME NEW s \in repo', NEW t \in repo', s.label = t.label PROVE s = t
    BY <1>5, <2>1, <2>3, <2>5 DEF SnapshotsOfRuns
  <2>6. ASSUME NEW s \in repo'
        PROVE  run'[s.label].pc \notin {"idle", "start", "dump", "count", "upload"}
    BY <1>2, <1>3, <1>4, <1>5, <2>1, <2>3, <2>4 DEF SnapshotsOfRuns
  <2>7. ASSUME NEW c \in Runs, run'[c].pc \in Uploaded PROVE \E s \in repo' : s.label = c
    <3>1. CASE c # b
      BY <1>3, <1>4, <2>7, <3>1 DEF SnapshotsOfRuns
    <3>2. CASE c = b /\ Upload(b)
      BY <1>4, <1>5, <3>2 DEF Upload
    <3>3. CASE c = b /\ ~Upload(b)
      <4>1. run[b].pc \in Uploaded
        BY <1>2, <1>3, <2>2, <2>7, <3>3 DEF Uploaded
      <4> QED BY <1>4, <3>3, <4>1 DEF SnapshotsOfRuns
    <3> QED BY <3>1, <3>2, <3>3
  <2> QED BY <2>5, <2>6, <2>7 DEF SnapshotsOfRuns
<1>11. RecordHolds'
  <2>1. \A c : Backed(c) => Backed(c)'
    BY <1>2, <1>3 DEF Backed, Active, Working, Upload, Forget
  <2>2. UNCHANGED <<record, begun>> => RecordHolds'
    BY <2>1 DEF RecordHolds
  <2>3. CASE record'.status # "ok"
    BY <2>3 DEF RecordHolds
  <2>4. CASE Begin(b) /\ record' = record
    BY <2>2, <2>4 DEF Begin
  <2>5. CASE Finish(b) /\ record'.status = "ok"
    <3>1. run'[b].pc = "done"
      <4>1. [NoRun EXCEPT !.pc = "done", !.tmp = FALSE /\ ~run[b].unit].pc = "done"
        BY DEF NoRun
      <4> QED BY <1>1, <2>5, <4>1 DEF Finish, Exits
    <3>2. CASE record' = record
      <4>1. begun = {} /\ Backed(record.run)
        BY <2>5, <3>2 DEF RecordHolds
      <4>2. begun' = {}
        BY <2>5, <3>2, <4>1 DEF Finish
      <4> QED BY <2>1, <3>2, <4>1, <4>2 DEF RecordHolds
    <3>3. CASE record' # record
      <4>1. record'.run = b /\ begun' = {}
        BY <2>5, <3>3 DEF Finish, Writes
      <4> QED BY <3>1, <4>1 DEF RecordHolds, Backed
    <3> QED BY <3>2, <3>3
  <2>6. StartUnit(b) \/ FailRun(b) => record'.status # "ok"
    BY DEF StartUnit, FailRun
  <2>7. Begin(b) => record'.status # "ok" \/ record' = record
    BY DEF Begin, Writes
  <2> QED BY <2>2, <2>3, <2>4, <2>5, <2>6, <2>7
          DEF RunStep, StartByHand, Dump, CountTables, Upload, Forget, Kill
<1>12. RestoreHolds'
  <2>1. restore.pc # "idle" => \A s \in repo' : s.label = restore.from => s \in repo
    BY <1>4, <1>5 DEF RestoreHolds, SnapshotsOfRuns, Upload
  <2>2. restore.pc # "idle" =>
          {s \in repo' : s.label = restore.from} = {s \in repo : s.label = restore.from}
    BY <1>4, <2>1
  <2>3. UNCHANGED <<restore, scratch, expired>>
    BY <1>1 DEF RunFrame, store, target
  <2>4. restore.pc # "idle" => (CHOOSE s \in repo' : s.label = restore.from) = Archive
    <3>1. ASSUME restore.pc # "idle" PROVE
            (CHOOSE s : s \in repo' /\ s.label = restore.from) = (CHOOSE s : s \in repo /\ s.label = restore.from)
      <4>1. \A s : s \in repo' /\ s.label = restore.from <=> s \in repo /\ s.label = restore.from
        BY <2>2, <3>1
      <4> QED BY <4>1
    <3> QED BY <3>1 DEF Archive
  <2>5. restore.pc # "idle" => Archive' = Archive
    BY <2>3, <2>4 DEF Archive
  <2>6. restore.pc # "idle" => \E s \in repo' : s.label = restore.from
    BY <2>2 DEF RestoreHolds
  <2> QED BY <2>3, <2>5, <2>6 DEF RestoreHolds
<1> QED BY <1>8, <1>9, <1>10, <1>11, <1>12

\* The users come and go, the clock and the unit move on.
LEMMA StoreKeepsBackupInv ==
  ASSUME BackupInv, Tick \/ StoreStep \/ InstallUnit
  PROVE  BackupInv'
<1> USE DEF BackupInv
<1>1. UNCHANGED <<run, record, repo, begun, restore, scratch>>
  BY DEF Tick, StoreStep, InstallUnit, job, target
<1>2. /\ live' \subseteq minted' /\ minted' \subseteq Users /\ expired' \subseteq minted'
      /\ erased' \subseteq minted' \ live'
      /\ minted' \subseteq live' \cup expired' \cup erased'
      /\ minted \subseteq minted' /\ expired \subseteq expired'
  BY DEF Tick, StoreStep, InstallUnit, store, Nightly, Mint, Expire, Erase, Reclaimed,
       BackupTypeOK, UsersAccounted
<1>3. /\ day' \in Nat /\ faults' \in Nat /\ installed' \in 0..day'
      /\ 0..day \subseteq 0..day'
  BY DEF Tick, StoreStep, InstallUnit, BackupTypeOK
<1>4. BackupTypeOK'
  <2>1. /\ RunRecord \subseteq RunRecord' /\ Outcome \subseteq Outcome'
        /\ [label : Runs, day : 0..day, dump : SUBSET Users, count : Nat]
             \subseteq [label : Runs, day : 0..day', dump : SUBSET Users, count : Nat]
    BY <1>3 DEF RunRecord, Outcome
  <2>2. run \in [Runs -> RunRecord'] /\ record \in Outcome'
    BY <2>1 DEF BackupTypeOK, RunRecord, Outcome
  <2> QED BY <1>1, <1>2, <1>3, <2>1, <2>2 DEF BackupTypeOK, RunRecord, Outcome
<1>5. UsersAccounted' /\ SnapshotsOfRuns' /\ RecordHolds'
  BY <1>1, <1>2 DEF UsersAccounted, SnapshotsOfRuns, RecordHolds, Backed
<1>6. RestoreHolds'
  BY <1>1, <1>2 DEF RestoreHolds, Archive
<1> QED BY <1>4, <1>5, <1>6

LEMMA RestoreKeepsBackupInv ==
  ASSUME BackupInv, RestoreStep
  PROVE  BackupInv'
<1> USE DEF BackupInv
<1>1. UNCHANGED <<day, live, minted, expired, erased, run, record, repo, begun, installed>>
  BY DEF RestoreStep, StartRestore, LoadArchive, VerifyCounts, Reapply, EraseNamed, FailRestore,
       RestoreFrame, store, job
<1>2. faults' \in Nat
  BY DEF RestoreStep, StartRestore, LoadArchive, VerifyCounts, Reapply, EraseNamed, FailRestore,
       Fault, BackupTypeOK
<1>3. restore.pc # "idle" =>
        /\ Archive \in repo /\ Archive.label = restore.from
        /\ Archive.dump \subseteq minted /\ Archive.dump \subseteq Users
  BY ArchiveFound DEF UsersAccounted, BackupTypeOK
<1>4. restore.pc # "idle" /\ restore'.from = restore.from => Archive' = Archive
  BY <1>1 DEF Archive
<1> DEFINE RestoreRecord == [pc : RestorePcs, from : Runs \cup {None}, named : Users \cup {None},
                             skip : BOOLEAN]
<1>5. restore \in RestoreRecord /\ scratch \subseteq Users
  BY DEF BackupTypeOK
<1>6. ASSUME NEW pc \in RestorePcs, RestoreTo(pc)
      PROVE  /\ restore' \in RestoreRecord /\ restore'.pc = pc
             /\ restore'.from = restore.from /\ restore'.named = restore.named
  BY <1>5, <1>6 DEF RestoreTo
<1> HIDE DEF RestoreRecord
<1>7. ASSUME restore' \in RestoreRecord, scratch' \subseteq Users, scratch' \subseteq minted,
             RestoreHolds'
      PROVE  BackupInv'
  BY <1>1, <1>2, <1>7 DEF BackupTypeOK, UsersAccounted, SnapshotsOfRuns, RecordHolds, Backed,
       RestoreRecord
<1>8. CASE StartRestore
  <2>1. PICK s \in repo, u \in Users \cup {None}, skip \in BOOLEAN :
          restore' = [pc |-> "load", from |-> s.label, named |-> u, skip |-> skip]
    BY <1>8 DEF StartRestore
  <2>2. restore' \in RestoreRecord
    BY <2>1 DEF RestoreRecord, RestorePcs, BackupTypeOK
  <2>3. restore'.pc = "load" /\ restore'.from = s.label
    BY <2>1
  <2>4. RestoreHolds' /\ scratch' = scratch
    BY <1>1, <1>8, <2>3 DEF StartRestore, RestoreHolds
  <2> QED BY <1>5, <1>7, <2>2, <2>4 DEF UsersAccounted
<1>9. CASE LoadArchive
  <2>1. restore.pc = "load" /\ RestoreTo("verify") /\ scratch' = Archive.dump
    BY <1>9 DEF LoadArchive
  <2>2. "verify" \in RestorePcs
    BY DEF RestorePcs
  <2>3. RestoreHolds'
    BY <1>1, <1>4, <1>6, <2>1, <2>2 DEF RestoreHolds
  <2> QED BY <1>3, <1>6, <1>7, <2>1, <2>2, <2>3
<1>10. CASE VerifyCounts
  <2>1. PICK pc \in {"mismatch", "raw", "reclaim"} : RestoreTo(pc)
    BY <1>10 DEF VerifyCounts
  <2>2. pc \in RestorePcs /\ restore.pc = "verify" /\ scratch' = scratch
    BY <1>10 DEF VerifyCounts, RestorePcs
  <2>3. RestoreHolds'
    BY <1>1, <1>4, <1>6, <2>1, <2>2 DEF RestoreHolds
  <2> QED BY <1>5, <1>6, <1>7, <2>1, <2>2, <2>3 DEF UsersAccounted
<1>11. CASE Reapply
  <2>1. restore.pc = "reclaim" /\ RestoreTo("erase") /\ scratch' = scratch \ expired
    BY <1>11 DEF Reapply, Reclaimed
  <2>2. "erase" \in RestorePcs
    BY DEF RestorePcs
  <2>3. RestoreHolds'
    BY <1>1, <1>4, <1>6, <2>1, <2>2 DEF RestoreHolds
  <2>4. scratch' \subseteq Users /\ scratch' \subseteq minted
    BY <1>5, <2>1 DEF UsersAccounted
  <2> QED BY <1>6, <1>7, <2>1, <2>2, <2>3, <2>4
<1>12. CASE EraseNamed
  <2>1. restore.pc = "erase" /\ RestoreTo("done") /\ scratch' = scratch \ {restore.named}
    BY <1>12 DEF EraseNamed
  <2>2. "done" \in RestorePcs
    BY DEF RestorePcs
  <2>3. RestoreHolds'
    BY <1>1, <1>4, <1>6, <2>1, <2>2 DEF RestoreHolds
  <2>4. scratch' \subseteq Users /\ scratch' \subseteq minted
    BY <1>5, <2>1 DEF UsersAccounted
  <2> QED BY <1>6, <1>7, <2>1, <2>2, <2>3, <2>4
<1>13. CASE FailRestore
  <2>1. restore.pc # "idle" /\ RestoreTo("failed")
    BY <1>13 DEF FailRestore
  <2>2. scratch' \subseteq Archive.dump \/ scratch' = scratch
    BY <1>13 DEF FailRestore
  <2>3. "failed" \in RestorePcs
    BY DEF RestorePcs
  <2>4. RestoreHolds'
    BY <1>1, <1>6, <2>1, <2>3 DEF RestoreHolds
  <2>5. scratch' \subseteq Users /\ scratch' \subseteq minted
    BY <1>3, <1>5, <2>1, <2>2 DEF UsersAccounted
  <2> QED BY <1>6, <1>7, <2>1, <2>3, <2>4, <2>5
<1> QED BY <1>8, <1>9, <1>10, <1>11, <1>12, <1>13 DEF RestoreStep

LEMMA BackupInvNext == BackupInv /\ [BackupNext]_backupVars => BackupInv'
<1> SUFFICES ASSUME BackupInv, [BackupNext]_backupVars PROVE BackupInv'
  OBVIOUS
<1>1. CASE UNCHANGED backupVars
  BY <1>1 DEF backupVars, store, job, target, BackupInv, BackupTypeOK, UsersAccounted,
       SnapshotsOfRuns, RecordHolds, Backed, RestoreHolds, Archive
<1> QED BY <1>1, RunKeepsBackupInv, StoreKeepsBackupInv, RestoreKeepsBackupInv DEF BackupNext

\* Type correctness; with it, nobody is both live and erased.
THEOREM BackupTypeCorrect == BackupSpec => []BackupTypeOK
<1>1. BackupInv => BackupTypeOK
  BY DEF BackupInv
<1> QED BY <1>1, BackupInvInit, BackupInvNext, PTL DEF BackupSpec

\* A record the deploy preflight accepts is that of a run that completed and whose
\* archive is still there, with no unit run begun since that has not reported: neither
\* concurrent runs, nor retention, nor a record that could not be written hides one.
THEOREM ProofBacked == BackupSpec => []ProofIsBacked
<1>1. BackupInv => ProofIsBacked
  BY DEF BackupInv, RecordHolds, Backed, ProofIsBacked, Proven, SnapshotsOfRuns, Uploaded
<1> QED BY <1>1, BackupInvInit, BackupInvNext, PTL DEF BackupSpec

\* A restore that finished brings back nobody but erased users it was not told of, and
\* loses nobody of its archive who is live and has not expired, while users come, go and
\* expire during all of its commands.
THEOREM RestoreFaithful == BackupSpec => []RestoreIsFaithful
<1>1. BackupInv => RestoreIsFaithful
  BY DEF BackupInv, RestoreHolds, UsersAccounted, RestoreIsFaithful, Returned
<1> QED BY <1>1, BackupInvInit, BackupInvNext, PTL DEF BackupSpec

-----------------------------------------------------------------------------
(* Deploys and migrations. *)

\* Whatever a deploy does to the store is a night's reclamation.
LEMMA DeploysReclaim == [ReleaseNext]_<<backupVars, releaseVars>> => [BackupNext]_backupVars
<1> SUFFICES ASSUME [ReleaseNext]_<<backupVars, releaseVars>> PROVE [BackupNext]_backupVars
  OBVIOUS
<1>1. ASSUME NEW p \in Ups, UpStep(p) PROVE UNCHANGED backupVars
  BY <1>1 DEF UpStep, ReadLedger, ApplyFile, StopUp, ReadLast, RollBackFile, UpFrame
<1>2. ASSUME NEW d \in Deploys, ProveCron(d) PROVE [BackupNext]_backupVars
  <2>1. CASE Reclaimed(live) = live
    BY <1>2, <2>1 DEF ProveCron, backupVars, store
  <2>2. CASE Reclaimed(live) # live
    <3>1. Nightly
      BY <1>2, <2>2 DEF ProveCron, Nightly
    <3>2. UNCHANGED <<day, faults, job, installed, target>>
      BY <1>2 DEF ProveCron
    <3> QED BY <3>1, <3>2 DEF StoreStep, BackupNext
  <2> QED BY <2>1, <2>2
<1>3. ASSUME NEW d \in Deploys, DeployStep(d), ~ProveCron(d) PROVE UNCHANGED backupVars
  BY <1>3 DEF DeployStep, CheckMigrations, CheckBackup, ShipTree, FailUpload, Swap, FailSwap,
       Verify
<1> QED BY <1>1, <1>2, <1>3 DEF ReleaseNext

\* With deploys about, the store and its backups behave as they do without: the one
\* deploy step that touches them, the proof of the cron unit, is a night's reclamation.
\* What is proved of BackupSpec therefore holds of the host.
THEOREM DeploysKeepBackups == ReleaseSpec => BackupSpec
<1>1. ReleaseInit => BackupInit
  BY DEF ReleaseInit
<1> QED BY <1>1, DeploysReclaim, PTL DEF ReleaseSpec, BackupSpec

\* A backup that completed has its archive for good.
LEMMA BackedStays ==
  ASSUME BackupInv, [BackupNext]_backupVars, NEW b, Backed(b)
  PROVE  Backed(b)' /\ \E s \in repo' : s.label = b
<1>1. Backed(b)'
  <2>1. CASE \E c \in Runs : RunStep(c)
    <3>1. PICK c \in Runs : RunStep(c)
      BY <2>1
    <3>2. run[c].pc # "done"
      BY <3>1 DEF RunStep, StartUnit, StartByHand, Begin, Dump, CountTables, Upload, Forget,
           Finish, FailRun, Kill, Active, Working
    <3>3. \A x \in Runs \ {c} : run'[x] = run[x]
      BY <3>1 DEF RunStep, StartUnit, StartByHand, Begin, Dump, CountTables, Upload, Forget,
           Finish, FailRun, Kill, RunTo, Exits, BackupInv, BackupTypeOK
    <3> QED BY <3>2, <3>3 DEF Backed
  <2>2. CASE Tick \/ StoreStep \/ InstallUnit \/ RestoreStep
    <3>1. UNCHANGED run
      BY <2>2 DEF Tick, StoreStep, InstallUnit, RestoreStep, StartRestore, LoadArchive,
           VerifyCounts, Reapply, EraseNamed, FailRestore, RestoreFrame, job
    <3> QED BY <3>1 DEF Backed
  <2>3. CASE UNCHANGED backupVars
    BY <2>3 DEF backupVars, job, Backed
  <2> QED BY <2>1, <2>2, <2>3 DEF BackupNext
<1>2. BackupInv'
  BY BackupInvNext
<1> QED BY <1>1, <1>2 DEF BackupInv, SnapshotsOfRuns, Uploaded, Backed

\* The least of a set of migrations or of ordinals.
LEMMA LeastExists ==
  ASSUME NEW T \in SUBSET Nat, T # {}
  PROVE  \E m \in T : \A n \in T : m <= n
<1>1. IsWellFoundedOn(OpToRel(<, Nat), Nat)
  BY NatLessThanWellFounded
<1>2. PICK m \in T : \A n \in T : ~(<<n, m>> \in OpToRel(<, Nat))
  BY <1>1, WFMin, Zenon
<1>3. \A n \in T : <<n, m>> \in OpToRel(<, Nat) <=> n < m
  BY DEF OpToRel
<1>4. \A n \in T : ~(n < m)
  BY <1>2, <1>3
<1> QED BY <1>4

\* A ledger without a hole; rolling a file back is the operator's own doing.
NoHole(L) == \A f \in L : 1..f \subseteq L

\* What a run of up has still to apply has no hole under it either.
LedgerHolds ==
  /\ undone => waived
  /\ ~undone => /\ NoHole(ledger)
                /\ \A p \in Ups : up[p].pc = "up" => NoHole(ledger \cup up[p].todo)

\* An artifact's schema and its proof go with it, from the preflights to the tree.
SchemaHas(r) == ~waived => 1..r \subseteq ledger
Shipped == {"build", "swap", "cron", "verify", "done"}
DeployHolds(d) ==
  /\ deploy[d].pc \in {"idle", "backup"} => deploy[d].proof = None
  /\ deploy[d].pc \in Shipped => deploy[d].proof # None
  /\ deploy[d].proof # None => Backed(deploy[d].proof)
  /\ deploy[d].pc \in {"backup", "build"} /\ ~deploy[d].skip => SchemaHas(deploy[d].rev)

\* One incoming name: what lies there is some deploy's, not always the one's that swaps.
ArtifactHolds ==
  incoming # NoArtifact =>
    /\ SchemaHas(incoming)
    /\ \E d \in Deploys : deploy[d].rev = incoming /\ deploy[d].proof # None

ReleaseInv ==
  /\ BackupInv /\ ReleaseTypeOK /\ LedgerHolds /\ SchemaHas(tree)
  /\ \A d \in Deploys : DeployHolds(d)
  /\ ArtifactHolds

UpRecord == [pc : {"idle", "up", "down", "ended"}, todo : SUBSET Revisions]
DeployRecord == [pc : DeployPcs, rev : Revisions, skip : BOOLEAN, proof : Runs \cup {None}]

LEMMA ReleaseInvInit == ReleaseInit => ReleaseInv
<1> SUFFICES ASSUME ReleaseInit PROVE ReleaseInv
  OBVIOUS
<1> USE ReleaseAssumption DEF ReleaseInit
<1>1. 1 \in Revisions /\ 1..1 = {1}
  BY DEF Revisions
<1>2. NoDeploy \in DeployRecord
  BY <1>1 DEF NoDeploy, DeployRecord, DeployPcs
<1>3. ReleaseTypeOK
  BY <1>1, <1>2 DEF ReleaseTypeOK, DeployRecord, NoArtifact
<1>4. LedgerHolds /\ SchemaHas(tree)
  BY <1>1 DEF LedgerHolds, NoHole, SchemaHas
<1>5. ASSUME NEW d \in Deploys PROVE DeployHolds(d)
  BY DEF DeployHolds, NoDeploy, Shipped
<1>6. ArtifactHolds
  BY DEF ArtifactHolds
<1> QED BY <1>3, <1>4, <1>5, <1>6, BackupInvInit DEF ReleaseInv

\* Applying the next file of a run leaves no hole.
LEMMA NextFileFits ==
  ASSUME ReleaseInv, NEW p \in Ups, up[p].pc = "up", up[p].todo # {}
  PROVE  /\ NextFile(p) \in up[p].todo /\ NextFile(p) \in Revisions
         /\ ~undone => NoHole(ledger \cup {NextFile(p)})
<1>1. up[p].todo \subseteq Revisions
  BY DEF ReleaseInv, ReleaseTypeOK
<1>2. up[p].todo \in SUBSET Nat
  BY <1>1 DEF Revisions
<1>3. NextFile(p) \in up[p].todo /\ \A g \in up[p].todo : NextFile(p) <= g
  BY <1>2, LeastExists DEF NextFile
<1>4. ASSUME ~undone PROVE NoHole(ledger \cup {NextFile(p)})
  <2>1. NoHole(ledger) /\ NoHole(ledger \cup up[p].todo)
    BY <1>4 DEF ReleaseInv, LedgerHolds
  <2>2. 1..NextFile(p) \subseteq ledger \cup up[p].todo
    BY <1>3, <2>1 DEF NoHole
  <2>3. \A g \in 1..NextFile(p) : g \in up[p].todo => g = NextFile(p)
    BY <1>2, <1>3
  <2> QED BY <2>1, <2>2, <2>3 DEF NoHole
<1> QED BY <1>1, <1>3, <1>4

LEMMA UpKeepsReleaseInv ==
  ASSUME ReleaseInv, NEW p \in Ups, UpStep(p)
  PROVE  ReleaseInv'
<1> USE DEF ReleaseInv
<1>1. UNCHANGED <<backupVars, deploy, tree, incoming>>
  BY DEF UpStep, ReadLedger, ApplyFile, StopUp, ReadLast, RollBackFile, UpFrame
<1>2. up \in [Ups -> UpRecord] /\ up[p] \in UpRecord /\ ledger \subseteq Revisions
  BY DEF ReleaseTypeOK, UpRecord
<1>3. BackupInv' /\ UNCHANGED run
  BY <1>1, BackupInvNext DEF backupVars, job
<1>4. PICK rec \in UpRecord :
        /\ up' = [up EXCEPT ![p] = rec]
        /\ \/ RollBackFile(p) /\ rec.pc = "ended"
           \/ rec.pc # "up" /\ UNCHANGED <<ledger, waived, undone>>
           \/ /\ rec.pc = "up" /\ UNCHANGED <<ledger, waived, undone>>
              /\ \E r \in Revisions : rec.todo = (1..r) \ ledger
           \/ ApplyFile(p) /\ rec.pc = "up" /\ rec.todo = up[p].todo \ {NextFile(p)}
  <2>1. CASE ReadLedger(p)
    <3>1. PICK r \in Revisions : up' = [up EXCEPT ![p] = [pc |-> "up", todo |-> (1..r) \ ledger]]
      BY <2>1 DEF ReadLedger
    <3>2. (1..r) \ ledger \subseteq Revisions
      BY ReleaseAssumption DEF Revisions
    <3>3. [pc |-> "up", todo |-> (1..r) \ ledger] \in UpRecord
      BY <3>2 DEF UpRecord
    <3> QED BY <2>1, <3>1, <3>3 DEF ReadLedger
  <2>2. CASE ApplyFile(p)
    <3>1. [up[p] EXCEPT !.todo = @ \ {NextFile(p)}] \in UpRecord
      BY <1>2 DEF UpRecord
    <3>2. up[p].pc = "up"
      BY <2>2 DEF ApplyFile
    <3> QED BY <1>2, <2>2, <3>1, <3>2 DEF ApplyFile, UpRecord
  <2>3. CASE StopUp(p)
    <3>1. [pc |-> "ended", todo |-> {}] \in UpRecord
      BY DEF UpRecord
    <3> QED BY <2>3, <3>1 DEF StopUp
  <2>4. CASE ReadLast(p)
    <3>1. [pc |-> "down", todo |-> {f \in ledger : \A g \in ledger : g <= f}] \in UpRecord
      BY <1>2 DEF UpRecord
    <3> QED BY <2>4, <3>1 DEF ReadLast
  <2>5. CASE RollBackFile(p)
    <3>1. [pc |-> "ended", todo |-> {}] \in UpRecord
      BY DEF UpRecord
    <3> QED BY <2>5, <3>1 DEF RollBackFile
  <2> QED BY <2>1, <2>2, <2>3, <2>4, <2>5 DEF UpStep
<1>5. up' \in [Ups -> UpRecord] /\ up'[p] = rec /\ \A q \in Ups \ {p} : up'[q] = up[q]
  BY <1>2, <1>4
<1>6. CASE RollBackFile(p)
  <2>1. ledger' \subseteq Revisions /\ waived' = TRUE /\ undone' = TRUE
    BY <1>2, <1>6 DEF RollBackFile
  <2>2. ReleaseTypeOK'
    BY <1>1, <1>5, <2>1 DEF ReleaseTypeOK, UpRecord
  <2> QED BY <1>1, <1>3, <2>1, <2>2
          DEF LedgerHolds, SchemaHas, DeployHolds, ArtifactHolds, Backed
<1>7. CASE UNCHANGED <<waived, undone>> /\ ledger \subseteq ledger' /\ ~RollBackFile(p)
  <2>1. ~undone =>
          NoHole(ledger') /\ (rec.pc = "up" => NoHole(ledger' \cup rec.todo))
    <3> SUFFICES ASSUME ~undone
                 PROVE  NoHole(ledger') /\ (rec.pc = "up" => NoHole(ledger' \cup rec.todo))
      OBVIOUS
    <3>1. NoHole(ledger)
      BY DEF LedgerHolds
    <3>2. CASE ledger' = ledger /\ rec.pc # "up"
      BY <3>1, <3>2
    <3>3. ASSUME ledger' = ledger, NEW r \in Revisions, rec.todo = (1..r) \ ledger
          PROVE  NoHole(ledger') /\ NoHole(ledger' \cup rec.todo)
      <4>1. ledger' \cup rec.todo = ledger \cup 1..r
        BY <3>3
      <4>2. NoHole(1..r)
        BY DEF NoHole, Revisions
      <4> QED BY <3>1, <3>3, <4>1, <4>2 DEF NoHole
    <3>4. CASE ApplyFile(p)
      <4>1. ledger' = ledger \cup {NextFile(p)} /\ up[p].pc = "up" /\ up[p].todo # {}
        BY <3>4 DEF ApplyFile
      <4>2. NextFile(p) \in up[p].todo /\ NoHole(ledger')
        BY <4>1, NextFileFits
      <4>3. CASE rec.todo = up[p].todo \ {NextFile(p)}
        <5>1. ledger' \cup rec.todo = ledger \cup up[p].todo
          BY <4>1, <4>2, <4>3
        <5> QED BY <4>1, <4>2, <5>1 DEF LedgerHolds
      <4>4. CASE rec.todo # up[p].todo \ {NextFile(p)}
        <5>1. up'[p].todo = up[p].todo \ {NextFile(p)}
          BY <1>2, <3>4 DEF ApplyFile, UpRecord
        <5> QED BY <1>5, <4>4, <5>1
      <4> QED BY <4>3, <4>4
    <3> QED BY <1>4, <1>7, <3>2, <3>3, <3>4
  <2>2. ASSUME ~undone, NEW q \in Ups, q # p, up[q].pc = "up" PROVE NoHole(ledger' \cup up[q].todo)
    <3>1. NoHole(ledger') /\ NoHole(ledger \cup up[q].todo)
      BY <2>1, <2>2 DEF LedgerHolds
    <3>2. ledger' \cup up[q].todo = ledger' \cup (ledger \cup up[q].todo)
      BY <1>7
    <3> QED BY <3>1, <3>2 DEF NoHole
  <2>3. LedgerHolds'
    BY <1>5, <1>7, <2>1, <2>2 DEF LedgerHolds
  <2>4. ledger' \subseteq Revisions
    BY <1>2, <1>4, <1>7, NextFileFits DEF ApplyFile
  <2>5. ReleaseTypeOK'
    BY <1>1, <1>5, <1>7, <2>4 DEF ReleaseTypeOK, UpRecord
  <2>6. \A r : SchemaHas(r) => SchemaHas(r)'
    BY <1>7 DEF SchemaHas
  <2>7. SchemaHas(tree)'
    BY <1>1, <1>7 DEF SchemaHas
  <2>8. ASSUME NEW d \in Deploys PROVE DeployHolds(d)'
    BY <1>1, <1>3, <1>7 DEF DeployHolds, SchemaHas, Backed
  <2>9. ArtifactHolds'
    BY <1>1, <1>7 DEF ArtifactHolds, SchemaHas
  <2> QED BY <1>3, <2>3, <2>5, <2>7, <2>8, <2>9
<1> QED BY <1>4, <1>6, <1>7 DEF ApplyFile

\* The store and its backups move, the deploys and the ledger do not.
LEMMA BackupsKeepReleaseInv ==
  ASSUME ReleaseInv, [BackupNext]_backupVars, UNCHANGED releaseVars
  PROVE  ReleaseInv'
<1> USE DEF ReleaseInv
<1>1. BackupInv'
  BY BackupInvNext
<1>2. \A b : Backed(b) => Backed(b)'
  BY BackedStays
<1> QED BY <1>1, <1>2
        DEF releaseVars, ReleaseTypeOK, LedgerHolds, SchemaHas, DeployHolds, ArtifactHolds

\* A step of a deploy keeps its own clauses and does not disturb those of the others.
LEMMA OneDeployMoves ==
  ASSUME ReleaseInv, [BackupNext]_backupVars, NEW d \in Deploys, DeployFrame,
         NEW rec \in DeployRecord, deploy' = [deploy EXCEPT ![d] = rec],
         (rec.rev = deploy[d].rev /\ rec.proof = deploy[d].proof) \/ deploy[d].proof = None,
         waived => waived', waived' \in BOOLEAN, DeployHolds(d)',
         tree' \in Revisions, SchemaHas(tree)', incoming' \in Revisions \cup {NoArtifact},
         incoming' # NoArtifact =>
           /\ SchemaHas(incoming)'
           /\ incoming' = incoming \/ (rec.rev = incoming' /\ rec.proof # None)
  PROVE  ReleaseInv'
<1> USE DEF ReleaseInv
<1>1. deploy \in [Deploys -> DeployRecord] /\ UNCHANGED <<ledger, up, undone>>
  BY DEF ReleaseTypeOK, DeployRecord, DeployFrame
<1>2. /\ deploy' \in [Deploys -> DeployRecord] /\ deploy'[d] = rec
      /\ \A e \in Deploys \ {d} : deploy'[e] = deploy[e]
  BY <1>1
<1>3. BackupInv' /\ \A b : Backed(b) => Backed(b)'
  BY BackupInvNext, BackedStays
<1>4. ReleaseTypeOK'
  BY <1>1, <1>2 DEF ReleaseTypeOK, DeployRecord
<1>5. LedgerHolds'
  BY <1>1 DEF LedgerHolds
<1>6. ASSUME NEW e \in Deploys, e # d PROVE DeployHolds(e)'
  <2>1. \A r : SchemaHas(r) => SchemaHas(r)'
    BY <1>1 DEF SchemaHas
  <2>2. DeployHolds(e) /\ deploy'[e] = deploy[e]
    BY <1>2, <1>6
  <2> QED BY <1>1, <1>3, <2>2 DEF DeployHolds, SchemaHas
<1>7. ArtifactHolds'
  <2> SUFFICES ASSUME incoming' # NoArtifact
               PROVE  \E e \in Deploys : deploy'[e].rev = incoming' /\ deploy'[e].proof # None
    BY DEF ArtifactHolds
  <2>1. CASE incoming' = incoming
    <3>1. PICK e \in Deploys : deploy[e].rev = incoming /\ deploy[e].proof # None
      BY <2>1 DEF ArtifactHolds
    <3> QED BY <1>2, <2>1, <3>1
  <2>2. CASE rec.rev = incoming' /\ rec.proof # None
    BY <1>2, <2>2
  <2> QED BY <2>1, <2>2
<1> QED BY <1>3, <1>4, <1>5, <1>6, <1>7

LEMMA DeployKeepsReleaseInv ==
  ASSUME ReleaseInv, NEW d \in Deploys, DeployStep(d), [BackupNext]_backupVars
  PROVE  ReleaseInv'
<1> USE DEF ReleaseInv
<1>1. /\ DeployFrame /\ deploy \in [Deploys -> DeployRecord] /\ deploy[d] \in DeployRecord
      /\ DeployHolds(d) /\ UNCHANGED ledger
      /\ tree \in Revisions /\ incoming \in Revisions \cup {NoArtifact} /\ waived \in BOOLEAN
  BY DEF DeployStep, CheckMigrations, CheckBackup, ShipTree, FailUpload, Swap, FailSwap,
       ProveCron, Verify, ReleaseTypeOK, DeployRecord, DeployFrame
<1>2. \A b : Backed(b) => Backed(b)'
  BY BackedStays
<1>3. NoArtifact \notin Revisions
  BY DEF NoArtifact, Revisions
<1>4. ASSUME NEW pc \in DeployPcs, DeployTo(d, pc)
      PROVE  /\ [deploy[d] EXCEPT !.pc = pc] \in DeployRecord
             /\ deploy' = [deploy EXCEPT ![d] = [deploy[d] EXCEPT !.pc = pc]]
             /\ deploy'[d].pc = pc /\ deploy'[d].rev = deploy[d].rev
             /\ deploy'[d].proof = deploy[d].proof /\ deploy'[d].skip = deploy[d].skip
  BY <1>1, <1>4 DEF DeployTo, DeployRecord
<1>5. CASE CheckMigrations(d)
  <2>1. PICK r \in Revisions, skip \in BOOLEAN :
          /\ skip \/ Pending(r) = {}
          /\ deploy' = [deploy EXCEPT ![d] = [NoDeploy EXCEPT !.pc = "backup", !.rev = r, !.skip = skip]]
    BY <1>5 DEF CheckMigrations
  <2>2. PICK rec : rec = [NoDeploy EXCEPT !.pc = "backup", !.rev = r, !.skip = skip]
    OBVIOUS
  <2>3. /\ rec \in DeployRecord /\ rec.pc = "backup" /\ rec.rev = r /\ rec.skip = skip
        /\ rec.proof = None
    BY <2>2 DEF NoDeploy, DeployRecord, DeployPcs
  <2>4. deploy'[d] = rec /\ deploy[d].proof = None /\ UNCHANGED <<tree, incoming, waived>>
    BY <1>1, <1>5, <2>1, <2>2 DEF CheckMigrations, DeployHolds
  <2>5. ~skip => 1..r \subseteq ledger
    BY <2>1 DEF Pending
  <2>6. DeployHolds(d)'
    BY <1>1, <2>3, <2>4, <2>5 DEF DeployHolds, SchemaHas, Shipped
  <2>7. deploy' = [deploy EXCEPT ![d] = rec]
    BY <2>1, <2>2
  <2> QED BY <1>1, <2>3, <2>4, <2>6, <2>7, OneDeployMoves DEF SchemaHas, ArtifactHolds
<1>6. CASE CheckBackup(d) /\ Proven
  <2>1. PICK rec : rec = [deploy[d] EXCEPT !.pc = "build", !.proof = record.run]
    OBVIOUS
  <2>2. Backed(record.run) /\ record.run \in Runs /\ record.run # None
    BY <1>6, BackupAssumption DEF BackupInv, Proven, RecordHolds, Backed
  <2>3. /\ rec \in DeployRecord /\ rec.pc = "build" /\ rec.rev = deploy[d].rev
        /\ rec.skip = deploy[d].skip /\ rec.proof = record.run
    BY <1>1, <2>1, <2>2 DEF DeployRecord, DeployPcs
  <2>4. deploy' = [deploy EXCEPT ![d] = rec] /\ deploy[d].pc = "backup"
    BY <1>1, <1>6, <2>1 DEF CheckBackup, DeployRecord
  <2>5. deploy'[d] = rec /\ deploy[d].proof = None /\ UNCHANGED <<tree, incoming, waived>>
    BY <1>1, <1>6, <2>4 DEF CheckBackup, DeployHolds
  <2>6. DeployHolds(d)'
    BY <1>1, <1>2, <2>2, <2>3, <2>4, <2>5 DEF DeployHolds, SchemaHas, Shipped
  <2> QED BY <1>1, <2>3, <2>4, <2>5, <2>6, OneDeployMoves DEF SchemaHas, ArtifactHolds
<1>7. CASE (CheckBackup(d) /\ ~Proven) \/ FailSwap(d) \/ ProveCron(d) \/ Verify(d)
  <2>1. PICK pc \in {"red", "verify", "done"} : DeployTo(d, pc)
    BY <1>7 DEF CheckBackup, FailSwap, ProveCron, Verify
  <2>2. pc # "red" => deploy[d].pc \in Shipped
    <3>1. DeployTo(d, "red") => deploy'[d].pc = "red"
      BY <1>4 DEF DeployPcs
    <3> QED BY <1>4, <1>7, <2>1, <3>1 DEF CheckBackup, FailSwap, ProveCron, Verify, DeployPcs, Shipped
  <2>3. pc \in DeployPcs /\ UNCHANGED <<tree, incoming, waived>>
    BY <1>7 DEF DeployPcs, CheckBackup, FailSwap, ProveCron, Verify
  <2>4. DeployHolds(d)'
    BY <1>1, <1>2, <1>4, <2>1, <2>2, <2>3 DEF DeployHolds, SchemaHas, Shipped
  <2>5. PICK rec : rec = [deploy[d] EXCEPT !.pc = pc]
    OBVIOUS
  <2>6. rec \in DeployRecord /\ deploy' = [deploy EXCEPT ![d] = rec]
        /\ rec.rev = deploy[d].rev /\ rec.proof = deploy[d].proof
    BY <1>1, <1>4, <2>1, <2>3, <2>5
  <2> QED BY <1>1, <2>3, <2>4, <2>6, OneDeployMoves DEF SchemaHas, ArtifactHolds
<1>8. CASE ShipTree(d)
  <2>1. /\ deploy[d].pc = "build" /\ incoming' = deploy[d].rev /\ DeployTo(d, "swap")
        /\ waived' = (waived \/ deploy[d].skip) /\ tree' = tree
    BY <1>8 DEF ShipTree
  <2>2. PICK rec : rec = [deploy[d] EXCEPT !.pc = "swap"]
    OBVIOUS
  <2>3. rec \in DeployRecord /\ deploy' = [deploy EXCEPT ![d] = rec]
        /\ rec.rev = deploy[d].rev /\ rec.proof = deploy[d].proof /\ rec.pc = "swap"
    BY <1>1, <1>4, <2>1, <2>2 DEF DeployPcs
  <2>4. deploy'[d] = rec /\ deploy[d].proof # None /\ deploy[d].rev \in Revisions
    BY <1>1, <2>1, <2>3 DEF DeployHolds, Shipped, DeployRecord
  <2>5. waived' \in BOOLEAN /\ (waived => waived') /\ (~waived' => ~waived /\ ~deploy[d].skip)
    BY <2>1
  <2>6. DeployHolds(d)'
    BY <1>1, <1>2, <2>3, <2>4 DEF DeployHolds, Shipped
  <2>7. SchemaHas(incoming)' /\ SchemaHas(tree)'
    BY <1>1, <2>1, <2>5 DEF DeployHolds, SchemaHas
  <2> QED BY <1>1, <2>1, <2>3, <2>4, <2>5, <2>6, <2>7, OneDeployMoves DEF SchemaHas
<1>9. CASE FailUpload(d)
  <2>1. DeployTo(d, "red") /\ incoming' \in {incoming, NoArtifact} /\ UNCHANGED <<tree, waived>>
    BY <1>9 DEF FailUpload
  <2>2. PICK rec : rec = [deploy[d] EXCEPT !.pc = "red"]
    OBVIOUS
  <2>3. rec \in DeployRecord /\ deploy' = [deploy EXCEPT ![d] = rec]
        /\ rec.rev = deploy[d].rev /\ rec.proof = deploy[d].proof /\ rec.pc = "red"
    BY <1>1, <1>4, <2>1, <2>2 DEF DeployPcs
  <2>4. deploy'[d] = rec
    BY <1>1, <2>3
  <2>5. DeployHolds(d)'
    BY <1>1, <1>2, <2>3, <2>4 DEF DeployHolds, Shipped
  <2>6. incoming' # NoArtifact => incoming' = incoming /\ SchemaHas(incoming)'
    BY <1>1, <2>1 DEF ArtifactHolds, SchemaHas
  <2> QED BY <1>1, <2>1, <2>3, <2>5, <2>6, OneDeployMoves DEF SchemaHas
<1>10. CASE Swap(d)
  <2>1. /\ incoming # NoArtifact /\ tree' = incoming /\ DeployTo(d, "cron")
        /\ deploy[d].pc = "swap" /\ UNCHANGED <<incoming, waived>>
    BY <1>10 DEF Swap
  <2>2. PICK rec : rec = [deploy[d] EXCEPT !.pc = "cron"]
    OBVIOUS
  <2>3. rec \in DeployRecord /\ deploy' = [deploy EXCEPT ![d] = rec]
        /\ rec.rev = deploy[d].rev /\ rec.proof = deploy[d].proof /\ rec.pc = "cron"
    BY <1>1, <1>4, <2>1, <2>2 DEF DeployPcs
  <2>4. deploy'[d] = rec
    BY <1>1, <2>3
  <2>5. DeployHolds(d)'
    BY <1>1, <1>2, <2>1, <2>3, <2>4 DEF DeployHolds, Shipped
  <2>6. tree' \in Revisions /\ SchemaHas(tree)' /\ SchemaHas(incoming)'
    BY <1>1, <2>1 DEF ArtifactHolds, SchemaHas
  <2> QED BY <1>1, <2>1, <2>3, <2>5, <2>6, OneDeployMoves
<1> QED BY <1>5, <1>6, <1>7, <1>8, <1>9, <1>10 DEF DeployStep

LEMMA ReleaseInvNext == ReleaseInv /\ [ReleaseNext]_<<backupVars, releaseVars>> => ReleaseInv'
<1> SUFFICES ASSUME ReleaseInv, [ReleaseNext]_<<backupVars, releaseVars>> PROVE ReleaseInv'
  OBVIOUS
<1>1. [BackupNext]_backupVars
  BY DeploysReclaim
<1> QED BY <1>1, UpKeepsReleaseInv, DeployKeepsReleaseInv, BackupsKeepReleaseInv DEF ReleaseNext

\* Type correctness of deploys, runs of up and the ledger.
THEOREM ReleaseTypeCorrect == ReleaseSpec => []ReleaseTypeOK
<1>1. ReleaseInv => ReleaseTypeOK
  BY DEF ReleaseInv
<1> QED BY <1>1, ReleaseInvInit, ReleaseInvNext, PTL DEF ReleaseSpec

\* Concurrent and failing runs of up leave no hole in the ledger, and the served revision
\* has its schema unless an operator waived the check or rolled a file back, also when
\* deploys overlap and one of them swaps in the other's artifact.
THEOREM TreeMigrated == ReleaseSpec => []TreeIsMigrated
<1>1. ReleaseInv => TreeIsMigrated
  BY DEF ReleaseInv, TreeIsMigrated, LedgerHolds, NoHole, SchemaHas
<1> QED BY <1>1, ReleaseInvInit, ReleaseInvNext, PTL DEF ReleaseSpec

\* The tree changes only to a revision that was shipped on the strength of a backup that
\* completed and whose archive is in the repository.
THEOREM TreesProven == ReleaseSpec => OnlyProvenTrees
<1> DEFINE Step == tree' # tree =>
      \E d \in Deploys : /\ deploy[d].rev = tree'
                         /\ \E s \in repo : s.label = deploy[d].proof
                         /\ run[deploy[d].proof].pc = "done"
<1>1. ReleaseInv /\ [ReleaseNext]_<<backupVars, releaseVars>> => [Step]_<<backupVars, releaseVars>>
  <2> SUFFICES ASSUME ReleaseInv, [ReleaseNext]_<<backupVars, releaseVars>>, tree' # tree
               PROVE  \E d \in Deploys : /\ deploy[d].rev = tree'
                                         /\ \E s \in repo : s.label = deploy[d].proof
                                         /\ run[deploy[d].proof].pc = "done"
    OBVIOUS
  <2>1. PICK e \in Deploys : Swap(e)
    BY DEF ReleaseNext, releaseVars, UpStep, ReadLedger, ApplyFile, StopUp, ReadLast,
         RollBackFile, UpFrame, DeployStep, CheckMigrations, CheckBackup, ShipTree, FailUpload,
         FailSwap, ProveCron, Verify
  <2>2. incoming # NoArtifact /\ tree' = incoming
    BY <2>1 DEF Swap
  <2>3. PICK d \in Deploys : deploy[d].rev = incoming /\ deploy[d].proof # None
    BY <2>2 DEF ReleaseInv, ArtifactHolds
  <2>4. Backed(deploy[d].proof)
    BY <2>3 DEF ReleaseInv, DeployHolds
  <2> QED BY <2>2, <2>3, <2>4 DEF ReleaseInv, BackupInv, SnapshotsOfRuns, Uploaded, Backed
<1> QED BY <1>1, ReleaseInvInit, ReleaseInvNext, PTL DEF ReleaseSpec, OnlyProvenTrees

-----------------------------------------------------------------------------
(* A pass over the book. *)

\* The least and the highest of a set of ordinals are among them.
LEMMA MinIsLeast ==
  ASSUME NEW T \in SUBSET Nat, T # {}
  PROVE  Min(T) \in T /\ \A n \in T : Min(T) <= n
BY LeastExists DEF Min

LEMMA MaxIsHighest ==
  ASSUME NEW T \in SUBSET Nat, T # {}, NEW b \in Nat, \A n \in T : n <= b
  PROVE  Max(T) \in T /\ \A n \in T : n <= Max(T)
<1> DEFINE U == {u \in Nat : \A n \in T : n <= u}
<1>0. \A n \in T : n \in Nat
  OBVIOUS
<1>1. PICK m \in U : \A u \in U : m <= u
  <2>1. b \in U
    OBVIOUS
  <2> HIDE DEF U
  <2>2. U \in SUBSET Nat
    BY DEF U
  <2> QED BY <2>1, <2>2, LeastExists
<1>2. m \in Nat /\ \A n \in T : n <= m
  OBVIOUS
<1>3. m \in T
  <2> SUFFICES ASSUME m \notin T PROVE FALSE
    OBVIOUS
  <2>1. m # 0
    <3>1. PICK n \in T : TRUE
      OBVIOUS
    <3>2. n \in Nat /\ n <= m /\ n # m
      BY <1>0, <1>2, <3>1
    <3> QED BY <1>2, <3>2
  <2>2. m - 1 \in Nat /\ ~(m <= m - 1)
    BY <1>2, <2>1
  <2>3. \A n \in T : n <= m - 1
    <3> TAKE n \in T
    <3>1. n \in Nat /\ n <= m /\ n # m
      BY <1>0, <1>2
    <3> QED BY <1>2, <3>1
  <2>4. m - 1 \in U
    BY <2>2, <2>3
  <2> HIDE DEF U
  <2> QED BY <1>1, <2>2, <2>4
<1>4. \A y \in T : m >= y
  BY <1>0, <1>2
<1>5. Max(T) \in T /\ \A y \in T : Max(T) >= y
  BY <1>3, <1>4 DEF Max
<1> QED BY <1>0, <1>5

\* A book has a slot for every record of an edition of it.
LEMMA TextsCounted ==
  /\ Cardinality(Texts) \in Nat
  /\ Cardinality(Texts) * MaxPilots \in Nat
  /\ Cardinality(Texts) <= Cardinality(Texts) * MaxPilots
<1>1. Cardinality(Texts) \in Nat /\ MaxPilots \in Nat /\ MaxPilots >= 1
  BY FS_CardinalityType, IngestAssumption
<1>2. \A c \in Nat : c <= c * MaxPilots /\ c * MaxPilots \in Nat
  BY <1>1
<1> QED BY <1>1, <1>2

LEMMA EditionFits ==
  ASSUME NEW e \in Editions
  PROVE  /\ e \in Seq(Texts) /\ Len(e) \in Nat \ {0} /\ DOMAIN e = 1..Len(e)
         /\ \A k \in DOMAIN e : e[k] \in Texts /\ k \in Nat /\ k - 1 \in Slots
<1>1. e \in Seq(Texts) /\ e # <<>> /\ IsInjective(e)
  BY IngestAssumption
<1>2. Len(e) \in Nat \ {0} /\ DOMAIN e = 1..Len(e) /\ e \in [1..Len(e) -> Texts]
  BY <1>1
<1>3. e \in Injection(1..Len(e), Texts)
  BY <1>1, <1>2 DEF Injection
<1>4. Cardinality(1..Len(e)) <= Cardinality(Texts)
  BY <1>3, FS_Injection, IngestAssumption
<1>5. Cardinality(1..Len(e)) = Len(e)
  BY <1>2, FS_Interval
<1>6. \A k \in 1..Len(e) : k - 1 \in 0..(Cardinality(Texts) * MaxPilots)
  BY <1>2, <1>4, <1>5, TextsCounted
<1> QED BY <1>1, <1>2, <1>6 DEF Slots

Held(k) == base[k - 1] # NoRow /\ base[k - 1].text = pass.edition[k]
Paired(k) == pass.edition[k] \in Translated => pass.edition[k] \in pairs

\* How far a pass is with its book.
PassHolds ==
  /\ pass \in [pc : {"off", "parent", "children", "pairs", "done"},
               edition : Editions \cup {<<>>}, done : Nat, summarized : BOOLEAN]
  /\ pass.pc # "off" => pass.edition \in Editions
  /\ pass.pc = "children" => \A k \in DOMAIN pass.edition : k <= pass.done => Held(k)
  /\ pass.pc \in {"pairs", "done"} => \A k \in DOMAIN pass.edition : Held(k)
  /\ pass.pc = "pairs" => \A k \in DOMAIN pass.edition : k <= pass.done => Paired(k)
  /\ pass.pc = "done" => /\ \A k \in DOMAIN pass.edition : Paired(k)
                         /\ pass.summarized => parent = "summarized"

\* A row's embeddings are of its text, whatever the edition that wrote it.
Embedded(row) ==
  row.primary = row.text /\ row.fallback = IF row.text \in Translated THEN row.text ELSE NoRow

BookInv ==
  /\ base \in [Slots -> BaseRow \cup {NoRow}]
  /\ \A i \in Slots : base[i] # NoRow => Embedded(base[i])
  /\ parent \in {"none", "bare", "summarized"} /\ pairs \subseteq Texts
  /\ PassHolds

LEMMA UpsertedRow ==
  ASSUME NEW old \in BaseRow \cup {NoRow}, NEW t \in Texts
  PROVE  /\ Upserted(old, t) \in BaseRow /\ Upserted(old, t).text = t
         /\ Upserted(old, t) # NoRow /\ Embedded(Upserted(old, t))
         /\ Upserted(old, t).raw = IF old = NoRow THEN t ELSE old.raw
<1>1. /\ Entry(t) \in BaseRow /\ Entry(t).text = t /\ Entry(t).primary = t /\ Entry(t).raw = t
      /\ Entry(t).fallback = IF t \in Translated THEN t ELSE NoRow
  BY DEF Entry, BaseRow
<1>2. \A row \in BaseRow : row # NoRow
  BY IngestAssumption
<1>3. CASE old = NoRow
  BY <1>1, <1>2, <1>3 DEF Upserted, Embedded
<1>4. CASE old # NoRow
  <2>1. old \in BaseRow /\ old.raw \in Texts
    BY <1>4 DEF BaseRow
  <2>2. \A row \in BaseRow, v \in Texts :
          LET n == [row EXCEPT !.raw = v]
          IN  /\ n \in BaseRow /\ n.raw = v /\ n.text = row.text
              /\ n.primary = row.primary /\ n.fallback = row.fallback
    BY DEF BaseRow
  <2> DEFINE n == [Entry(t) EXCEPT !.raw = old.raw]
  <2>3. /\ n \in BaseRow /\ n.raw = old.raw /\ n.text = t /\ n.primary = t
        /\ n.fallback = IF t \in Translated THEN t ELSE NoRow
    BY <1>1, <2>1, <2>2
  <2>4. Upserted(old, t) = n
    BY <1>4 DEF Upserted
  <2> HIDE DEF n
  <2> QED BY <1>2, <1>4, <2>3, <2>4 DEF Embedded
<1> QED BY <1>3, <1>4

LEMMA BookInvInit == IngestInit => BookInv
<1> SUFFICES ASSUME IngestInit PROVE BookInv
  OBVIOUS
<1>1. \A i \in Slots : base[i] = NoRow
  BY DEF IngestInit
<1>2. base \in [Slots -> BaseRow \cup {NoRow}]
  BY DEF IngestInit
<1>3. PassHolds
  BY DEF IngestInit, Resting, PassHolds
<1> QED BY <1>1, <1>2, <1>3 DEF IngestInit, BookInv


LEMMA PassKeeps == BookInv /\ PassStep => BookInv'
<1> SUFFICES ASSUME BookInv, PassStep PROVE BookInv'
  OBVIOUS
<1> USE DEF BookInv
<1>0. /\ pass.done \in Nat /\ pass.summarized \in BOOLEAN /\ pass.edition \in Editions \cup {<<>>}
      /\ BatchSize \in Nat \ {0}
  BY IngestAssumption DEF PassHolds
<1>1. ASSUME NEW e \in Editions, NEW summarized \in BOOLEAN, StartPass(e, summarized)
      PROVE  BookInv'
  <2>1. /\ pass' = [pc |-> "parent", edition |-> e, done |-> 0, summarized |-> summarized]
        /\ UNCHANGED <<base, parent, pairs>>
    BY <1>1 DEF StartPass, Resting
  <2>2. PassHolds'
    BY <2>1 DEF PassHolds
  <2> QED BY <2>1, <2>2 DEF Embedded
<1>2. CASE WriteParent
  <2>1. /\ pass.pc = "parent" /\ parent' = "bare" /\ UNCHANGED <<base, pairs>>
        /\ pass' = [pass EXCEPT !.pc = "children", !.done = 0]
    BY <1>2 DEF WriteParent, PassTo
  <2>2. pass' = [pc |-> "children", edition |-> pass.edition, done |-> 0,
                 summarized |-> pass.summarized]
    BY <2>1 DEF PassHolds
  <2>3. pass.edition \in Editions
    BY <2>1 DEF PassHolds
  <2>4. \A k \in DOMAIN pass.edition : ~(k <= 0)
    BY <2>3, EditionFits
  <2>5. PassHolds'
    BY <1>0, <2>2, <2>3, <2>4 DEF PassHolds
  <2> QED BY <2>1, <2>5 DEF Embedded
<1>3. CASE WriteChildren
  <2>1. /\ pass.pc = "children" /\ UNCHANGED <<parent, pairs>>
        /\ base' = [i \in Slots |-> IF i \in Window THEN Upserted(base[i], pass.edition[i + 1])
                                    ELSE base[i]]
        /\ pass' = IF pass.done + BatchSize < Len(pass.edition)
                     THEN [pass EXCEPT !.done = @ + BatchSize]
                     ELSE [pass EXCEPT !.pc = "pairs", !.done = 0]
    BY <1>3 DEF WriteChildren, PassTo
  <2>2. pass.edition \in Editions
    BY <2>1 DEF PassHolds
  <2> DEFINE e == pass.edition
             d == pass.done
  <2>3. /\ Len(e) \in Nat \ {0} /\ DOMAIN e = 1..Len(e) /\ d \in Nat
        /\ \A k \in DOMAIN e : e[k] \in Texts /\ k \in Nat /\ k - 1 \in Slots
    BY <1>0, <2>2, EditionFits
  <2>4. ASSUME NEW i \in Window
        PROVE  i \in Slots /\ i + 1 \in DOMAIN e /\ e[i + 1] \in Texts
    <3>1. i \in Slots /\ i < Len(e) /\ i \in Nat
      BY TextsCounted DEF Window, Slots
    <3>2. i + 1 \in DOMAIN e
      BY <2>3, <3>1
    <3> QED BY <2>3, <3>1, <3>2
  <2>5. ASSUME NEW i \in Slots
        PROVE  /\ base'[i] \in BaseRow \cup {NoRow}
               /\ base'[i] # NoRow => Embedded(base'[i])
               /\ i \in Window => base'[i] # NoRow /\ base'[i].text = e[i + 1]
               /\ i \notin Window => base'[i] = base[i]
    <3>1. CASE i \in Window
      <4>1. base'[i] = Upserted(base[i], e[i + 1]) /\ base[i] \in BaseRow \cup {NoRow}
        BY <2>1, <3>1
      <4> QED BY <2>4, <3>1, <4>1, UpsertedRow
    <3>2. CASE i \notin Window
      BY <2>1, <3>2
    <3> QED BY <3>1, <3>2
  <2>6. base' \in [Slots -> BaseRow \cup {NoRow}] /\ \A i \in Slots : base'[i] # NoRow => Embedded(base'[i])
    BY <2>1, <2>5
  <2>7. ASSUME NEW k \in DOMAIN e, k <= d + BatchSize
        PROVE  base'[k - 1] # NoRow /\ base'[k - 1].text = e[k]
    <3>1. k - 1 \in Slots /\ k \in Nat /\ k - 1 + 1 = k /\ k <= Len(e)
      BY <2>3
    <3>2. CASE k <= d
      <4>1. Held(k)
        BY <2>1, <3>2 DEF PassHolds
      <4>2. k - 1 \notin Window
        BY <2>3, <3>1, <3>2 DEF Window
      <4> QED BY <2>5, <3>1, <4>1, <4>2 DEF Held
    <3>3. CASE ~(k <= d)
      <4>1. k - 1 \in Window
        BY <1>0, <2>3, <2>7, <3>1, <3>3 DEF Window
      <4> QED BY <2>5, <3>1, <4>1
    <3> QED BY <3>2, <3>3
  <2>8. CASE d + BatchSize < Len(e)
    <3>1. pass' = [pc |-> "children", edition |-> e, done |-> d + BatchSize,
                   summarized |-> pass.summarized]
      BY <2>1, <2>8 DEF PassHolds
    <3>2. d + BatchSize \in Nat
      BY <1>0
    <3>3. \A k \in DOMAIN e : k <= d + BatchSize => Held(k)'
      BY <2>7, <3>1 DEF Held
    <3> HIDE DEF d
    <3>4. PassHolds'
      BY <1>0, <2>2, <3>1, <3>2, <3>3 DEF PassHolds
    <3> QED BY <2>1, <2>6, <3>4
  <2>9. CASE ~(d + BatchSize < Len(e))
    <3>1. pass' = [pc |-> "pairs", edition |-> e, done |-> 0, summarized |-> pass.summarized]
      BY <2>1, <2>9 DEF PassHolds
    <3>2. \A k \in DOMAIN e : k <= d + BatchSize /\ ~(k <= 0)
      BY <1>0, <2>3, <2>9
    <3>3. \A k \in DOMAIN e : Held(k)'
      BY <2>7, <3>1, <3>2 DEF Held
    <3> HIDE DEF d
    <3>4. PassHolds'
      BY <1>0, <2>2, <3>1, <3>2, <3>3 DEF PassHolds
    <3> QED BY <2>1, <2>6, <3>4
  <2> QED BY <2>8, <2>9
<1>4. CASE WritePair
  <2>1. /\ pass.pc = "pairs" /\ Pairable # {} /\ UNCHANGED <<base, parent>>
        /\ pairs' = pairs \cup {pass.edition[Min(Pairable)]}
        /\ pass' = [pass EXCEPT !.done = Min(Pairable)]
    BY <1>4 DEF WritePair
  <2>2. pass.edition \in Editions
    BY <2>1 DEF PassHolds
  <2> DEFINE e == pass.edition
             m == Min(Pairable)
  <2>3. \A k \in DOMAIN e : e[k] \in Texts /\ k \in Nat
    BY <2>2, EditionFits
  <2>4. m \in Pairable /\ \A k \in Pairable : m <= k
    <3>1. Pairable \in SUBSET Nat
      BY <2>3 DEF Pairable
    <3> QED BY <2>1, <3>1, MinIsLeast
  <2> HIDE DEF m
  <2>5. m \in DOMAIN e /\ m \in Nat /\ e[m] \in Texts /\ pairs' = pairs \cup {e[m]}
    BY <2>1, <2>3, <2>4 DEF Pairable, m
  <2>6. pass' = [pc |-> "pairs", edition |-> e, done |-> m, summarized |-> pass.summarized]
    BY <2>1 DEF PassHolds, m
  <2>7. ASSUME NEW k \in DOMAIN e, k <= m
        PROVE  Paired(k)'
    <3>1. CASE k <= pass.done
      <4>1. Paired(k)
        BY <2>1, <3>1 DEF PassHolds
      <4> QED BY <2>5, <2>6, <4>1 DEF Paired
    <3>2. CASE ~(k <= pass.done) /\ e[k] \in Translated
      <4>1. k \in Pairable
        BY <1>0, <2>3, <3>2 DEF Pairable
      <4>2. k = m
        BY <2>3, <2>4, <2>5, <2>7, <4>1
      <4> QED BY <2>5, <2>6, <4>2 DEF Paired
    <3>3. CASE e[k] \notin Translated
      BY <2>6, <3>3 DEF Paired
    <3> QED BY <3>1, <3>2, <3>3
  <2>8. \A k \in DOMAIN e : Held(k)'
    <3>1. \A k \in DOMAIN e : Held(k)
      BY <2>1 DEF PassHolds
    <3> QED BY <2>1, <2>6, <3>1 DEF Held
  <2>9. PassHolds'
    BY <1>0, <2>2, <2>5, <2>6, <2>7, <2>8 DEF PassHolds
  <2> QED BY <2>1, <2>5, <2>9 DEF Embedded
<1>5. CASE EndPass
  <2>1. /\ pass.pc = "pairs" /\ Pairable = {} /\ UNCHANGED <<base, pairs>>
        /\ parent' = IF pass.summarized THEN "summarized" ELSE parent
        /\ pass' = [pass EXCEPT !.pc = "done", !.done = 0]
    BY <1>5 DEF EndPass, PassTo
  <2>2. pass.edition \in Editions
    BY <2>1 DEF PassHolds
  <2>3. pass' = [pc |-> "done", edition |-> pass.edition, done |-> 0,
                 summarized |-> pass.summarized]
    BY <2>1 DEF PassHolds
  <2>4. ASSUME NEW k \in DOMAIN pass.edition
        PROVE  Held(k)' /\ Paired(k)'
    <3>1. Held(k) /\ (k <= pass.done => Paired(k)) /\ k \in Nat
      BY <2>1, <2>2, EditionFits DEF PassHolds
    <3>2. ~(k <= pass.done) => pass.edition[k] \notin Translated
      BY <1>0, <2>1, <3>1 DEF Pairable
    <3>3. Paired(k)
      BY <3>1, <3>2 DEF Paired
    <3> QED BY <2>1, <2>3, <3>1, <3>3 DEF Held, Paired
  <2>5. pass.summarized => parent' = "summarized"
    BY <2>1
  <2>6. PassHolds'
    BY <1>0, <2>2, <2>3, <2>4, <2>5 DEF PassHolds
  <2> QED BY <2>1, <2>6 DEF Embedded
<1>6. CASE StopPass
  <2>1. pass' = Resting /\ UNCHANGED <<base, parent, pairs>>
    BY <1>6 DEF StopPass
  <2>2. PassHolds'
    BY <2>1 DEF Resting, PassHolds
  <2> QED BY <2>1, <2>2 DEF Embedded
<1> QED BY <1>1, <1>2, <1>3, <1>4, <1>5, <1>6 DEF PassStep

LEMMA BookInvNext == BookInv /\ [IngestNext]_ingestVars => BookInv'
<1> SUFFICES ASSUME BookInv, [IngestNext]_ingestVars PROVE BookInv'
  OBVIOUS
<1>1. CASE UNCHANGED baseVars
  <2>1. PassHolds'
    BY <1>1 DEF BookInv, PassHolds, Held, Paired, baseVars
  <2> QED BY <1>1, <2>1 DEF BookInv, Embedded, baseVars
<1>2. CASE PilotStep
  <2>1. UNCHANGED baseVars
    BY <1>2 DEF PilotStep, PlanPilot, ReadStored, WriteExtras, EndChildren, WriteChains,
         EndChains, DeleteStale, StopPilot
  <2> QED BY <1>1, <2>1
<1>3. CASE UNCHANGED ingestVars
  BY <1>1, <1>3 DEF ingestVars, baseVars
<1> QED BY <1>2, <1>3, PassKeeps DEF IngestNext

\* A finished pass left its whole book searchable, and no stop and no earlier edition left
\* a row whose embeddings are those of another text (runIngestion, upsertDocChildren).
THEOREM BookSearchable == IngestSpec => []BookIsSearchable
<1>1. BookInv => BookIsSearchable
  <2> SUFFICES ASSUME BookInv PROVE BookIsSearchable
    OBVIOUS
  <2>1. \A i \in Present(base) : Embedded(base[i])
    BY DEF Present, BookInv
  <2>2. ASSUME pass.pc = "done"
        PROVE  /\ \A k \in DOMAIN pass.edition : Held(k)
               /\ ToSet(pass.edition) \cap Translated \subseteq pairs
               /\ pass.summarized => parent = "summarized"
    BY <2>2 DEF BookInv, PassHolds, Paired, ToSet
  <2> QED BY <2>1, <2>2 DEF BookIsSearchable, Embedded, Held
<1> QED BY <1>1, BookInvInit, BookInvNext, PTL DEF IngestSpec

-----------------------------------------------------------------------------
(* A run of the pilot. *)

\* The slots that `n` runs of the pilot can fill.
Room(n) == Cardinality(Texts) * n

AnyTarget == {New, Refused} \cup {<<"base", i>> : i \in Slots}
Groups == UNION {Groupings(a) : a \in Archives}
Plots == UNION {[Heads(g) -> AnyTarget] : g \in Groups}

PilotRecord == [pc : {"off", "read", "children", "chains", "stale", "done"},
                archive : Archives \cup {<<>>}, group : Groups \cup {<<>>},
                target : Plots \cup {<<>>}, created : Seq(Texts),
                stored : [Slots -> ExtraRow \cup {NoRow}] \cup {<<>>},
                linked : SUBSET ArchiveRows, done : Nat]

\* What the plan of a run is, and that its targets still are accepted when it links them.
Supports(i, t) == base[i] # NoRow /\ Accepted(t, base[i].raw)
PlanHolds ==
  /\ pilots \in Nat \ {0}
  /\ pilot.archive \in Archives /\ pilot.group \in Groupings(pilot.archive)
  /\ pilot.target \in [Heads(pilot.group) -> AnyTarget]
  /\ IsInjective(pilot.created)
  /\ Created = {pilot.archive[q] : q \in NewHeads(pilot.target)}
  /\ \A q \in Heads(pilot.group) :
       \/ pilot.target[q] \in {New, Refused}
       \/ \E i \in Slots : pilot.target[q] = <<"base", i>> /\ Supports(i, pilot.archive[q])

\* The rows an earlier run left, as this one read them.
StoredHolds ==
  /\ pilot.stored \in [Slots -> ExtraRow \cup {NoRow}]
  /\ \A i \in Slots : pilot.stored[i] # NoRow => i < Room(pilots - 1)

\* A row is one that was stored, its text unchanged, or one of this run's plan.
Writing == {"children", "chains", "stale"}
Written(t) == extra[Ordinal(t)] # NoRow /\ extra[Ordinal(t)].raw = t
RowsHold ==
  /\ \A i \in Slots : pilot.stored[i] # NoRow =>
       extra[i] # NoRow /\ extra[i].raw = pilot.stored[i].raw
  /\ \A i \in Slots : extra[i] # NoRow /\ pilot.stored[i] = NoRow =>
       \E t \in Created : Ordinal(t) = i /\ extra[i].raw = t
  /\ \A r \in ArchiveRows \ Planned : chains[r] # NoRow => r \in pilot.linked

\* The child of a chain is stored, and its raw text is one that the chain's row led to.
SlotChain == {"base", "extra"} \X Slots \X Texts
Child(chain, r) ==
  \E i \in Slots, t \in Texts :
    \/ chain = <<"base", i, t>> /\ base[i] # NoRow /\ Attributed(r, t, base[i].raw)
    \/ chain = <<"extra", i, t>> /\ extra[i] # NoRow /\ Attributed(r, t, extra[i].raw)

ExtrasHold ==
  /\ extra \in [Slots -> ExtraRow \cup {NoRow}]
  /\ \A i \in Slots : extra[i] # NoRow => extra[i].text = extra[i].raw /\ i < Room(pilots)
  /\ chains \in [ArchiveRows -> SlotChain \cup {NoRow}]
  /\ \A r \in ArchiveRows : chains[r] # NoRow => Child(chains[r], r)

PilotHolds ==
  /\ pilot \in PilotRecord /\ pilots \in 0..MaxPilots
  /\ pilot.pc # "off" => PlanHolds
  /\ pilot.pc = "read" => /\ pilot.done = 0
                         /\ \A i \in Slots : extra[i] # NoRow => i < Room(pilots - 1)
  /\ pilot.pc \in Writing => StoredHolds /\ RowsHold
  /\ pilot.pc = "children" => \A t \in Created : Position(t) <= pilot.done => Written(t)
  /\ pilot.pc \in {"chains", "stale"} => \A t \in Created : Written(t)
  /\ pilot.pc = "chains" =>
       \A k \in DOMAIN ChainOrder : k <= pilot.done => chains[ChainOrder[k]] = ChildOf(ChainOrder[k])
  /\ pilot.pc = "stale" => \A r \in Planned : chains[r] = ChildOf(r)
  /\ RerunConverges

PilotInv == BookInv /\ ExtrasHold /\ PilotHolds

LEMMA RoomGrows ==
  /\ \A n \in Nat : Room(n) \in Nat /\ Room(n + 1) = Room(n) + Cardinality(Texts)
  /\ \A n \in 0..MaxPilots : Room(n) <= Room(MaxPilots)
  /\ Cardinality(Texts) \in Nat /\ Slots = 0..Room(MaxPilots)
<1>1. Cardinality(Texts) \in Nat /\ MaxPilots \in Nat
  BY TextsCounted, IngestAssumption
<1>2. \A c, n \in Nat : c * n \in Nat /\ c * (n + 1) = c * n + c
  OBVIOUS
<1>3. \A c, n, m \in Nat : n <= m => c * n <= c * m
  OBVIOUS
<1> QED BY <1>1, <1>2, <1>3 DEF Room, Slots

\* An order of a finite set lists all of it, each element once.
LEMMA OrderLists ==
  ASSUME NEW S, IsFiniteSet(S), NEW s \in [1..Cardinality(S) -> S], IsInjective(s)
  PROVE  s \in Seq(S) /\ Len(s) = Cardinality(S) /\ DOMAIN s = 1..Len(s) /\ ToSet(s) = S
<1> DEFINE n == Cardinality(S)
<1>1. n \in Nat
  BY FS_CardinalityType
<1>2. Cardinality(1..n) = n /\ IsFiniteSet(1..n)
  BY <1>1, FS_Interval
<1>3. s \in Injection(1..n, S)
  BY DEF Injection
<1>4. s \in Surjection(1..n, S)
  BY <1>2, <1>3, FS_Injection
<1>5. \A x \in S : \E i \in 1..n : s[i] = x
  BY <1>4 DEF Surjection
<1>6. ToSet(s) = S
  BY <1>5 DEF ToSet
<1> HIDE DEF n
<1> QED BY <1>1, <1>6 DEF n

\* The representatives of the groups are rows of the archive.
LEMMA ArchiveFits ==
  ASSUME NEW a \in Archives, NEW g \in Groupings(a)
  PROVE  /\ a \in [DOMAIN a -> Texts] /\ DOMAIN a \subseteq ArchiveRows /\ DOMAIN a \subseteq Nat
         /\ g \in [DOMAIN a -> DOMAIN a \cup {NoRow}]
         /\ Heads(g) \subseteq DOMAIN a /\ IsFiniteSet(Heads(g))
         /\ \A q \in Heads(g) : a[q] \in Texts
<1>1. /\ a \in [DOMAIN a -> Texts] /\ DOMAIN a \subseteq ArchiveRows /\ ArchiveRows \subseteq Nat
      /\ IsFiniteSet(ArchiveRows)
  BY IngestAssumption
<1>2. g \in [DOMAIN a -> DOMAIN a \cup {NoRow}]
  BY DEF Groupings
<1>3. Heads(g) \subseteq DOMAIN a
  BY <1>2 DEF Heads
<1>4. IsFiniteSet(Heads(g))
  <2>1. Heads(g) \subseteq ArchiveRows
    BY <1>1, <1>3
  <2> QED BY <1>1, <2>1, FS_Subset
<1> QED BY <1>1, <1>2, <1>3, <1>4

\* The representative of a row's group is of the row's lineage: of the rows of the group in
\* a set closed under joining, the first one joined none of them, so it started the group.
LEMMA RepresentativeIsKin ==
  ASSUME NEW a \in Archives, NEW g \in Groupings(a), NEW r \in DOMAIN a, g[r] # NoRow
  PROVE  g[r] \in Lineage[a][r]
<1>1. DOMAIN a \subseteq Nat /\ g \in [DOMAIN a -> DOMAIN a \cup {NoRow}]
  BY ArchiveFits
<1>2. SUFFICES ASSUME NEW K \in SUBSET DOMAIN a, r \in K, Closed(a, K)
               PROVE  g[r] \in K
  BY <1>1 DEF Lineage
<1> DEFINE M == {x \in K : g[x] = g[r]}
<1>3. M \in SUBSET Nat /\ M # {}
  BY <1>1, <1>2
<1>4. PICK x \in M : \A y \in M : x <= y
  <2> HIDE DEF M
  <2> QED BY <1>3, LeastExists
<1>5. x \in DOMAIN a /\ x \in K /\ g[x] = g[r] /\ x \in Nat
  BY <1>1, <1>4
<1>6. ASSUME NEW q \in Earlier(g, x), Joins(a[q], a[x])
      PROVE  g[q] # g[x]
  <2>1. q \in DOMAIN a /\ q < x /\ q \in Nat
    BY <1>1 DEF Earlier
  <2>2. q \in K
    BY <1>2, <1>5, <1>6, <2>1 DEF Closed
  <2>3. q \notin M
    BY <1>4, <1>5, <2>1
  <2> QED BY <1>5, <2>2, <2>3
<1>7. Grouped(a, g, x)
  BY <1>5 DEF Groupings
<1>8. Peers(a, g, x) = {}
  <2> SUFFICES ASSUME Peers(a, g, x) # {} PROVE FALSE
    OBVIOUS
  <2>1. Peers(a, g, x) \in SUBSET Nat
    BY <1>1 DEF Peers, Earlier
  <2>2. Min(Peers(a, g, x)) \in Peers(a, g, x)
    BY <2>1, MinIsLeast
  <2>3. g[x] = g[Min(Peers(a, g, x))]
    BY <1>7 DEF Grouped
  <2> QED BY <1>6, <2>2, <2>3 DEF Peers, Joins
<1>9. g[x] \notin Proposed(a, g, x)
  BY <1>6 DEF Proposed, Joins
<1> QED BY <1>5, <1>7, <1>8, <1>9 DEF Grouped

\* A text has its own place in the plan.
LEMMA PositionFits ==
  ASSUME PilotHolds, PlanHolds
  PROVE  /\ \A t \in Created : /\ Position(t) \in Nat \ {0} /\ Position(t) <= Len(pilot.created)
                               /\ pilot.created[Position(t)] = t
         /\ Len(pilot.created) \in Nat /\ Created \subseteq Texts /\ IsFiniteSet(Created)
<1>1. /\ pilot.created \in Seq(Texts) /\ Len(pilot.created) \in Nat
      /\ DOMAIN pilot.created = 1..Len(pilot.created)
  BY DEF PilotHolds, PilotRecord
<1>2. \A t \in Created : Position(t) \in DOMAIN pilot.created /\ pilot.created[Position(t)] = t
  BY DEF Created, ToSet, Position
<1>3. Created \subseteq Texts
  <2>1. NewHeads(pilot.target) \subseteq Heads(pilot.group)
    BY DEF PlanHolds, NewHeads
  <2> QED BY <2>1, ArchiveFits DEF PlanHolds
<1>4. IsFiniteSet(Created)
  BY <1>3, IngestAssumption, FS_Subset
<1> QED BY <1>1, <1>2, <1>3, <1>4

\* The ordinals of a plan are its own: free, or those of the texts they are for.
LEMMA OrdinalsFit ==
  ASSUME PilotHolds, PlanHolds, StoredHolds
  PROVE  /\ \A t \in Created : /\ Ordinal(t) \in Slots /\ Ordinal(t) < Room(pilots)
                               /\ pilot.stored[Ordinal(t)] # NoRow =>
                                    pilot.stored[Ordinal(t)].raw = t
         /\ \A t, u \in Created : Ordinal(t) = Ordinal(u) => t = u
<1> DEFINE P == Present(pilot.stored)
           H == Highest
           K == Room(pilots - 1)
<1>0. /\ pilots \in Nat \ {0} /\ pilots <= MaxPilots /\ pilots - 1 \in Nat /\ MaxPilots \in Nat
      /\ K \in Nat /\ Room(pilots) = K + Cardinality(Texts) /\ Room(pilots) \in Nat
      /\ Cardinality(Texts) \in Nat /\ Slots = 0..Room(MaxPilots) /\ Room(pilots) <= Room(MaxPilots)
      /\ Room(MaxPilots) \in Nat
  <2>1. /\ pilots \in Nat \ {0} /\ pilots <= MaxPilots /\ pilots - 1 \in Nat /\ MaxPilots \in Nat
        /\ pilots \in 0..MaxPilots /\ pilots - 1 + 1 = pilots
    BY IngestAssumption DEF PilotHolds, PlanHolds
  <2> QED BY <2>1, RoomGrows
<1>1. \A i \in P : i \in Slots /\ i \in Nat /\ i < K /\ pilot.stored[i] # NoRow
  BY <1>0 DEF Present, StoredHolds
<1>2. H \in Int /\ H + 1 \in Nat /\ H + 1 <= K /\ \A i \in P : i <= H
  <2>1. CASE P = {}
    BY <1>0, <2>1 DEF Highest
  <2>2. CASE P # {}
    <3>1. P \in SUBSET Nat /\ \A i \in P : i <= K
      BY <1>0, <1>1
    <3> HIDE DEF P, K
    <3>2. Max(P) \in P /\ \A i \in P : i <= Max(P)
      BY <1>0, <2>2, <3>1, MaxIsHighest
    <3>3. H = Max(P)
      BY <2>2 DEF Highest, P
    <3> QED BY <1>0, <1>1, <3>2, <3>3
  <2> QED BY <2>1, <2>2
<1> HIDE DEF K
<1>3. ASSUME NEW t \in Created, Keeps(t) # {}
      PROVE  Ordinal(t) \in P /\ pilot.stored[Ordinal(t)].raw = t
  <2>1. Keeps(t) \in SUBSET Nat
    BY <1>1 DEF Keeps
  <2>2. Min(Keeps(t)) \in Keeps(t)
    BY <1>3, <2>1, MinIsLeast
  <2> QED BY <1>3, <2>2 DEF Ordinal, Keeps
<1>4. ASSUME NEW t \in Created, Keeps(t) = {}
      PROVE  /\ Ordinal(t) = H + 1 + Cardinality(NewBefore(t))
             /\ Cardinality(NewBefore(t)) \in Nat /\ IsFiniteSet(NewBefore(t))
             /\ Cardinality(NewBefore(t)) < Cardinality(Texts)
  <2>1. Created \subseteq Texts /\ IsFiniteSet(Created) /\ Position(t) \in Nat
    BY PositionFits
  <2>2. NewBefore(t) \subseteq Texts \ {t}
    BY <2>1 DEF NewBefore
  <2>3. /\ IsFiniteSet(Texts \ {t}) /\ Cardinality(Texts \ {t}) = Cardinality(Texts) - 1
    BY <2>1, IngestAssumption, FS_RemoveElement
  <2>4. /\ IsFiniteSet(NewBefore(t)) /\ Cardinality(NewBefore(t)) <= Cardinality(Texts \ {t})
        /\ Cardinality(NewBefore(t)) \in Nat
    BY <2>2, <2>3, FS_Subset, FS_CardinalityType
  <2> QED BY <1>0, <1>4, <2>3, <2>4 DEF Ordinal
<1>5. ASSUME NEW t \in Created
      PROVE  /\ Ordinal(t) \in Nat /\ Ordinal(t) < Room(pilots)
             /\ pilot.stored[Ordinal(t)] # NoRow /\ Ordinal(t) \in Slots =>
                  pilot.stored[Ordinal(t)].raw = t
  <2>1. CASE Keeps(t) # {}
    <3> HIDE DEF P
    <3> QED BY <1>0, <1>1, <1>3, <2>1
  <2>2. CASE Keeps(t) = {}
    <3>1. Ordinal(t) \in Nat /\ Ordinal(t) < Room(pilots) /\ Ordinal(t) > H
      <4> HIDE DEF P, H
      <4> QED BY <1>0, <1>2, <1>4, <2>2
    <3>2. Ordinal(t) \notin P
      <4> HIDE DEF P, H
      <4> QED BY <1>1, <1>2, <3>1
    <3>3. Ordinal(t) \in Slots => pilot.stored[Ordinal(t)] = NoRow
      BY <3>2 DEF Present, StoredHolds
    <3> QED BY <3>1, <3>3
  <2> QED BY <2>1, <2>2
<1>6. \A t \in Created : Ordinal(t) \in Slots
  BY <1>0, <1>5
<1>7. ASSUME NEW t \in Created, NEW u \in Created, Ordinal(t) = Ordinal(u), t # u
      PROVE  FALSE
  <2>1. CASE Keeps(t) # {} /\ Keeps(u) # {}
    BY <1>3, <1>7, <2>1
  <2>2. ASSUME NEW v \in Created, NEW w \in Created, Ordinal(v) = Ordinal(w),
               Keeps(v) # {}, Keeps(w) = {}
        PROVE  FALSE
    <3> HIDE DEF P, H
    <3> QED BY <1>1, <1>2, <1>3, <1>4, <2>2
  <2>3. ASSUME NEW v \in Created, NEW w \in Created, Ordinal(v) = Ordinal(w),
               Keeps(v) = {}, Keeps(w) = {}, Position(v) < Position(w)
        PROVE  FALSE
    <3>1. Position(v) \in Nat /\ Position(w) \in Nat
          /\ \A x \in Created : Position(x) \in Nat
      BY PositionFits
    <3>2. v \notin NewBefore(v)
      BY <3>1 DEF NewBefore
    <3>3. NewBefore(v) \cup {v} \subseteq NewBefore(w)
      BY <2>3, <3>1 DEF NewBefore
    <3>4. /\ Cardinality(NewBefore(v) \cup {v}) = Cardinality(NewBefore(v)) + 1
          /\ Cardinality(NewBefore(v) \cup {v}) <= Cardinality(NewBefore(w))
      BY <1>4, <2>3, <3>2, <3>3, FS_AddElement, FS_Subset
    <3> HIDE DEF H
    <3> QED BY <1>2, <1>4, <2>3, <3>4
  <2>4. Position(t) # Position(u) /\ Position(t) \in Nat /\ Position(u) \in Nat
    BY <1>7, PositionFits
  <2>5. Position(t) < Position(u) \/ Position(u) < Position(t)
    BY <2>4
  <2> QED BY <1>7, <2>1, <2>2, <2>3, <2>5
<1> QED BY <1>5, <1>6, <1>7

\* Only rows of the plan's archive have a chain in it.
LEMMA PlannedAreRows == ASSUME PlanHolds PROVE Planned \subseteq ArchiveRows
BY ArchiveFits DEF PlanHolds, Planned

\* The order in which chains are written lists the planned rows.
LEMMA ChainOrderLists ==
  ASSUME PlanHolds
  PROVE
  /\ Len(ChainOrder) \in Nat /\ DOMAIN ChainOrder = 1..Len(ChainOrder)
  /\ \A k \in DOMAIN ChainOrder : ChainOrder[k] \in Planned
  /\ \A r \in Planned : \E k \in DOMAIN ChainOrder : ChainOrder[k] = r
<1>1. IsFiniteSet(Planned)
  <2>1. Planned \subseteq ArchiveRows
    BY PlannedAreRows
  <2> QED BY <2>1, IngestAssumption, FS_Subset
<1>2. PICK f \in Bijection(1..Cardinality(Planned), Planned) : TRUE
  BY <1>1, FS_CardinalityType DEF ExistsBijection
<1>3. f \in [1..Cardinality(Planned) -> Planned] /\ IsInjective(f)
  BY <1>2 DEF Bijection, Injection
<1>4. ChainOrder \in [1..Cardinality(Planned) -> Planned] /\ IsInjective(ChainOrder)
  BY <1>3 DEF ChainOrder, SetToSeq
<1>5. /\ ChainOrder \in Seq(Planned) /\ DOMAIN ChainOrder = 1..Len(ChainOrder)
      /\ ToSet(ChainOrder) = Planned
  BY <1>1, <1>4, OrderLists
<1> QED BY <1>5 DEF ToSet

\* A step that leaves the plan leaves all that is derived from it.
SamePlan == /\ pilot'.archive = pilot.archive /\ pilot'.group = pilot.group
            /\ pilot'.target = pilot.target /\ pilot'.created = pilot.created
            /\ pilot'.stored = pilot.stored
LEMMA PlanStays ==
  ASSUME SamePlan
  PROVE  /\ Created' = Created /\ Planned' = Planned /\ ChainOrder' = ChainOrder
         /\ Stale' = Stale
         /\ \A t : Ordinal(t)' = Ordinal(t) /\ Position(t)' = Position(t)
         /\ \A r : ChildOf(r)' = ChildOf(r)
<1>1. Created' = Created /\ \A t : Position(t)' = Position(t)
  BY DEF SamePlan, Created, Position
<1>2. Highest' = Highest /\ \A t : Keeps(t)' = Keeps(t)
  BY DEF SamePlan, Highest, Keeps, Present
<1>3. \A t : NewBefore(t)' = NewBefore(t)
  BY <1>1, <1>2 DEF NewBefore
<1>4. \A t : Ordinal(t)' = Ordinal(t)
  BY <1>2, <1>3 DEF Ordinal
<1>5. Planned' = Planned
  BY DEF SamePlan, Planned
<1>6. ChainOrder' = ChainOrder
  BY <1>5 DEF ChainOrder
<1>7. \A r : ChildOf(r)' = ChildOf(r)
  BY <1>4 DEF SamePlan, ChildOf
<1>8. Stale' = Stale
  BY <1>1, <1>4 DEF SamePlan, Stale, Present
<1> QED BY <1>1, <1>4, <1>5, <1>6, <1>7, <1>8

\* The book's rows stay, with the raw text they were inserted with.
Grows == \A i \in Slots : base[i] # NoRow => base'[i] # NoRow /\ base'[i].raw = base[i].raw

LEMMA BaseGrows == ASSUME BookInv, PassStep PROVE Grows
<1>1. CASE WriteChildren
  <2>1. ASSUME NEW i \in Slots, base[i] # NoRow
        PROVE  base'[i] # NoRow /\ base'[i].raw = base[i].raw
    <3>1. base[i] \in BaseRow /\ base'[i] = IF i \in Window THEN Upserted(base[i], pass.edition[i + 1])
                                           ELSE base[i]
      BY <1>1, <2>1 DEF WriteChildren, BookInv
    <3>2. CASE i \in Window
      <4>1. pass.edition \in Editions
        BY <1>1 DEF WriteChildren, BookInv, PassHolds
      <4>2. i \in Nat /\ i < Len(pass.edition)
        BY <3>2, TextsCounted DEF Window, Slots
      <4>3. i + 1 \in DOMAIN pass.edition
        BY <4>1, <4>2, EditionFits
      <4>4. pass.edition[i + 1] \in Texts
        BY <4>1, <4>3, EditionFits
      <4> QED BY <2>1, <3>1, <3>2, <4>4, UpsertedRow
    <3>3. CASE i \notin Window
      BY <2>1, <3>1, <3>3
    <3> QED BY <3>2, <3>3
  <2> QED BY <2>1 DEF Grows
<1>2. CASE UNCHANGED base
  BY <1>2 DEF Grows
<1> QED BY <1>1, <1>2 DEF PassStep, StartPass, WriteParent, WritePair, EndPass, StopPass

LEMMA SupportStays ==
  ASSUME Grows
  PROVE  \A i \in Slots : \A t : Supports(i, t) => Supports(i, t)'
BY DEF Grows, Supports

\* A pass never disturbs the pilot's evidence.
LEMMA PassKeepsPilot == ASSUME PilotInv, PassStep PROVE PilotInv'
<1>1. BookInv'
  BY PassKeeps DEF PilotInv
<1>2. UNCHANGED pilotVars
  BY DEF PassStep, StartPass, WriteParent, WriteChildren, WritePair, EndPass, StopPass
<1>3. UNCHANGED <<extra, chains, pilot, pilots>> /\ SamePlan
  BY <1>2 DEF pilotVars, SamePlan
<1>4. Grows
  BY BaseGrows DEF PilotInv
<1>6. ExtrasHold'
  <2>1. \A r \in ArchiveRows : chains[r] # NoRow => Child(chains[r], r)'
    <3>1. \A r \in ArchiveRows : chains[r] # NoRow => Child(chains[r], r)
      BY DEF PilotInv, ExtrasHold
    <3> QED BY <1>3, <1>4, <3>1 DEF Child, Grows
  <2> QED BY <1>3, <2>1 DEF PilotInv, ExtrasHold, Room
<1>7. PlanHolds => PlanHolds'
  BY <1>3, <1>4, SupportStays, PlanStays DEF PlanHolds
<1>8. (StoredHolds => StoredHolds') /\ (RowsHold => RowsHold')
  BY <1>3, PlanStays DEF StoredHolds, RowsHold, Room
<1>9. (\A t \in Created : Position(t) <= pilot.done => Written(t))
         => \A t \in Created' : Position(t)' <= pilot'.done => Written(t)'
  BY <1>3, PlanStays DEF Written
<1>10. (\A t \in Created : Written(t)) => \A t \in Created' : Written(t)'
  BY <1>3, PlanStays DEF Written
<1>11. RerunConverges => RerunConverges'
  BY <1>3, PlanStays DEF RerunConverges, Present
<1>12. PilotHolds'
  <2> USE DEF PilotInv, PilotHolds
  <2>1. pilot' \in PilotRecord /\ pilots' \in 0..MaxPilots
    BY <1>3
  <2>2. /\ pilot'.pc # "off" => PlanHolds'
        /\ pilot'.pc = "read" => /\ pilot'.done = 0
                                /\ \A i \in Slots : extra'[i] # NoRow => i < Room(pilots' - 1)
        /\ pilot'.pc \in Writing => StoredHolds' /\ RowsHold'
    BY <1>3, <1>7, <1>8
  <2>3. /\ pilot'.pc = "children" => \A t \in Created' : Position(t)' <= pilot'.done => Written(t)'
        /\ pilot'.pc \in {"chains", "stale"} => \A t \in Created' : Written(t)'
    BY <1>3, <1>9, <1>10
  <2>4. /\ pilot'.pc = "chains" =>
             \A k \in DOMAIN ChainOrder' :
               k <= pilot'.done => chains'[ChainOrder'[k]] = (ChildOf(ChainOrder[k]))'
        /\ pilot'.pc = "stale" => \A r \in Planned' : chains'[r] = ChildOf(r)'
    BY <1>3, PlanStays
  <2> QED BY <1>11, <2>1, <2>2, <2>3, <2>4 DEF Room
<1> QED BY <1>1, <1>6, <1>12 DEF PilotInv

LEMMA PilotInvInit == IngestInit => PilotInv
<1> SUFFICES ASSUME IngestInit PROVE PilotInv
  OBVIOUS
<1>1. /\ extra = [i \in Slots |-> NoRow] /\ chains = [r \in ArchiveRows |-> NoRow]
      /\ pilot = Idle /\ pilots = 0
  BY DEF IngestInit
<1>2. ExtrasHold
  BY <1>1 DEF ExtrasHold
<1>3. Idle \in PilotRecord /\ Idle.pc = "off"
  BY DEF Idle, PilotRecord
<1>4. 0 \in 0..MaxPilots
  BY IngestAssumption
<1>5. PilotHolds
  BY <1>1, <1>3, <1>4 DEF PilotHolds, RerunConverges, Writing
<1> QED BY <1>2, <1>5, BookInvInit DEF PilotInv

\* A child that the plan of a run names is accepted for the text it is named for.
LEMMA TargetsSupport ==
  ASSUME BookInv, NEW t \in Texts, NEW chosen \in Targets(t)
  PROVE  /\ chosen \in AnyTarget
         /\ \/ chosen \in {New, Refused}
            \/ \E i \in Slots : chosen = <<"base", i>> /\ Supports(i, t)
<1>1. \A i \in Present(base) : i \in Slots /\ base[i] # NoRow
  BY DEF Present, BookInv
<1>2. \A i \in Exact(t) \cup Folded(t) \cup Candidates(t) : i \in Slots /\ Supports(i, t)
  BY <1>1 DEF Exact, Folded, Candidates, Supports, Accepted
<1>3. \/ chosen \in {New, Refused}
      \/ \E i \in Exact(t) \cup Folded(t) \cup Candidates(t) : chosen = <<"base", i>>
  BY DEF Targets, Bucket
<1> QED BY <1>2, <1>3 DEF AnyTarget

\* What a step that leaves the rows and the chains keeps of them.
LEMMA ExtrasStay ==
  ASSUME ExtrasHold, UNCHANGED <<base, extra, chains, pilots>>
  PROVE  ExtrasHold'
BY DEF ExtrasHold, Child, Room

LEMMA PlanPilotKeeps ==
  ASSUME PilotInv, PlanPilot
  PROVE  ExtrasHold' /\ PilotHolds'
<1> USE DEF PilotInv
<1>a. PICK a \in Archives : \E g \in Groupings(a) :
      \E chosen \in [Heads(g) -> UNION {Targets(a[q]) : q \in Heads(g)}] :
        /\ \A q \in Heads(g) : chosen[q] \in Targets(a[q])
        /\ \E created \in SetToSeqs({a[q] : q \in NewHeads(chosen)}) :
             pilot' = [Idle EXCEPT !.pc = "read", !.archive = a, !.group = g,
                                   !.target = chosen, !.created = created]
  BY DEF PlanPilot
<1>b. PICK g \in Groupings(a) :
      \E chosen \in [Heads(g) -> UNION {Targets(a[q]) : q \in Heads(g)}] :
        /\ \A q \in Heads(g) : chosen[q] \in Targets(a[q])
        /\ \E created \in SetToSeqs({a[q] : q \in NewHeads(chosen)}) :
             pilot' = [Idle EXCEPT !.pc = "read", !.archive = a, !.group = g,
                                   !.target = chosen, !.created = created]
  BY <1>a
<1>c. PICK chosen \in [Heads(g) -> UNION {Targets(a[q]) : q \in Heads(g)}] :
        /\ \A q \in Heads(g) : chosen[q] \in Targets(a[q])
        /\ \E created \in SetToSeqs({a[q] : q \in NewHeads(chosen)}) :
             pilot' = [Idle EXCEPT !.pc = "read", !.archive = a, !.group = g,
                                   !.target = chosen, !.created = created]
  BY <1>b
<1>1. /\ pilots < MaxPilots /\ pilots' = pilots + 1 /\ UNCHANGED <<base, extra, chains>>
  BY DEF PlanPilot, baseVars
<1> DEFINE S == {a[q] : q \in NewHeads(chosen)}
<1>2. PICK created \in SetToSeqs(S) :
        pilot' = [pc |-> "read", archive |-> a, group |-> g, target |-> chosen,
                  created |-> created, stored |-> <<>>, linked |-> {}, done |-> 0]
  BY <1>c DEF Idle
<1>3. created \in [1..Cardinality(S) -> S] /\ IsInjective(created)
  BY DEF SetToSeqs, IsInjective
<1>4. IsFiniteSet(S) /\ S \subseteq Texts
  <2>1. NewHeads(chosen) \subseteq Heads(g)
    BY DEF NewHeads
  <2>2. S \subseteq Texts
    BY <2>1, ArchiveFits
  <2> HIDE DEF S
  <2> QED BY <2>2, IngestAssumption, FS_Subset
<1>d. /\ chosen \in [Heads(g) -> AnyTarget]
       /\ \A q \in Heads(g) :
            \/ chosen[q] \in {New, Refused}
            \/ \E i \in Slots : chosen[q] = <<"base", i>> /\ Supports(i, a[q])
  <2>1. ASSUME NEW q \in Heads(g)
        PROVE  /\ chosen[q] \in AnyTarget
               /\ \/ chosen[q] \in {New, Refused}
                  \/ \E i \in Slots : chosen[q] = <<"base", i>> /\ Supports(i, a[q])
    <3>1. a[q] \in Texts /\ chosen[q] \in Targets(a[q])
      BY <1>c, ArchiveFits
    <3> QED BY <3>1, TargetsSupport
  <2> QED BY <2>1
<1>5. created \in Seq(Texts) /\ ToSet(created) = S
  <2> HIDE DEF S
  <2>1. created \in Seq(S) /\ ToSet(created) = S
    BY <1>3, <1>4, OrderLists
  <2> QED BY <1>4, <2>1
<1>6. /\ pilots' \in 0..MaxPilots /\ pilots' \in Nat \ {0} /\ pilots' - 1 = pilots
      /\ pilots \in 0..MaxPilots /\ MaxPilots \in Nat /\ pilots \in Nat
  <2>1. pilots \in 0..MaxPilots /\ MaxPilots \in Nat /\ pilots < MaxPilots
    BY <1>1, IngestAssumption DEF PilotHolds, PlanPilot
  <2>2. pilots' = pilots + 1
    BY <1>1
  <2> QED BY <2>1, <2>2
<1>7. pilot' \in PilotRecord /\ pilot'.pc = "read"
  <2>1. g \in Groups /\ chosen \in Plots
    BY <1>d DEF Groups, Plots
  <2> QED BY <1>2, <1>5, <2>1 DEF PilotRecord
<1>8. PlanHolds'
  <2>1. \A q \in Heads(g) :
          \/ chosen[q] \in {New, Refused}
          \/ \E i \in Slots : chosen[q] = <<"base", i>> /\ Supports(i, a[q])'
    BY <1>1, <1>d DEF Supports
  <2>2. /\ pilot'.archive = a /\ pilot'.group = g /\ pilot'.target = chosen
        /\ IsInjective(pilot'.created)
        /\ Created' = {a[q] : q \in NewHeads(chosen)}
    BY <1>2, <1>3, <1>5 DEF Created
  <2> QED BY <1>6, <1>d, <2>1, <2>2 DEF PlanHolds
<1>9. \A i \in Slots : extra[i] # NoRow => i < Room(pilots' - 1)
  BY <1>6 DEF ExtrasHold
<1>10. PilotHolds'
  BY <1>1, <1>2, <1>6, <1>7, <1>8, <1>9 DEF PilotHolds, Writing, RerunConverges, Room
<1>11. ExtrasHold'
  <2>1. Room(pilots) <= Room(pilots') /\ Room(pilots) \in Nat /\ Room(pilots') \in Nat
    <3>1. /\ Room(pilots + 1) = Room(pilots) + Cardinality(Texts) /\ Room(pilots) \in Nat
          /\ Room(pilots + 1) \in Nat /\ Cardinality(Texts) \in Nat
      <4>1. pilots + 1 \in Nat
        BY <1>6
      <4> QED BY <1>6, <4>1, RoomGrows
    <3>2. Room(pilots') = Room(pilots + 1)
      BY <1>1
    <3> QED BY <3>1, <3>2
  <2>2. \A i \in Slots : extra[i] # NoRow => i < Room(pilots')
    <3>1. \A i \in Slots : i \in Nat
      BY RoomGrows
    <3> QED BY <2>1, <3>1 DEF ExtrasHold
  <2> QED BY <1>1, <2>2 DEF ExtrasHold, Child, Room
<1> QED BY <1>10, <1>11

LEMMA ReadKeeps ==
  ASSUME PilotInv, ReadStored
  PROVE  ExtrasHold' /\ PilotHolds'
<1> USE DEF PilotInv
<1>1. /\ pilot.pc = "read" /\ UNCHANGED <<base, extra, chains, pilots>>
      /\ pilot' = [pilot EXCEPT !.pc = "children", !.stored = extra,
                                !.linked = {r \in ArchiveRows : chains[r] # NoRow}]
  BY DEF ReadStored, baseVars
<1>2. /\ pilot \in PilotRecord /\ PlanHolds /\ pilots \in 0..MaxPilots
      /\ \A i \in Slots : extra[i] # NoRow => i < Room(pilots - 1)
      /\ extra \in [Slots -> ExtraRow \cup {NoRow}]
  BY <1>1 DEF PilotHolds, ExtrasHold
<1>3. /\ pilot' \in PilotRecord /\ pilot'.pc = "children" /\ pilot'.stored = extra
      /\ pilot'.archive = pilot.archive /\ pilot'.group = pilot.group
      /\ pilot'.target = pilot.target /\ pilot'.created = pilot.created
      /\ pilot'.done = pilot.done
      /\ pilot'.linked = {r \in ArchiveRows : chains[r] # NoRow}
  <2> DEFINE l == {r \in ArchiveRows : chains[r] # NoRow}
  <2>2. l \in SUBSET ArchiveRows
    OBVIOUS
  <2>3. pilot' = [pilot EXCEPT !.pc = "children", !.stored = extra, !.linked = l]
    BY <1>1
  <2> HIDE DEF l
  <2>4. pilot' = [pc |-> "children", archive |-> pilot.archive, group |-> pilot.group,
                  target |-> pilot.target, created |-> pilot.created,
                  stored |-> extra, linked |-> l, done |-> pilot.done]
    BY <1>2, <2>3 DEF PilotRecord
  <2>5. /\ pilot.archive \in Archives \cup {<<>>} /\ pilot.group \in Groups \cup {<<>>}
        /\ pilot.target \in Plots \cup {<<>>}
        /\ pilot.created \in Seq(Texts) /\ pilot.done \in Nat
    BY <1>2 DEF PilotRecord
  <2>6. pilot' \in PilotRecord
    BY <1>2, <2>2, <2>4, <2>5 DEF PilotRecord
  <2> QED BY <2>4, <2>6 DEF l
<1>4. Created' = Created /\ \A t : Position(t)' = Position(t)
  BY <1>3 DEF Created, Position
<1>5. PlanHolds'
  BY <1>1, <1>2, <1>3, <1>4 DEF PlanHolds, Supports
<1>6. StoredHolds' /\ RowsHold'
  BY <1>1, <1>2, <1>3 DEF StoredHolds, RowsHold, Room
<1>7. \A t \in Created' : ~(Position(t)' <= pilot'.done)
  <2>1. \A t \in Created : Position(t) \in Nat \ {0}
    BY <1>1, <1>2, PositionFits DEF PilotHolds
  <2>2. pilot'.done = 0
    BY <1>1, <1>3 DEF PilotHolds
  <2> QED BY <1>4, <2>1, <2>2
<1>8. PilotHolds'
  BY <1>1, <1>2, <1>3, <1>5, <1>6, <1>7 DEF PilotHolds, Writing, RerunConverges
<1> QED BY <1>1, <1>8, ExtrasStay

\* The frame of a step within a plan: the pilot's stage and count.
LEMMA WorkStays ==
  ASSUME PilotInv, pilot.pc \in Writing, UNCHANGED <<base, pilots>>,
         NEW pc \in Writing \cup {"done"}, NEW d \in Nat,
         pilot' = [pilot EXCEPT !.pc = pc, !.done = d]
  PROVE  /\ pilot' \in PilotRecord /\ pilot'.pc = pc /\ pilot'.done = d
         /\ pilot'.linked = pilot.linked /\ SamePlan
         /\ pilots' \in 0..MaxPilots /\ PlanHolds' /\ StoredHolds'
<1>1. pilot \in PilotRecord /\ PlanHolds /\ StoredHolds /\ pilots \in 0..MaxPilots
  BY DEF PilotInv, PilotHolds, Writing
<1>2. \A p \in PilotRecord :
        LET q == [p EXCEPT !.pc = pc, !.done = d]
        IN  /\ q \in PilotRecord /\ q.pc = pc /\ q.done = d /\ q.linked = p.linked
            /\ q.archive = p.archive /\ q.group = p.group
            /\ q.target = p.target /\ q.created = p.created /\ q.stored = p.stored
  BY DEF PilotRecord, Writing
<1>3. /\ pilot' \in PilotRecord /\ pilot'.pc = pc /\ pilot'.done = d
      /\ pilot'.linked = pilot.linked /\ SamePlan
  BY <1>1, <1>2 DEF SamePlan
<1>4. PlanHolds'
  BY <1>1, <1>3, PlanStays DEF PlanHolds, SamePlan, Supports
<1>5. StoredHolds'
  BY <1>1, <1>3 DEF StoredHolds, SamePlan, Room
<1> QED BY <1>1, <1>3, <1>4, <1>5

LEMMA WriteExtrasKeeps ==
  ASSUME PilotInv, WriteExtras
  PROVE  ExtrasHold' /\ PilotHolds'
<1> USE DEF PilotInv
<1> DEFINE d == pilot.done + ChunkSize
<1>1. /\ pilot.pc = "children" /\ UNCHANGED <<base, chains, pilots>>
      /\ pilot' = [pilot EXCEPT !.done = d]
      /\ extra' = [i \in Slots |->
           LET ts == {t \in Chunk : Ordinal(t) = i}
           IN  IF ts = {} THEN extra[i]
               ELSE LET t == CHOOSE t \in ts : TRUE
                    IN  [raw |-> IF extra[i] = NoRow THEN t ELSE extra[i].raw, text |-> t]]
  BY DEF WriteExtras, baseVars
<1>2. /\ pilot \in PilotRecord /\ PlanHolds /\ StoredHolds /\ RowsHold /\ PilotHolds /\ ExtrasHold
      /\ \A t \in Created : Position(t) <= pilot.done => Written(t)
      /\ pilot.done \in Nat /\ ChunkSize \in Nat /\ d \in Nat
  BY <1>1, IngestAssumption DEF PilotHolds, Writing, PilotRecord
<1>3. pilot' = [pilot EXCEPT !.pc = "children", !.done = d]
  <2> HIDE DEF d
  <2> QED BY <1>1, <1>2 DEF PilotRecord
<1> HIDE DEF d
<1>4. /\ pilot' \in PilotRecord /\ pilot'.pc = "children" /\ pilot'.done = d
      /\ pilot'.linked = pilot.linked /\ SamePlan
      /\ pilots' \in 0..MaxPilots /\ PlanHolds' /\ StoredHolds'
  BY <1>1, <1>2, <1>3, WorkStays DEF Writing
<1>5. /\ \A t \in Created : /\ Ordinal(t) \in Slots /\ Ordinal(t) < Room(pilots)
                            /\ pilot.stored[Ordinal(t)] # NoRow => pilot.stored[Ordinal(t)].raw = t
      /\ \A t, u \in Created : Ordinal(t) = Ordinal(u) => t = u
  BY <1>2, OrdinalsFit
<1>6. ASSUME NEW t \in Created, extra[Ordinal(t)] # NoRow
      PROVE  extra[Ordinal(t)].raw = t
  <2>1. CASE pilot.stored[Ordinal(t)] # NoRow
    BY <1>2, <1>5, <1>6, <2>1 DEF RowsHold
  <2>2. CASE pilot.stored[Ordinal(t)] = NoRow
    <3>1. PICK u \in Created : Ordinal(u) = Ordinal(t) /\ extra[Ordinal(t)].raw = u
      BY <1>2, <1>5, <1>6, <2>2 DEF RowsHold
    <3> QED BY <1>5, <3>1
  <2> QED BY <2>1, <2>2
<1>7. ASSUME NEW t \in Chunk
      PROVE  extra'[Ordinal(t)] = [raw |-> t, text |-> t] /\ t \in Created
  <2> DEFINE i == Ordinal(t)
             ts == {u \in Chunk : Ordinal(u) = i}
  <2>1. t \in Created /\ \A u \in Chunk : u \in Created
    BY DEF Chunk
  <2>2. i \in Slots /\ ts = {t}
    BY <1>5, <2>1
  <2>3. extra'[i] = LET v == CHOOSE v \in ts : TRUE
                    IN  [raw |-> IF extra[i] = NoRow THEN v ELSE extra[i].raw, text |-> v]
    BY <1>1, <2>2
  <2>4. (CHOOSE v \in ts : TRUE) = t
    <3> HIDE DEF ts
    <3>1. (CHOOSE v \in ts : TRUE) \in ts
      BY <2>2
    <3> QED BY <2>2, <3>1
  <2>5. extra'[i] = [raw |-> IF extra[i] = NoRow THEN t ELSE extra[i].raw, text |-> t]
    BY <2>3, <2>4
  <2> QED BY <1>6, <2>1, <2>5
<1>8. ASSUME NEW i \in Slots, \A t \in Chunk : Ordinal(t) # i
      PROVE  extra'[i] = extra[i]
  BY <1>1, <1>8
<1>9. \A t \in Created : t \in Texts /\ [raw |-> t, text |-> t] \in ExtraRow
                         /\ [raw |-> t, text |-> t] # NoRow
  BY <1>2, PositionFits, IngestAssumption DEF ExtraRow
<1>10. ASSUME NEW i \in Slots
       PROVE  /\ extra'[i] \in ExtraRow \cup {NoRow}
              /\ extra[i] # NoRow => extra'[i] # NoRow /\ extra'[i].raw = extra[i].raw
              /\ extra'[i] # NoRow => extra'[i].text = extra'[i].raw /\ i < Room(pilots)
              /\ extra'[i] # NoRow /\ extra[i] = NoRow =>
                   \E t \in Created : Ordinal(t) = i /\ extra'[i].raw = t
  <2>1. CASE \E t \in Chunk : Ordinal(t) = i
    <3>1. PICK t \in Chunk : Ordinal(t) = i
      BY <2>1
    <3>2. extra'[i] = [raw |-> t, text |-> t] /\ t \in Created
      BY <1>7, <3>1
    <3>3. extra'[i].raw = t /\ extra'[i].text = t
      BY <3>2
    <3> QED BY <1>5, <1>6, <1>9, <3>1, <3>2, <3>3
  <2>2. CASE \A t \in Chunk : Ordinal(t) # i
    BY <1>2, <1>8, <2>2 DEF ExtrasHold
  <2> QED BY <2>1, <2>2
<1>11. extra' \in [Slots -> ExtraRow \cup {NoRow}]
  BY <1>1, <1>10
<1>12. ExtrasHold'
  <2>1. \A r \in ArchiveRows : chains[r] # NoRow => Child(chains[r], r)'
    BY <1>1, <1>2, <1>10 DEF ExtrasHold, Child
  <2> QED BY <1>1, <1>2, <1>10, <1>11, <2>1 DEF ExtrasHold, Room
<1>13. RowsHold'
  <2>1. /\ Created' = Created /\ Planned' = Planned /\ pilot'.stored = pilot.stored
        /\ \A t : Ordinal(t)' = Ordinal(t)
    BY <1>4, PlanStays DEF SamePlan
  <2>2. \A i \in Slots : pilot.stored[i] # NoRow =>
          extra'[i] # NoRow /\ extra'[i].raw = pilot.stored[i].raw
    BY <1>2, <1>10 DEF RowsHold
  <2>3. ASSUME NEW i \in Slots, extra'[i] # NoRow, pilot.stored[i] = NoRow
        PROVE  \E t \in Created : Ordinal(t) = i /\ extra'[i].raw = t
    <3>1. CASE extra[i] = NoRow
      BY <1>10, <2>3, <3>1
    <3>2. CASE extra[i] # NoRow
      BY <1>2, <1>10, <2>3, <3>2 DEF RowsHold
    <3> QED BY <3>1, <3>2
  <2> QED BY <1>1, <1>2, <1>4, <2>1, <2>2, <2>3 DEF RowsHold
<1>14. \A t \in Created' : Position(t)' <= pilot'.done => Written(t)'
  <2>1. ASSUME NEW t \in Created, Position(t) <= d
        PROVE  extra'[Ordinal(t)] # NoRow /\ extra'[Ordinal(t)].raw = t
    <3>1. CASE Position(t) <= pilot.done
      <4>1. Written(t) /\ Ordinal(t) \in Slots
        BY <1>2, <1>5, <3>1
      <4> QED BY <1>10, <4>1 DEF Written
    <3>2. CASE ~(Position(t) <= pilot.done)
      <4>1. Position(t) \in Nat
        BY <1>2, PositionFits
      <4>2. t \in Chunk
        BY <1>2, <2>1, <3>2, <4>1 DEF Chunk, d
      <4>3. extra'[Ordinal(t)] = [raw |-> t, text |-> t]
        BY <1>7, <4>2
      <4> QED BY <1>9, <4>3
    <3> QED BY <3>1, <3>2
  <2> QED BY <1>4, <2>1, PlanStays DEF Written
<1>15. PilotHolds'
  BY <1>4, <1>13, <1>14 DEF PilotHolds, Writing, RerunConverges
<1> QED BY <1>12, <1>15

\* A chain goes to the child of its row's group, whose representative is of its lineage.
Leads(r, t, u) == \A raw : Accepted(u, raw) => Attributed(r, t, raw)
LEMMA ChildIs ==
  ASSUME PlanHolds, NEW r \in Planned
  PROVE  /\ r \in ArchiveRows
         /\ \E t \in Texts, u \in Texts :
              /\ Leads(r, t, u)
              /\ \/ u \in Created /\ ChildOf(r) = <<"extra", Ordinal(u), t>>
                 \/ \E i \in Slots : ChildOf(r) = <<"base", i, t>> /\ Supports(i, u)
<1> DEFINE a == pilot.archive
           g == pilot.group
           q == g[r]
<1>1. /\ a \in Archives /\ g \in Groupings(a) /\ r \in DOMAIN a /\ q # NoRow
      /\ pilot.target[q] # Refused
  BY DEF PlanHolds, Planned
<1>2. g \in [DOMAIN a -> DOMAIN a \cup {NoRow}] /\ DOMAIN a \subseteq ArchiveRows
      /\ a \in [DOMAIN a -> Texts]
  BY <1>1, ArchiveFits
<1>3. q \in Heads(g) /\ q \in DOMAIN a
  BY <1>1, <1>2 DEF Heads
<1>4. a[r] \in Texts /\ a[q] \in Texts /\ r \in ArchiveRows
  BY <1>1, <1>2, <1>3
<1>5. Leads(r, a[r], a[q])
  <2>1. q \in Lineage[a][r]
    BY <1>1, RepresentativeIsKin
  <2> HIDE DEF a, q
  <2> QED BY <1>1, <2>1 DEF Leads, Attributed
<1>6. CASE pilot.target[q] = New
  <2>1. q \in NewHeads(pilot.target)
    BY <1>3, <1>6 DEF PlanHolds, NewHeads
  <2>2. a[q] \in Created
    BY <2>1 DEF PlanHolds
  <2>3. ChildOf(r) = <<"extra", Ordinal(a[q]), a[r]>>
    BY <1>6 DEF ChildOf
  <2> HIDE DEF a, q
  <2> QED BY <1>4, <1>5, <2>2, <2>3
<1>7. CASE pilot.target[q] # New
  <2>1. PICK i \in Slots : pilot.target[q] = <<"base", i>> /\ Supports(i, a[q])
    BY <1>1, <1>3, <1>7 DEF PlanHolds
  <2>2. ChildOf(r) = <<"base", i, a[r]>>
    BY <1>7, <2>1 DEF ChildOf
  <2> HIDE DEF a, q
  <2> QED BY <1>4, <1>5, <2>1, <2>2
<1> QED BY <1>4, <1>6, <1>7

\* Once the children are written, a chain may be put on the child the plan has for it.
LEMMA ChildSupports ==
  ASSUME PilotHolds, PlanHolds, StoredHolds, \A t \in Created : Written(t), NEW r \in Planned
  PROVE  /\ ChildOf(r) \in SlotChain /\ ChildOf(r) # NoRow
         /\ Child(ChildOf(r), r)
<1>1. PICK t \in Texts, u \in Texts :
        /\ Leads(r, t, u)
        /\ \/ u \in Created /\ ChildOf(r) = <<"extra", Ordinal(u), t>>
           \/ \E i \in Slots : ChildOf(r) = <<"base", i, t>> /\ Supports(i, u)
  BY ChildIs
<1>2. \A chain \in SlotChain : chain # NoRow
  <2>1. Slots \subseteq Nat
    BY RoomGrows
  <2> QED BY <2>1, IngestAssumption DEF SlotChain
<1>3. CASE u \in Created /\ ChildOf(r) = <<"extra", Ordinal(u), t>>
  <2>1. Ordinal(u) \in Slots
    BY <1>3, OrdinalsFit
  <2>2. extra[Ordinal(u)] # NoRow /\ extra[Ordinal(u)].raw = u
    BY <1>3 DEF Written
  <2>3. Attributed(r, t, extra[Ordinal(u)].raw)
    BY <1>1, <2>2 DEF Leads, Accepted
  <2>4. ChildOf(r) \in SlotChain
    BY <1>3, <2>1 DEF SlotChain
  <2> QED BY <1>2, <1>3, <2>1, <2>2, <2>3, <2>4 DEF Child
<1>4. CASE \E i \in Slots : ChildOf(r) = <<"base", i, t>> /\ Supports(i, u)
  <2>1. PICK i \in Slots : ChildOf(r) = <<"base", i, t>> /\ Supports(i, u)
    BY <1>4
  <2>2. base[i] # NoRow /\ Attributed(r, t, base[i].raw)
    BY <1>1, <2>1 DEF Leads, Supports
  <2>3. ChildOf(r) \in SlotChain
    BY <2>1 DEF SlotChain
  <2> QED BY <1>2, <2>1, <2>2, <2>3 DEF Child
<1> QED BY <1>1, <1>3, <1>4

LEMMA EndChildrenKeeps ==
  ASSUME PilotInv, EndChildren
  PROVE  ExtrasHold' /\ PilotHolds'
<1> USE DEF PilotInv
<1>1. /\ pilot.pc = "children" /\ pilot.done >= Len(pilot.created)
      /\ UNCHANGED <<base, extra, chains, pilots>>
      /\ pilot' = [pilot EXCEPT !.pc = "chains", !.done = 0]
  BY DEF EndChildren, PilotTo, AfterChildren, baseVars
<1>2. /\ pilot \in PilotRecord /\ PlanHolds /\ StoredHolds /\ RowsHold
      /\ \A t \in Created : Position(t) <= pilot.done => Written(t)
      /\ pilot.done \in Nat
  BY <1>1 DEF PilotHolds, Writing, PilotRecord
<1>3. /\ pilot' \in PilotRecord /\ pilot'.pc = "chains" /\ pilot'.done = 0
      /\ pilot'.linked = pilot.linked /\ SamePlan
      /\ pilots' \in 0..MaxPilots /\ PlanHolds' /\ StoredHolds'
  BY <1>1, WorkStays DEF Writing
<1>4. \A t \in Created : Written(t)
  BY <1>1, <1>2, PositionFits
<1>5. RowsHold' /\ \A t \in Created' : Written(t)'
  <2>1. RowsHold'
    BY <1>1, <1>2, <1>3, PlanStays DEF RowsHold, SamePlan
  <2>2. \A t \in Created' : Written(t)'
    BY <1>1, <1>3, <1>4, PlanStays DEF Written
  <2> QED BY <2>1, <2>2
<1>6. \A k \in DOMAIN ChainOrder' : ~(k <= pilot'.done)
  <2>1. \A k \in DOMAIN ChainOrder : ~(k <= 0)
    BY ChainOrderLists
  <2> QED BY <1>3, <2>1, PlanStays
<1>7. PilotHolds'
  BY <1>3, <1>5, <1>6 DEF PilotHolds, Writing, RerunConverges
<1> QED BY <1>1, <1>7, ExtrasStay

LEMMA WriteChainsKeeps ==
  ASSUME PilotInv, WriteChains
  PROVE  ExtrasHold' /\ PilotHolds' /\ \A r \in Planned : chains[r] # NoRow => chains'[r] # NoRow
<1> USE DEF PilotInv
<1> DEFINE d == pilot.done + ChunkSize
           rows == {ChainOrder[k] : k \in {n \in DOMAIN ChainOrder : pilot.done < n /\ n <= d}}
<1>1. /\ pilot.pc = "chains" /\ UNCHANGED <<base, extra, pilots>>
      /\ pilot' = [pilot EXCEPT !.done = d]
      /\ chains' = [r \in ArchiveRows |-> IF r \in rows THEN ChildOf(r) ELSE chains[r]]
  BY DEF WriteChains, baseVars
<1>2. /\ pilot \in PilotRecord /\ PlanHolds /\ StoredHolds /\ RowsHold /\ PilotHolds /\ ExtrasHold
      /\ \A t \in Created : Written(t)
      /\ \A k \in DOMAIN ChainOrder : k <= pilot.done => chains[ChainOrder[k]] = ChildOf(ChainOrder[k])
      /\ pilot.done \in Nat /\ ChunkSize \in Nat /\ d \in Nat
  BY <1>1, IngestAssumption DEF PilotHolds, Writing, PilotRecord
<1>3. pilot' = [pilot EXCEPT !.pc = "chains", !.done = d]
  <2> HIDE DEF d
  <2> QED BY <1>1, <1>2 DEF PilotRecord
<1>4. /\ \A r \in rows : r \in Planned
      /\ \A k \in DOMAIN ChainOrder : k \in Nat /\ ChainOrder[k] \in Planned
      /\ \A k \in DOMAIN ChainOrder : k <= d /\ ~(k <= pilot.done) => ChainOrder[k] \in rows
  BY <1>2, ChainOrderLists
<1> HIDE DEF d, rows
<1>5. /\ pilot' \in PilotRecord /\ pilot'.pc = "chains" /\ pilot'.done = d
      /\ pilot'.linked = pilot.linked /\ SamePlan
      /\ pilots' \in 0..MaxPilots /\ PlanHolds' /\ StoredHolds'
  BY <1>1, <1>2, <1>3, WorkStays DEF Writing
<1>6. \A r \in Planned : /\ ChildOf(r) \in SlotChain /\ ChildOf(r) # NoRow
                         /\ Child(ChildOf(r), r)
  BY <1>2, ChildSupports
<1>7. \A r \in ArchiveRows :
        /\ r \in rows => chains'[r] = ChildOf(r)
        /\ r \notin rows => chains'[r] = chains[r]
  BY <1>1
<1>8. ExtrasHold'
  <2>1. \A r \in ArchiveRows : chains'[r] # NoRow => Child(chains'[r], r)
    BY <1>2, <1>4, <1>6, <1>7 DEF ExtrasHold
  <2>2. \A chain, r : Child(chain, r) <=> Child(chain, r)'
    BY <1>1 DEF Child
  <2>3. \A r \in ArchiveRows : chains'[r] # NoRow => Child(chains[r], r)'
    <3>1. ASSUME NEW r \in ArchiveRows, chains'[r] # NoRow
          PROVE  Child(chains[r], r)'
      <4>1. PICK chain : chain = chains'[r]
        OBVIOUS
      <4>2. Child(chain, r)
        BY <2>1, <3>1, <4>1
      <4>3. Child(chain, r)'
        BY <2>2, <4>2
      <4> QED BY <4>1, <4>3 DEF Child
    <3> QED BY <3>1
  <2>4. chains' \in [ArchiveRows -> SlotChain \cup {NoRow}]
    <3>1. \A r \in ArchiveRows : chains'[r] \in SlotChain \cup {NoRow}
      BY <1>2, <1>4, <1>6, <1>7 DEF ExtrasHold
    <3> QED BY <1>1, <3>1
  <2> QED BY <1>1, <1>2, <2>3, <2>4 DEF ExtrasHold, Room
<1>9. RowsHold'
  <2>1. \A r \in ArchiveRows \ Planned : chains'[r] = chains[r]
    BY <1>4, <1>7
  <2>2. \A r \in ArchiveRows \ Planned : chains'[r] # NoRow => r \in pilot.linked
    BY <1>2, <2>1 DEF RowsHold
  <2>3. Created' = Created /\ Planned' = Planned /\ \A t : Ordinal(t)' = Ordinal(t)
    BY <1>5, PlanStays
  <2> QED BY <1>1, <1>2, <1>5, <2>2, <2>3 DEF RowsHold, SamePlan
<1>10. \A t \in Created' : Written(t)'
  BY <1>1, <1>2, <1>5, PlanStays DEF Written
<1>11. \A k \in DOMAIN ChainOrder' :
         k <= pilot'.done => chains'[ChainOrder'[k]] = (ChildOf(ChainOrder[k]))'
  <2>1. ASSUME NEW k \in DOMAIN ChainOrder, k <= d
        PROVE  chains'[ChainOrder[k]] = ChildOf(ChainOrder[k])
    <3>1. ChainOrder[k] \in Planned /\ ChainOrder[k] \in ArchiveRows
      BY <1>2, <1>4, PlannedAreRows
    <3>2. CASE k <= pilot.done
      BY <1>2, <1>7, <3>1, <3>2
    <3>3. CASE ~(k <= pilot.done)
      BY <1>4, <1>7, <2>1, <3>1, <3>3
    <3> QED BY <3>2, <3>3
  <2> QED BY <1>5, <2>1, PlanStays
<1>12. PilotHolds'
  BY <1>5, <1>9, <1>10, <1>11 DEF PilotHolds, Writing, RerunConverges
<1>13. \A r \in Planned : chains[r] # NoRow => chains'[r] # NoRow
  BY <1>2, <1>6, <1>7, PlannedAreRows
<1> QED BY <1>8, <1>12, <1>13

LEMMA EndChainsKeeps ==
  ASSUME PilotInv, EndChains
  PROVE  ExtrasHold' /\ PilotHolds'
<1> USE DEF PilotInv
<1>1. /\ pilot.pc = "chains" /\ pilot.done >= Len(ChainOrder)
      /\ UNCHANGED <<base, extra, chains, pilots>>
      /\ pilot' = [pilot EXCEPT !.pc = "stale", !.done = 0]
  BY DEF EndChains, PilotTo, AfterChildren, baseVars
<1>2. /\ pilot \in PilotRecord /\ PlanHolds /\ StoredHolds /\ RowsHold
      /\ \A t \in Created : Written(t)
      /\ \A k \in DOMAIN ChainOrder : k <= pilot.done => chains[ChainOrder[k]] = ChildOf(ChainOrder[k])
      /\ pilot.done \in Nat
  BY <1>1 DEF PilotHolds, Writing, PilotRecord
<1>3. /\ pilot' \in PilotRecord /\ pilot'.pc = "stale" /\ pilot'.done = 0
      /\ pilot'.linked = pilot.linked /\ SamePlan
      /\ pilots' \in 0..MaxPilots /\ PlanHolds' /\ StoredHolds'
  BY <1>1, WorkStays DEF Writing
<1>4. \A r \in Planned : chains[r] = ChildOf(r)
  <2>1. \A k \in DOMAIN ChainOrder : k <= pilot.done
    BY <1>1, <1>2, ChainOrderLists
  <2> QED BY <1>2, <2>1, ChainOrderLists
<1>5. RowsHold'
  BY <1>1, <1>2, <1>3, PlanStays DEF RowsHold, SamePlan
<1>6. \A t \in Created' : Written(t)'
  BY <1>1, <1>2, <1>3, PlanStays DEF Written
<1>7. \A r \in Planned' : chains'[r] = ChildOf(r)'
  BY <1>1, <1>3, <1>4, PlanStays
<1>8. PilotHolds'
  BY <1>3, <1>5, <1>6, <1>7 DEF PilotHolds, Writing, RerunConverges
<1> QED BY <1>1, <1>8, ExtrasStay

\* What the deletion at the end of a run leaves: the plan, and nothing else.
LEMMA DeleteLeavesThePlan ==
  ASSUME PilotInv, DeleteStale
  PROVE  /\ \A r \in ArchiveRows : chains'[r] = IF r \in Planned THEN ChildOf(r) ELSE NoRow
         /\ \A i \in Slots : extra'[i] = IF \E t \in Created : Ordinal(t) = i THEN extra[i] ELSE NoRow
         /\ \A t \in Created : Written(t) /\ Ordinal(t) \in Slots
<1> USE DEF PilotInv
<1>1. /\ pilot.pc = "stale"
      /\ extra' = [i \in Slots |-> IF i \in Stale THEN NoRow ELSE extra[i]]
      /\ chains' = [r \in ArchiveRows |-> IF r \in pilot.linked \ Planned THEN NoRow
                                          ELSE Cascade(Stale, chains[r])]
  BY DEF DeleteStale
<1>2. /\ PlanHolds /\ StoredHolds /\ RowsHold /\ PilotHolds /\ ExtrasHold
      /\ \A t \in Created : Written(t)
      /\ \A r \in Planned : chains[r] = ChildOf(r)
  BY <1>1 DEF PilotHolds, Writing
<1>3. \A t \in Created : Ordinal(t) \in Slots /\ Ordinal(t) \notin Stale
  BY <1>2, OrdinalsFit DEF Stale
<1>4. ASSUME NEW r \in Planned
      PROVE  chains'[r] = ChildOf(r)
  <2>0. r \in ArchiveRows
    BY <1>2, ChildIs
  <2>1. chains'[r] = Cascade(Stale, ChildOf(r))
    BY <1>1, <1>2, <2>0
  <2>2. ~(ChildOf(r)[1] = "extra" /\ ChildOf(r)[2] \in Stale)
    <3>1. PICK t \in Texts, u \in Texts :
            \/ u \in Created /\ ChildOf(r) = <<"extra", Ordinal(u), t>>
            \/ \E i \in Slots : ChildOf(r) = <<"base", i, t>>
      BY <1>2, ChildIs
    <3>2. CASE u \in Created /\ ChildOf(r) = <<"extra", Ordinal(u), t>>
      BY <1>3, <3>2
    <3>3. CASE \E i \in Slots : ChildOf(r) = <<"base", i, t>>
      <4>1. ChildOf(r)[1] = "base"
        BY <3>3
      <4> QED BY <4>1
    <3> QED BY <3>1, <3>2, <3>3
  <2> QED BY <2>1, <2>2 DEF Cascade
<1>5. ASSUME NEW r \in ArchiveRows, r \notin Planned
      PROVE  chains'[r] = NoRow
  BY <1>1, <1>2, <1>5 DEF RowsHold, Cascade
<1>6. ASSUME NEW i \in Slots
      PROVE  extra'[i] = IF \E t \in Created : Ordinal(t) = i THEN extra[i] ELSE NoRow
  <2>1. CASE \E t \in Created : Ordinal(t) = i
    BY <1>1, <1>3, <2>1
  <2>2. CASE ~ \E t \in Created : Ordinal(t) = i
    <3>1. CASE pilot.stored[i] # NoRow
      <4>1. i \in Stale
        BY <1>2, <2>2, <3>1 DEF Stale, Present, StoredHolds
      <4> QED BY <1>1, <2>2, <4>1
    <3>2. CASE pilot.stored[i] = NoRow
      <4>1. extra[i] = NoRow
        BY <1>2, <2>2, <3>2 DEF RowsHold
      <4> QED BY <1>1, <2>2, <4>1
    <3> QED BY <3>1, <3>2
  <2> QED BY <2>1, <2>2
<1> QED BY <1>2, <1>3, <1>4, <1>5, <1>6

LEMMA DeleteKeeps ==
  ASSUME PilotInv, DeleteStale
  PROVE  ExtrasHold' /\ PilotHolds'
<1> USE DEF PilotInv
<1>1. /\ pilot.pc = "stale" /\ UNCHANGED <<base, pilots>>
      /\ pilot' = [pilot EXCEPT !.pc = "done", !.done = 0]
      /\ DOMAIN extra' = Slots /\ DOMAIN chains' = ArchiveRows
      /\ extra' = [i \in Slots |-> extra'[i]] /\ chains' = [r \in ArchiveRows |-> chains'[r]]
  BY DEF DeleteStale, PilotTo, AfterChildren, baseVars
<1>2. /\ PlanHolds /\ StoredHolds /\ PilotHolds /\ ExtrasHold
      /\ \A t \in Created : Written(t)
  BY <1>1 DEF PilotHolds, Writing
<1>3. /\ pilot' \in PilotRecord /\ pilot'.pc = "done" /\ SamePlan
      /\ pilots' \in 0..MaxPilots /\ PlanHolds' /\ StoredHolds'
  BY <1>1, WorkStays DEF Writing
<1>4. /\ \A r \in ArchiveRows : chains'[r] = IF r \in Planned THEN ChildOf(r) ELSE NoRow
      /\ \A i \in Slots : extra'[i] = IF \E t \in Created : Ordinal(t) = i THEN extra[i] ELSE NoRow
      /\ \A t \in Created : Written(t) /\ Ordinal(t) \in Slots
  BY DeleteLeavesThePlan
<1>5. \A i \in Slots : extra'[i] # NoRow => extra'[i] = extra[i] /\ \E t \in Created : Ordinal(t) = i
  BY <1>4
<1>6. \A t \in Created : /\ extra'[Ordinal(t)] = extra[Ordinal(t)] /\ extra'[Ordinal(t)] # NoRow
                         /\ extra'[Ordinal(t)].raw = t
  BY <1>4 DEF Written
<1>7. \A r \in Planned : /\ ChildOf(r) \in SlotChain /\ ChildOf(r) # NoRow
                         /\ Child(ChildOf(r), r)
  BY <1>2, ChildSupports
<1>8. ExtrasHold'
  <2>1. extra' \in [Slots -> ExtraRow \cup {NoRow}]
    <3>1. \A i \in Slots : extra'[i] \in ExtraRow \cup {NoRow}
      BY <1>2, <1>5 DEF ExtrasHold
    <3> QED BY <1>1, <3>1
  <2>2. chains' \in [ArchiveRows -> SlotChain \cup {NoRow}]
    <3>1. \A r \in ArchiveRows : chains'[r] \in SlotChain \cup {NoRow}
      BY <1>4, <1>7
    <3> QED BY <1>1, <3>1
  <2>3. ASSUME NEW r \in ArchiveRows, chains'[r] # NoRow
        PROVE  Child(chains[r], r)'
    <3>1. r \in Planned /\ chains'[r] = ChildOf(r)
      BY <1>4, <2>3
    <3>2. PICK t \in Texts, u \in Texts :
            /\ Leads(r, t, u)
            /\ \/ u \in Created /\ ChildOf(r) = <<"extra", Ordinal(u), t>>
               \/ \E i \in Slots : ChildOf(r) = <<"base", i, t>> /\ Supports(i, u)
      BY <1>2, <3>1, ChildIs
    <3>3. CASE u \in Created /\ ChildOf(r) = <<"extra", Ordinal(u), t>>
      <4>1. /\ Ordinal(u) \in Slots /\ extra'[Ordinal(u)] # NoRow
            /\ extra'[Ordinal(u)].raw = u
        BY <1>4, <1>6, <3>3
      <4>2. Attributed(r, t, extra'[Ordinal(u)].raw)
        BY <3>2, <4>1 DEF Leads, Accepted
      <4> QED BY <3>1, <3>3, <4>1, <4>2 DEF Child
    <3>4. CASE \E i \in Slots : ChildOf(r) = <<"base", i, t>> /\ Supports(i, u)
      <4>1. PICK i \in Slots : ChildOf(r) = <<"base", i, t>> /\ Supports(i, u)
        BY <3>4
      <4>2. base'[i] # NoRow /\ Attributed(r, t, base'[i].raw)
        BY <1>1, <3>2, <4>1 DEF Leads, Supports
      <4> QED BY <3>1, <4>1, <4>2 DEF Child
    <3> QED BY <3>2, <3>3, <3>4
  <2> QED BY <1>1, <1>2, <1>5, <2>1, <2>2, <2>3 DEF ExtrasHold, Room
<1>9. Present(extra') = {Ordinal(t) : t \in Created}
  <2>1. \A i \in Slots : extra'[i] # NoRow <=> \E t \in Created : Ordinal(t) = i
    BY <1>5, <1>6
  <2>2. \A t \in Created : Ordinal(t) \in Slots
    BY <1>4
  <2> QED BY <1>1, <2>1, <2>2 DEF Present
<1>10. {extra'[i].raw : i \in Present(extra')} = Created
  BY <1>6, <1>9
<1>11. Cardinality(Present(extra')) = Cardinality(Created)
  <2> DEFINE f == [t \in Created |-> Ordinal(t)]
             Q == Present(extra')
  <2>1. \A t, u \in Created : Ordinal(t) = Ordinal(u) => t = u
    BY <1>2, OrdinalsFit
  <2>2. f \in [Created -> Q] /\ IsInjective(f) /\ \A i \in Q : \E t \in Created : f[t] = i
    BY <1>9, <2>1 DEF IsInjective
  <2> HIDE DEF f, Q
  <2>3. f \in Bijection(Created, Q)
    BY <2>2 DEF Bijection, Injection, Surjection
  <2>4. ExistsBijection(Created, Q)
    BY <2>3 DEF ExistsBijection
  <2>5. IsFiniteSet(Created)
    BY <1>2, PositionFits
  <2>6. Cardinality(Q) = Cardinality(Created)
    BY <2>4, <2>5, FS_Bijection
  <2> QED BY <2>6 DEF Q
<1>12. RerunConverges'
  <2>1. Created' = Created /\ Planned' = Planned /\ \A r : ChildOf(r)' = ChildOf(r)
    BY <1>3, PlanStays
  <2>2. \A r \in ArchiveRows : chains'[r] = IF r \in Planned' THEN ChildOf(r)' ELSE NoRow
    BY <1>4, <2>1
  <2> QED BY <1>10, <1>11, <2>1, <2>2 DEF RerunConverges
<1>13. PilotHolds'
  BY <1>3, <1>12 DEF PilotHolds, Writing
<1> QED BY <1>8, <1>13

LEMMA StopPilotKeeps ==
  ASSUME PilotInv, StopPilot
  PROVE  ExtrasHold' /\ PilotHolds'
<1>1. pilot' = Idle /\ UNCHANGED <<base, extra, chains, pilots>>
  BY DEF StopPilot, baseVars
<1>2. Idle \in PilotRecord /\ Idle.pc = "off"
  BY DEF Idle, PilotRecord
<1>3. PilotHolds'
  BY <1>1, <1>2 DEF PilotInv, PilotHolds, RerunConverges, Writing
<1> QED BY <1>1, <1>3, ExtrasStay DEF PilotInv

LEMMA PilotInvNext == PilotInv /\ [IngestNext]_ingestVars => PilotInv'
<1> SUFFICES ASSUME PilotInv, [IngestNext]_ingestVars PROVE PilotInv'
  OBVIOUS
<1>1. BookInv'
  BY BookInvNext DEF PilotInv
<1>2. CASE PassStep
  BY <1>2, PassKeepsPilot
<1>3. CASE PilotStep
  <2>1. ExtrasHold' /\ PilotHolds'
    BY <1>3, PlanPilotKeeps, ReadKeeps, WriteExtrasKeeps, EndChildrenKeeps, WriteChainsKeeps,
       EndChainsKeeps, DeleteKeeps, StopPilotKeeps DEF PilotStep
  <2> QED BY <1>1, <2>1 DEF PilotInv
<1>4. CASE UNCHANGED ingestVars
  <2>1. UNCHANGED <<base, extra, chains, pilot, pilots>> /\ SamePlan
    BY <1>4 DEF ingestVars, SamePlan
  <2>2. ExtrasHold'
    BY <2>1, ExtrasStay DEF PilotInv
  <2>3. PilotHolds'
    BY <2>1, PlanStays DEF PilotInv, PilotHolds, PlanHolds, StoredHolds, RowsHold, Written,
       Supports, Room, RerunConverges, Present, SamePlan
  <2> QED BY <1>1, <2>2, <2>3 DEF PilotInv
<1> QED BY <1>2, <1>3, <1>4 DEF IngestNext

LEMMA PilotInvAlways == IngestSpec => []PilotInv
BY PilotInvInit, PilotInvNext, PTL DEF IngestSpec

\* Every row keeps its type and every chain is on a child that is stored, at every statement
\* of every pass and run (narrator_chains' foreign key).
THEOREM IngestTypeCorrect == IngestSpec => []IngestTypeOK
<1>1. PilotInv => IngestTypeOK
  <2> SUFFICES ASSUME PilotInv PROVE IngestTypeOK
    OBVIOUS
  <2>1. /\ base \in [Slots -> BaseRow \cup {NoRow}] /\ extra \in [Slots -> ExtraRow \cup {NoRow}]
        /\ chains \in [ArchiveRows -> SlotChain \cup {NoRow}]
    BY DEF PilotInv, BookInv, ExtrasHold
  <2>2. ASSUME NEW r \in ArchiveRows, chains[r] # NoRow
        PROVE  chains[r] \in {<<c[1], c[2], t>> : c \in Children, t \in Texts}
    <3>1. Child(chains[r], r)
      BY <2>2 DEF PilotInv, ExtrasHold
    <3>2. PICK i \in Slots, t \in Texts :
            \/ chains[r] = <<"base", i, t>> /\ base[i] # NoRow
            \/ chains[r] = <<"extra", i, t>> /\ extra[i] # NoRow
      BY <3>1 DEF Child
    <3>3. ASSUME NEW table \in {"base", "extra"}, <<table, i>> \in Children,
                 chains[r] = <<table, i, t>>
          PROVE  chains[r] \in {<<c[1], c[2], v>> : c \in Children, v \in Texts}
      <4> DEFINE c == <<table, i>>
      <4>1. c \in Children /\ c[1] = table /\ c[2] = i
        BY <3>3
      <4> QED BY <3>3, <4>1
    <3>4. \/ chains[r] = <<"base", i, t>> /\ <<"base", i>> \in Children
          \/ chains[r] = <<"extra", i, t>> /\ <<"extra", i>> \in Children
      BY <2>1, <3>2 DEF Children, Present
    <3> QED BY <3>3, <3>4
  <2>3. chains \in [ArchiveRows -> {<<c[1], c[2], t>> : c \in Children, t \in Texts} \cup {NoRow}]
    BY <2>1, <2>2
  <2> QED BY <2>1, <2>3 DEF IngestTypeOK, PilotInv, BookInv, PassHolds, PilotHolds, PilotRecord
<1> QED BY <1>1, PilotInvAlways, PTL

\* Narrations are never mixed (planChildWrites, buildSanadsetPlan): a child's fields derive
\* from its own immutable text, and a chain is on a child whose text the matcher accepts for
\* a row of the chain's lineage, in an archive with the text its narrators are of.
THEOREM NarrationsApart == IngestSpec => []NarrationsStayApart
<1>1. PilotInv => NarrationsStayApart
  <2> SUFFICES ASSUME PilotInv PROVE NarrationsStayApart
    OBVIOUS
  <2>1. \A i \in Present(extra) : extra[i].text = extra[i].raw
    BY DEF PilotInv, ExtrasHold, Present
  <2>2. ASSUME NEW r \in ArchiveRows, chains[r] # NoRow
        PROVE  LET table == IF chains[r][1] = "base" THEN base ELSE extra
               IN  Attributed(r, chains[r][3], table[chains[r][2]].raw)
    <3>1. Child(chains[r], r)
      BY <2>2 DEF PilotInv, ExtrasHold
    <3>2. PICK i \in Slots, t \in Texts :
            \/ chains[r] = <<"base", i, t>> /\ Attributed(r, t, base[i].raw)
            \/ chains[r] = <<"extra", i, t>> /\ Attributed(r, t, extra[i].raw)
      BY <3>1 DEF Child
    <3>3. CASE chains[r] = <<"base", i, t>> /\ Attributed(r, t, base[i].raw)
      BY <3>3
    <3>4. CASE chains[r] = <<"extra", i, t>> /\ Attributed(r, t, extra[i].raw)
      <4>1. chains[r][1] = "extra" /\ chains[r][2] = i /\ chains[r][3] = t /\ "extra" # "base"
        BY <3>4
      <4> QED BY <3>4, <4>1
    <3> QED BY <3>2, <3>3, <3>4
  <2> QED BY <2>1, <2>2 DEF NarrationsStayApart
<1> QED BY <1>1, PilotInvAlways, PTL

\* A finished run of the pilot leaves its plan and nothing of the plans before it, wherever
\* those stopped (executeIngestPlan, deleteCorpusRows).
THEOREM RerunsConverge == IngestSpec => []RerunConverges
<1>1. PilotInv => RerunConverges
  BY DEF PilotInv, PilotHolds
<1> QED BY <1>1, PilotInvAlways, PTL

\* No chain is lost because the child it was on went stale (planChainWrites,
\* narrator_chains ... ON DELETE CASCADE).
THEOREM OnlyRefusedGo == IngestSpec => OnlyRefusedChainsGo
<1> DEFINE Step == \A r \in ArchiveRows : chains[r] # NoRow /\ chains'[r] = NoRow => r \notin Planned
<1>1. PilotInv /\ [IngestNext]_ingestVars => [Step]_ingestVars
  <2> SUFFICES ASSUME PilotInv, IngestNext PROVE Step
    OBVIOUS
  <2>1. CASE WriteChains
    BY <2>1, WriteChainsKeeps
  <2>2. CASE DeleteStale
    <3>1. \A r \in Planned : ChildOf(r) # NoRow
      BY <2>2, ChildSupports DEF PilotInv, PilotHolds, Writing, DeleteStale
    <3> QED BY <2>2, <3>1, DeleteLeavesThePlan
  <2>3. CASE UNCHANGED chains
    BY <2>3
  <2> QED BY <2>1, <2>2, <2>3
       DEF IngestNext, PassStep, StartPass, WriteParent, WriteChildren, WritePair, EndPass,
           StopPass, PilotStep, PlanPilot, ReadStored, WriteExtras, EndChildren, EndChains,
           StopPilot, pilotVars
<1> QED BY <1>1, PilotInvAlways, PTL DEF IngestSpec, OnlyRefusedChainsGo
-----------------------------------------------------------------------------
(* The host: backups, deploys and the ingestion of the corpus together. *)

\* Each step of the checked specification is one of the backups and deploys (kajianq-backup,
\* deploy.sh, db-migrate) or one of the ingestion (sanadset-ingest), with the others at
\* rest, so what is proved of a part holds of it.
THEOREM HostImplementsParts == Spec => BackupSpec /\ ReleaseSpec /\ IngestSpec
<1>1. Init => ReleaseInit /\ IngestInit
  BY DEF Init
<1>2. [Next]_vars => [ReleaseNext]_<<backupVars, releaseVars>> /\ [IngestNext]_ingestVars
  <2> SUFFICES ASSUME [Next]_vars
               PROVE  [ReleaseNext]_<<backupVars, releaseVars>> /\ [IngestNext]_ingestVars
    OBVIOUS
  <2>1. CASE HostNext /\ UNCHANGED ingestVars
    <3>1. /\ Tick => BackupNext
          /\ RestoreSide => BackupNext
          /\ RecordSide => BackupNext
          /\ ReleaseSide => BackupNext
      BY HostAssumption DEF BackupNext, RestoreSide, RecordSide, ReleaseSide
    <3> QED BY <2>1, <3>1 DEF HostNext, ReleaseNext
  <2>2. CASE IngestNext /\ UNCHANGED <<backupVars, releaseVars>>
    BY <2>2
  <2>3. CASE PassStep /\ UNCHANGED <<backupVars, releaseVars>>
    BY <2>3 DEF IngestNext
  <2>4. CASE UNCHANGED vars
    BY <2>4 DEF vars
  <2> QED BY <2>1, <2>2, <2>3, <2>4 DEF Next
<1>3. Spec => ReleaseSpec /\ IngestSpec
  BY <1>1, <1>2, PTL DEF Spec, ReleaseSpec, IngestSpec
<1> QED BY <1>3, DeploysKeepBackups

\* The states of the backups, of the deploys and of the corpus are well typed, whichever of
\* these commands the host runs, and however many.
THEOREM HostTypeCorrect == Spec => []HostTypeOK
<1>1. BackupTypeOK /\ ReleaseTypeOK /\ IngestTypeOK => HostTypeOK
  BY DEF HostTypeOK
<1> QED BY <1>1, HostImplementsParts, BackupTypeCorrect, ReleaseTypeCorrect, IngestTypeCorrect, PTL
=============================================================================
