------------------------------- MODULE Backups -------------------------------
(***************************************************************************)
(* The nightly backup of the conversational store and the restore of an    *)
(* archive into a scratch database.                                        *)
(*                                                                         *)
(*   live       the users of the serving database, minted, erased and      *)
(*              reclaimed while the jobs below run                         *)
(*   run[b]     kajianq-backup.mjs under one label, one step per command   *)
(*   record     /var/lib/kajianq/backup-provenance                         *)
(*   repo       the restic repository                                      *)
(*   restore    kajianq-restore.mjs, one step per command, into scratch    *)
(*                                                                         *)
(* A database is the set of its users: a user stands for the row and its   *)
(* subtree (UserData is the model of the subtree).  A row count of the     *)
(* manifest is the number of users.  The clock counts days; the seconds    *)
(* the record is compared by are the same clock.                           *)
(***************************************************************************)
EXTENDS Integers, FiniteSets

CONSTANTS Users,
          Runs,       \* backup labels, one run each
          KeepDaily,  \* days of the rolling window (30)
          MaxDay,     \* bound on the clock
          MaxFaults,  \* bound on commands that fail and processes killed
          None

ASSUME BackupAssumption ==
  /\ KeepDaily \in Nat \ {0} /\ MaxDay \in Nat /\ MaxFaults \in Nat
  /\ None \notin Users \cup Runs /\ IsFiniteSet(Users)

VARIABLES day, faults,
          live, minted, expired, erased,
          run, record, repo,
          installed,  \* mtime of the installed unit file
          begun,      \* history: unit runs begun since the last recorded outcome
          restore, scratch

store == <<live, minted, expired, erased>>
job == <<run, record, repo, begun>>
target == <<restore, scratch>>
backupVars == <<day, faults, store, job, installed, target>>

Fault == faults < MaxFaults /\ faults' = faults + 1

-----------------------------------------------------------------------------
(* The serving database, meanwhile. *)

Tick == day < MaxDay /\ day' = day + 1 /\ UNCHANGED <<faults, store, job, installed, target>>

Mint(u) ==
  /\ u \notin minted
  /\ live' = live \cup {u} /\ minted' = minted \cup {u}
  /\ UNCHANGED <<expired, erased>>

Expire(u) ==
  /\ u \in minted \ expired
  /\ expired' = expired \cup {u}
  /\ UNCHANGED <<live, minted, erased>>

Erase(u) ==
  /\ u \in live
  /\ live' = live \ {u} /\ erased' = erased \cup {u}
  /\ UNCHANGED <<minted, expired>>

\* RECLAIM_SQL: expired tokens go, and the anonymous users left without one.
Reclaimed(users) == users \ expired

Nightly ==
  /\ Reclaimed(live) # live
  /\ live' = Reclaimed(live)
  /\ UNCHANGED <<minted, expired, erased>>

StoreStep ==
  /\ Nightly \/ \E u \in Users : Mint(u) \/ Expire(u) \/ Erase(u)
  /\ UNCHANGED <<day, faults, job, installed, target>>

-----------------------------------------------------------------------------
(* The backup job. *)

NoRun == [pc |-> "idle", unit |-> FALSE, started |-> 0, dump |-> {}, count |-> 0,
          tmp |-> FALSE]

RunFrame == UNCHANGED <<day, store, installed, target>>
RunTo(b, pc) == run' = [run EXCEPT ![b].pc = pc]
Working == {"start", "dump", "count", "upload", "forget", "clean"}
Active(b) == run[b].pc \in Working

\* A record is written whole, by a rename, or not at all.
Writes(status, started, completed, b) ==
  \/ /\ record' = [status |-> status, started |-> started, completed |-> completed, run |-> b]
     /\ UNCHANGED faults
  \/ Fault /\ UNCHANGED record

\* systemd starts the unit, which does not run twice at once; its ExecStartPre puts
\* down the pending marker or the run does not start.
StartUnit(b) ==
  /\ run[b].pc = "idle"
  /\ \A c \in Runs : Active(c) => ~run[c].unit
  /\ run' = [run EXCEPT ![b].pc = "start", ![b].unit = TRUE, ![b].started = day]
  /\ record' = [status |-> "pending", started |-> 0, completed |-> 0, run |-> b]
  /\ begun' = begun \cup {b}
  /\ UNCHANGED <<faults, repo>> /\ RunFrame

\* An operator starts the same script as root.
StartByHand(b) ==
  /\ run[b].pc = "idle"
  /\ run' = [run EXCEPT ![b].pc = "start", ![b].started = day]
  /\ UNCHANGED <<faults, record, repo, begun>> /\ RunFrame

\* The in-progress record; a record that cannot be written does not stop the run.
\* The private directory is made once the configuration was accepted.
Begin(b) ==
  /\ run[b].pc = "start"
  /\ Writes("running", run[b].started, 0, b)
  /\ run' = [run EXCEPT ![b].pc = "dump", ![b].tmp = TRUE]
  /\ UNCHANGED <<repo, begun>> /\ RunFrame

\* pg_dump reads one snapshot of the database.
Dump(b) ==
  /\ run[b].pc = "dump"
  /\ run' = [run EXCEPT ![b].pc = "count", ![b].dump = live]
  /\ UNCHANGED <<faults, record, repo, begun>> /\ RunFrame

\* The manifest's row counts, read by a connection of their own.
CountTables(b) ==
  /\ run[b].pc = "count"
  /\ run' = [run EXCEPT ![b].pc = "upload", ![b].count = Cardinality(live)]
  /\ UNCHANGED <<faults, record, repo, begun>> /\ RunFrame

Snapshot(b) == [label |-> b, day |-> day, dump |-> run[b].dump, count |-> run[b].count]

Upload_Unchecked(b) ==
  /\ run[b].pc = "upload"
  /\ \/ repo' = repo \cup {Snapshot(b)} /\ UNCHANGED faults
     \/ Fault /\ UNCHANGED repo
  /\ run' = [run EXCEPT ![b].pc = "forget", ![b].dump = {}, ![b].count = 0]
  /\ UNCHANGED <<record, begun>> /\ RunFrame

Upload(b) ==
  /\ run[b].pc = "upload"
  /\ repo' = repo \cup {Snapshot(b)}
  /\ run' = [run EXCEPT ![b].pc = "forget", ![b].dump = {}, ![b].count = 0]
  /\ UNCHANGED <<faults, record, begun>> /\ RunFrame

\* restic forget applies the policy within groups of one host and one set of paths,
\* and both paths of a snapshot name its run's private directory and label.
Group(s) == {t \in repo : t.label = s.label}
Kept(s) == /\ \A t \in Group(s) : t.day = s.day => t = s
           /\ Cardinality({t.day : t \in {x \in Group(s) : x.day > s.day}}) < KeepDaily

Forget(b) ==
  /\ run[b].pc = "forget"
  /\ repo' = {s \in repo : Kept(s)}
  /\ RunTo(b, "clean")
  /\ UNCHANGED <<faults, record, begun>> /\ RunFrame

\* The process ends through its exit handler, which writes the outcome; systemd
\* removes what a unit run left in its private temporary directory.
Exits(b, pc, tmp) ==
  run' = [run EXCEPT ![b] = [NoRun EXCEPT !.pc = pc, !.tmp = tmp /\ ~run[b].unit]]

Finish(b) ==
  /\ run[b].pc = "clean"
  /\ Exits(b, "done", FALSE)
  /\ Writes("ok", run[b].started, day, b)
  /\ begun' = IF record' = record THEN begun ELSE {}
  /\ UNCHANGED repo /\ RunFrame

\* The configuration is refused or a command fails: fail() calls process.exit, which
\* runs the exit handler and no finally block.
FailRun(b) ==
  /\ run[b].pc \in {"start", "dump", "count", "upload", "forget"} /\ Fault
  /\ Exits(b, "failed", run[b].tmp)
  /\ record' = [status |-> "failed", started |-> run[b].started, completed |-> day, run |-> b]
  /\ begun' = {}
  /\ UNCHANGED repo /\ RunFrame

\* SIGKILL, the unit's start timeout, a power cut: nothing of the process runs.
Kill(b) ==
  /\ Active(b) /\ Fault
  /\ Exits(b, "killed", run[b].tmp)
  /\ UNCHANGED <<record, repo, begun>> /\ RunFrame

\* The host configuration installs a changed unit definition.
InstallUnit ==
  /\ installed < day /\ installed' = day
  /\ UNCHANGED <<day, faults, store, job, target>>

RunStep(b) == \/ StartUnit(b) \/ StartByHand(b) \/ Begin(b) \/ Dump(b) \/ CountTables(b)
              \/ Upload(b) \/ Forget(b) \/ Finish(b) \/ FailRun(b) \/ Kill(b)

\* backup-provenance.sh: the marker "pending", "running", a failure, and a success
\* older than the unit are refused.
Proven ==
  /\ record.status = "ok"
  /\ record.completed >= record.started
  /\ record.completed >= installed

-----------------------------------------------------------------------------
(* The restore.  The scratch database is never the live one. *)

NoRestore == [pc |-> "idle", from |-> None, named |-> None, skip |-> FALSE]
RestoreTo(pc) == restore' = [restore EXCEPT !.pc = pc]
RestoreFrame == UNCHANGED <<day, store, job, installed>>
Archive == CHOOSE s \in repo : s.label = restore.from

\* The operator names a label and at most one user; only the drill skips erasure.
\* A later restore starts from its archive again.
StartRestore ==
  /\ restore.pc \notin {"load", "verify", "reclaim", "erase"}
  /\ \E s \in repo, u \in Users \cup {None}, skip \in BOOLEAN :
       restore' = [pc |-> "load", from |-> s.label, named |-> u, skip |-> skip]
  /\ UNCHANGED <<scratch, faults>> /\ RestoreFrame

\* restic restore, the hash check, pg_restore --clean.
LoadArchive ==
  /\ restore.pc = "load"
  /\ scratch' = Archive.dump
  /\ RestoreTo("verify")
  /\ UNCHANGED faults /\ RestoreFrame

\* verifyRestore: every table of the manifest must match exactly.
VerifyCounts ==
  /\ restore.pc = "verify"
  /\ RestoreTo(IF Cardinality(scratch) # Archive.count THEN "mismatch"
               ELSE IF restore.skip THEN "raw" ELSE "reclaim")
  /\ UNCHANGED <<scratch, faults>> /\ RestoreFrame

Reapply ==
  /\ restore.pc = "reclaim"
  /\ scratch' = Reclaimed(scratch)
  /\ RestoreTo("erase")
  /\ UNCHANGED faults /\ RestoreFrame

EraseNamed_Nobody ==
  /\ restore.pc = "erase"
  /\ RestoreTo("done")
  /\ UNCHANGED <<scratch, faults>> /\ RestoreFrame

EraseNamed ==
  /\ restore.pc = "erase"
  /\ scratch' = scratch \ {restore.named}
  /\ RestoreTo("done")
  /\ UNCHANGED faults /\ RestoreFrame

\* pg_restore fails half-way, psql fails, the process is killed.
FailRestore ==
  /\ restore.pc \in {"load", "verify", "reclaim", "erase"} /\ Fault
  /\ scratch' \in IF restore.pc = "load" THEN SUBSET Archive.dump ELSE {scratch}
  /\ RestoreTo("failed")
  /\ RestoreFrame

RestoreStep == StartRestore \/ LoadArchive \/ VerifyCounts \/ Reapply \/ EraseNamed \/ FailRestore

-----------------------------------------------------------------------------
BackupInit ==
  /\ day = 0 /\ faults = 0 /\ installed = 0 /\ begun = {}
  /\ minted \in SUBSET Users /\ live = minted
  /\ expired = {} /\ erased = {}
  /\ run = [b \in Runs |-> NoRun]
  /\ record = [status |-> "none", started |-> 0, completed |-> 0, run |-> None]
  /\ repo = {}
  /\ restore = NoRestore /\ scratch = {}

BackupNext == Tick \/ StoreStep \/ InstallUnit \/ RestoreStep \/ \E b \in Runs : RunStep(b)

BackupSpec == BackupInit /\ [][BackupNext]_backupVars

-----------------------------------------------------------------------------
RunPcs == {"idle", "done", "failed", "killed"} \cup Working
RestorePcs == {"idle", "load", "verify", "reclaim", "erase", "raw", "done", "mismatch", "failed"}

\* The type invariant.
BackupTypeOK ==
  /\ day \in Nat /\ faults \in Nat /\ installed \in 0..day
  /\ live \subseteq minted /\ minted \subseteq Users
  /\ expired \subseteq minted /\ erased \subseteq minted \ live
  /\ run \in [Runs -> [pc : RunPcs, unit : BOOLEAN, started : 0..day,
                       dump : SUBSET Users, count : Nat, tmp : BOOLEAN]]
  /\ record \in [status : {"none", "pending", "running", "ok", "failed"},
                 started : 0..day, completed : 0..day, run : Runs \cup {None}]
  /\ repo \subseteq [label : Runs, day : 0..day, dump : SUBSET Users, count : Nat]
  /\ begun \subseteq Runs
  /\ restore \in [pc : RestorePcs, from : Runs \cup {None}, named : Users \cup {None},
                  skip : BOOLEAN]
  /\ scratch \subseteq Users

\* Whatever the deploy preflight accepts is backed by a snapshot: the record names a
\* run that completed, and its archive is still in the repository, whatever another
\* run's record and retention did meanwhile.  A unit run that began and never reported
\* its outcome, however it died and whichever of its records could not be written,
\* does not hide behind an earlier success.
ProofIsBacked ==
  Proven => /\ begun = {}
            /\ record.run \in Runs /\ run[record.run].pc = "done"
            /\ \E s \in repo : s.label = record.run

\* The only users a finished restore brings back are erased ones nobody named to it,
\* and it loses nobody who was in the archive, is still live and has not expired.
Returned == (scratch \ expired) \ live
RestoreIsFaithful ==
  restore.pc = "done" =>
    /\ Returned \subseteq erased \ {restore.named}
    /\ ((live \cap Archive.dump) \ expired) \ {restore.named} \subseteq scratch

\* kajianq-backup.mjs: the plaintext dump must not outlive the process.
DumpIsRemoved == \A b \in Runs : run[b].pc \in {"done", "failed"} => ~run[b].tmp

\* lib.mjs: one snapshot per day is kept for KeepDaily days and older ones go; read
\* while no run is under way and no command ever failed.
RollingWindow ==
  faults = 0 /\ (\A b \in Runs : ~Active(b)) => Cardinality({s.day : s \in repo}) <= KeepDaily

\* lib.mjs: a difference from the manifest means the restore is not faithful.
MismatchIsUnfaithful == restore.pc = "mismatch" => scratch # Archive.dump
=============================================================================
