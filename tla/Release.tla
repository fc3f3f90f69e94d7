------------------------------- MODULE Release -------------------------------
(***************************************************************************)
(* Deploys and migrations on the host whose backups module Backups models. *)
(*                                                                         *)
(*   deploy[d]  deploy.sh: two preflights that only read, one upload, the  *)
(*              helper's swap, the cron proof, smoke and doctor            *)
(*   up[p]      db-migrate up and down against the shared ledger           *)
(*   tree       the revision the host serves                               *)
(*   incoming   /srv/vps-incoming/kajianq.tar.gz, one name for every deploy *)
(*                                                                         *)
(* Revision r ships the migrations 1..r.  CI runs one deploy at a time; an *)
(* operator's deploy may overlap it.                                       *)
(***************************************************************************)
EXTENDS Backups

CONSTANTS Deploys, Ups, MaxRev

ASSUME ReleaseAssumption == MaxRev \in Nat \ {0}

VARIABLES ledger,   \* schema_migrations; a file's statements commit with its row
          up, deploy, tree, incoming,
          waived,   \* history: a deploy skipped the check, or a file was rolled back
          undone    \* history: a file was rolled back

releaseVars == <<ledger, up, deploy, tree, incoming, waived, undone>>

Revisions == 1..MaxRev
NoArtifact == 0

-----------------------------------------------------------------------------
(* Migrations. *)

UpFrame == UNCHANGED <<backupVars, deploy, tree, incoming>>

\* The ledger is read once; the files of the checkout it does not name are pending.
ReadLedger(p) ==
  /\ up[p].pc = "idle"
  /\ \E r \in Revisions : up' = [up EXCEPT ![p] = [pc |-> "up", todo |-> (1..r) \ ledger]]
  /\ UNCHANGED <<ledger, waived, undone>> /\ UpFrame

NextFile(p) == CHOOSE f \in up[p].todo : \A g \in up[p].todo : f <= g

\* One transaction per file.  A file another process applied meanwhile stops the run
\* at its first statement, or changes nothing where it is idempotent.
ApplyFile(p) ==
  /\ up[p].pc = "up" /\ up[p].todo # {}
  /\ ledger' = ledger \cup {NextFile(p)}
  /\ up' = [up EXCEPT ![p].todo = @ \ {NextFile(p)}]
  /\ UNCHANGED <<waived, undone>> /\ UpFrame

StopUp(p) ==
  /\ up[p].pc = "up"
  /\ up[p].todo # {} => NextFile(p) \in ledger \/ faults < MaxFaults
  /\ up' = [up EXCEPT ![p] = [pc |-> "ended", todo |-> {}]]
  /\ UNCHANGED <<ledger, waived, undone>> /\ UpFrame

\* down: the last file the ledger names, when it was read.
ReadLast(p) ==
  /\ up[p].pc = "idle" /\ ledger # {}
  /\ up' = [up EXCEPT ![p] = [pc |-> "down", todo |-> {f \in ledger : \A g \in ledger : g <= f}]]
  /\ UNCHANGED <<ledger, waived, undone>> /\ UpFrame

RollBackFile(p) ==
  /\ up[p].pc = "down"
  /\ ledger' = ledger \ up[p].todo
  /\ waived' = TRUE /\ undone' = TRUE
  /\ up' = [up EXCEPT ![p] = [pc |-> "ended", todo |-> {}]]
  /\ UpFrame

UpStep(p) == ReadLedger(p) \/ ApplyFile(p) \/ StopUp(p) \/ ReadLast(p) \/ RollBackFile(p)

-----------------------------------------------------------------------------
(* Deploys. *)

NoDeploy == [pc |-> "idle", rev |-> 1, skip |-> FALSE, proof |-> None]

DeployFrame == UNCHANGED <<ledger, up, undone>>
DeployTo(d, pc) == deploy' = [deploy EXCEPT ![d].pc = pc]
Pending(r) == (1..r) \ ledger

CheckMigrations_NoPending(d) ==
  /\ deploy[d].pc = "idle"
  /\ \E r \in Revisions, skip \in BOOLEAN :
       deploy' = [deploy EXCEPT ![d] = [NoDeploy EXCEPT !.pc = "backup", !.rev = r, !.skip = skip]]
  /\ UNCHANGED <<backupVars, tree, incoming, waived>> /\ DeployFrame

\* migration-check.sh through a tunnel of its own: pending files refuse, and so does
\* everything that keeps the report from being read.
CheckMigrations(d) ==
  /\ deploy[d].pc = "idle"
  /\ \E r \in Revisions, skip \in BOOLEAN :
       /\ skip \/ Pending(r) = {}
       /\ deploy' = [deploy EXCEPT ![d] = [NoDeploy EXCEPT !.pc = "backup", !.rev = r, !.skip = skip]]
  /\ UNCHANGED <<backupVars, tree, incoming, waived>> /\ DeployFrame

CheckBackup_Waived(d) ==
  /\ deploy[d].pc = "backup"
  /\ IF Proven \/ deploy[d].skip
     THEN deploy' = [deploy EXCEPT ![d].pc = "build", ![d].proof = record.run]
     ELSE DeployTo(d, "red")
  /\ UNCHANGED <<backupVars, tree, incoming, waived>> /\ DeployFrame

CheckBackup(d) ==
  /\ deploy[d].pc = "backup"
  /\ IF Proven
     THEN deploy' = [deploy EXCEPT ![d].pc = "build", ![d].proof = record.run]
     ELSE DeployTo(d, "red")
  /\ UNCHANGED <<backupVars, tree, incoming, waived>> /\ DeployFrame

\* The build is local; the artifact goes to the one incoming name.  proof is
\* history: the script does not keep it.
ShipTree(d) ==
  /\ deploy[d].pc = "build"
  /\ incoming' = deploy[d].rev
  /\ waived' = (waived \/ deploy[d].skip)
  /\ DeployTo(d, "swap")
  /\ UNCHANGED <<backupVars, tree>> /\ DeployFrame

\* A broken build, or a broken transfer: rsync --partial keeps what arrived.
FailUpload(d) ==
  /\ deploy[d].pc = "build"
  /\ incoming' \in {incoming, NoArtifact}
  /\ DeployTo(d, "red")
  /\ UNCHANGED <<backupVars, tree, waived>> /\ DeployFrame

\* The helper swaps in whatever artifact lies there and keeps it when it is healthy.
Swap(d) ==
  /\ deploy[d].pc = "swap" /\ incoming # NoArtifact
  /\ tree' = incoming
  /\ DeployTo(d, "cron")
  /\ UNCHANGED <<backupVars, incoming, waived>> /\ DeployFrame

\* The helper refuses the artifact, or puts the previous tree back.
FailSwap(d) ==
  /\ deploy[d].pc = "swap"
  /\ DeployTo(d, "red")
  /\ UNCHANGED <<backupVars, tree, incoming, waived>> /\ DeployFrame

\* systemctl start kajianq-cron.service.
ProveCron(d) ==
  /\ deploy[d].pc = "cron"
  /\ live' = Reclaimed(live)
  /\ DeployTo(d, "verify")
  /\ UNCHANGED <<day, faults, minted, expired, erased, job, installed, target>>
  /\ UNCHANGED <<tree, incoming, waived>> /\ DeployFrame

\* Smoke and doctor; a red one leaves the new tree in place.
Verify(d) ==
  /\ deploy[d].pc \in {"cron", "verify"}
  /\ \/ deploy[d].pc = "verify" /\ DeployTo(d, "done")
     \/ DeployTo(d, "red")
  /\ UNCHANGED <<backupVars, tree, incoming, waived>> /\ DeployFrame

DeployStep(d) == \/ CheckMigrations(d) \/ CheckBackup(d) \/ ShipTree(d) \/ FailUpload(d)
                 \/ Swap(d) \/ FailSwap(d) \/ ProveCron(d) \/ Verify(d)

-----------------------------------------------------------------------------
ReleaseInit ==
  /\ BackupInit
  /\ ledger = {1} /\ tree = 1 /\ incoming = NoArtifact
  /\ up = [p \in Ups |-> [pc |-> "idle", todo |-> {}]]
  /\ deploy = [d \in Deploys |-> NoDeploy]
  /\ waived = FALSE /\ undone = FALSE

ReleaseNext ==
  \/ BackupNext /\ UNCHANGED releaseVars
  \/ \E p \in Ups : UpStep(p)
  \/ \E d \in Deploys : DeployStep(d)

ReleaseSpec == ReleaseInit /\ [][ReleaseNext]_<<backupVars, releaseVars>>

-----------------------------------------------------------------------------
DeployPcs == {"idle", "backup", "build", "swap", "cron", "verify", "done", "red"}

\* The type invariant.
ReleaseTypeOK ==
  /\ ledger \subseteq Revisions
  /\ up \in [Ups -> [pc : {"idle", "up", "down", "ended"}, todo : SUBSET Revisions]]
  /\ deploy \in [Deploys -> [pc : DeployPcs, rev : Revisions, skip : BOOLEAN,
                             proof : Runs \cup {None}]]
  /\ tree \in Revisions /\ incoming \in Revisions \cup {NoArtifact}
  /\ waived \in BOOLEAN /\ undone \in BOOLEAN

\* Concurrent and failing runs of up leave no hole in the ledger; and unless an operator
\* waived it, the schema has what the served revision needs, also when deploys overlap
\* and one of them swaps in the other's artifact.
TreeIsMigrated ==
  /\ ~undone => \A f \in ledger : 1..f \subseteq ledger
  /\ ~waived => 1..tree \subseteq ledger

\* The tree changes only to a revision that was shipped on the strength of a backup
\* which completed and can still be restored: a red preflight leaves the host as it was,
\* and no overlap of deploys, backups and a changed unit lets an unproven one through.
OnlyProvenTrees ==
  [][tree' # tree => \E d \in Deploys : /\ deploy[d].rev = tree'
                                        /\ \E s \in repo : s.label = deploy[d].proof
                                        /\ run[deploy[d].proof].pc = "done"
    ]_<<backupVars, releaseVars>>
=============================================================================
