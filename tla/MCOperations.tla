----------------------------- MODULE MCOperations -----------------------------
(* The operators' side of the host for TLC.  Six parts are explored side by side,  *)
(* because their full product is beyond TLC: one backup of a changing store and    *)
(* restores of it; two overlapping backups and their record; migrations alone;     *)
(* deploys and migrations, up to a smaller revision, with one backup; passes over  *)
(* the book; and passes, without summaries, with runs of the pilot.                *)
EXTENDS Release, CorpusIngest

CONSTANTS FirstRun, ShippedRev, matnA, matnB, matnC, matnD

ASSUME HostAssumption == FirstRun \in Runs

\* A floating source loses its first hadith.  No edition holds C, which the evidence
\* accepts for a neighbour of it, nor D, which is normalized like A and scores like C; the
\* second archive has D in a group that A starts, and a row less.
MCEditions == {<<matnA, matnB>>, <<matnB>>}
MCArchives == {<<matnD, matnB, matnC>>, <<matnA, matnD>>}
MCFoldOf == [t \in Texts |-> IF t = matnD THEN matnA ELSE t]
MCAlike == {<<matnC, matnD>>, <<matnD, matnC>>}
MCNear == {<<matnC, matnB>>}

VARIABLE side

vars == <<backupVars, releaseVars, ingestVars, side>>

Init == /\ ReleaseInit /\ IngestInit
        /\ side \in {"restore", "record", "migrate", "release", "book", "corpus"}
        /\ side # "restore" => minted = {}

RestoreSide == StoreStep \/ RestoreStep \/ RunStep(FirstRun)

RecordSide == InstallUnit \/ \E x \in Runs : RunStep(x)

ReleaseSide == RunStep(FirstRun)

Checkouts == UNION {up'[p].todo : p \in Ups} \cup {deploy'[d].rev : d \in Deploys}

HostNext ==
  /\ \/ Tick /\ UNCHANGED releaseVars
     \/ side = "restore" /\ RestoreSide /\ UNCHANGED releaseVars
     \/ side = "record" /\ RecordSide /\ UNCHANGED releaseVars
     \/ side = "release" /\ ReleaseSide /\ UNCHANGED releaseVars
     \/ side \in {"migrate", "release"} /\ \E p \in Ups : UpStep(p)
     \/ side = "release" /\ \E d \in Deploys : DeployStep(d)
  /\ side = "release" => Checkouts \subseteq 1..ShippedRev

Next ==
  /\ \/ side \notin {"book", "corpus"} /\ HostNext /\ UNCHANGED ingestVars
     \/ side = "book" /\ PassStep /\ UNCHANGED <<backupVars, releaseVars>>
     \/ /\ side = "corpus" /\ IngestNext /\ UNCHANGED <<backupVars, releaseVars>>
        /\ ~pass'.summarized
  /\ UNCHANGED side

Spec == Init /\ [][Next]_vars

\* Deploys are interchangeable, and so are users.
HostSymmetry == Permutations(Deploys) \cup Permutations(Users)

\* The type invariants of the parts.
HostTypeOK == BackupTypeOK /\ ReleaseTypeOK /\ IngestTypeOK
=============================================================================
