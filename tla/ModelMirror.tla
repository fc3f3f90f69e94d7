----------------------------- MODULE ModelMirror -----------------------------
(***************************************************************************)
(* The boot of the API: the configured model rows are mirrored into the    *)
(* table model_configs, and the socket binds when the sync settled or its  *)
(* deadline passed (boot-sequence.ts, model-config-boot.ts).               *)
(*                                                                         *)
(*   proc[p]    the process of boot p; systemd keeps one running at a time *)
(*   sync[p]    its sync: one transaction of an upsert and a delete, under *)
(*              READ COMMITTED, then a read of the table                   *)
(*   mirror     the committed rows                                         *)
(*                                                                         *)
(* A killed process leaves its transaction to the server, which holds the  *)
(* row locks until it notices; a COMMIT on the wire may still count.       *)
(***************************************************************************)
EXTENDS FiniteSets, Integers

CONSTANTS Boots,
          Models, Prices,   \* a row's key, and what the mirror copies for it
          ConfigOf,         \* the rows each boot's configuration derives
          MaxBootFaults     \* bound on kills and failed store calls

Row == [model : Models, price : Prices]
Named(rows) == {r.model : r \in rows}
KeyIsUnique(rows) == \A r, q \in rows : r.model = q.model => r = q

ASSUME MirrorAssumption ==
  /\ ConfigOf \in [Boots -> SUBSET Row]
  /\ \A p \in Boots : KeyIsUnique(ConfigOf[p])
  /\ MaxBootFaults \in Nat

VARIABLES mirror, proc, sync, timedOut, bootFaults,
          lastSync,    \* history: the boots whose sync committed last
          disturbed    \* history: another sync committed after this one's scan

mirrorVars == <<mirror, proc, sync, timedOut, bootFaults, lastSync, disturbed>>

BootFault == bootFaults < MaxBootFaults /\ bootFaults' = bootFaults + 1
Off == [pc |-> "off", held |-> {}, doomed |-> {}, report |-> "none"]
SyncTo(p, pc) == sync' = [sync EXCEPT ![p].pc = pc]
Ends(p, report) == sync' = [sync EXCEPT ![p] = [Off EXCEPT !.pc = "done", !.report = report]]
LockedFor(p) == UNION {sync[q].held : q \in Boots \ {p}}

TableFrame == UNCHANGED <<mirror, lastSync, disturbed>>
ProcFrame == UNCHANGED <<proc, timedOut>>
Runs(p, pc) == proc[p] \in {"booting", "serving"} /\ sync[p].pc = pc

-----------------------------------------------------------------------------
(* The sync. *)

\* A configuration that does not load, or no database configured: nothing is written.
Start(p) ==
  /\ proc[p] = "off" /\ \A q \in Boots : proc[q] \in {"off", "killed"}
  /\ proc' = [proc EXCEPT ![p] = "booting"]
  /\ SyncTo(p, "upsert") \/ Ends(p, "failed") \/ Ends(p, "skipped")
  /\ UNCHANGED <<timedOut, bootFaults>> /\ TableFrame

\* INSERT ... ON CONFLICT DO UPDATE of every entry waits for the rows' locks.
Upsert(p) ==
  /\ Runs(p, "upsert")
  /\ Named(ConfigOf[p]) \cap LockedFor(p) = {}
  /\ sync' = [sync EXCEPT ![p].pc = "scan", ![p].held = Named(ConfigOf[p])]
  /\ UNCHANGED bootFaults /\ TableFrame /\ ProcFrame

\* The DELETE's snapshot: the rows of others that are not committed are not in it.
Scan(p) ==
  /\ Runs(p, "scan")
  /\ sync' = [sync EXCEPT ![p].pc = "delete", ![p].doomed = Named(mirror) \ sync[p].held]
  /\ UNCHANGED bootFaults /\ TableFrame /\ ProcFrame

Delete(p) ==
  /\ Runs(p, "delete")
  /\ sync[p].doomed \cap LockedFor(p) = {}
  /\ sync' = [sync EXCEPT ![p].pc = "commit", ![p].held = @ \cup sync[p].doomed]
  /\ UNCHANGED bootFaults /\ TableFrame /\ ProcFrame

Committed(p) == {r \in mirror : r.model \notin sync[p].held} \cup ConfigOf[p]

Commits(p) ==
  /\ mirror' = Committed(p)
  /\ lastSync' = {p}
  /\ disturbed' = disturbed \cup {q \in Boots \ {p} : sync[q].pc \in {"delete", "commit", "list"}}

Commit(p) ==
  /\ Runs(p, "commit")
  /\ sync' = [sync EXCEPT ![p].pc = "list", ![p].held = {}, ![p].doomed = {}]
  /\ Commits(p)
  /\ UNCHANGED bootFaults /\ ProcFrame

HasDrift_Missing(p) == ~(ConfigOf[p] \subseteq mirror)

\* modelConfigDrift: missing, unexpected or changed rows.
HasDrift(p) == mirror # ConfigOf[p]

List(p) ==
  /\ Runs(p, "list")
  /\ Ends(p, IF HasDrift(p) THEN "drift" ELSE "synced")
  /\ UNCHANGED bootFaults /\ TableFrame /\ ProcFrame

\* A statement fails or times out, and the transaction rolls back; a COMMIT whose
\* answer was lost may have counted.
FailSync(p) ==
  /\ BootFault
  /\ \E pc \in {"upsert", "scan", "delete", "commit", "list"} : Runs(p, pc)
  /\ Ends(p, "failed")
  /\ \/ TableFrame
     \/ sync[p].pc = "commit" /\ Commits(p)
  /\ ProcFrame

-----------------------------------------------------------------------------
(* The process. *)

Expire(p) ==
  /\ proc[p] = "booting" /\ p \notin timedOut
  /\ timedOut' = timedOut \cup {p}
  /\ UNCHANGED <<proc, sync, bootFaults>> /\ TableFrame

MayServe_WhenSettled(p) == sync[p].pc = "done"

MayServe(p) == sync[p].pc = "done" \/ p \in timedOut

\* The listener binds; a sync the deadline gave up on runs on.
Bind(p) ==
  /\ proc[p] = "booting" /\ MayServe(p)
  /\ proc' = [proc EXCEPT ![p] = "serving"]
  /\ UNCHANGED <<sync, timedOut, bootFaults>> /\ TableFrame

\* A restart, a deploy or a crash.  The transaction stays with the server.
Kill(p) ==
  /\ BootFault
  /\ proc[p] \in {"booting", "serving"}
  /\ proc' = [proc EXCEPT ![p] = "killed"]
  /\ UNCHANGED <<sync, timedOut>> /\ TableFrame

\* The server ends the transaction of a process that is gone.
Reap(p) ==
  /\ proc[p] = "killed" /\ sync[p].pc \notin {"off", "done"}
  /\ Ends(p, "none")
  /\ \/ TableFrame
     \/ sync[p].pc = "commit" /\ Commits(p)
  /\ UNCHANGED bootFaults /\ ProcFrame

MirrorInit ==
  /\ mirror = {} /\ lastSync = {} /\ disturbed = {}
  /\ proc = [p \in Boots |-> "off"]
  /\ sync = [p \in Boots |-> Off]
  /\ timedOut = {} /\ bootFaults = 0

SyncStep(p) == Upsert(p) \/ Scan(p) \/ Delete(p) \/ Commit(p) \/ List(p) \/ FailSync(p)

MirrorNext == \E p \in Boots :
  Start(p) \/ SyncStep(p) \/ Expire(p) \/ Bind(p) \/ Kill(p) \/ Reap(p)

\* The timer fires and the process binds; no store call is assumed to be answered.
BootFairness == \A p \in Boots : WF_mirrorVars(Expire(p)) /\ WF_mirrorVars(Bind(p))

MirrorSpec == MirrorInit /\ [][MirrorNext]_mirrorVars /\ BootFairness

-----------------------------------------------------------------------------
SyncPcs == {"off", "upsert", "scan", "delete", "commit", "list", "done"}
Reports == {"none", "synced", "drift", "failed", "skipped"}

(* Type correctness, with the table's primary key: one row per model.              *)
MirrorTypeOK ==
  /\ mirror \subseteq Row /\ KeyIsUnique(mirror)
  /\ proc \in [Boots -> {"off", "booting", "serving", "killed"}]
  /\ sync \in [Boots -> [pc : SyncPcs, held : SUBSET Models, doomed : SUBSET Models,
                         report : Reports]]
  /\ timedOut \subseteq Boots /\ lastSync \subseteq Boots /\ disturbed \subseteq Boots
  /\ bootFaults \in Nat

(* What a boot reports of the mirror can be relied on.  While the boot that        *)
(* reported "synced" is the last that wrote, the mirror holds its configuration and *)
(* nothing of another's, although the DELETE of its transaction cannot see what    *)
(* another had not yet committed; and "drift" is never a false alarm: another sync *)
(* committed behind the snapshot of that DELETE.                                   *)
MirrorReportsHold ==
  /\ \A p \in lastSync : sync[p].report = "synced" => mirror = ConfigOf[p]
  /\ \A p \in Boots : sync[p].report = "drift" => p \in disturbed

(* bootSequence: a process that is not killed comes to serve, even when the store  *)
(* never answers and a dead process's transaction holds the rows it waits for.     *)
Booting == \E p \in Boots : proc[p] = "booting"
BootsToServe == Booting ~> ~Booting
=============================================================================
