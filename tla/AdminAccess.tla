----------------------------- MODULE AdminAccess -----------------------------
(***************************************************************************)
(* The admin surface: signed session tokens that expire by themselves, a   *)
(* denylist of the sessions that were signed out, an append-only log that  *)
(* records every read before it is served, and the nightly job that        *)
(* reclaims both tables.                                                   *)
(*                                                                         *)
(*   Login       POST   /v1/admin/session                                  *)
(*   read[r]     GET    /v1/admin/traces..., one step per store call       *)
(*   logout[l]   DELETE /v1/admin/session                                  *)
(*   job         lib/scheduled.ts, one step per retention step             *)
(*                                                                         *)
(* A token is named by its session id (jti).  A request may present any    *)
(* token ever issued: cookies can be copied, and a request in flight       *)
(* carries the cookie of when it was sent.  A probe of the session (GET    *)
(* /v1/admin/session) is a read that records and serves no content.        *)
(***************************************************************************)
EXTENDS Integers

CONSTANTS Sessions,   \* session ids
          Reads, Logouts,
          TTL,        \* lifetime of a token (8 hours)
          Retention,  \* retention of the access log (90 days)
          MaxTime,    \* bound on the clock
          MaxFaults,  \* bound on store calls that fail
          None

ASSUME AdminAssumption ==
  /\ TTL \in Nat \ {0} /\ Retention \in Nat \ {0}
  /\ MaxTime \in Nat /\ MaxFaults \in Nat
  /\ None \notin Sessions

VARIABLES now,
          exp,       \* a token's own expiry, 0 before it is issued
          denylist,  \* admin_session_revocations
          log,       \* admin_access_log
          read, logout, job,
          faults

vars == <<now, exp, denylist, log, read, logout, job, faults>>

\* verifySessionClaims, on a token with a good signature.
Valid(s) == exp[s] > now

Issued == {s \in Sessions : exp[s] # 0}

Fail == faults < MaxFaults /\ faults' = faults + 1

-----------------------------------------------------------------------------
Tick ==
  /\ now < MaxTime /\ now' = now + 1
  /\ UNCHANGED <<exp, denylist, log, read, logout, job, faults>>

\* A login whose origin, CSRF pair and credential match.
Login(s) ==
  /\ exp[s] = 0
  /\ exp' = [exp EXCEPT ![s] = now + TTL]
  /\ UNCHANGED <<now, denylist, log, read, logout, job, faults>>

-----------------------------------------------------------------------------
(* A read.  recordedAt is history: the handler does not keep it. *)

ReadFrame == UNCHANGED <<now, exp, denylist, logout, job>>
ReadTo(r, pc) == read' = [read EXCEPT ![r].pc = pc]

\* adminGuard.
Guard(r) ==
  /\ read[r].pc = "idle"
  /\ \E s \in Issued, kind \in {"trace", "probe"} :
       read' = [read EXCEPT ![r] =
                  [pc |-> IF Valid(s) THEN "check" ELSE "unauthorized",
                   session |-> s, kind |-> kind, recordedAt |-> 0]]
  /\ UNCHANGED <<log, faults>>
  /\ ReadFrame

\* The denylist, then the request's own validity; a probe is answered here.
CheckRevoked(r) ==
  /\ read[r].pc = "check"
  /\ IF read[r].session \in denylist
     THEN ReadTo(r, "unauthorized")
     ELSE \/ read[r].kind = "probe" /\ ReadTo(r, "served")
          \/ read[r].kind = "trace" /\ (ReadTo(r, "record") \/ ReadTo(r, "refused"))
  /\ UNCHANGED <<log, faults>>
  /\ ReadFrame

RecordAccess(r) ==
  /\ read[r].pc = "record"
  /\ log' = log \cup {[read |-> r, at |-> now]}
  /\ read' = [read EXCEPT ![r].pc = "serve", ![r].recordedAt = now]
  /\ faults' = faults
  /\ ReadFrame

\* The row is read and answered; it may be missing or unreadable.
Serve(r) ==
  /\ read[r].pc = "serve"
  /\ ReadTo(r, "served") \/ ReadTo(r, "refused")
  /\ UNCHANGED <<log, faults>>
  /\ ReadFrame

\* A store call fails, and nothing is served: 503, or signed out for a probe.  A
\* record whose acknowledgement was lost is in the log all the same.
FailRead_FailsOpen(r) ==
  /\ Fail
  /\ read[r].pc = "check" /\ ReadTo(r, "record")
  /\ log' = log
  /\ ReadFrame
FailRead_ServesUnlogged(r) ==
  /\ Fail
  /\ \/ read[r].pc \in {"check", "serve"} /\ ReadTo(r, "unavailable")
     \/ read[r].pc = "record" /\ ReadTo(r, "serve")
  /\ log' = log
  /\ ReadFrame
FailRead(r) ==
  /\ Fail
  /\ read[r].pc \in {"check", "record", "serve"}
  /\ ReadTo(r, IF read[r].kind = "probe" THEN "unauthorized" ELSE "unavailable")
  /\ \/ log' = log
     \/ read[r].pc = "record" /\ log' = log \cup {[read |-> r, at |-> now]}
  /\ ReadFrame

-----------------------------------------------------------------------------
(* A logout. *)

LogoutFrame == UNCHANGED <<now, exp, log, read, job>>

\* A token that no longer verifies has nothing to revoke and reads as signed out.
PresentLogout(l) ==
  /\ logout[l].pc = "idle"
  /\ \E s \in Issued :
       logout' = [logout EXCEPT ![l] =
                    [pc |-> IF Valid(s) THEN "revoke" ELSE "signedOut", session |-> s]]
  /\ UNCHANGED <<denylist, faults>>
  /\ LogoutFrame

\* revokeAdminSession: INSERT ... ON CONFLICT DO NOTHING, then the 204.
Revoke(l) ==
  /\ logout[l].pc = "revoke"
  /\ denylist' = denylist \cup {logout[l].session}
  /\ logout' = [logout EXCEPT ![l].pc = "signedOut"]
  /\ faults' = faults
  /\ LogoutFrame

\* 503: the write failed, or only its acknowledgement was lost.
FailRevoke_Reports204(l) ==
  /\ Fail
  /\ logout[l].pc = "revoke"
  /\ logout' = [logout EXCEPT ![l].pc = "signedOut"]
  /\ denylist' = denylist
  /\ LogoutFrame
FailRevoke(l) ==
  /\ Fail
  /\ logout[l].pc = "revoke"
  /\ logout' = [logout EXCEPT ![l].pc = "unavailable"]
  /\ denylist' \in {denylist, denylist \cup {logout[l].session}}
  /\ LogoutFrame

-----------------------------------------------------------------------------
(* The nightly job: the sessions of ChatStore, the log, the denylist. *)

JobFrame == UNCHANGED <<now, exp, read, logout>>
NextJobStep == [sessions |-> "log", log |-> "denylist", denylist |-> "idle"]
JobTo(pc) == job' = [job EXCEPT !.pc = pc]

StartJob ==
  /\ job.pc = "idle"
  /\ job' = [pc |-> "sessions", cutoff |-> now]
  /\ UNCHANGED <<denylist, log, faults>>
  /\ JobFrame

\* The session cleanup; the other steps run whatever it answered.
CleanSessions ==
  /\ job.pc = "sessions"
  /\ JobTo(NextJobStep[job.pc])
  /\ UNCHANGED <<denylist, log, faults>>
  /\ JobFrame

\* purgeAdminAccessLog: one DELETE, which the append-only trigger aborts as a whole
\* if it meets a row within its retention.
PastRetention_Shorter(row) == now - row.at >= Retention - 1
PastRetention(row) == now - row.at > Retention
Protected(row) == now - row.at < Retention
PurgeLog ==
  /\ job.pc = "log"
  /\ LET old == {row \in log : PastRetention(row)}
     IN log' = IF \E row \in old : Protected(row) THEN log ELSE log \ old
  /\ JobTo(NextJobStep[job.pc])
  /\ UNCHANGED <<denylist, faults>>
  /\ JobFrame

\* purgeAdminSessionRevocations, by the clock read when the job started.
Reclaimable(s) == exp[s] < job.cutoff
PurgeDenylist ==
  /\ job.pc = "denylist"
  /\ denylist' = {s \in denylist : ~Reclaimable(s)}
  /\ JobTo(NextJobStep[job.pc])
  /\ UNCHANGED <<log, faults>>
  /\ JobFrame

\* A step fails and is logged, or the process dies.
FailJob ==
  /\ Fail
  /\ job.pc \in {"sessions", "log", "denylist"}
  /\ JobTo(NextJobStep[job.pc]) \/ JobTo("idle")
  /\ UNCHANGED <<denylist, log>>
  /\ JobFrame

-----------------------------------------------------------------------------
Init ==
  /\ now = 0 /\ faults = 0
  /\ exp = [s \in Sessions |-> 0]
  /\ denylist = {} /\ log = {}
  /\ read = [r \in Reads |-> [pc |-> "idle", session |-> None, kind |-> "trace",
                              recordedAt |-> 0]]
  /\ logout = [l \in Logouts |-> [pc |-> "idle", session |-> None]]
  /\ job = [pc |-> "idle", cutoff |-> 0]

ReadStep(r) == CheckRevoked(r) \/ RecordAccess(r) \/ Serve(r)
JobStep == StartJob \/ CleanSessions \/ PurgeLog \/ PurgeDenylist

Next ==
  \/ Tick
  \/ \E s \in Sessions : Login(s)
  \/ \E r \in Reads : Guard(r) \/ ReadStep(r) \/ FailRead(r)
  \/ \E l \in Logouts : PresentLogout(l) \/ Revoke(l) \/ FailRevoke(l)
  \/ JobStep \/ FailJob

Spec == Init /\ [][Next]_vars

\* The timer keeps firing and a started job keeps running.
FairSpec == Spec /\ WF_vars(JobStep)

-----------------------------------------------------------------------------
ReadPcs == {"idle", "check", "record", "serve", "served", "unauthorized",
            "refused", "unavailable"}
LogoutPcs == {"idle", "revoke", "signedOut", "unavailable"}
JobPcs == {"idle", "sessions", "log", "denylist"}

\* The type invariant.
TypeOK ==
  /\ now \in Nat /\ faults \in Nat
  /\ exp \in [Sessions -> Nat]
  /\ denylist \subseteq Sessions
  /\ log \subseteq [read : Reads, at : Nat]
  /\ read \in [Reads -> [pc : ReadPcs, session : Sessions \cup {None},
                         kind : {"trace", "probe"}, recordedAt : Nat]]
  /\ logout \in [Logouts -> [pc : LogoutPcs, session : Sessions \cup {None}]]
  /\ job \in [pc : JobPcs, cutoff : Nat]

\* A logout answered 204 leaves no usable token behind, however failures, retries
\* and the nightly reclamation of the denylist fall: the session is on the denylist
\* for as long as its token would verify.
SignedOutIsDead ==
  \A l \in Logouts : logout[l].pc = "signedOut" =>
    logout[l].session \in denylist \/ ~Valid(logout[l].session)

SignedOut(s) == \E l \in Logouts : logout[l].pc = "signedOut" /\ logout[l].session = s
Admitted(r) == read[r].pc = "check" /\ read'[r].pc \in {"record", "served"}

\* A request that comes to the denylist after its session was signed out gets no
\* further, not even when the denylist cannot be read; only a token that expired on
\* the way from the guard to the denylist can find its entry reclaimed.
SignedOutReadsNothing ==
  [][\A r \in Reads : Admitted(r) /\ SignedOut(read[r].session)
       => ~Valid(read[r].session)]_vars

\* Content that was served has its record in the access log until the record's
\* retention is over.
ServedIsLogged ==
  \A r \in Reads : read[r].pc = "served" /\ read[r].kind = "trace" =>
    \/ [read |-> r, at |-> read[r].recordedAt] \in log
    \/ now - read[r].recordedAt > Retention

\* A record past its retention is eventually deleted and the denylist does not grow for
\* ever, whatever one cleanup's fault does to the other and although the trigger aborts
\* a purge that reaches too far.
RetentionIsKept ==
  /\ \A r \in Reads : (\E row \in log : row.read = r /\ now - row.at > Retention)
                         ~> ~\E row \in log : row.read = r
  /\ \A s \in Sessions : (s \in denylist /\ exp[s] < now) ~> s \notin denylist
=============================================================================
