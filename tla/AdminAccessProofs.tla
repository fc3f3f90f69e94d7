-------------------------- MODULE AdminAccessProofs --------------------------
(***************************************************************************)
(* Proofs about AdminAccess, for any sets of sessions and requests, any    *)
(* lifetime and retention, and an unbounded clock.                         *)
(***************************************************************************)
EXTENDS AdminAccess, TLAPS

\* A logout under way, or answered, names a session that was issued.
LogoutsNameIssued ==
  \A l \in Logouts : logout[l].pc # "idle" => logout[l].session \in Issued

Typed == TypeOK /\ LogoutsNameIssued

LEMMA TypedInit == Init => Typed
BY AdminAssumption
   DEF Init, Typed, TypeOK, LogoutsNameIssued, ReadPcs, LogoutPcs, JobPcs

\* No step forgets a session that was issued, or touches its expiry.
LEMMA IssuedForGood ==
  ASSUME Typed, [Next]_vars, NEW s \in Issued
  PROVE  s \in Issued' /\ exp'[s] = exp[s]
<1>1. CASE \E t \in Sessions : Login(t)
  <2>1. PICK t \in Sessions : Login(t)
    BY <1>1
  <2>2. t # s
    BY <2>1 DEF Login, Issued
  <2> QED BY <2>1, <2>2 DEF Login, Issued, Typed, TypeOK
<1>2. CASE ~\E t \in Sessions : Login(t)
  <2>1. exp' = exp
    BY <1>2 DEF Next, vars, Tick, Guard, ReadStep, CheckRevoked, RecordAccess, Serve,
         FailRead, ReadFrame, PresentLogout, Revoke, FailRevoke, LogoutFrame, JobStep,
         StartJob, CleanSessions, PurgeLog, PurgeDenylist, FailJob, JobFrame
  <2> QED BY <2>1 DEF Issued
<1> QED BY <1>1, <1>2

LEMMA TypedNext == Typed /\ [Next]_vars => Typed'
<1> SUFFICES ASSUME Typed, [Next]_vars PROVE Typed'
  OBVIOUS
<1>1. TypeOK'
  <2> USE DEF TypeOK, Typed, ReadPcs, LogoutPcs, JobPcs
  <2>1. CASE Tick
    BY <2>1 DEF Tick
  <2>2. CASE \E s \in Sessions : Login(s)
    BY <2>2, AdminAssumption DEF Login
  <2>3. ASSUME NEW r \in Reads, Guard(r) PROVE TypeOK'
    BY <2>3 DEF Guard, ReadFrame, Issued
  <2>4. ASSUME NEW r \in Reads, CheckRevoked(r) PROVE TypeOK'
    BY <2>4 DEF CheckRevoked, ReadTo, ReadFrame
  <2>5. ASSUME NEW r \in Reads, RecordAccess(r) PROVE TypeOK'
    <3>1. log' \subseteq [read : Reads, at : Nat]
      BY <2>5 DEF RecordAccess, ReadFrame
    <3>2. read' = [read EXCEPT ![r] = [@ EXCEPT !.pc = "serve", !.recordedAt = now]]
      BY <2>5 DEF RecordAccess
    <3>3. [read[r] EXCEPT !.pc = "serve", !.recordedAt = now]
            \in [pc : ReadPcs, session : Sessions \cup {None},
                kind : {"trace", "probe"}, recordedAt : Nat]
      OBVIOUS
    <3> QED BY <2>5, <3>1, <3>2, <3>3 DEF RecordAccess, ReadFrame
  <2>6. ASSUME NEW r \in Reads, Serve(r) PROVE TypeOK'
    BY <2>6 DEF Serve, ReadTo, ReadFrame
  <2>7. ASSUME NEW r \in Reads, FailRead(r) PROVE TypeOK'
    BY <2>7 DEF FailRead, ReadTo, ReadFrame, Fail
  <2>8. ASSUME NEW l \in Logouts, PresentLogout(l) PROVE TypeOK'
    BY <2>8 DEF PresentLogout, LogoutFrame, Issued
  <2>9. ASSUME NEW l \in Logouts, Revoke(l) PROVE TypeOK'
    BY <2>9 DEF Revoke, LogoutFrame, LogoutsNameIssued, Issued
  <2>10. ASSUME NEW l \in Logouts, FailRevoke(l) PROVE TypeOK'
    BY <2>10 DEF FailRevoke, LogoutFrame, LogoutsNameIssued, Issued, Fail
  <2>11. CASE StartJob
    BY <2>11 DEF StartJob, JobFrame
  <2>12. CASE CleanSessions
    BY <2>12 DEF CleanSessions, JobTo, NextJobStep, JobFrame
  <2>13. CASE PurgeLog
    BY <2>13 DEF PurgeLog, JobTo, NextJobStep, JobFrame
  <2>14. CASE PurgeDenylist
    BY <2>14 DEF PurgeDenylist, JobTo, NextJobStep, JobFrame
  <2>15. CASE FailJob
    BY <2>15 DEF FailJob, JobTo, NextJobStep, JobFrame, Fail
  <2>16. CASE UNCHANGED vars
    BY <2>16 DEF vars
  <2> QED
    BY <2>1, <2>2, <2>3, <2>4, <2>5, <2>6, <2>7, <2>8, <2>9, <2>10, <2>11, <2>12,
       <2>13, <2>14, <2>15, <2>16 DEF Next, ReadStep, JobStep
<1>2. LogoutsNameIssued'
  <2> SUFFICES ASSUME NEW l \in Logouts, logout'[l].pc # "idle"
               PROVE  logout'[l].session \in Issued'
    BY DEF LogoutsNameIssued
  <2>1. logout'[l].session \in Issued
    <3>1. CASE \E k \in Logouts : PresentLogout(k) \/ Revoke(k) \/ FailRevoke(k)
      BY <3>1 DEF PresentLogout, Revoke, FailRevoke, Typed, TypeOK, LogoutsNameIssued
    <3>2. CASE ~\E k \in Logouts : PresentLogout(k) \/ Revoke(k) \/ FailRevoke(k)
      <4>1. logout' = logout
        BY <3>2 DEF Next, vars, Tick, Login, Guard, ReadStep, CheckRevoked, RecordAccess,
             Serve, FailRead, ReadFrame, JobStep, StartJob, CleanSessions, PurgeLog,
             PurgeDenylist, FailJob, JobFrame
      <4> QED BY <4>1 DEF Typed, LogoutsNameIssued
    <3> QED BY <3>1, <3>2
  <2> QED BY <2>1, IssuedForGood
<1> QED BY <1>1, <1>2 DEF Typed

\* Type correctness: every reachable state of the admin surface is well typed, and
\* the denylist holds nothing but session ids.
THEOREM AdminTypeCorrect == Spec => []TypeOK
<1>1. Typed => TypeOK
  BY DEF Typed
<1> QED BY <1>1, TypedInit, TypedNext, PTL DEF Spec

-----------------------------------------------------------------------------
\* The nightly job's clock is never ahead of the guard's.
CutoffIsPast == job.cutoff <= now

DeadInv == Typed /\ CutoffIsPast /\ SignedOutIsDead

LEMMA DeadNext == DeadInv /\ [Next]_vars => DeadInv'
<1> SUFFICES ASSUME DeadInv, [Next]_vars PROVE DeadInv'
  OBVIOUS
<1>1. Typed'
  BY TypedNext DEF DeadInv
<1>2. now \in Nat /\ now' \in Nat /\ now <= now'
  <2>1. now' = now \/ now' = now + 1
    BY DEF Next, vars, Tick, Login, Guard, ReadStep, CheckRevoked, RecordAccess, Serve,
         FailRead, ReadFrame, PresentLogout, Revoke, FailRevoke, LogoutFrame, JobStep,
         StartJob, CleanSessions, PurgeLog, PurgeDenylist, FailJob, JobFrame
  <2> QED BY <2>1 DEF DeadInv, Typed, TypeOK
<1>3. CutoffIsPast'
  <2>1. CASE job' = job \/ \E pc \in JobPcs : job' = [job EXCEPT !.pc = pc]
    BY <2>1, <1>2 DEF DeadInv, CutoffIsPast, Typed, TypeOK
  <2>2. CASE StartJob
    BY <2>2, <1>2 DEF StartJob, CutoffIsPast, JobFrame
  <2>3. CASE CleanSessions \/ PurgeLog \/ PurgeDenylist \/ FailJob
    BY <2>1, <2>3 DEF CleanSessions, PurgeLog, PurgeDenylist, FailJob, JobTo, NextJobStep,
         JobPcs
  <2>4. CASE ~JobStep /\ ~FailJob
    <3>1. job' = job
      BY <2>4 DEF Next, vars, Tick, Login, Guard, ReadStep, CheckRevoked, RecordAccess,
           Serve, FailRead, ReadFrame, PresentLogout, Revoke, FailRevoke, LogoutFrame
    <3> QED BY <2>1, <3>1
  <2> QED BY <2>2, <2>3, <2>4 DEF JobStep
\* Only the nightly job takes an entry off the denylist, and only an expired one.
<1>4. \A s \in denylist : s \in denylist' \/ ~Valid(s)
  <2>1. CASE PurgeDenylist
    <3> SUFFICES ASSUME NEW s \in denylist, Reclaimable(s) PROVE ~Valid(s)
      BY <2>1 DEF PurgeDenylist
    <3> QED BY DEF Reclaimable, Valid, DeadInv, CutoffIsPast, Typed, TypeOK
  <2>2. CASE ~PurgeDenylist
    <3>1. denylist \subseteq denylist'
      BY <2>2 DEF Next, vars, Tick, Login, Guard, ReadStep, CheckRevoked, RecordAccess,
           Serve, FailRead, ReadFrame, PresentLogout, Revoke, FailRevoke, LogoutFrame,
           JobStep, StartJob, CleanSessions, PurgeLog, FailJob, JobFrame
    <3> QED BY <3>1
  <2> QED BY <2>1, <2>2
\* An expired token stays expired: its id is never issued again.
<1>5. \A s \in Issued : ~Valid(s) => ~(exp'[s] > now')
  <2> SUFFICES ASSUME NEW s \in Issued, ~Valid(s) PROVE ~(exp'[s] > now')
    OBVIOUS
  <2>1. exp'[s] = exp[s]
    BY IssuedForGood DEF DeadInv
  <2> QED BY <2>1, <1>2 DEF Valid, Issued, DeadInv, Typed, TypeOK
<1>6. SignedOutIsDead'
  <2> SUFFICES ASSUME NEW l \in Logouts, logout'[l].pc = "signedOut"
               PROVE  logout'[l].session \in denylist' \/ ~(exp'[logout'[l].session] > now')
    BY DEF SignedOutIsDead, Valid
  <2>1. CASE logout'[l] = logout[l]
    <3> DEFINE s == logout[l].session
    <3>1. s \in Issued /\ (s \in denylist \/ ~Valid(s))
      BY <2>1 DEF DeadInv, Typed, LogoutsNameIssued, SignedOutIsDead
    <3> QED BY <2>1, <3>1, <1>4, <1>5 DEF Valid
  <2>2. CASE PresentLogout(l)
    <3>1. logout'[l].session \in Issued /\ ~Valid(logout'[l].session) /\ exp' = exp /\ now' = now
      BY <2>2 DEF PresentLogout, LogoutFrame, DeadInv, Typed, TypeOK
    <3> QED BY <3>1 DEF Valid
  <2>3. CASE Revoke(l)
    BY <2>3 DEF Revoke, DeadInv, Typed, TypeOK
  <2>4. CASE FailRevoke(l)
    BY <2>4 DEF FailRevoke, DeadInv, Typed, TypeOK
  <2>5. logout'[l] = logout[l] \/ PresentLogout(l) \/ Revoke(l) \/ FailRevoke(l)
    <3>1. CASE \E k \in Logouts \ {l} : PresentLogout(k) \/ Revoke(k) \/ FailRevoke(k)
      BY <3>1 DEF PresentLogout, Revoke, FailRevoke, DeadInv, Typed, TypeOK
    <3>2. CASE ~\E k \in Logouts : PresentLogout(k) \/ Revoke(k) \/ FailRevoke(k)
      BY <3>2 DEF Next, vars, Tick, Login, Guard, ReadStep, CheckRevoked, RecordAccess,
           Serve, FailRead, ReadFrame, JobStep, StartJob, CleanSessions, PurgeLog,
           PurgeDenylist, FailJob, JobFrame
    <3> QED BY <3>1, <3>2
  <2> QED BY <2>1, <2>2, <2>3, <2>4, <2>5
<1> QED BY <1>1, <1>3, <1>6 DEF DeadInv

LEMMA DeadInit == Init => DeadInv
BY TypedInit DEF Init, DeadInv, CutoffIsPast, SignedOutIsDead

\* A logout answered 204 leaves no usable token behind: its session is on the
\* denylist for as long as the token would verify, whatever fails, is retried, or is
\* reclaimed by the nightly job in between.
THEOREM SignedOutStaysDead == Spec => []SignedOutIsDead
<1>1. DeadInv => SignedOutIsDead
  BY DEF DeadInv
<1> QED BY <1>1, DeadInit, DeadNext, PTL DEF Spec

-----------------------------------------------------------------------------
\* A request gets past the denylist only by finding its session absent from it.
LEMMA AdmittedIsUnlisted ==
  ASSUME Typed, [Next]_vars, NEW r \in Reads, Admitted(r)
  PROVE  read[r].session \notin denylist
<1>1. CASE CheckRevoked(r)
  BY <1>1 DEF CheckRevoked, ReadTo, Admitted, Typed, TypeOK
<1>2. CASE ~CheckRevoked(r)
  <2>1. read'[r].pc = read[r].pc \/ read'[r].pc \in {"unauthorized", "unavailable"}
    <3>1. CASE \E q \in Reads \ {r} : Guard(q) \/ ReadStep(q) \/ FailRead(q)
      BY <3>1 DEF Guard, ReadStep, CheckRevoked, RecordAccess, Serve, FailRead, ReadTo,
           Typed, TypeOK
    <3>2. CASE Guard(r) \/ RecordAccess(r) \/ Serve(r) \/ FailRead(r)
      BY <3>2 DEF Guard, RecordAccess, Serve, FailRead, ReadTo, Admitted, Typed, TypeOK
    <3>3. CASE ~\E q \in Reads : Guard(q) \/ ReadStep(q) \/ FailRead(q)
      BY <3>3 DEF Next, vars, Tick, Login, PresentLogout, Revoke, FailRevoke, LogoutFrame,
           JobStep, StartJob, CleanSessions, PurgeLog, PurgeDenylist, FailJob, JobFrame
    <3> QED BY <1>2, <3>1, <3>2, <3>3 DEF ReadStep
  <2> QED BY <2>1 DEF Admitted
<1> QED BY <1>1, <1>2

\* A request that comes to the denylist after its session was signed out gets no
\* further, not even when the denylist cannot be read, unless its token expired
\* since the guard accepted it.
THEOREM SignedOutReadsNoContent == Spec => SignedOutReadsNothing
<1>1. DeadInv /\ [Next]_vars =>
        [\A r \in Reads : Admitted(r) /\ SignedOut(read[r].session)
           => ~Valid(read[r].session)]_vars
  <2> SUFFICES ASSUME DeadInv, [Next]_vars, NEW r \in Reads, Admitted(r),
                      NEW l \in Logouts, logout[l].pc = "signedOut",
                      logout[l].session = read[r].session
               PROVE  ~Valid(read[r].session)
    BY DEF SignedOut
  <2>1. read[r].session \notin denylist
    BY AdmittedIsUnlisted DEF DeadInv
  <2> QED BY <2>1 DEF DeadInv, SignedOutIsDead
<1> QED BY <1>1, DeadInit, DeadNext, PTL DEF Spec, SignedOutReadsNothing

-----------------------------------------------------------------------------
\* Before content is served, the record of the read is in the log, and only its age
\* takes it out again.
LoggedBeforeServed ==
  \A r \in Reads : read[r].pc \in {"serve", "served"} /\ read[r].kind = "trace" =>
    \/ [read |-> r, at |-> read[r].recordedAt] \in log
    \/ now - read[r].recordedAt > Retention

LogInv == Typed /\ LoggedBeforeServed

LEMMA LogNext == LogInv /\ [Next]_vars => LogInv'
<1> SUFFICES ASSUME LogInv, [Next]_vars PROVE LogInv'
  OBVIOUS
<1>1. Typed'
  BY TypedNext DEF LogInv
<1> SUFFICES ASSUME NEW r \in Reads, read'[r].pc \in {"serve", "served"},
                    read'[r].kind = "trace"
             PROVE  \/ [read |-> r, at |-> read'[r].recordedAt] \in log'
                    \/ now' - read'[r].recordedAt > Retention
  BY <1>1 DEF LogInv, LoggedBeforeServed
<1> DEFINE row == [read |-> r, at |-> read[r].recordedAt]
<1>2. now' = now \/ now' = now + 1
  BY DEF Next, vars, Tick, Login, Guard, ReadStep, CheckRevoked, RecordAccess, Serve,
       FailRead, ReadFrame, PresentLogout, Revoke, FailRevoke, LogoutFrame, JobStep,
       StartJob, CleanSessions, PurgeLog, PurgeDenylist, FailJob, JobFrame
<1>3. row \in log => row \in log' \/ now - read[r].recordedAt > Retention
  <2>1. CASE PurgeLog
    BY <2>1 DEF PurgeLog, PastRetention
  <2>2. CASE ~PurgeLog
    <3>1. log \subseteq log'
      BY <2>2 DEF Next, vars, Tick, Login, Guard, ReadStep, CheckRevoked, RecordAccess,
           Serve, FailRead, ReadFrame, PresentLogout, Revoke, FailRevoke, LogoutFrame,
           JobStep, StartJob, CleanSessions, PurgeDenylist, FailJob, JobFrame
    <3> QED BY <3>1
  <2> QED BY <2>1, <2>2
<1>4. CASE read[r].pc \in {"serve", "served"} /\ read[r].kind = "trace"
           /\ read'[r].recordedAt = read[r].recordedAt
  <2>1. row \in log \/ now - read[r].recordedAt > Retention
    BY <1>4 DEF LogInv, LoggedBeforeServed
  <2> QED BY <1>4, <2>1, <1>2, <1>3, AdminAssumption DEF LogInv, Typed, TypeOK
<1>5. CASE RecordAccess(r)
  BY <1>5 DEF RecordAccess, LogInv, Typed, TypeOK
<1>6. \/ RecordAccess(r)
      \/ read[r].pc \in {"serve", "served"} /\ read[r].kind = "trace"
         /\ read'[r].recordedAt = read[r].recordedAt
  <2>1. CASE \E q \in Reads \ {r} : Guard(q) \/ ReadStep(q) \/ FailRead(q)
    BY <2>1 DEF Guard, ReadStep, CheckRevoked, RecordAccess, Serve, FailRead, ReadTo,
         LogInv, Typed, TypeOK
  <2>2. CASE Guard(r)
    BY <2>2 DEF Guard, LogInv, Typed, TypeOK
  <2>3. CASE CheckRevoked(r)
    BY <2>3 DEF CheckRevoked, ReadTo, LogInv, Typed, TypeOK
  <2>4. CASE Serve(r)
    BY <2>4 DEF Serve, ReadTo, LogInv, Typed, TypeOK
  <2>5. CASE FailRead(r)
    BY <2>5 DEF FailRead, ReadTo, LogInv, Typed, TypeOK
  <2>6. CASE ~\E q \in Reads : Guard(q) \/ ReadStep(q) \/ FailRead(q)
    BY <2>6 DEF Next, vars, Tick, Login, PresentLogout, Revoke, FailRevoke, LogoutFrame,
         JobStep, StartJob, CleanSessions, PurgeLog, PurgeDenylist, FailJob, JobFrame
  <2> QED BY <2>1, <2>2, <2>3, <2>4, <2>5, <2>6 DEF ReadStep
<1> QED BY <1>4, <1>5, <1>6

\* Content that was served has its record in the access log until the retention of
\* the record is over.
THEOREM ServedStaysLogged == Spec => []ServedIsLogged
<1>1. Init => LogInv
  BY TypedInit DEF Init, LogInv, LoggedBeforeServed
<1>2. LogInv => ServedIsLogged
  BY DEF LogInv, LoggedBeforeServed, ServedIsLogged
<1> QED BY <1>1, <1>2, LogNext, PTL DEF Spec
=============================================================================
