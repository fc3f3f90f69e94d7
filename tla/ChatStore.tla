------------------------------ MODULE ChatStore ------------------------------
(***************************************************************************)
(* The HTTP handlers that write a user's conversational data, and the two  *)
(* transactions that delete it, over one Postgres database:                *)
(*                                                                         *)
(*   Mint        POST /v1/auth/anonymous                                   *)
(*   turn[t]     POST /v1/chat, one step per store call                    *)
(*   vote[v]     POST /v1/feedback                                         *)
(*   erase[e]    DELETE /v1/auth/me, one step per SQL statement            *)
(*   nightly     the scheduled reclamation of expired sessions             *)
(*                                                                         *)
(* Every handler awaits each store call, so any two of them interleave     *)
(* between calls.  A call outside a transaction is one autocommitted       *)
(* statement and is atomic.  The two transactions run at READ COMMITTED:   *)
(* a statement sees what is committed when it runs, minus what its own     *)
(* transaction deleted.  deleted[x] holds the rows transaction x deleted   *)
(* and has not committed: others still see them, but a statement that      *)
(* would delete such a row, and an insert whose foreign key names it, wait *)
(* until x ends.                                                           *)
(*                                                                         *)
(* A chat session is named by the turn that opened it, a trace and an      *)
(* answer by their turn: the code mints a fresh uuid at those places.      *)
(***************************************************************************)
EXTENDS ChatTables, Naturals

CONSTANTS Users,      \* the anonymous users that may be minted
          Turns,      \* POST /v1/chat requests
          Votes,      \* POST /v1/feedback requests
          Erasers,    \* DELETE /v1/auth/me requests
          Anchors,    \* what a verdict may be about
          Nightly,    \* the reclamation job's transaction
          TTL,        \* lifetime of a session token
          MaxTime,    \* bound on the clock
          MaxFaults,  \* bound on store calls and transactions that fail
          None

Txns == Erasers \cup {Nightly}
AnchorKinds == {"answer", "chunk", "citation"}

ASSUME ConstantsAssumption ==
  /\ Anchors \subseteq AnchorKinds
  /\ Nightly \notin Erasers
  /\ None \notin Users \cup Turns
  /\ TTL \in Nat \ {0} /\ MaxTime \in Nat /\ MaxFaults \in Nat

VARIABLES now,        \* the clock
          expiresAt,  \* sessions.expires_at of a user's only token, 0 before it exists
          db,         \* the committed rows
          deleted,    \* rows deleted by an open transaction
          turn, late, vote, erase, nightly,
          faults      \* failures so far

vars == <<now, expiresAt, db, deleted, turn, late, vote, erase, nightly, faults>>

Minted == {u \in Users : expiresAt[u] # 0}
TokenLive(u) == TokenRow(u) \in db /\ now < expiresAt[u]

-----------------------------------------------------------------------------
(* The database. *)

Doomed == UNION {deleted[x] : x \in Txns}
LockedFor(x) == UNION {deleted[y] : y \in Txns \ {x}}
See(x) == db \ deleted[x]

\* The rows an insert of R refers to, other than R's own.
Needs_Unchecked(R) == {}
Needs(R) == (UNION {References(r) : r \in R}) \ {Key(r) : r \in R}
KeyTaken(R) == \E r \in R : \E p \in db : Key(p) = Key(r)

CanInsert(R) == /\ ~KeyTaken(R)
                /\ \A k \in Needs(R) : \E p \in db \ Doomed : Key(p) = k
MustRefuse(R) == \/ KeyTaken(R)
                 \/ \E k \in Needs(R) : \A p \in db : Key(p) # k

\* DELETE with its cascades: waits for rows another transaction deleted.
DeletedBy_NoCascade(x, S) == S
DeletedBy(x, S) == Cascade(S, See(x))
MustWait(x, S) == DeletedBy(x, S) \cap LockedFor(x) # {}

-----------------------------------------------------------------------------
(* Sessions. *)

\* createSession: user and token in one transaction.
Mint(u) ==
  /\ expiresAt[u] = 0
  /\ expiresAt' = [expiresAt EXCEPT ![u] = now + TTL]
  /\ db' = db \cup {UserRow(u), TokenRow(u)}
  /\ UNCHANGED <<now, deleted, turn, late, vote, erase, nightly, faults>>

Tick ==
  /\ now < MaxTime
  /\ now' = now + 1
  /\ UNCHANGED <<expiresAt, db, deleted, turn, late, vote, erase, nightly, faults>>

-----------------------------------------------------------------------------
(* A chat turn. *)

TurnFrame == UNCHANGED <<now, expiresAt, deleted, vote, erase, nightly>>
TurnTo(t, pc) == turn' = [turn EXCEPT ![t].pc = pc]

\* One autocommitted INSERT of the turn's handler: it lands, or a foreign key
\* or unique key refuses it and the handler answers 500.
TurnInserts(t, R, next) ==
  /\ \/ CanInsert(R) /\ db' = db \cup R /\ TurnTo(t, next)
     \/ MustRefuse(R) /\ db' = db /\ TurnTo(t, "failed")
  /\ UNCHANGED <<late, faults>>
  /\ TurnFrame

\* authGuard, with the session id the client sent.
AuthTurn(t) ==
  /\ turn[t].pc = "idle"
  /\ \E u \in Minted, c \in Turns \cup {None} :
       turn' = [turn EXCEPT ![t] =
                  [pc |-> IF TokenLive(u) THEN "session" ELSE "unauthorized",
                   user |-> u, chat |-> c]]
  /\ UNCHANGED <<db, late, faults>>
  /\ TurnFrame

\* A supplied session must be the caller's; unknown and foreign ones are a 404.
CheckOwner_AnyOwner(t) ==
  /\ turn[t].pc = "session" /\ turn[t].chat # None
  /\ TurnTo(t, IF \E u \in Users : ChatRow(turn[t].chat, u) \in db
               THEN "question" ELSE "notFound")
  /\ UNCHANGED <<db, late, faults>>
  /\ TurnFrame
CheckOwner(t) ==
  /\ turn[t].pc = "session" /\ turn[t].chat # None
  /\ TurnTo(t, IF ChatRow(turn[t].chat, turn[t].user) \in db
               THEN "question" ELSE "notFound")
  /\ UNCHANGED <<db, late, faults>>
  /\ TurnFrame

OpenChat(t) ==
  /\ turn[t].pc = "session" /\ turn[t].chat = None
  /\ LET R == {ChatRow(t, turn[t].user)} IN
       \/ /\ CanInsert(R) /\ db' = db \cup R
          /\ turn' = [turn EXCEPT ![t].pc = "question", ![t].chat = t]
       \/ MustRefuse(R) /\ db' = db /\ TurnTo(t, "failed")
  /\ UNCHANGED <<late, faults>>
  /\ TurnFrame

StoreQuestion(t) ==
  /\ turn[t].pc = "question"
  /\ TurnInserts(t, {MessageRow(t, "user", turn[t].chat)}, "pipeline")

\* The engine run.  A failed run answers 500 and leaves the write of its trace
\* behind, which nothing awaits.
RunPipeline(t) ==
  /\ turn[t].pc = "pipeline"
  /\ \/ TurnTo(t, "trace") /\ late' = late
     \/ TurnTo(t, "failed") /\ late' = late \cup {t}
  /\ UNCHANGED <<db, faults>>
  /\ TurnFrame

StoreTrace(t) ==
  /\ turn[t].pc = "trace"
  /\ TurnInserts(t, {TraceRow(t, turn[t].user)}, "answer")

StoreAnswer_NoTraceId(t) ==
  /\ turn[t].pc = "answer"
  /\ TurnInserts(t, {MessageRow(t, "assistant", turn[t].chat)}, "reply")
StoreAnswer(t) ==
  /\ turn[t].pc = "answer"
  /\ TurnInserts(t, {MessageRow(t, "assistant", turn[t].chat), TraceIdColumn(t)},
                 "reply")

\* meta, deltas, citations, trace, done: nothing reaches the client before this.
Reply(t) ==
  /\ turn[t].pc = "reply"
  /\ TurnTo(t, "answered")
  /\ UNCHANGED <<db, late, faults>>
  /\ TurnFrame

\* The trace of a failed run, in the background: a refusal is only logged.
StoreLateTrace(t) ==
  /\ t \in late
  /\ LET R == {TraceRow(t, turn[t].user)} IN
       \/ CanInsert(R) /\ db' = db \cup R
       \/ MustRefuse(R) /\ db' = db
  /\ late' = late \ {t}
  /\ UNCHANGED <<turn, faults>>
  /\ TurnFrame

TurnOpen(t) == turn[t].pc \in {"session", "question", "pipeline", "trace", "answer", "reply"}

\* A store call fails, or the process dies: the handler stops where it is.
FailTurn(t) ==
  /\ faults < MaxFaults /\ faults' = faults + 1
  /\ \/ TurnOpen(t) /\ TurnTo(t, "failed") /\ late' = late
     \/ t \in late /\ late' = late \ {t} /\ turn' = turn
  /\ UNCHANGED db
  /\ TurnFrame

-----------------------------------------------------------------------------
(* A verdict on an answer. *)

VoteFrame == UNCHANGED <<now, expiresAt, deleted, turn, late, erase, nightly, faults>>
VoteTo(v, pc) == vote' = [vote EXCEPT ![v].pc = pc]

\* A flag is negative by definition; only a thumb has two ratings.
RatingsOf(a) == IF a = "answer" THEN {"up", "down"} ELSE {"down"}

AuthVote(v) ==
  /\ vote[v].pc = "idle"
  /\ \E u \in Minted, t \in Turns, a \in Anchors : \E x \in RatingsOf(a) :
       vote' = [vote EXCEPT ![v] =
                  [pc |-> IF TokenLive(u) THEN "target" ELSE "unauthorized",
                   user |-> u, turn |-> t, anchor |-> a, rating |-> x]]
  /\ UNCHANGED db
  /\ VoteFrame

\* One read finds the trace, its owner and the answer text joined through
\* answer_trace_id; a flag is then checked against what the trace grounds (an
\* outcome the data decides), a label flag only if the answer text is there.
FindTarget_AnyAnswer(v) ==
  /\ vote[v].pc = "target"
  /\ VoteTo(v, "store")
  /\ UNCHANGED db
  /\ VoteFrame
FindTarget(v) ==
  /\ vote[v].pc = "target"
  /\ LET own == TraceRow(vote[v].turn, vote[v].user) \in db
         flag == vote[v].anchor # "answer"
         textThere == TraceIdColumn(vote[v].turn) \in db
     IN \/ ~own /\ VoteTo(v, "notFound")
        \/ own /\ flag /\ VoteTo(v, "rejected")
        \/ /\ own /\ (vote[v].anchor = "citation" => textThere)
           /\ VoteTo(v, "store")
  /\ UNCHANGED db
  /\ VoteFrame

\* insertFeedback: INSERT ... ON CONFLICT DO UPDATE on the verdict's key.
StoreVote(v) ==
  /\ vote[v].pc = "store"
  /\ LET row == FeedbackRow(vote[v].user, vote[v].turn, vote[v].anchor, vote[v].rating)
         old == {r \in db : Key(r) = Key(row)}
     IN \/ CanInsert({row}) /\ db' = db \cup {row} /\ VoteTo(v, "stored")
        \/ /\ old # {} /\ old \cap Doomed = {}
           /\ db' = (db \ old) \cup {row}
           /\ VoteTo(v, "stored")
        \/ /\ old = {} /\ MustRefuse({row})
           /\ db' = db /\ VoteTo(v, "failed")
  /\ VoteFrame

-----------------------------------------------------------------------------
(* The transactions that delete. *)

\* The statements of eraseUserTree, in order; the name of a sweep is the table
\* it empties.
Sweeps == {"chat_messages", "feedback", "answer_traces", "chat_sessions",
           "sessions", "users"}
NextStatement ==
  [chat_messages |-> "verifyMessages", verifyMessages |-> "feedback",
   feedback |-> "answer_traces", answer_traces |-> "chat_sessions",
   chat_sessions |-> "sessions", sessions |-> "users", users |-> "verify",
   verify |-> "commit"]
ErasePcs == DOMAIN NextStatement \cup {"commit"}

\* cleanupExpiredSessions: the expired tokens, then the users left without one.
NightlyPcs == {"tokens", "orphans", "commit"}

\* What the next statement of transaction x deletes.
EraseTarget(e) ==
  LET u == erase[e].user
      pc == erase[e].pc
  IN CASE pc = "chat_messages" ->
            {m \in See(e) : /\ m.table = "chat_messages"
                            /\ ChatRow(m.session_id, u) \in See(e)}
       [] pc \in OwnedTables -> {r \in See(e) : r.table = pc /\ r.user_id = u}
       [] pc = "users" -> See(e) \cap {UserRow(u)}
       [] OTHER -> {}
NightlyTarget_EarlyCutoff ==
  CASE nightly.pc = "tokens" ->
         See(Nightly) \cap {TokenRow(u) : u \in {w \in Minted : expiresAt[w] <= nightly.before + 1}}
    [] nightly.pc = "orphans" ->
         See(Nightly) \cap {UserRow(u) : u \in {w \in Users : TokenRow(w) \notin See(Nightly)}}
    [] OTHER -> {}
NightlyTarget_TokensOnly ==
  IF nightly.pc = "tokens"
  THEN See(Nightly) \cap {TokenRow(u) : u \in {w \in Minted : expiresAt[w] <= nightly.before}}
  ELSE {}
NightlyTarget ==
  CASE nightly.pc = "tokens" ->
         See(Nightly) \cap {TokenRow(u) : u \in {w \in Minted : expiresAt[w] <= nightly.before}}
    [] nightly.pc = "orphans" ->
         See(Nightly) \cap {UserRow(u) : u \in {w \in Users : TokenRow(w) \notin See(Nightly)}}
    [] OTHER -> {}
Target(x) == IF x = Nightly THEN NightlyTarget ELSE EraseTarget(x)

TxnFrame == UNCHANGED <<now, expiresAt, turn, late, vote>>
EraseTo(e, pc) == erase' = [erase EXCEPT ![e].pc = pc] /\ nightly' = nightly
NightlyTo(pc) == nightly' = [nightly EXCEPT !.pc = pc] /\ erase' = erase
Open(x) == IF x = Nightly THEN nightly.pc \in NightlyPcs ELSE erase[x].pc \in ErasePcs
Waits(x) == Open(x) /\ MustWait(x, Target(x))

DeleteTarget(x) ==
  /\ ~MustWait(x, Target(x))
  /\ deleted' = [deleted EXCEPT ![x] = @ \cup DeletedBy(x, Target(x))]
  /\ UNCHANGED <<db, faults>>
  /\ TxnFrame

\* authGuard of DELETE /v1/auth/me, then BEGIN.
AuthErase(e) ==
  /\ erase[e].pc = "idle"
  /\ \E u \in Minted :
       erase' = [erase EXCEPT ![e] =
                   [pc |-> IF TokenLive(u) THEN "chat_messages" ELSE "unauthorized",
                    user |-> u]]
  /\ UNCHANGED <<db, deleted, nightly, faults>>
  /\ TxnFrame

Sweep(e) ==
  /\ erase[e].pc \in Sweeps
  /\ DeleteTarget(e)
  /\ EraseTo(e, NextStatement[erase[e].pc])

RollBack_KeepsSweeps(x) ==
  /\ deleted' = [deleted EXCEPT ![x] = {}]
  /\ IF x = Nightly THEN NightlyTo("idle") ELSE EraseTo(x, "failed")
  /\ db' = db \ deleted[x]
  /\ TxnFrame
RollBack(x) ==
  /\ deleted' = [deleted EXCEPT ![x] = {}]
  /\ IF x = Nightly THEN NightlyTo("idle") ELSE EraseTo(x, "failed")
  /\ db' = db
  /\ TxnFrame

\* The two DO blocks: a row that is still there raises and rolls back.
LeftBehind(e) ==
  LET u == erase[e].user
  IN IF erase[e].pc = "verifyMessages"
     THEN {m \in See(e) : /\ m.table = "chat_messages"
                          /\ ChatRow(m.session_id, u) \in See(e)}
     ELSE {r \in See(e) : r = UserRow(u) \/ (r.table \in OwnedTables /\ r.user_id = u)}
Verify(e) ==
  /\ erase[e].pc \in {"verifyMessages", "verify"}
  /\ IF LeftBehind(e) = {}
     THEN /\ EraseTo(e, NextStatement[erase[e].pc])
          /\ UNCHANGED <<db, deleted>>
          /\ TxnFrame
     ELSE RollBack(e)
  /\ UNCHANGED faults

StartNightly_Backdated ==
  /\ nightly.pc = "idle"
  /\ nightly' = [pc |-> "tokens", before |-> now - TTL]
  /\ UNCHANGED <<db, deleted, erase, faults>>
  /\ TxnFrame
StartNightly ==
  /\ nightly.pc = "idle"
  /\ nightly' = [pc |-> "tokens", before |-> now]
  /\ UNCHANGED <<db, deleted, erase, faults>>
  /\ TxnFrame

Reclaim ==
  /\ nightly.pc \in {"tokens", "orphans"}
  /\ DeleteTarget(Nightly)
  /\ NightlyTo(IF nightly.pc = "tokens" THEN "orphans" ELSE "commit")

CommitRows(x) ==
  /\ db' = db \ deleted[x]
  /\ deleted' = [deleted EXCEPT ![x] = {}]
  /\ TxnFrame

CommitErase(e) ==
  /\ erase[e].pc = "commit"
  /\ CommitRows(e)
  /\ EraseTo(e, "erased")
  /\ UNCHANGED faults

CommitNightly ==
  /\ nightly.pc = "commit"
  /\ CommitRows(Nightly)
  /\ NightlyTo("idle")
  /\ UNCHANGED faults

\* The database commits but the acknowledgement never arrives: the driver sends
\* ROLLBACK, which does nothing, and the handler answers 500.
LoseCommitAck(e) ==
  /\ faults < MaxFaults /\ faults' = faults + 1
  /\ erase[e].pc = "commit"
  /\ CommitRows(e)
  /\ EraseTo(e, "failed")

\* A statement that waits too long is cancelled (statement_timeout), or is the
\* victim of deadlock detection.
GiveUpWaiting_Never(x) == x \in Txns /\ FALSE
GiveUpWaiting(x) ==
  /\ Waits(x)
  /\ RollBack(x)
  /\ UNCHANGED faults

\* A connection fails or the process dies: the server rolls back.
FailTxn(x) ==
  /\ faults < MaxFaults /\ faults' = faults + 1
  /\ Open(x)
  /\ RollBack(x)

-----------------------------------------------------------------------------
Init ==
  /\ now = 0 /\ faults = 0
  /\ expiresAt = [u \in Users |-> 0]
  /\ db = {}
  /\ deleted = [x \in Txns |-> {}]
  /\ turn = [t \in Turns |-> [pc |-> "idle", user |-> None, chat |-> None]]
  /\ late = {}
  /\ vote = [v \in Votes |-> [pc |-> "idle", user |-> None, turn |-> None,
                              anchor |-> "answer", rating |-> "up"]]
  /\ erase = [e \in Erasers |-> [pc |-> "idle", user |-> None]]
  /\ nightly = [pc |-> "idle", before |-> 0]

TurnStep(t) ==
  \/ CheckOwner(t) \/ OpenChat(t) \/ StoreQuestion(t) \/ RunPipeline(t)
  \/ StoreTrace(t) \/ StoreAnswer(t) \/ Reply(t) \/ StoreLateTrace(t)
VoteStep(v) == FindTarget(v) \/ StoreVote(v)
EraseStep(e) == Sweep(e) \/ Verify(e) \/ CommitErase(e)
NightlyStep == Reclaim \/ CommitNightly

Next ==
  \/ \E u \in Users : Mint(u)
  \/ Tick
  \/ \E t \in Turns : AuthTurn(t) \/ TurnStep(t) \/ FailTurn(t)
  \/ \E v \in Votes : AuthVote(v) \/ VoteStep(v)
  \/ \E e \in Erasers : AuthErase(e) \/ EraseStep(e) \/ LoseCommitAck(e)
  \/ StartNightly \/ NightlyStep
  \/ \E x \in Txns : GiveUpWaiting(x) \/ FailTxn(x)

Spec == Init /\ [][Next]_vars

\* A handler that was admitted keeps running, the timer keeps firing, and a wait
\* ends.  Row locks are queued: a waiting sweep gets them before a transaction
\* that starts later, so the erasure is not overtaken for ever.  Clients, the
\* clock and failures owe nothing.
Fairness ==
  /\ \A t \in Turns : WF_vars(TurnStep(t))
  /\ \A v \in Votes : WF_vars(VoteStep(v))
  /\ \A e \in Erasers : SF_vars(EraseStep(e))
  /\ WF_vars(StartNightly) /\ WF_vars(NightlyStep)
  /\ \A x \in Txns : WF_vars(GiveUpWaiting(x))
FairSpec == Spec /\ Fairness

-----------------------------------------------------------------------------
(* What the tables may hold. *)

Rows ==
  {UserRow(u) : u \in Users} \cup {TokenRow(u) : u \in Users}
  \cup {ChatRow(c, u) : c \in Turns, u \in Users}
  \cup {TraceRow(t, u) : t \in Turns, u \in Users}
  \cup {MessageRow(t, role, c) : t \in Turns, role \in Roles, c \in Turns}
  \cup {TraceIdColumn(t) : t \in Turns}
  \cup {FeedbackRow(u, t, a, x) : u \in Users, t \in Turns, a \in AnchorKinds,
                                  x \in {"up", "down"}}

TurnPcs == {"idle", "unauthorized", "notFound", "session", "question", "pipeline",
            "trace", "answer", "reply", "answered", "failed"}
VotePcs == {"idle", "unauthorized", "notFound", "rejected", "target", "store",
            "stored", "failed"}

\* The type invariant.
TypeOK ==
  /\ now \in Nat /\ faults \in Nat
  /\ expiresAt \in [Users -> Nat]
  /\ db \subseteq Rows
  /\ deleted \in [Txns -> SUBSET Rows]
  /\ turn \in [Turns -> [pc : TurnPcs, user : Users \cup {None},
                         chat : Turns \cup {None}]]
  /\ late \subseteq Turns
  /\ vote \in [Votes -> [pc : VotePcs, user : Users \cup {None},
                         turn : Turns \cup {None}, anchor : AnchorKinds,
                         rating : {"up", "down"}]]
  /\ erase \in [Erasers -> [pc : ErasePcs \cup {"idle", "unauthorized", "erased", "failed"},
                            user : Users \cup {None}]]
  /\ nightly \in [pc : NightlyPcs \cup {"idle"}, before : Nat]

-----------------------------------------------------------------------------
(* Safety. *)

\* The committed tables always satisfy the schema, whatever deletes while others
\* insert: keys are unique, and a message has its chat session, a chat session,
\* token, trace and verdict their user, an answer's trace id its trace.
SchemaHolds == KeysUnique(db) /\ ReferencesHold(db)

\* Once the caller was told {deleted: true}, nothing the user owned is in any
\* table, and nothing lands there later: not the turns still running for the
\* user, not the trace of a failed run, not a verdict on its way.
ErasureIsFinal ==
  \A e \in Erasers : erase[e].pc = "erased" => RowsOf(erase[e].user, db) = {}

\* The last check of the erasure can never raise: by the time the user row is
\* deleted, what the sweeps missed was cascaded and nothing new can arrive.
FinalCheckPasses == \A e \in Erasers : erase[e].pc = "verify" => LeftBehind(e) = {}

\* An answer in the transcript always has its question, and the trace stored
\* under its message id and its owner: SET NULL is never what a reader sees.  An
\* answer that was streamed is one of these, unless its user was erased since.
AnswersAreTraced ==
  /\ \A t \in Turns, c \in Turns :
       MessageRow(t, "assistant", c) \in db =>
         /\ MessageRow(t, "user", c) \in db
         /\ TraceIdColumn(t) \in db
         /\ \E u \in Users : TraceRow(t, u) \in db /\ ChatRow(c, u) \in db
  /\ \A t \in Turns : turn[t].pc = "answered" =>
       \/ MessageRow(t, "assistant", turn[t].chat) \in db
       \/ RowsOf(turn[t].user, db) = {}

\* A turn writes into no conversation but its user's, however the owner check and
\* the inserts it guards interleave with other handlers.
TurnsStayWithTheirUser ==
  \A t \in Turns, role \in Roles, c \in Turns :
    MessageRow(t, role, c) \in db => ChatRow(c, turn[t].user) \in db

\* feedback.message_id has no foreign key, yet a verdict never outlives the trace
\* it anchors, which is its author's own; a label flag never outlives the text.
VerdictsAreGrounded ==
  \A u \in Users, t \in Turns, a \in Anchors, x \in {"up", "down"} :
    FeedbackRow(u, t, a, x) \in db =>
      /\ TraceRow(t, u) \in db
      /\ a = "citation" => TraceIdColumn(t) \in db

-----------------------------------------------------------------------------
(* What a step may never do. *)

\* Nobody loses data but by a request made with their own token, or after that
\* token expired: the nightly job never takes a user who can still sign in.
OnlyAskedOrExpired ==
  [][\A u \in Users : UserRow(u) \in db \ db' =>
       \/ now >= expiresAt[u]
       \/ \E e \in Erasers : erase[e].pc = "commit" /\ erase[e].user = u]_vars

-----------------------------------------------------------------------------
(* Liveness. *)

\* An admitted erasure ends, also when it and the nightly job wait for each
\* other's rows.
ErasuresEnd ==
  \A e \in Erasers : erase[e].pc \in ErasePcs ~> erase[e].pc \in {"erased", "failed"}

\* A user whose token expired is reclaimed with everything they own.
ExpiredAreReclaimed ==
  \A u \in Users : (expiresAt[u] # 0 /\ now >= expiresAt[u]) ~> RowsOf(u, db) = {}

-----------------------------------------------------------------------------
(* The promise this store implements: module UserData, where a user's data  *)
(* is the set of keys of the rows they own.                                 *)

Promise == INSTANCE UserData WITH
  Items <- {Key(r) : r \in Rows},
  known <- Minted,
  data <- [u \in Users |-> {Key(r) : r \in RowsOf(u, db)}],
  told <- {erase[e].user : e \in {f \in Erasers : erase[f].pc = "erased"}}
ImplementsPromise == Promise!Spec
=============================================================================
