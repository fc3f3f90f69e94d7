-------------------------- MODULE ChatCustodyProofs --------------------------
(***************************************************************************)
(* Whose data is whose, for any sets of users and requests: every row has  *)
(* one owner, a transaction that deletes takes all of an owner's rows or   *)
(* none, and so ChatStore implements UserData, the promise made to a user. *)
(*                                                                         *)
(* The schema alone does not say this.  feedback.message_id has no foreign *)
(* key, the owner of a message is checked when its turn begins and used    *)
(* when it ends, and the nightly job deletes tokens and users in separate  *)
(* statements; each clause of Custody below is one of those gaps, closed   *)
(* by the order in which the handlers work.                                *)
(***************************************************************************)
EXTENDS ChatStoreProofs

-----------------------------------------------------------------------------
(* Owners.  tn is the table of turns: the user of a turn is known when it is *)
(* admitted and never changes, so it names the owner of what the turn wrote  *)
(* without a look at the other tables.                                       *)

OwnerIn(tn, r) == IF r.table = "users" THEN r.id
                  ELSE IF r.table = "chat_messages" THEN tn[r.session_id].user
                  ELSE IF r.table = "answer_trace_id" THEN tn[r.id].user
                  ELSE r.user_id
Owner(r) == OwnerIn(turn, r)

Named(tn, t) == tn[t].pc # "idle"

\* A chat session and a trace belong to the user of the turn they are named by, a
\* message to a turn of the user of its chat session.
RowsOwned(tbl, tn) ==
  \A r \in tbl :
    /\ r.table \in {"chat_sessions", "answer_traces"} =>
         Named(tn, r.id) /\ r.user_id = tn[r.id].user
    /\ r.table = "chat_messages" =>
         /\ Named(tn, r.id[1]) /\ Named(tn, r.session_id)
         /\ tn[r.id[1]].user = tn[r.session_id].user

LEMMA RowKinds ==
  ASSUME NEW r \in Rows
  PROVE  /\ r.table = "users" => \E u \in Users : r = UserRow(u)
         /\ r.table = "sessions" => \E u \in Users : r = TokenRow(u)
         /\ r.table = "chat_sessions" => \E c \in Turns, u \in Users : r = ChatRow(c, u)
         /\ r.table = "answer_traces" => \E t \in Turns, u \in Users : r = TraceRow(t, u)
         /\ r.table = "chat_messages" =>
              \E t \in Turns, role \in Roles, c \in Turns : r = MessageRow(t, role, c)
         /\ r.table = "answer_trace_id" => \E t \in Turns : r = TraceIdColumn(t)
         /\ r.table = "feedback" =>
              \E u \in Users, t \in Turns, a \in AnchorKinds, x \in {"up", "down"} :
                r = FeedbackRow(u, t, a, x)
BY DEF Rows, UserRow, TokenRow, ChatRow, TraceRow, MessageRow, TraceIdColumn, FeedbackRow

LEMMA RowColumns ==
  /\ \A u : /\ UserRow(u).table = "users" /\ UserRow(u).id = u
            /\ TokenRow(u).table = "sessions" /\ TokenRow(u).id = u /\ TokenRow(u).user_id = u
  /\ \A t, u : /\ ChatRow(t, u).table = "chat_sessions"
               /\ ChatRow(t, u).id = t /\ ChatRow(t, u).user_id = u
               /\ TraceRow(t, u).table = "answer_traces"
               /\ TraceRow(t, u).id = t /\ TraceRow(t, u).user_id = u
  /\ \A t, role, c : /\ MessageRow(t, role, c).table = "chat_messages"
                     /\ MessageRow(t, role, c).id = <<t, role>>
                     /\ MessageRow(t, role, c).session_id = c
  /\ \A t : TraceIdColumn(t).table = "answer_trace_id" /\ TraceIdColumn(t).id = t
  /\ \A u, t, a, x : /\ FeedbackRow(u, t, a, x).table = "feedback"
                     /\ FeedbackRow(u, t, a, x).id = <<u, t, a>>
                     /\ FeedbackRow(u, t, a, x).user_id = u
                     /\ FeedbackRow(u, t, a, x).rating = x
BY DEF UserRow, TokenRow, ChatRow, TraceRow, MessageRow, TraceIdColumn, FeedbackRow

\* The keys the rows of each table refer to.
LEMMA RowReferences ==
  ASSUME NEW r
  PROVE  /\ r.table \in OwnedTables => References(r) = {<<"users", r.user_id>>}
         /\ r.table = "chat_messages" => References(r) = {<<"chat_sessions", r.session_id>>}
         /\ r.table = "answer_trace_id" =>
              References(r) = {<<"chat_messages", <<r.id, "assistant">>>>,
                               <<"answer_traces", r.id>>}
         /\ r.table = "users" => References(r) = {}
BY DEF References, UserReference, OwnedTables

LEMMA OwnerOfRows ==
  ASSUME NEW tn
  PROVE  /\ \A u : OwnerIn(tn, UserRow(u)) = u /\ OwnerIn(tn, TokenRow(u)) = u
         /\ \A t, u : OwnerIn(tn, ChatRow(t, u)) = u /\ OwnerIn(tn, TraceRow(t, u)) = u
         /\ \A t, role, c : OwnerIn(tn, MessageRow(t, role, c)) = tn[c].user
         /\ \A t : OwnerIn(tn, TraceIdColumn(t)) = tn[t].user
         /\ \A u, t, a, x : OwnerIn(tn, FeedbackRow(u, t, a, x)) = u
BY RowColumns DEF OwnerIn

\* A row and the row it refers to have one owner.
LEMMA ReferencesKeepOwner ==
  ASSUME NEW tn, NEW tbl \in SUBSET Rows, RowsOwned(tbl, tn),
         NEW r \in tbl, NEW p \in tbl, RefersTo(r, p)
  PROVE  OwnerIn(tn, r) = OwnerIn(tn, p)
<1> USE DEF RefersTo, Key
<1>1. CASE r.table \in OwnedTables
  <2>1. p.table = "users" /\ p.id = r.user_id
    BY <1>1, RowReferences
  <2> QED BY <1>1, <2>1 DEF OwnerIn, OwnedTables
<1>2. CASE r.table = "chat_messages"
  <2>1. p.table = "chat_sessions" /\ p.id = r.session_id
    BY <1>2, RowReferences
  <2>2. p.user_id = tn[r.session_id].user
    BY <2>1 DEF RowsOwned
  <2> QED BY <1>2, <2>1, <2>2 DEF OwnerIn
<1>3. CASE r.table = "answer_trace_id"
  <2>1. \/ p.table = "chat_messages" /\ p.id = <<r.id, "assistant">>
        \/ p.table = "answer_traces" /\ p.id = r.id
    BY <1>3, RowReferences
  <2>2. p.table = "chat_messages" => tn[p.session_id].user = tn[r.id].user
    BY <2>1 DEF RowsOwned
  <2>3. p.table = "answer_traces" => p.user_id = tn[r.id].user
    BY <2>1 DEF RowsOwned
  <2> QED BY <1>3, <2>1, <2>2, <2>3 DEF OwnerIn
<1>4. CASE r.table = "users"
  BY <1>4, RowReferences
<1> QED BY <1>1, <1>2, <1>3, <1>4, RowTables

\* A cascade stays with the owners of the rows it starts from.
LEMMA CascadeKeepsOwner ==
  ASSUME NEW tn, NEW tbl \in SUBSET Rows, RowsOwned(tbl, tn),
         NEW S \in SUBSET tbl, NEW r \in Cascade(S, tbl)
  PROVE  \E p \in S : OwnerIn(tn, r) = OwnerIn(tn, p)
<1>1. ASSUME NEW T \in SUBSET tbl, \A q \in T : \E p \in S : OwnerIn(tn, q) = OwnerIn(tn, p)
      PROVE  /\ WithReferrers(T, tbl) \subseteq tbl
             /\ \A q \in WithReferrers(T, tbl) : \E p \in S : OwnerIn(tn, q) = OwnerIn(tn, p)
  <2>1. ASSUME NEW q \in WithReferrers(T, tbl), q \notin T
        PROVE  \E s \in T : OwnerIn(tn, q) = OwnerIn(tn, s)
    BY <2>1, ReferencesKeepOwner DEF WithReferrers
  <2> QED BY <1>1, <2>1 DEF WithReferrers
<1> DEFINE L1 == WithReferrers(S, tbl)
           L2 == WithReferrers(L1, tbl)
<1>2. L1 \subseteq tbl /\ \A q \in L1 : \E p \in S : OwnerIn(tn, q) = OwnerIn(tn, p)
  BY <1>1
<1>3. L2 \subseteq tbl /\ \A q \in L2 : \E p \in S : OwnerIn(tn, q) = OwnerIn(tn, p)
  <2> HIDE DEF L1
  <2> QED BY <1>1, <1>2
<1>4. \A q \in WithReferrers(L2, tbl) : \E p \in S : OwnerIn(tn, q) = OwnerIn(tn, p)
  <2> HIDE DEF L2
  <2> QED BY <1>1, <1>3
<1> QED BY <1>4 DEF Cascade

\* The rows that belong to a user are the rows they own.
LEMMA RowsByOwner ==
  ASSUME NEW tn, NEW tbl \in SUBSET Rows, RowsOwned(tbl, tn), ReferencesHold(tbl), NEW u
  PROVE  RowsOf(u, tbl) = {r \in tbl : OwnerIn(tn, r) = u}
<1>1. ASSUME NEW r \in tbl, OwnedBy(r, u, tbl) PROVE OwnerIn(tn, r) = u
  <2>1. CASE r = UserRow(u)
    BY <2>1, OwnerOfRows
  <2>2. CASE r.table \in OwnedTables /\ r.user_id = u
    BY <2>2 DEF OwnerIn, OwnedTables
  <2>3. CASE r.table = "chat_messages" /\ ChatRow(r.session_id, u) \in tbl
    <3>1. tn[r.session_id].user = u
      BY <2>3, RowColumns DEF RowsOwned
    <3> QED BY <2>3, <3>1 DEF OwnerIn
  <2>4. CASE /\ r.table = "answer_trace_id"
             /\ \E m \in tbl : /\ m.table = "chat_messages" /\ m.id = <<r.id, "assistant">>
                               /\ ChatRow(m.session_id, u) \in tbl
    <3>1. PICK m \in tbl : /\ m.table = "chat_messages" /\ m.id = <<r.id, "assistant">>
                           /\ ChatRow(m.session_id, u) \in tbl
      BY <2>4
    <3>2. tn[m.session_id].user = u
      BY <3>1, RowColumns DEF RowsOwned
    <3>3. tn[r.id].user = tn[m.session_id].user
      BY <3>1 DEF RowsOwned
    <3> QED BY <2>4, <3>2, <3>3 DEF OwnerIn
  <2> QED BY <1>1, <2>1, <2>2, <2>3, <2>4 DEF OwnedBy
<1>2. ASSUME NEW m \in tbl, m.table = "chat_messages"
      PROVE  ChatRow(m.session_id, tn[m.session_id].user) \in tbl
  <2>1. PICK p \in tbl : Key(p) = <<"chat_sessions", m.session_id>>
    BY <1>2, RowReferences DEF ReferencesHold
  <2>2. p \in Rows /\ p.table = "chat_sessions" /\ p.id = m.session_id
    BY <2>1 DEF Key
  <2>3. p.user_id = tn[m.session_id].user
    BY <2>2 DEF RowsOwned
  <2>4. p = ChatRow(p.id, p.user_id)
    BY <2>2, RowKinds, RowColumns
  <2> QED BY <2>2, <2>3, <2>4
<1>3. ASSUME NEW r \in tbl, OwnerIn(tn, r) = u PROVE OwnedBy(r, u, tbl)
  <2>1. CASE r.table = "users"
    BY <1>3, <2>1, RowKinds, RowColumns DEF OwnedBy, OwnerIn
  <2>2. CASE r.table \in OwnedTables
    BY <1>3, <2>2 DEF OwnedBy, OwnerIn, OwnedTables
  <2>3. CASE r.table = "chat_messages"
    BY <1>2, <1>3, <2>3 DEF OwnedBy, OwnerIn
  <2>4. CASE r.table = "answer_trace_id"
    <3>1. PICK m \in tbl : Key(m) = <<"chat_messages", <<r.id, "assistant">>>>
      BY <2>4, RowReferences DEF ReferencesHold
    <3>2. m.table = "chat_messages" /\ m.id = <<r.id, "assistant">>
      BY <3>1 DEF Key
    <3>3. tn[m.session_id].user = tn[r.id].user
      BY <3>2 DEF RowsOwned
    <3>4. ChatRow(m.session_id, u) \in tbl
      BY <1>2, <1>3, <2>4, <3>2, <3>3 DEF OwnerIn
    <3> QED BY <2>4, <3>2, <3>4 DEF OwnedBy
  <2> QED BY <2>1, <2>2, <2>3, <2>4, RowTables
<1> QED BY <1>1, <1>3 DEF RowsOf

\* Without a live user there is no row: whoever owns a row is in the user table.
LEMMA OwnersAlive ==
  ASSUME NEW tn, NEW tbl \in SUBSET Rows, RowsOwned(tbl, tn), ReferencesHold(tbl),
         NEW r \in tbl
  PROVE  UserRow(OwnerIn(tn, r)) \in tbl
<1>1. r \in RowsOf(OwnerIn(tn, r), tbl)
  BY RowsByOwner
<1> QED BY <1>1, NoUserNoRows

-----------------------------------------------------------------------------
(* Custody, the inductive invariant. *)

Alive(u) == UserRow(u) \in db

Writing == {"question", "pipeline", "trace", "answer", "reply"}

\* A turn past the owner check writes into a conversation of its user, and what it
\* wrote is there for as long as its user is.
TurnCustody(t) ==
  /\ turn[t].pc # "idle" => turn[t].user \in Minted
  /\ turn[t].pc \in Writing =>
       Named(turn, turn[t].chat) /\ turn[turn[t].chat].user = turn[t].user
  /\ Alive(turn[t].user) =>
       /\ turn[t].pc \in {"pipeline", "trace", "answer"} =>
            MessageRow(t, "user", turn[t].chat) \in db
       /\ turn[t].pc \in {"reply", "answered"} =>
            MessageRow(t, "assistant", turn[t].chat) \in db

AnswerCustody ==
  \A t \in Turns, c \in Turns :
    MessageRow(t, "assistant", c) \in db =>
      MessageRow(t, "user", c) \in db /\ TraceIdColumn(t) \in db

\* What a verdict stands on, and a vote that found its target keeps standing on.
Grounded(u, t, a) == TraceRow(t, u) \in db /\ (a = "citation" => TraceIdColumn(t) \in db)

VerdictCustody ==
  \A u \in Users, t \in Turns, a \in AnchorKinds, x \in {"up", "down"} :
    FeedbackRow(u, t, a, x) \in db => Grounded(u, t, a)

VoteCustody(v) ==
  /\ vote[v].pc \in {"target", "store"} => vote[v].user \in Minted
  /\ vote[v].pc = "store" /\ Alive(vote[v].user) =>
       Grounded(vote[v].user, vote[v].turn, vote[v].anchor)

TokenCustody == \A u \in Users : Alive(u) => TokenRow(u) \in db

\* An erasure deletes rows of its user only; the nightly job only of users who
\* expired, and when it commits, of users it takes whole.
EraseCustody(e) ==
  /\ erase[e].pc \notin ErasePcs => deleted[e] = {}
  /\ \A r \in deleted[e] : Owner(r) = erase[e].user

NightlyCustody ==
  /\ nightly.before <= now
  /\ nightly.pc \in {"idle", "tokens"} => deleted[Nightly] = {}
  /\ nightly.pc = "orphans" => \A r \in deleted[Nightly] : r.table = "sessions"
  /\ nightly.pc = "commit" => \A r \in deleted[Nightly] : UserRow(Owner(r)) \in deleted[Nightly]
  /\ \A r \in deleted[Nightly] : expiresAt[Owner(r)] <= now

Custody ==
  /\ Inv
  /\ RowsOwned(db, turn)
  /\ \A t \in Turns : TurnCustody(t)
  /\ AnswerCustody /\ VerdictCustody /\ TokenCustody
  /\ \A v \in Votes : VoteCustody(v)
  /\ \A e \in Erasers : EraseCustody(e)
  /\ NightlyCustody

LEMMA CustodyTables ==
  ASSUME Custody
  PROVE  /\ db \in SUBSET Rows /\ RowsOwned(db, turn) /\ ReferencesHold(db)
         /\ deleted \in [Txns -> SUBSET Rows] /\ \A x \in Txns : deleted[x] \subseteq db
         /\ \A u \in Users : Alive(u) => u \in Minted
         /\ \A r \in db : UserRow(Owner(r)) \in db /\ Owner(r) \in Minted
<1>1. db \in SUBSET Rows /\ RowsOwned(db, turn) /\ ReferencesHold(db)
  BY DEF Custody, Inv, TypedInv, DataOK, DbOK
<1>2. ASSUME NEW r \in db PROVE UserRow(Owner(r)) \in db /\ Owner(r) \in Users
  <2>1. UserRow(Owner(r)) \in db
    BY <1>1, OwnersAlive DEF Owner
  <2> QED BY <1>1, <2>1, RowKinds, RowColumns
<1> QED BY <1>1, <1>2 DEF Custody, Inv, TypedInv, DataOK, DbOK, Alive

LEMMA OwnersNow ==
  /\ \A u : Owner(UserRow(u)) = u /\ Owner(TokenRow(u)) = u
  /\ \A t, u : Owner(ChatRow(t, u)) = u /\ Owner(TraceRow(t, u)) = u
  /\ \A t, role, c : Owner(MessageRow(t, role, c)) = turn[c].user
  /\ \A t : Owner(TraceIdColumn(t)) = turn[t].user
  /\ \A u, t, a, x : Owner(FeedbackRow(u, t, a, x)) = u
BY OwnerOfRows DEF Owner

-----------------------------------------------------------------------------
(* What every step keeps. *)

NamesKept == \A t \in Turns : Named(turn, t) => Named(turn', t) /\ turn'[t].user = turn[t].user

\* A user who is still there lost no row, but for a verdict replaced by a new one.
Whole == \A r \in db : r.table # "feedback" /\ UserRow(Owner(r)) \in db' => r \in db'

UsersKept == \A u \in Minted : /\ u \in Minted' /\ expiresAt'[u] = expiresAt[u]
                               /\ Alive(u)' => Alive(u)

Steady == NamesKept /\ Whole /\ UsersKept

\* Whatever happens to the turns, the owner of a row stays.
LEMMA OwnersStay ==
  ASSUME Custody, NamesKept
  PROVE  /\ \A r \in db : OwnerIn(turn', r) = Owner(r)
         /\ RowsOwned(db, turn')
<1>1. db \in SUBSET Rows /\ RowsOwned(db, turn) /\ ReferencesHold(db)
  BY CustodyTables
<1>2. ASSUME NEW r \in db, r.table \in {"chat_sessions", "answer_traces"}
      PROVE  r.id \in Turns /\ Named(turn, r.id)
  BY <1>1, <1>2, RowKinds, RowColumns DEF RowsOwned
<1>3. ASSUME NEW r \in db, r.table = "chat_messages"
      PROVE  /\ r.id[1] \in Turns /\ r.session_id \in Turns
             /\ Named(turn, r.id[1]) /\ Named(turn, r.session_id)
  <2>1. r.id[1] \in Turns /\ r.session_id \in Turns
    BY <1>1, <1>3, RowKinds, RowColumns
  <2> QED BY <1>1, <1>3, <2>1 DEF RowsOwned
<1>4. ASSUME NEW r \in db, r.table = "answer_trace_id"
      PROVE  r.id \in Turns /\ Named(turn, r.id)
  <2>1. PICK p \in db : Key(p) = <<"answer_traces", r.id>>
    BY <1>1, <1>4, RowReferences DEF ReferencesHold
  <2> QED BY <1>2, <2>1 DEF Key
<1>5. \A r \in db : OwnerIn(turn', r) = Owner(r)
  BY <1>2, <1>3, <1>4 DEF Owner, OwnerIn, NamesKept
<1>6. RowsOwned(db, turn')
  BY <1>1, <1>2, <1>3 DEF RowsOwned, NamesKept
<1> QED BY <1>5, <1>6

LEMMA NamesStay == ASSUME TypedInv, [Next]_vars PROVE NamesKept
<1> turn \in [Turns -> [pc : TurnPcs, user : Users \cup {None}, chat : Turns \cup {None}]]
  BY DEF TypedInv, TurnsOK
<1> USE DEF NamesKept, Named
<1>1. ASSUME NEW t \in Turns, AuthTurn(t) PROVE NamesKept
  BY <1>1 DEF AuthTurn
<1>2. ASSUME NEW t \in Turns, NEW pc \in TurnPcs \ {"idle"}, TurnTo(t, pc) PROVE NamesKept
  BY <1>2 DEF TurnTo
<1>3. ASSUME NEW t \in Turns, TurnStep(t) \/ FailTurn(t) PROVE NamesKept
  <2>1. CASE OpenChat(t)
    BY <1>2, <2>1 DEF OpenChat, TurnPcs
  <2>2. CASE StoreLateTrace(t)
    BY <2>2 DEF StoreLateTrace
  <2>3. CASE CheckOwner(t)
    BY <1>2, <2>3 DEF CheckOwner, TurnPcs
  <2>4. CASE RunPipeline(t) \/ Reply(t) \/ FailTurn(t)
    BY <1>2, <2>4 DEF RunPipeline, Reply, FailTurn, TurnPcs
  <2>5. CASE StoreQuestion(t) \/ StoreTrace(t) \/ StoreAnswer(t)
    BY <1>2, <2>5 DEF StoreQuestion, StoreTrace, StoreAnswer, TurnInserts, TurnPcs
  <2> QED BY <1>3, <2>1, <2>2, <2>3, <2>4, <2>5 DEF TurnStep
<1>4. ASSUME turn' = turn PROVE NamesKept
  BY <1>4
<1>5. ASSUME NEW v \in Votes, AuthVote(v) \/ VoteStep(v) PROVE NamesKept
  BY <1>4, <1>5 DEF AuthVote, VoteStep, FindTarget, StoreVote, VoteFrame
<1>6. ASSUME \/ \E e \in Erasers : AuthErase(e) \/ EraseStep(e) \/ LoseCommitAck(e)
             \/ StartNightly \/ NightlyStep
             \/ \E x \in Txns : GiveUpWaiting(x) \/ FailTxn(x)
      PROVE  NamesKept
  BY <1>4, <1>6
     DEF AuthErase, EraseStep, LoseCommitAck, StartNightly, NightlyStep, GiveUpWaiting, FailTxn,
         Sweep, Verify, CommitErase, Reclaim, CommitNightly, DeleteTarget, CommitRows, RollBack,
         TxnFrame
<1>7. CASE Tick \/ UNCHANGED vars \/ \E u \in Users : Mint(u)
  BY <1>4, <1>7 DEF Tick, vars, Mint
<1> QED BY <1>1, <1>3, <1>5, <1>6, <1>7 DEF Next

\* No step but a commit takes a row away, and a commit takes its owner's with it.
LEMMA CommitIsWhole ==
  ASSUME Custody, NEW x \in Txns, CommitRows(x),
         IF x = Nightly THEN nightly.pc = "commit" ELSE erase[x].pc = "commit"
  PROVE  Whole /\ db' \subseteq db /\ \A r \in db \ db' : UserRow(Owner(r)) \notin db'
<1>1. db' = See(x)
  BY DEF CommitRows, See
<1>2. ASSUME NEW r \in deleted[x] PROVE UserRow(Owner(r)) \notin See(x)
  <2>1. CASE x = Nightly
    BY <1>2, <2>1 DEF Custody, NightlyCustody, See
  <2>2. CASE x # Nightly
    <3>1. x \in Erasers
      BY <2>2 DEF Txns
    <3>2. Owner(r) = erase[x].user
      BY <1>2, <3>1 DEF Custody, EraseCustody
    <3> QED BY <2>2, <3>1, <3>2 DEF Custody, Inv, EraseInv
  <2> QED BY <2>1, <2>2
<1> QED BY <1>1, <1>2 DEF Whole, See

LEMMA StepWhole ==
  ASSUME Custody, [Next]_vars
  PROVE  Whole
<1> Nightly \in Txns /\ Erasers \subseteq Txns /\ Nightly \notin Erasers
  BY ConstantsAssumption DEF Txns
<1>1. ASSUME db \subseteq db' PROVE Whole
  BY <1>1 DEF Whole
<1>2. ASSUME NEW t \in Turns, AuthTurn(t) \/ TurnStep(t) \/ FailTurn(t) PROVE Whole
  BY <1>1, <1>2, TurnTabular DEF Custody, Inv, Inserts, Quiet
<1>3. ASSUME NEW v \in Votes, AuthVote(v) \/ VoteStep(v) PROVE Whole
  <2>1. CASE AuthVote(v) \/ FindTarget(v)
    BY <1>1, <2>1 DEF AuthVote, FindTarget
  <2>2. CASE StoreVote(v)
    <3> DEFINE row == FeedbackRow(vote[v].user, vote[v].turn, vote[v].anchor, vote[v].rating)
               old == {r \in db : Key(r) = Key(row)}
    <3>1. \A r \in old : r.table = "feedback"
      BY RowColumns DEF Key
    <3>2. db' = db \cup {row} \/ db' = (db \ old) \cup {row} \/ db' = db
      BY <2>2 DEF StoreVote
    <3> QED BY <3>1, <3>2 DEF Whole
  <2> QED BY <1>3, <2>1, <2>2 DEF VoteStep
<1>4. ASSUME NEW x \in Txns, RollBack(x) \/ DeleteTarget(x) PROVE Whole
  BY <1>1, <1>4 DEF RollBack, DeleteTarget
<1>5. ASSUME NEW e \in Erasers, AuthErase(e) \/ EraseStep(e) \/ LoseCommitAck(e) PROVE Whole
  BY <1>1, <1>4, <1>5, CommitIsWhole
     DEF AuthErase, EraseStep, Sweep, Verify, CommitErase, LoseCommitAck
<1>6. CASE StartNightly \/ NightlyStep
  BY <1>1, <1>4, <1>6, CommitIsWhole DEF StartNightly, NightlyStep, Reclaim, CommitNightly
<1>7. ASSUME NEW x \in Txns, GiveUpWaiting(x) \/ FailTxn(x) PROVE Whole
  BY <1>4, <1>7 DEF GiveUpWaiting, FailTxn
<1>8. CASE Tick \/ UNCHANGED vars \/ \E u \in Users : Mint(u)
  BY <1>1, <1>8 DEF Tick, vars, Mint
<1> QED BY <1>2, <1>3, <1>5, <1>6, <1>7, <1>8 DEF Next

\* No step but Mint touches a token's expiry or adds a user row.
LEMMA StepTabular ==
  ASSUME TypedInv, [Next]_vars, \A u \in Users : ~Mint(u)
  PROVE  Tabular /\ expiresAt' = expiresAt
<1>1. ASSUME NEW t \in Turns, AuthTurn(t) \/ TurnStep(t) \/ FailTurn(t)
      PROVE  Tabular /\ expiresAt' = expiresAt
  BY <1>1, TurnTabular
     DEF Tabular, AuthTurn, TurnStep, FailTurn, CheckOwner, OpenChat, StoreQuestion, RunPipeline,
         StoreTrace, StoreAnswer, Reply, StoreLateTrace, TurnInserts, TurnFrame
<1>2. ASSUME NEW v \in Votes, AuthVote(v) \/ VoteStep(v)
      PROVE  Tabular /\ expiresAt' = expiresAt
  BY <1>2, VoteTabular DEF Tabular, AuthVote, VoteStep, FindTarget, StoreVote, VoteFrame
<1>3. ASSUME \/ \E e \in Erasers : AuthErase(e) \/ EraseStep(e) \/ LoseCommitAck(e)
             \/ StartNightly \/ NightlyStep
             \/ \E x \in Txns : GiveUpWaiting(x) \/ FailTxn(x)
      PROVE  Tabular /\ expiresAt' = expiresAt
  <2>1. expiresAt' = expiresAt
    BY <1>3 DEF AuthErase, EraseStep, LoseCommitAck, StartNightly, NightlyStep, GiveUpWaiting,
                FailTxn, Sweep, Verify, CommitErase, Reclaim, CommitNightly, DeleteTarget,
                CommitRows, RollBack, TxnFrame
  <2> QED BY <1>3, <2>1, TxnTabular DEF Tabular
<1>4. CASE Tick \/ UNCHANGED vars
  BY <1>4 DEF Tick, vars, Tabular, Quiet
<1> QED BY <1>1, <1>2, <1>3, <1>4 DEF Next

LEMMA StepSteady == ASSUME Custody, [Next]_vars PROVE Steady
<1> TypedInv
  BY DEF Custody, Inv
<1>1. CASE \E u \in Users : Mint(u)
  <2>1. PICK u \in Users : Mint(u)
    BY <1>1
  <2>2. expiresAt \in [Users -> Nat] /\ u \notin Minted
    BY <2>1 DEF Mint, Minted, TypedInv, DataOK
  <2>3. \A w \in Minted : w # u /\ expiresAt'[w] = expiresAt[w]
    BY <2>1, <2>2 DEF Mint, Minted
  <2>4. ASSUME NEW w \in Minted, UserRow(w) \in db' PROVE UserRow(w) \in db
    BY <2>1, <2>3, <2>4, RowColumns DEF Mint
  <2>5. UsersKept
    BY <2>3, <2>4 DEF UsersKept, Minted, Alive
  <2> QED BY <2>5, NamesStay, StepWhole DEF Steady
<1>2. CASE ~\E u \in Users : Mint(u)
  <2>1. Tabular /\ expiresAt' = expiresAt
    BY <1>2, StepTabular
  <2>2. UsersKept
    BY <2>1, UserRowsShrink DEF UsersKept, Minted, Alive
  <2> QED BY <2>2, NamesStay, StepWhole DEF Steady
<1> QED BY <1>1, <1>2

-----------------------------------------------------------------------------
(* What a step leaves alone keeps its clauses. *)

LEMMA TurnKept ==
  ASSUME Custody, Steady, NEW t \in Turns, turn'[t] = turn[t]
  PROVE  TurnCustody(t)'
<1> /\ TurnCustody(t)
    /\ turn[t].pc \in Writing => turn[t].chat \in Turns
  BY DEF Custody, Inv, TypedInv, TurnsOK, Writing
<1>1. turn'[t].pc # "idle" => turn'[t].user \in Minted'
  BY DEF TurnCustody, Steady, UsersKept
<1>2. turn'[t].pc \in Writing =>
        Named(turn', turn'[t].chat) /\ turn'[turn'[t].chat].user = turn'[t].user
  BY DEF TurnCustody, Steady, NamesKept
<1>3. ASSUME NEW role, MessageRow(t, role, turn[t].chat) \in db, UserRow(turn[t].user) \in db'
      PROVE  MessageRow(t, role, turn[t].chat) \in db'
  <2> DEFINE row == MessageRow(t, role, turn[t].chat)
  <2>1. row.table = "chat_messages" /\ row.id[1] = t /\ row.session_id = turn[t].chat
    BY RowColumns
  <2>2. Owner(row) = turn[t].user
    BY <1>3, <2>1, OwnersNow DEF Custody, RowsOwned
  <2> QED BY <1>3, <2>1, <2>2 DEF Steady, Whole, Alive
<1>4. ASSUME turn[t].pc # "idle", UserRow(turn[t].user) \in db' PROVE Alive(turn[t].user)
  BY <1>4 DEF TurnCustody, Steady, UsersKept, Alive
<1>5. UserRow(turn'[t].user) \in db' =>
        /\ turn'[t].pc \in {"pipeline", "trace", "answer"} =>
             MessageRow(t, "user", turn'[t].chat) \in db'
        /\ turn'[t].pc \in {"reply", "answered"} =>
             MessageRow(t, "assistant", turn'[t].chat) \in db'
  BY <1>3, <1>4 DEF TurnCustody, Alive
<1> QED BY <1>1, <1>2, <1>5 DEF TurnCustody, Alive

\* What a verdict stands on stays for as long as its author does.
LEMMA GroundsStay ==
  ASSUME Custody, Steady, NEW u, NEW t, NEW a, Grounded(u, t, a), UserRow(u) \in db'
  PROVE  Grounded(u, t, a)'
<1>1. TraceRow(t, u) \in db'
  BY RowColumns, OwnersNow DEF Grounded, Steady, Whole
<1>2. turn[t].user = u
  BY RowColumns DEF Grounded, Custody, RowsOwned
<1>3. a = "citation" => TraceIdColumn(t) \in db'
  BY <1>2, RowColumns, OwnersNow DEF Grounded, Steady, Whole
<1> QED BY <1>1, <1>3 DEF Grounded

LEMMA VoteKept ==
  ASSUME Custody, Steady, NEW v \in Votes, vote'[v] = vote[v]
  PROVE  VoteCustody(v)'
<1> VoteCustody(v)
  BY DEF Custody
<1>1. vote'[v].pc \in {"target", "store"} => vote'[v].user \in Minted'
  BY DEF VoteCustody, Steady, UsersKept
<1>2. ASSUME vote[v].pc = "store", UserRow(vote[v].user) \in db'
      PROVE  Grounded(vote[v].user, vote[v].turn, vote[v].anchor)'
  <2>1. Grounded(vote[v].user, vote[v].turn, vote[v].anchor)
    BY <1>2 DEF VoteCustody, Steady, UsersKept, Alive
  <2> QED BY <1>2, <2>1, GroundsStay
<1> QED BY <1>1, <1>2 DEF VoteCustody, Alive, Grounded

LEMMA EraseKept ==
  ASSUME Custody, Steady, NEW e \in Erasers, erase'[e] = erase[e],
         deleted'[e] = deleted[e]
  PROVE  EraseCustody(e)'
<1>1. deleted[e] \subseteq db
  BY CustodyTables DEF Txns
<1>2. \A r \in deleted'[e] : OwnerIn(turn', r) = erase'[e].user
  BY <1>1, OwnersStay DEF Custody, EraseCustody, Steady, Owner
<1> QED BY <1>2 DEF Custody, EraseCustody, Owner

LEMMA NightlyKept ==
  ASSUME Custody, Steady, nightly' = nightly, deleted'[Nightly] = deleted[Nightly],
         now' \in Nat, now' >= now
  PROVE  NightlyCustody'
<1>1. deleted[Nightly] \subseteq db
  BY CustodyTables DEF Txns
<1>2. \A r \in deleted[Nightly] :
         OwnerIn(turn', r) = Owner(r) /\ expiresAt'[Owner(r)] = expiresAt[Owner(r)]
  BY <1>1, CustodyTables, OwnersStay DEF Steady, UsersKept
<1>3. \A u \in Minted : expiresAt[u] \in Nat
  BY DEF Custody, Inv, TypedInv, DataOK, Minted
<1>4. now \in Nat /\ nightly.before \in Nat
  BY DEF Custody, Inv, TypedInv, DataOK, TxnsOK
<1>5. nightly'.before <= now'
  BY <1>4 DEF Custody, NightlyCustody
<1>6. \A r \in deleted'[Nightly] : expiresAt'[OwnerIn(turn', r)] <= now'
  BY <1>1, <1>2, <1>3, <1>4, CustodyTables DEF Custody, NightlyCustody
<1> QED BY <1>2, <1>5, <1>6 DEF Custody, NightlyCustody, Owner

\* The tables, after a step that adds no row but those of R.
LEMMA TablesKept ==
  ASSUME Custody, Steady, Inv', NEW R, db' \subseteq db \cup R, RowsOwned(R, turn'),
         \A t \in Turns, c \in Turns : MessageRow(t, "assistant", c) \in R =>
           MessageRow(t, "user", c) \in db' /\ TraceIdColumn(t) \in db',
         \A u \in Users, t \in Turns, a \in AnchorKinds, x \in {"up", "down"} :
           FeedbackRow(u, t, a, x) \in R /\ FeedbackRow(u, t, a, x) \in db' =>
             Grounded(u, t, a)',
         \A u \in Users : UserRow(u) \in R => TokenRow(u) \in db'
  PROVE  RowsOwned(db', turn') /\ AnswerCustody' /\ VerdictCustody' /\ TokenCustody'
<1>1. RowsOwned(db', turn')
  BY OwnersStay DEF RowsOwned, Steady
<1>2. db' \in SUBSET Rows /\ ReferencesHold(db')
  BY DEF Inv, TypedInv, DataOK, DbOK
<1>3. \A r \in db' : UserRow(OwnerIn(turn', r)) \in db'
  BY <1>1, <1>2, OwnersAlive
<1>4. \A r \in db \cap db' : UserRow(Owner(r)) \in db'
  BY <1>3, OwnersStay DEF Steady
<1>5. AnswerCustody'
  <2>1. ASSUME NEW t \in Turns, NEW c \in Turns,
               MessageRow(t, "assistant", c) \in db, MessageRow(t, "assistant", c) \in db'
        PROVE  MessageRow(t, "user", c) \in db' /\ TraceIdColumn(t) \in db'
    <3> DEFINE answer == MessageRow(t, "assistant", c)
    <3>1. answer.table = "chat_messages" /\ answer.id[1] = t /\ answer.session_id = c
      BY RowColumns
    <3>2. turn[t].user = turn[c].user
      BY <2>1, <3>1 DEF Custody, RowsOwned
    <3>3. UserRow(turn[c].user) \in db'
      BY <1>4, <2>1, OwnersNow
    <3>4. MessageRow(t, "user", c) \in db /\ TraceIdColumn(t) \in db
      BY <2>1 DEF Custody, AnswerCustody
    <3> QED BY <3>2, <3>3, <3>4, RowColumns, OwnersNow DEF Steady, Whole
  <2> QED BY <2>1 DEF AnswerCustody
<1>6. VerdictCustody'
  <2>1. ASSUME NEW u \in Users, NEW t \in Turns, NEW a \in AnchorKinds, NEW x \in {"up", "down"},
               FeedbackRow(u, t, a, x) \in db, FeedbackRow(u, t, a, x) \in db'
        PROVE  Grounded(u, t, a)'
    <3>1. UserRow(u) \in db'
      BY <1>4, <2>1, OwnersNow
    <3> QED BY <2>1, <3>1, GroundsStay DEF Custody, VerdictCustody
  <2> QED BY <2>1 DEF VerdictCustody, Grounded
<1>7. TokenCustody'
  <2>1. ASSUME NEW u \in Users, UserRow(u) \in db, UserRow(u) \in db'
        PROVE  TokenRow(u) \in db'
    <3>1. TokenRow(u) \in db
      BY <2>1 DEF Custody, TokenCustody, Alive
    <3> QED BY <2>1, <3>1, RowColumns, OwnersNow DEF Steady, Whole
  <2> QED BY <2>1 DEF TokenCustody, Alive
<1> QED BY <1>1, <1>5, <1>6, <1>7

LEMMA NothingAdded ==
  ASSUME Custody, Steady, Inv', db' \subseteq db
  PROVE  RowsOwned(db', turn') /\ AnswerCustody' /\ VerdictCustody' /\ TokenCustody'
<1>1. RowsOwned({}, turn')
  BY DEF RowsOwned
<1> QED BY <1>1, TablesKept

-----------------------------------------------------------------------------
(* The steps of a turn. *)

LEMMA OneTurnMoves ==
  ASSUME Custody, Steady, Inv', NEW t \in Turns, TurnFrame,
         \A s \in Turns \ {t} : turn'[s] = turn[s], TurnCustody(t)',
         RowsOwned(db', turn') /\ AnswerCustody' /\ VerdictCustody' /\ TokenCustody'
  PROVE  Custody'
<1>1. \A s \in Turns : TurnCustody(s)'
  BY TurnKept
<1>2. \A v \in Votes : VoteCustody(v)'
  BY VoteKept DEF TurnFrame
<1>3. \A e \in Erasers : EraseCustody(e)'
  BY EraseKept DEF TurnFrame
<1>4. now \in Nat
  BY DEF Custody, Inv, TypedInv, DataOK
<1>5. NightlyCustody'
  BY <1>4, NightlyKept DEF TurnFrame
<1> QED BY <1>1, <1>2, <1>3, <1>5 DEF Custody

\* One INSERT, landed or refused.
LEMMA InsertKeepsCustody ==
  ASSUME Custody, Steady, Inv', NEW t \in Turns, NEW R, NEW next, TurnInserts(t, R, next),
         next # "idle", turn[t].pc # "idle",
         next \in Writing => turn[t].pc \in Writing,
         RowsOwned(R, turn'), \A u \in Users : UserRow(u) \notin R,
         \A u, s, a, x : FeedbackRow(u, s, a, x) \notin R,
         R \subseteq db' => \A s \in Turns, c \in Turns : MessageRow(s, "assistant", c) \in R =>
           MessageRow(s, "user", c) \in db' /\ TraceIdColumn(s) \in db',
         R \subseteq db' /\ UserRow(turn[t].user) \in db' =>
           /\ next \in {"pipeline", "trace", "answer"} =>
                MessageRow(t, "user", turn[t].chat) \in db'
           /\ next \in {"reply", "answered"} =>
                MessageRow(t, "assistant", turn[t].chat) \in db'
  PROVE  Custody'
<1> /\ turn \in [Turns -> [pc : TurnPcs, user : Users \cup {None}, chat : Turns \cup {None}]]
    /\ TurnFrame /\ TurnCustody(t) /\ Steady
    /\ turn[t].pc \in Writing => turn[t].chat \in Turns
  BY DEF TurnInserts, Custody, Inv, TypedInv, TurnsOK, Writing
<1>1. ASSUME NEW pc, TurnTo(t, pc)
      PROVE  /\ \A s \in Turns \ {t} : turn'[s] = turn[s]
             /\ turn'[t].pc = pc /\ turn'[t].user = turn[t].user /\ turn'[t].chat = turn[t].chat
  BY <1>1 DEF TurnTo
<1>2. turn[t].user \in Minted'
  BY DEF TurnCustody, Steady, UsersKept
<1>3. turn[t].pc \in Writing =>
        Named(turn', turn[t].chat) /\ turn'[turn[t].chat].user = turn[t].user
  BY DEF TurnCustody, Steady, NamesKept
<1>4. CASE CanInsert(R) /\ db' = db \cup R /\ TurnTo(t, next)
  <2>1. TurnCustody(t)'
    BY <1>1, <1>2, <1>3, <1>4 DEF TurnCustody, Alive
  <2>2. RowsOwned(db', turn') /\ AnswerCustody' /\ VerdictCustody' /\ TokenCustody'
    BY <1>4, TablesKept
  <2> QED BY <1>1, <1>4, <2>1, <2>2, OneTurnMoves
<1>5. CASE db' = db /\ TurnTo(t, "failed")
  <2>1. TurnCustody(t)'
    BY <1>1, <1>2, <1>5 DEF TurnCustody, Writing
  <2> QED BY <1>1, <1>5, <2>1, NothingAdded, OneTurnMoves
<1> QED BY <1>4, <1>5 DEF TurnInserts

LEMMA TurnKeepsCustody ==
  ASSUME Custody, Steady, Inv', NEW t \in Turns, AuthTurn(t) \/ TurnStep(t) \/ FailTurn(t)
  PROVE  Custody'
<1> /\ turn \in [Turns -> [pc : TurnPcs, user : Users \cup {None}, chat : Turns \cup {None}]]
    /\ TurnCustody(t)
    /\ turn[t].pc \in Writing => turn[t].chat \in Turns
  BY DEF Custody, Inv, TypedInv, TurnsOK, Writing
<1> USE DEF Named
\* A step that only moves on.
<1>1. ASSUME NEW pc, TurnTo(t, pc), TurnFrame, db' = db, pc # "idle", turn[t].pc # "idle",
             pc \in Writing => Named(turn, turn[t].chat) /\ turn[turn[t].chat].user = turn[t].user
                               /\ turn[t].chat \in Turns,
             UserRow(turn[t].user) \in db =>
               /\ pc \in {"pipeline", "trace", "answer"} =>
                    MessageRow(t, "user", turn[t].chat) \in db
               /\ pc \in {"reply", "answered"} => MessageRow(t, "assistant", turn[t].chat) \in db
      PROVE  Custody'
  <2>1. /\ \A s \in Turns \ {t} : turn'[s] = turn[s]
        /\ turn'[t].pc = pc /\ turn'[t].user = turn[t].user /\ turn'[t].chat = turn[t].chat
    BY <1>1 DEF TurnTo
  <2>2. turn'[t].user \in Minted'
    BY <1>1, <2>1 DEF TurnCustody, Steady, UsersKept
  <2>3. turn'[t].pc \in Writing =>
          Named(turn', turn'[t].chat) /\ turn'[turn'[t].chat].user = turn'[t].user
    BY <1>1, <2>1 DEF Steady, NamesKept
  <2>4. TurnCustody(t)'
    BY <1>1, <2>1, <2>2, <2>3 DEF TurnCustody, Alive
  <2> QED BY <1>1, <2>1, <2>4, NothingAdded, OneTurnMoves
<1>2. CASE AuthTurn(t)
  <2>1. /\ TurnFrame /\ db' = db
        /\ \A s \in Turns \ {t} : turn'[s] = turn[s]
        /\ turn'[t].user \in Minted /\ turn'[t].pc \in {"session", "unauthorized"}
    BY <1>2 DEF AuthTurn
  <2>2. TurnCustody(t)'
    BY <2>1 DEF TurnCustody, Steady, UsersKept, Writing
  <2>3. RowsOwned(db', turn') /\ AnswerCustody' /\ VerdictCustody' /\ TokenCustody'
    BY <2>1, NothingAdded
  <2> QED BY <2>1, <2>2, <2>3, OneTurnMoves
<1>3. CASE CheckOwner(t)
  <2>1. ASSUME ChatRow(turn[t].chat, turn[t].user) \in db
        PROVE  Named(turn, turn[t].chat) /\ turn[turn[t].chat].user = turn[t].user
    BY <2>1, RowColumns DEF Custody, RowsOwned
  <2>2. turn[t].chat \in Turns
    BY <1>3 DEF CheckOwner
  <2> QED BY <1>1, <1>3, <2>1, <2>2 DEF CheckOwner, Writing
<1>4. CASE OpenChat(t)
  <2> DEFINE R == {ChatRow(t, turn[t].user)}
  <2>1. /\ TurnFrame /\ \A s \in Turns \ {t} : turn'[s] = turn[s]
        /\ turn'[t].user = turn[t].user /\ turn'[t].pc \in {"question", "failed"}
        /\ turn'[t].pc = "question" => turn'[t].chat = t
        /\ db' \subseteq db \cup R /\ turn[t].pc # "idle"
    BY <1>4 DEF OpenChat, TurnTo
  <2>2. TurnCustody(t)'
    BY <2>1 DEF TurnCustody, Steady, UsersKept, Writing
  <2>3. RowsOwned(R, turn')
    BY <2>1, RowColumns DEF RowsOwned
  <2>4. RowsOwned(db', turn') /\ AnswerCustody' /\ VerdictCustody' /\ TokenCustody'
    BY <2>1, <2>3, TablesKept, RowColumns
  <2> QED BY <2>1, <2>2, <2>4, OneTurnMoves
\* The rows a turn writes about itself are its user's.
<1>5. ASSUME turn[t].pc \in Writing, NEW role
      PROVE  /\ RowsOwned({MessageRow(t, role, turn[t].chat)}, turn')
             /\ RowsOwned({MessageRow(t, role, turn[t].chat), TraceIdColumn(t)}, turn')
  <2>1. /\ Named(turn', t) /\ Named(turn', turn[t].chat)
        /\ turn'[t].user = turn'[turn[t].chat].user
    BY <1>5 DEF TurnCustody, Steady, NamesKept, Writing
  <2> QED BY <2>1, RowColumns DEF RowsOwned
<1>6. turn[t].pc # "idle" => RowsOwned({TraceRow(t, turn[t].user)}, turn')
  BY RowColumns DEF RowsOwned, Steady, NamesKept
<1>7. CASE StoreQuestion(t)
  <2> DEFINE R == {MessageRow(t, "user", turn[t].chat)}
  <2>1. turn[t].pc = "question" /\ TurnInserts(t, R, "pipeline")
    BY <1>7 DEF StoreQuestion
  <2>2. \A s, c : MessageRow(s, "assistant", c) \notin R
    BY RowColumns
  <2>3. MessageRow(t, "user", turn[t].chat) \in R /\ RowsOwned(R, turn')
    BY <1>5, <2>1 DEF Writing
  <2>4. \A u, s, a, x : UserRow(u) \notin R /\ FeedbackRow(u, s, a, x) \notin R
    BY RowColumns
  <2> HIDE DEF R
  <2> QED BY <2>1, <2>2, <2>3, <2>4, InsertKeepsCustody DEF Writing
<1>8. CASE StoreTrace(t)
  <2> DEFINE R == {TraceRow(t, turn[t].user)}
  <2>1. turn[t].pc = "trace" /\ TurnInserts(t, R, "answer")
    BY <1>8 DEF StoreTrace
  <2>2. ASSUME R \subseteq db', UserRow(turn[t].user) \in db'
        PROVE  MessageRow(t, "user", turn[t].chat) \in db'
    <3>1. Alive(turn[t].user)
      BY <2>1, <2>2 DEF TurnCustody, Steady, UsersKept, Alive
    <3>2. MessageRow(t, "user", turn[t].chat) \in db /\ db \subseteq db'
      BY <2>1, <3>1 DEF TurnCustody, TurnInserts
    <3> QED BY <3>2
  <2> QED BY <1>6, <2>1, <2>2, RowColumns, InsertKeepsCustody DEF Writing
<1>9. CASE StoreAnswer(t)
  <2> DEFINE answer == MessageRow(t, "assistant", turn[t].chat)
             R == {answer, TraceIdColumn(t)}
  <2>1. turn[t].pc = "answer" /\ TurnInserts(t, R, "reply") /\ db \subseteq db'
    BY <1>9 DEF StoreAnswer, TurnInserts
  <2>2. ASSUME R \subseteq db' PROVE MessageRow(t, "user", turn[t].chat) \in db'
    <3>1. db' \in SUBSET Rows /\ ReferencesHold(db')
      BY DEF Inv, TypedInv, DataOK, DbOK
    <3>2. RowsOwned(db', turn')
      BY <1>5, <2>1, OwnersStay DEF RowsOwned, Steady, TurnInserts, Writing
    <3>3. UserRow(turn'[turn[t].chat].user) \in db'
      BY <2>2, <3>1, <3>2, OwnersAlive, OwnerOfRows
    <3>4. turn'[turn[t].chat].user = turn[t].user /\ turn[t].user \in Minted
      BY <2>1 DEF TurnCustody, Steady, NamesKept, Writing
    <3>5. Alive(turn[t].user)
      BY <3>3, <3>4 DEF Steady, UsersKept, Alive
    <3> QED BY <2>1, <3>5 DEF TurnCustody
  <2>3. \A s, c : MessageRow(s, "assistant", c) \in R => s = t /\ c = turn[t].chat
    BY RowColumns
  <2>4. answer \in R /\ TraceIdColumn(t) \in R /\ RowsOwned(R, turn')
    BY <1>5, <2>1 DEF Writing
  <2>5. \A u, s, a, x : UserRow(u) \notin R /\ FeedbackRow(u, s, a, x) \notin R
    BY RowColumns
  <2> HIDE DEF R
  <2> QED BY <2>1, <2>2, <2>3, <2>4, <2>5, InsertKeepsCustody DEF Writing
<1>10. CASE RunPipeline(t) \/ Reply(t)
  BY <1>1, <1>10 DEF RunPipeline, Reply, TurnCustody, Writing, Alive
<1>11. CASE StoreLateTrace(t)
  <2> DEFINE R == {TraceRow(t, turn[t].user)}
  <2>1. t \in late /\ turn' = turn /\ TurnFrame /\ db' \subseteq db \cup R
    BY <1>11 DEF StoreLateTrace
  <2>2. turn[t].pc # "idle"
    BY <2>1 DEF Custody, Inv, TypedInv, TurnsOK
  <2>3. RowsOwned(db', turn') /\ AnswerCustody' /\ VerdictCustody' /\ TokenCustody'
    BY <1>6, <2>1, <2>2, TablesKept, RowColumns
  <2> QED BY <2>1, <2>3, TurnKept, OneTurnMoves
<1>12. CASE FailTurn(t)
  <2>1. CASE TurnOpen(t) /\ TurnTo(t, "failed")
    BY <1>1, <1>12, <2>1 DEF FailTurn, TurnOpen, Writing
  <2>2. CASE turn' = turn
    BY <1>12, <2>2, TurnKept, NothingAdded, OneTurnMoves DEF FailTurn
  <2> QED BY <1>12, <2>1, <2>2 DEF FailTurn
<1> QED BY <1>2, <1>3, <1>4, <1>7, <1>8, <1>9, <1>10, <1>11, <1>12 DEF TurnStep

-----------------------------------------------------------------------------
(* The steps of a vote. *)

LEMMA VoteKeepsCustody ==
  ASSUME Custody, Steady, Inv', NEW v \in Votes, AuthVote(v) \/ VoteStep(v)
  PROVE  Custody'
<1> vote \in [Votes -> [pc : VotePcs, user : Users \cup {None}, turn : Turns \cup {None},
                        anchor : AnchorKinds, rating : {"up", "down"}]]
  BY DEF Custody, Inv, TypedInv, VotesOK
<1> VoteFrame /\ VoteCustody(v)
  BY DEF AuthVote, VoteStep, FindTarget, StoreVote, Custody
<1>1. ASSUME \A w \in Votes \ {v} : vote'[w] = vote[w], VoteCustody(v)',
             RowsOwned(db', turn') /\ AnswerCustody' /\ VerdictCustody' /\ TokenCustody'
      PROVE  Custody'
  <2>1. \A w \in Votes : VoteCustody(w)'
    BY <1>1, VoteKept
  <2>2. \A t \in Turns : TurnCustody(t)'
    BY TurnKept DEF VoteFrame
  <2>3. \A e \in Erasers : EraseCustody(e)'
    BY EraseKept DEF VoteFrame
  <2>4. now \in Nat
    BY DEF Custody, Inv, TypedInv, DataOK
  <2>5. NightlyCustody'
    BY <2>4, NightlyKept DEF VoteFrame
  <2> QED BY <1>1, <2>1, <2>2, <2>3, <2>5 DEF Custody
<1>2. CASE AuthVote(v)
  <2>1. /\ \A w \in Votes \ {v} : vote'[w] = vote[w]
        /\ vote'[v].pc \in {"target", "unauthorized"} /\ vote'[v].user \in Minted
        /\ db' = db
    BY <1>2 DEF AuthVote
  <2>2. VoteCustody(v)'
    BY <2>1 DEF VoteCustody, Steady, UsersKept
  <2> QED BY <1>1, <2>1, <2>2, NothingAdded
<1>3. CASE FindTarget(v)
  <2>1. /\ \A w \in Votes \ {v} : vote'[w] = vote[w]
        /\ vote'[v].user = vote[v].user /\ vote'[v].turn = vote[v].turn
        /\ vote'[v].anchor = vote[v].anchor
        /\ vote[v].pc = "target" /\ vote'[v].pc \in {"notFound", "rejected", "store"}
        /\ db' = db
    BY <1>3 DEF FindTarget, VoteTo
  <2>2. vote'[v].pc = "store" => Grounded(vote[v].user, vote[v].turn, vote[v].anchor)
    BY <1>3, <2>1 DEF FindTarget, VoteTo, Grounded
  <2>3. VoteCustody(v)'
    BY <2>1, <2>2 DEF VoteCustody, Steady, UsersKept, Grounded
  <2> QED BY <1>1, <2>1, <2>3, NothingAdded
<1>4. CASE StoreVote(v)
  <2>1. /\ \A w \in Votes \ {v} : vote'[w] = vote[w]
        /\ vote'[v].pc \in {"stored", "failed"} /\ vote[v].pc = "store"
    BY <1>4 DEF StoreVote, VoteTo
  <2>2. VoteCustody(v)'
    BY <2>1 DEF VoteCustody
  \* The verdict, as values that do not change.
  <2>3. PICK u, s, a, x : u = vote[v].user /\ s = vote[v].turn /\ a = vote[v].anchor
                          /\ x = vote[v].rating
    OBVIOUS
  <2> DEFINE row == FeedbackRow(u, s, a, x)
             R == {row}
  <2>4. db' \subseteq db \cup R /\ RowsOwned(R, turn')
    BY <1>4, <2>3, RowColumns DEF StoreVote, RowsOwned
  <2>5. ASSUME row \in db' PROVE Grounded(u, s, a)'
    <3>1. db' \in SUBSET Rows /\ ReferencesHold(db')
      BY DEF Inv, TypedInv, DataOK, DbOK
    <3>2. RowsOwned(db', turn')
      BY <2>4, OwnersStay DEF RowsOwned, Steady
    <3>3. UserRow(OwnerIn(turn', row)) \in db'
      BY <2>5, <3>1, <3>2, OwnersAlive
    <3>4. UserRow(u) \in db'
      BY <3>3, RowColumns DEF OwnerIn
    <3>5. Grounded(u, s, a)
      BY <2>1, <2>3, <3>4 DEF VoteCustody, Steady, UsersKept, Alive
    <3> QED BY <3>4, <3>5, GroundsStay
  <2>6. ASSUME NEW w \in Users, NEW t \in Turns, NEW b \in AnchorKinds, NEW y \in {"up", "down"},
               FeedbackRow(w, t, b, y) \in R, FeedbackRow(w, t, b, y) \in db'
        PROVE  Grounded(w, t, b)'
    <3>1. w = u /\ t = s /\ b = a
      BY <2>6, RowColumns
    <3> QED BY <2>5, <2>6, <3>1
  <2>7. RowsOwned(db', turn') /\ AnswerCustody' /\ VerdictCustody' /\ TokenCustody'
    BY <2>4, <2>6, TablesKept, RowColumns
  <2> QED BY <1>1, <2>1, <2>2, <2>7
<1> QED BY <1>2, <1>3, <1>4 DEF VoteStep

-----------------------------------------------------------------------------
(* The transactions. *)

LEMMA TxnFrameKeepsCustody ==
  ASSUME Custody, Steady, Inv', TxnFrame, db' \subseteq db,
         \A e \in Erasers : EraseCustody(e)', NightlyCustody'
  PROVE  Custody'
<1>1. \A t \in Turns : TurnCustody(t)'
  BY TurnKept DEF TxnFrame
<1>2. \A v \in Votes : VoteCustody(v)'
  BY VoteKept DEF TxnFrame
<1> QED BY <1>1, <1>2, NothingAdded DEF Custody

\* A statement of an erasure deletes rows of its user.
LEMMA SweepsOwn ==
  ASSUME Custody, NEW e \in Erasers, NEW r \in DeletedBy(e, Target(e))
  PROVE  Owner(r) = erase[e].user
<1> e \in Txns /\ e # Nightly
  BY ConstantsAssumption DEF Txns
<1>1. See(e) \in SUBSET Rows /\ RowsOwned(See(e), turn) /\ See(e) \subseteq db
  BY CustodyTables DEF See, RowsOwned
<1>2. ASSUME NEW p \in Target(e) PROVE Owner(p) = erase[e].user
  <2> DEFINE u == erase[e].user
             pc == erase[e].pc
  <2>1. Target(e) = EraseTarget(e)
    BY DEF Target
  <2>2. CASE pc = "chat_messages"
    <3>1. p.table = "chat_messages" /\ ChatRow(p.session_id, u) \in See(e)
      BY <1>2, <2>1, <2>2 DEF EraseTarget, OwnedTables
    <3>2. turn[p.session_id].user = u
      BY <1>1, <3>1, RowColumns DEF RowsOwned
    <3> QED BY <3>1, <3>2 DEF Owner, OwnerIn
  <2>3. CASE pc \in OwnedTables
    BY <1>2, <2>1, <2>3 DEF EraseTarget, Owner, OwnerIn, OwnedTables
  <2>4. CASE pc = "users"
    BY <1>2, <2>1, <2>4, OwnersNow DEF EraseTarget, OwnedTables
  <2> QED BY <1>2, <2>1, <2>2, <2>3, <2>4 DEF EraseTarget
<1>3. PICK p \in Target(e) : OwnerIn(turn, r) = OwnerIn(turn, p)
  BY <1>1, TargetSeen, CascadeKeepsOwner DEF DeletedBy
<1> QED BY <1>2, <1>3 DEF Owner

\* Nothing refers to a token.
LEMMA TokensAlone ==
  ASSUME NEW tbl \in SUBSET Rows, NEW S \in SUBSET tbl, \A p \in S : p.table = "sessions"
  PROVE  Cascade(S, tbl) = S
<1>1. ASSUME NEW r \in tbl, NEW p \in S PROVE ~RefersTo(r, p)
  BY <1>1, RowTables, RowReferences DEF RefersTo, Key
<1>2. WithReferrers(S, tbl) = S
  BY <1>1 DEF WithReferrers
<1> QED BY <1>2 DEF Cascade

LEMMA ReclaimKeepsCustody ==
  ASSUME Custody, Steady, Reclaim
  PROVE  NightlyCustody'
<1> Nightly \in Txns
  BY DEF Txns
<1> DEFINE D == DeletedBy(Nightly, Target(Nightly))
<1>1. /\ deleted'[Nightly] = deleted[Nightly] \cup D
      /\ turn' = turn /\ expiresAt' = expiresAt /\ now' = now
      /\ nightly.pc \in {"tokens", "orphans"}
      /\ nightly'.pc = IF nightly.pc = "tokens" THEN "orphans" ELSE "commit"
      /\ nightly'.before = nightly.before
  BY CustodyTables DEF Reclaim, DeleteTarget, TxnFrame, NightlyTo, Custody, Inv, TypedInv, TxnsOK
<1>2. See(Nightly) \in SUBSET Rows /\ RowsOwned(See(Nightly), turn) /\ See(Nightly) \subseteq db
  BY CustodyTables DEF See, RowsOwned
<1>3. Target(Nightly) = NightlyTarget /\ Target(Nightly) \subseteq See(Nightly)
  BY TargetSeen DEF Target
<1>4. now \in Nat /\ nightly.before \in Nat /\ nightly.before <= now
      /\ \A u \in Minted : expiresAt[u] \in Nat
  BY DEF Custody, NightlyCustody, Inv, TypedInv, DataOK, TxnsOK, Minted
<1>5. CASE nightly.pc = "tokens"
  <2>1. Target(Nightly) = See(Nightly) \cap
          {TokenRow(u) : u \in {w \in Minted : expiresAt[w] <= nightly.before}}
    BY <1>3, <1>5 DEF NightlyTarget
  <2>2. D = Target(Nightly)
    BY <1>2, <2>1, RowColumns, TokensAlone DEF DeletedBy
  <2>3. deleted'[Nightly] = Target(Nightly)
    BY <1>1, <1>5, <2>2 DEF Custody, NightlyCustody
  <2>4. \A r \in Target(Nightly) : r.table = "sessions" /\ expiresAt[Owner(r)] <= now
    BY <1>4, <2>1, RowColumns, OwnersNow
  <2> QED BY <1>1, <1>4, <1>5, <2>3, <2>4 DEF NightlyCustody, Owner
<1>6. CASE nightly.pc = "orphans"
  <2>1. Target(Nightly) = See(Nightly) \cap
          {UserRow(u) : u \in {w \in Users : TokenRow(w) \notin See(Nightly)}}
    BY <1>3, <1>6 DEF NightlyTarget
  <2>2. Target(Nightly) \subseteq D
    BY <1>3, CascadeSubset DEF DeletedBy
  <2>3. ASSUME NEW r \in D PROVE UserRow(Owner(r)) \in Target(Nightly)
    <3>1. PICK p \in Target(Nightly) : OwnerIn(turn, r) = OwnerIn(turn, p)
      BY <1>2, <1>3, CascadeKeepsOwner DEF DeletedBy
    <3>2. PICK u \in Users : p = UserRow(u)
      BY <2>1
    <3> QED BY <3>1, <3>2, OwnersNow DEF Owner
  <2>4. ASSUME NEW r \in deleted[Nightly]
        PROVE  UserRow(Owner(r)) \in Target(Nightly)
    <3>1. r.table = "sessions" /\ r \in db /\ r \in Rows
      BY <1>6, CustodyTables DEF Custody, NightlyCustody
    <3>2. PICK u \in Users : r = TokenRow(u)
      BY <3>1, RowKinds
    <3>3. Owner(r) = u /\ TokenRow(u) \notin See(Nightly)
      BY <3>2, OwnersNow DEF See
    <3>4. UserRow(u) \in db
      BY <3>1, <3>3, CustodyTables
    <3>5. UserRow(u) \notin deleted[Nightly]
      BY <1>6, RowColumns DEF Custody, NightlyCustody
    <3> QED BY <2>1, <3>3, <3>4, <3>5 DEF See
  <2>5. ASSUME NEW r, UserRow(Owner(r)) \in Target(Nightly)
        PROVE  expiresAt[Owner(r)] <= now
    <3> DEFINE u == Owner(r)
    <3>1. u \in Users /\ UserRow(u) \in db /\ TokenRow(u) \notin See(Nightly)
      BY <1>2, <2>1, <2>5, RowColumns
    <3>2. TokenRow(u) \in deleted[Nightly]
      BY <3>1 DEF Custody, TokenCustody, Alive, See
    <3> QED BY <3>2, OwnersNow DEF Custody, NightlyCustody
  <2>6. \A r \in deleted'[Nightly] : /\ UserRow(Owner(r)) \in deleted'[Nightly]
                                     /\ expiresAt[Owner(r)] <= now
    <3> HIDE DEF D
    <3> QED BY <1>1, <2>2, <2>3, <2>4, <2>5
  <2> QED BY <1>1, <1>4, <1>6, <2>6 DEF NightlyCustody, Owner
<1> QED BY <1>1, <1>5, <1>6

LEMMA TxnKeepsCustody ==
  ASSUME Custody, Steady, Inv',
         \/ \E e \in Erasers : AuthErase(e) \/ EraseStep(e) \/ LoseCommitAck(e)
         \/ StartNightly \/ NightlyStep
         \/ \E x \in Txns : GiveUpWaiting(x) \/ FailTxn(x)
  PROVE  Custody'
<1> Nightly \in Txns /\ Erasers \subseteq Txns /\ Nightly \notin Erasers
  BY ConstantsAssumption DEF Txns
<1> DEFINE Pcs == ErasePcs \cup {"idle", "unauthorized", "erased", "failed"}
<1> /\ deleted \in [Txns -> SUBSET Rows]
    /\ erase \in [Erasers -> [pc : Pcs, user : Users \cup {None}]]
    /\ nightly \in [pc : NightlyPcs \cup {"idle"}, before : Nat] /\ now \in Nat
    /\ \A x \in Txns : deleted[x] \subseteq db
    /\ NightlyCustody
    /\ \A e \in Erasers : EraseCustody(e)
  BY CustodyTables DEF Custody, Inv, TypedInv, TxnsOK, DataOK
\* An erasure moves and nothing else does, or the nightly job.
<1>1. ASSUME NEW e \in Erasers, TxnFrame, db' \subseteq db, nightly' = nightly,
             \A x \in Txns \ {e} : deleted'[x] = deleted[x],
             \A f \in Erasers \ {e} : erase'[f] = erase[f], EraseCustody(e)'
      PROVE  Custody'
  <2>1. NightlyCustody'
    BY <1>1, NightlyKept DEF TxnFrame
  <2>2. \A f \in Erasers : EraseCustody(f)'
    BY <1>1, EraseKept
  <2> QED BY <1>1, <2>1, <2>2, TxnFrameKeepsCustody
<1>2. ASSUME TxnFrame, db' \subseteq db, erase' = erase,
             \A x \in Txns \ {Nightly} : deleted'[x] = deleted[x], NightlyCustody'
      PROVE  Custody'
  <2>1. \A f \in Erasers : EraseCustody(f)'
    BY <1>2, EraseKept
  <2> QED BY <1>2, <2>1, TxnFrameKeepsCustody
<1>3. ASSUME NEW e \in Erasers, NEW pc \in {"erased", "failed"}, EraseTo(e, pc), TxnFrame,
             db' \subseteq db, deleted' = [deleted EXCEPT ![e] = {}]
      PROVE  Custody'
  <2>1. EraseCustody(e)'
    BY <1>3 DEF EraseCustody
  <2> QED BY <1>1, <1>3, <2>1 DEF EraseTo
<1>4. ASSUME NightlyTo("idle"), TxnFrame, db' \subseteq db,
             deleted' = [deleted EXCEPT ![Nightly] = {}]
      PROVE  Custody'
  <2>1. nightly'.pc = "idle" /\ nightly'.before = nightly.before /\ deleted'[Nightly] = {}
        /\ now' = now
    BY <1>4 DEF NightlyTo, TxnFrame
  <2>2. NightlyCustody'
    BY <2>1 DEF NightlyCustody
  <2> QED BY <1>2, <1>4, <2>2 DEF NightlyTo
<1>5. ASSUME NEW x \in Txns, RollBack(x) PROVE Custody'
  <2>1. CASE x = Nightly
    BY <1>4, <1>5, <2>1 DEF RollBack
  <2>2. CASE x # Nightly
    BY <1>3, <1>5, <2>2 DEF RollBack, Txns
  <2> QED BY <2>1, <2>2
<1>6. ASSUME NEW e \in Erasers, AuthErase(e) PROVE Custody'
  <2>1. deleted[e] = {}
    BY <1>6 DEF AuthErase, EraseCustody, ErasePcs, NextStatement
  <2>2. EraseCustody(e)'
    BY <1>6, <2>1 DEF AuthErase, EraseCustody
  <2>3. /\ TxnFrame /\ db' = db /\ nightly' = nightly /\ deleted' = deleted
        /\ \A f \in Erasers \ {e} : erase'[f] = erase[f]
    BY <1>6 DEF AuthErase
  <2> QED BY <1>1, <2>2, <2>3
<1>7. ASSUME NEW e \in Erasers, Sweep(e) PROVE Custody'
  <2>1. /\ TxnFrame /\ db' = db /\ nightly' = nightly
        /\ deleted'[e] = deleted[e] \cup DeletedBy(e, Target(e))
        /\ \A x \in Txns \ {e} : deleted'[x] = deleted[x]
        /\ \A f \in Erasers \ {e} : erase'[f] = erase[f]
        /\ erase'[e].user = erase[e].user /\ erase'[e].pc = NextStatement[erase[e].pc]
        /\ erase[e].pc \in Sweeps /\ turn' = turn
    BY <1>7 DEF Sweep, DeleteTarget, EraseTo, TxnFrame
  <2>2. erase'[e].pc \in ErasePcs
    BY <2>1 DEF Sweeps, NextStatement, ErasePcs
  <2>3. \A r \in deleted'[e] : Owner(r) = erase[e].user
    BY <2>1, SweepsOwn DEF EraseCustody
  <2>4. EraseCustody(e)'
    BY <2>1, <2>2, <2>3 DEF EraseCustody, Owner
  <2> QED BY <1>1, <2>1, <2>4
<1>8. ASSUME NEW e \in Erasers, Verify(e) PROVE Custody'
  <2>1. CASE RollBack(e)
    BY <1>5, <2>1
  <2>2. CASE EraseTo(e, NextStatement[erase[e].pc]) /\ UNCHANGED <<db, deleted>> /\ TxnFrame
    <3>1. /\ erase'[e].user = erase[e].user /\ erase'[e].pc = NextStatement[erase[e].pc]
          /\ \A f \in Erasers \ {e} : erase'[f] = erase[f]
          /\ erase[e].pc \in {"verifyMessages", "verify"} /\ turn' = turn
      BY <1>8, <2>2 DEF Verify, EraseTo, TxnFrame
    <3>2. erase'[e].pc \in ErasePcs
      BY <3>1 DEF NextStatement, ErasePcs
    <3>3. EraseCustody(e)'
      BY <2>2, <3>1, <3>2 DEF EraseCustody, Owner
    <3> QED BY <1>1, <2>2, <3>1, <3>3 DEF EraseTo
  <2> QED BY <1>8, <2>1, <2>2 DEF Verify
<1>9. ASSUME NEW e \in Erasers, CommitErase(e) \/ LoseCommitAck(e) PROVE Custody'
  BY <1>3, <1>9 DEF CommitErase, LoseCommitAck, CommitRows
<1>10. CASE StartNightly
  <2>1. /\ nightly'.pc = "tokens" /\ nightly'.before = now /\ now' = now
        /\ deleted' = deleted /\ deleted[Nightly] = {} /\ erase' = erase /\ TxnFrame /\ db' = db
    BY <1>10 DEF StartNightly, TxnFrame, Custody, NightlyCustody
  <2>2. NightlyCustody'
    BY <2>1 DEF NightlyCustody
  <2> QED BY <1>2, <2>1, <2>2
<1>11. CASE Reclaim
  <2>1. TxnFrame /\ db' = db /\ erase' = erase
        /\ \A x \in Txns \ {Nightly} : deleted'[x] = deleted[x]
    BY <1>11 DEF Reclaim, DeleteTarget, NightlyTo
  <2> QED BY <1>2, <1>11, <2>1, ReclaimKeepsCustody
<1>12. CASE CommitNightly
  BY <1>4, <1>12 DEF CommitNightly, CommitRows
<1>13. ASSUME NEW x \in Txns, GiveUpWaiting(x) \/ FailTxn(x) PROVE Custody'
  BY <1>5, <1>13 DEF GiveUpWaiting, FailTxn
<1> QED BY <1>6, <1>7, <1>8, <1>9, <1>10, <1>11, <1>12, <1>13 DEF EraseStep, NightlyStep

LEMMA CustodyInit == ASSUME Init PROVE Custody
<1> Inv
  BY InvInit
<1>1. db = {} /\ \A x \in Txns : deleted[x] = {}
  BY DEF Init
<1>2. /\ \A t \in Turns : turn[t].pc = "idle"
      /\ \A v \in Votes : vote[v].pc = "idle"
      /\ \A e \in Erasers : erase[e].pc = "idle"
      /\ nightly.pc = "idle" /\ nightly.before = now /\ now \in Nat
  BY DEF Init
<1>3. Nightly \in Txns /\ Erasers \subseteq Txns
  BY DEF Txns
<1>4. \A t \in Turns : TurnCustody(t)
  BY <1>1, <1>2 DEF TurnCustody, Writing, Alive
<1>5. \A v \in Votes : VoteCustody(v)
  BY <1>2 DEF VoteCustody
<1>6. \A e \in Erasers : EraseCustody(e)
  BY <1>1, <1>3 DEF EraseCustody
<1>7. NightlyCustody
  BY <1>1, <1>2, <1>3 DEF NightlyCustody
<1> QED BY <1>1, <1>4, <1>5, <1>6, <1>7
        DEF Custody, RowsOwned, AnswerCustody, VerdictCustody, TokenCustody, Alive

LEMMA CustodyNext == ASSUME Custody, [Next]_vars PROVE Custody'
<1> Steady
  BY StepSteady
<1> Inv'
  BY InvNext DEF Custody
<1>1. ASSUME UNCHANGED <<db, deleted, turn, vote, erase, nightly>>, now' \in Nat, now' >= now
      PROVE  Custody'
  <2>1. \A t \in Turns : TurnCustody(t)'
    BY <1>1, TurnKept
  <2>2. \A v \in Votes : VoteCustody(v)'
    BY <1>1, VoteKept
  <2>3. \A e \in Erasers : EraseCustody(e)'
    BY <1>1, EraseKept
  <2>4. NightlyCustody'
    BY <1>1, NightlyKept
  <2> QED BY <1>1, <2>1, <2>2, <2>3, <2>4, NothingAdded DEF Custody
<1>2. now \in Nat
  BY DEF Custody, Inv, TypedInv, DataOK
<1>3. ASSUME NEW u \in Users, Mint(u) PROVE Custody'
  <2> DEFINE R == {UserRow(u), TokenRow(u)}
  <2>1. /\ db' = db \cup R
        /\ UNCHANGED <<now, deleted, turn, late, vote, erase, nightly, faults>>
    BY <1>3 DEF Mint
  <2>2. RowsOwned(R, turn')
    BY RowColumns DEF RowsOwned
  <2>3. \A w \in Users : UserRow(w) \in R => TokenRow(w) \in db'
    BY <2>1, RowColumns
  <2>4. /\ \A t, c : MessageRow(t, "assistant", c) \notin R
        /\ \A w, t, a, x : FeedbackRow(w, t, a, x) \notin R
    BY RowColumns
  <2>5. RowsOwned(db', turn') /\ AnswerCustody' /\ VerdictCustody' /\ TokenCustody'
    <3> HIDE DEF R
    <3> QED BY <2>1, <2>2, <2>3, <2>4, TablesKept
  <2>6. \A t \in Turns : TurnCustody(t)'
    BY <2>1, TurnKept
  <2>7. \A v \in Votes : VoteCustody(v)'
    BY <2>1, VoteKept
  <2>8. \A e \in Erasers : EraseCustody(e)'
    BY <2>1, EraseKept
  <2>9. NightlyCustody'
    BY <1>2, <2>1, NightlyKept
  <2> QED BY <2>5, <2>6, <2>7, <2>8, <2>9 DEF Custody
<1>4. CASE Tick
  BY <1>1, <1>2, <1>4 DEF Tick
<1>5. CASE UNCHANGED vars
  BY <1>1, <1>2, <1>5 DEF vars
<1> QED BY <1>3, <1>4, <1>5, TurnKeepsCustody, VoteKeepsCustody, TxnKeepsCustody DEF Next

-----------------------------------------------------------------------------
(* The safety invariants, and what a step may never do. *)

\* A message is in a conversation of its turn's user: the key of the conversation
\* names one owner, and custody says who.
THEOREM TurnsStay == Spec => []TurnsStayWithTheirUser
<1>1. ASSUME Custody PROVE TurnsStayWithTheirUser
  <2>1. ASSUME NEW t \in Turns, NEW role \in Roles, NEW c \in Turns,
               MessageRow(t, role, c) \in db
        PROVE  ChatRow(c, turn[t].user) \in db
    <3> DEFINE m == MessageRow(t, role, c)
    <3>1. m.table = "chat_messages" /\ m.id[1] = t /\ m.session_id = c
      BY RowColumns
    <3>2. turn[t].user = turn[c].user
      BY <1>1, <2>1, <3>1 DEF Custody, RowsOwned
    <3>3. PICK p \in db : Key(p) = <<"chat_sessions", c>>
      BY <1>1, <2>1, <3>1, RowReferences, CustodyTables DEF ReferencesHold
    <3>4. p \in Rows /\ p.table = "chat_sessions" /\ p.id = c
      BY <1>1, <3>3, CustodyTables DEF Key
    <3>5. p = ChatRow(c, p.user_id)
      BY <3>4, RowKinds, RowColumns
    <3>6. p.user_id = turn[c].user
      BY <1>1, <3>3, <3>4 DEF Custody, RowsOwned
    <3> QED BY <3>2, <3>3, <3>5, <3>6
  <2> QED BY <2>1 DEF TurnsStayWithTheirUser
<1> QED BY <1>1, CustodyInit, CustodyNext, PTL DEF Spec

\* A verdict has the trace it is about, without a foreign key that says so.
THEOREM VerdictsGrounded == Spec => []VerdictsAreGrounded
<1>1. Custody => VerdictsAreGrounded
  BY ConstantsAssumption DEF Custody, VerdictCustody, Grounded, VerdictsAreGrounded
<1> QED BY <1>1, CustodyInit, CustodyNext, PTL DEF Spec

\* A stored answer has its question, its trace id and its owner's trace; one that was
\* streamed is stored, or its user is gone with everything they owned.
THEOREM AnswersTraced == Spec => []AnswersAreTraced
<1>1. ASSUME Custody PROVE AnswersAreTraced
  <2> db \in SUBSET Rows /\ RowsOwned(db, turn) /\ ReferencesHold(db)
    BY <1>1, CustodyTables
  <2>1. ASSUME NEW t \in Turns, NEW c \in Turns, MessageRow(t, "assistant", c) \in db
        PROVE  /\ MessageRow(t, "user", c) \in db /\ TraceIdColumn(t) \in db
               /\ \E u \in Users : TraceRow(t, u) \in db /\ ChatRow(c, u) \in db
    <3> DEFINE u == turn[t].user
               m == MessageRow(t, "assistant", c)
    <3>1. MessageRow(t, "user", c) \in db /\ TraceIdColumn(t) \in db
      BY <1>1, <2>1 DEF Custody, AnswerCustody
    <3>2. m.table = "chat_messages" /\ m.id[1] = t /\ m.session_id = c
      BY RowColumns
    <3>3. u = turn[c].user
      BY <2>1, <3>2 DEF RowsOwned
    <3>4. PICK p \in db : Key(p) = <<"chat_sessions", c>>
      BY <2>1, <3>2, RowReferences DEF ReferencesHold
    <3>5. p = ChatRow(c, u) /\ u \in Users
      <4>1. p.table = "chat_sessions" /\ p.id = c
        BY <3>4 DEF Key
      <4>2. p.user_id = u
        BY <3>3, <4>1 DEF RowsOwned
      <4> QED BY <4>1, <4>2, RowKinds, RowColumns
    <3>6. PICK q \in db : Key(q) = <<"answer_traces", t>>
      <4>1. <<"answer_traces", t>> \in References(TraceIdColumn(t))
        BY RowColumns, RowReferences
      <4> QED BY <3>1, <4>1 DEF ReferencesHold
    <3>7. q = TraceRow(t, u)
      <4>1. q.table = "answer_traces" /\ q.id = t
        BY <3>6 DEF Key
      <4>2. q.user_id = u
        BY <4>1 DEF RowsOwned
      <4> QED BY <4>1, <4>2, RowKinds, RowColumns
    <3> QED BY <3>1, <3>5, <3>7
  <2>2. ASSUME NEW t \in Turns, turn[t].pc = "answered"
        PROVE  \/ MessageRow(t, "assistant", turn[t].chat) \in db
               \/ RowsOf(turn[t].user, db) = {}
    BY <1>1, <2>2, NoUserNoRows DEF Custody, TurnCustody, Alive
  <2> QED BY <2>1, <2>2 DEF AnswersAreTraced
<1> QED BY <1>1, CustodyInit, CustodyNext, PTL DEF Spec

\* A step that takes a user row commits that user's erasure, or the nightly job, and
\* the job holds only users whose token expired.
LEMMA OnlyACommitTakesUsers ==
  ASSUME Custody, [Next]_vars, NEW u \in Users, UserRow(u) \in db \ db'
  PROVE  \/ now >= expiresAt[u]
         \/ \E e \in Erasers : erase[e].pc = "commit" /\ erase[e].user = u
<1> TypedInv /\ Nightly \in Txns /\ Erasers \subseteq Txns
  BY DEF Custody, Inv, Txns
<1>1. ASSUME db \subseteq db' PROVE FALSE
  BY <1>1
<1>2. ASSUME NEW e \in Erasers, CommitErase(e) \/ LoseCommitAck(e)
      PROVE  erase[e].pc = "commit" /\ erase[e].user = u
  <2>1. erase[e].pc = "commit" /\ UserRow(u) \in deleted[e]
    BY <1>2 DEF CommitErase, LoseCommitAck, CommitRows
  <2> QED BY <2>1, OwnersNow DEF Custody, EraseCustody
<1>3. CASE CommitNightly
  <2>1. UserRow(u) \in deleted[Nightly]
    BY <1>3 DEF CommitNightly, CommitRows
  <2>2. expiresAt[u] <= now
    BY <2>1, OwnersNow DEF Custody, NightlyCustody
  <2>3. expiresAt[u] \in Nat /\ now \in Nat
    BY DEF TypedInv, DataOK
  <2> QED BY <2>2, <2>3
<1>4. ASSUME NEW x \in Txns, RollBack(x) \/ DeleteTarget(x) PROVE FALSE
  BY <1>1, <1>4 DEF RollBack, DeleteTarget
<1>5. ASSUME NEW e \in Erasers, AuthErase(e) \/ Sweep(e) \/ Verify(e) PROVE FALSE
  BY <1>1, <1>4, <1>5 DEF AuthErase, Sweep, Verify
<1>6. ASSUME NEW x \in Txns, GiveUpWaiting(x) \/ FailTxn(x) PROVE FALSE
  BY <1>4, <1>6 DEF GiveUpWaiting, FailTxn
<1>7. CASE StartNightly \/ Reclaim
  BY <1>1, <1>4, <1>7 DEF StartNightly, Reclaim
<1>8. ASSUME NEW t \in Turns, AuthTurn(t) \/ TurnStep(t) \/ FailTurn(t) PROVE FALSE
  BY <1>1, <1>8, TurnTabular DEF Inserts, Quiet
<1>9. ASSUME NEW v \in Votes, AuthVote(v) \/ VoteStep(v) PROVE FALSE
  BY <1>9, VoteTabular, RowColumns DEF Inserts, Quiet, Replaces, NoUserRow
<1>10. CASE Tick \/ UNCHANGED vars \/ \E w \in Users : Mint(w)
  BY <1>1, <1>10 DEF Tick, vars, Mint
<1> QED BY <1>2, <1>3, <1>5, <1>6, <1>7, <1>8, <1>9, <1>10 DEF Next, EraseStep, NightlyStep

\* Nobody loses their data but on their own request or after their token expired.
THEOREM NobodyElseLosesData == Spec => OnlyAskedOrExpired
<1> DEFINE Asked ==
      \A u \in Users : UserRow(u) \in db \ db' =>
        \/ now >= expiresAt[u]
        \/ \E e \in Erasers : erase[e].pc = "commit" /\ erase[e].user = u
<1>1. Custody /\ [Next]_vars => [Asked]_vars
  BY OnlyACommitTakesUsers
<1> QED BY <1>1, CustodyInit, CustodyNext, PTL DEF Spec, OnlyAskedOrExpired

-----------------------------------------------------------------------------
(* What a night's job takes: the safety its liveness rests on. *)

\* A user the job's cutoff calls expired.
Overdue(u) == expiresAt[u] # 0 /\ expiresAt[u] <= nightly.before

\* Past its first statement the job sees no token of theirs, past its second no user row,
\* whatever commits between the two and after.
NightlyReach ==
  /\ nightly.pc \in {"orphans", "commit"} =>
       \A u \in Users : Overdue(u) => TokenRow(u) \notin See(Nightly)
  /\ nightly.pc = "commit" => \A u \in Users : Overdue(u) => UserRow(u) \notin See(Nightly)

\* A finished job leaves nothing of the users who were expired when it began.
TakesAllOverdue ==
  CommitNightly => \A u \in Users : Overdue(u) => RowsOf(u, db') = {}

\* Steps of others: nobody who is gone, for everyone or for the job, comes back into view.
LEMMA ReachKept ==
  ASSUME Custody, Custody', NightlyReach, nightly' = nightly,
         deleted'[Nightly] = deleted[Nightly],
         \A u \in Users : Overdue(u)' => Overdue(u) /\ (UserRow(u) \notin db => UserRow(u) \notin db')
  PROVE  NightlyReach'
<1>1. ASSUME NEW u \in Users, Overdue(u)', UserRow(u) \notin See(Nightly)
      PROVE  UserRow(u) \notin See(Nightly)'
  BY <1>1 DEF See
<1>2. ASSUME NEW u \in Users, Overdue(u)', TokenRow(u) \notin See(Nightly)
      PROVE  TokenRow(u) \notin See(Nightly)'
  <2>1. CASE TokenRow(u) \in deleted[Nightly]
    BY <2>1 DEF See
  <2>2. CASE TokenRow(u) \notin db
    <3>1. UserRow(u) \notin db
      BY <2>2 DEF Custody, TokenCustody, Alive
    <3>2. UserRow(u) \notin db'
      BY <1>2, <3>1
    <3>3. TokenRow(u) \in db' => UserRow(u) \in db'
      <4>1. \A r \in db' : UserRow(OwnerIn(turn', r)) \in db'
        BY CustodyTables, OwnersAlive DEF Custody, Inv, TypedInv, DataOK, DbOK
      <4>2. OwnerIn(turn', TokenRow(u)) = u
        BY OwnerOfRows
      <4> QED BY <4>1, <4>2
    <3> QED BY <3>2, <3>3 DEF See
  <2> QED BY <1>2, <2>1, <2>2 DEF See
<1> QED BY <1>1, <1>2 DEF NightlyReach

LEMMA ReachNext ==
  ASSUME Custody, Custody', NightlyReach, [Next]_vars
  PROVE  NightlyReach'
<1> /\ Nightly \in Txns /\ Erasers \subseteq Txns /\ Nightly \notin Erasers
    /\ deleted \in [Txns -> SUBSET Rows] /\ nightly.before \in Nat /\ now \in Nat
    /\ nightly.before <= now /\ expiresAt \in [Users -> Nat] /\ TypedInv
  BY ConstantsAssumption DEF Txns, Custody, Inv, TypedInv, DataOK, TxnsOK, NightlyCustody
<1>1. ASSUME NEW u \in Users, Mint(u) PROVE NightlyReach'
  <2>1. nightly' = nightly /\ deleted' = deleted /\ expiresAt[u] = 0 /\ expiresAt'[u] = now + TTL
    BY <1>1 DEF Mint
  <2>2. ~(now + TTL <= nightly.before)
    BY ConstantsAssumption
  <2>3. ~Overdue(u)'
    BY <2>1, <2>2 DEF Overdue
  <2>4. ASSUME NEW w \in Users, w # u
        PROVE  expiresAt'[w] = expiresAt[w] /\ (UserRow(w) \notin db => UserRow(w) \notin db')
    BY <1>1, <2>4, RowColumns DEF Mint
  <2> QED BY <2>1, <2>3, <2>4, ReachKept DEF Overdue
<1>2. CASE \A u \in Users : ~Mint(u)
  <2>1. Tabular /\ expiresAt' = expiresAt
    BY <1>2, StepTabular
  <2>2. \A u : UserRow(u) \notin db => UserRow(u) \notin db'
    BY <2>1, UserRowsShrink
  <2>3. CASE nightly' = nightly /\ deleted'[Nightly] = deleted[Nightly]
    BY <2>1, <2>2, <2>3, ReachKept DEF Overdue
  <2>4. CASE nightly'.pc \in {"idle", "tokens"}
    BY <2>4 DEF NightlyReach
  <2>5. CASE Reclaim
    <3> DEFINE D == DeletedBy(Nightly, Target(Nightly))
    <3>1. /\ deleted'[Nightly] = deleted[Nightly] \cup D /\ db' = db
          /\ nightly.pc \in {"tokens", "orphans"}
          /\ nightly'.pc = IF nightly.pc = "tokens" THEN "orphans" ELSE "commit"
          /\ nightly'.before = nightly.before
      BY <2>5 DEF Reclaim, DeleteTarget, NightlyTo, TypedInv, TxnsOK
    <3>2. Target(Nightly) = NightlyTarget /\ Target(Nightly) \subseteq D
      BY TargetSeen, CascadeSubset DEF Target, DeletedBy
    <3>3. See(Nightly)' \subseteq See(Nightly) \ Target(Nightly)
      <4> HIDE DEF D
      <4> QED BY <3>1, <3>2 DEF See
    <3>4. \A u \in Users : Overdue(u)' <=> Overdue(u)
      BY <2>1, <3>1 DEF Overdue
    <3>5. CASE nightly.pc = "tokens"
      <4>1. ASSUME NEW u \in Users, Overdue(u) PROVE TokenRow(u) \notin See(Nightly)'
        BY <3>2, <3>3, <3>5, <4>1 DEF NightlyTarget, Overdue, Minted
      <4> QED BY <3>1, <3>4, <3>5, <4>1 DEF NightlyReach
    <3>6. CASE nightly.pc = "orphans"
      <4>1. ASSUME NEW u \in Users, Overdue(u)
            PROVE  TokenRow(u) \notin See(Nightly)' /\ UserRow(u) \notin See(Nightly)'
        <5>1. TokenRow(u) \notin See(Nightly)
          BY <3>6, <4>1 DEF NightlyReach
        <5> QED BY <3>2, <3>3, <3>6, <5>1 DEF NightlyTarget
      <4> QED BY <3>4, <4>1 DEF NightlyReach
    <3> QED BY <3>1, <3>5, <3>6
  <2>6. ASSUME NEW e \in Erasers, AuthErase(e) \/ EraseStep(e) \/ LoseCommitAck(e)
        PROVE  nightly' = nightly /\ deleted'[Nightly] = deleted[Nightly]
    BY <2>6 DEF AuthErase, EraseStep, LoseCommitAck, Sweep, Verify, CommitErase, DeleteTarget,
                CommitRows, RollBack, EraseTo
  <2>7. ASSUME NEW x \in Txns, RollBack(x)
        PROVE  \/ nightly' = nightly /\ deleted'[Nightly] = deleted[Nightly]
               \/ nightly'.pc = "idle"
    BY <2>7 DEF RollBack, EraseTo, NightlyTo, TypedInv, TxnsOK
  <2>8. CASE StartNightly \/ CommitNightly
    BY <2>4, <2>8 DEF StartNightly, CommitNightly, NightlyTo, TypedInv, TxnsOK
  <2>9. ASSUME NEW t \in Turns, AuthTurn(t) \/ TurnStep(t) \/ FailTurn(t)
        PROVE  nightly' = nightly /\ deleted' = deleted
    BY <2>9 DEF AuthTurn, TurnStep, FailTurn, CheckOwner, OpenChat, StoreQuestion, RunPipeline,
                StoreTrace, StoreAnswer, Reply, StoreLateTrace, TurnInserts, TurnFrame
  <2>10. ASSUME NEW v \in Votes, AuthVote(v) \/ VoteStep(v)
         PROVE  nightly' = nightly /\ deleted' = deleted
    BY <2>10 DEF AuthVote, VoteStep, FindTarget, StoreVote, VoteFrame
  <2>11. CASE Tick \/ UNCHANGED vars
    BY <2>3, <2>11 DEF Tick, vars
  <2> QED BY <1>2, <2>3, <2>4, <2>5, <2>6, <2>7, <2>8, <2>9, <2>10, <2>11
          DEF Next, NightlyStep, GiveUpWaiting, FailTxn
<1> QED BY <1>1, <1>2

\* When the nightly job commits, nothing is left of any user whose token had expired when
\* it began: its two statements are apart (reclaimExpired), yet no row a turn, a verdict
\* or an erasure wrote or deleted in between is missed.
THEOREM OverdueGoWhole == Spec => [][TakesAllOverdue]_vars
<1>1. Init => NightlyReach
  BY DEF Init, NightlyReach
<1>2. Custody /\ Custody' /\ NightlyReach /\ [Next]_vars => NightlyReach'
  BY ReachNext
<1>3. Custody /\ Custody' /\ NightlyReach /\ [Next]_vars => [TakesAllOverdue]_vars
  <2> SUFFICES ASSUME Custody, Custody', NightlyReach, CommitNightly, NEW u \in Users, Overdue(u)
               PROVE  RowsOf(u, db') = {}
    BY DEF TakesAllOverdue
  <2>1. UserRow(u) \notin db'
    BY DEF NightlyReach, CommitNightly, CommitRows, See
  <2>2. db' \in SUBSET Rows /\ ReferencesHold(db')
    BY DEF Custody, Inv, TypedInv, DataOK, DbOK
  <2> QED BY <2>1, <2>2, NoUserNoRows
<1> QED BY <1>1, <1>2, <1>3, CustodyInit, CustodyNext, PTL DEF Spec

-----------------------------------------------------------------------------
(* The store keeps its promise: every step is a step of UserData, or changes *)
(* nothing a user can tell.                                                  *)

DataOf(u) == {Key(r) : r \in RowsOf(u, db)}
Told == {erase[e].user : e \in {f \in Erasers : erase[f].pc = "erased"}}

\* The rows of a user before and after a step, by owner.
LEMMA RowsAcross ==
  ASSUME Custody, Custody', NamesKept
  PROVE  /\ \A u : RowsOf(u, db) = {r \in db : Owner(r) = u}
         /\ \A u : RowsOf(u, db') = {r \in db' : OwnerIn(turn', r) = u}
         /\ \A r \in db : OwnerIn(turn', r) = Owner(r)
         /\ db \in SUBSET Rows /\ db' \in SUBSET Rows
         /\ ReferencesHold(db) /\ ReferencesHold(db')
<1>1. db \in SUBSET Rows /\ RowsOwned(db, turn) /\ ReferencesHold(db)
  BY CustodyTables
<1>2. db' \in SUBSET Rows /\ RowsOwned(db', turn') /\ ReferencesHold(db')
  BY DEF Custody, Inv, TypedInv, DataOK, DbOK
<1>3. \A u : RowsOf(u, db) = {r \in db : OwnerIn(turn, r) = u}
  BY <1>1, RowsByOwner
<1>4. \A u : RowsOf(u, db') = {r \in db' : OwnerIn(turn', r) = u}
  BY <1>2, RowsByOwner
<1> QED BY <1>1, <1>2, <1>3, <1>4, OwnersStay DEF Owner

LEMMA PromisedData ==
  ASSUME Custody, Custody', NamesKept
  PROVE  [u \in Users |-> DataOf(u)]' \in [Users -> SUBSET {Key(r) : r \in Rows}]
<1>1. \A u \in Users : RowsOf(u, db') \subseteq Rows
  BY RowsAcross DEF RowsOf
<1> QED BY <1>1 DEF DataOf

\* A step that adds rows of u, or replaces one by a row with its key, is a Write.
LEMMA StepWrites ==
  ASSUME Custody, Custody', NamesKept, NEW u \in Users,
         UNCHANGED <<expiresAt, erase>>,
         \A r \in db' \ db : OwnerIn(turn', r) = u,
         \A r \in db \ db' : /\ Owner(r) = u
                             /\ \E q \in db' : Key(q) = Key(r) /\ OwnerIn(turn', q) = u,
         Alive(u)
  PROVE  Promise!Write(u)
<1>1. DataOf(u) # {}
  BY RowsAcross, OwnersNow DEF DataOf, Alive
<1>2. ASSUME NEW w \in Users \ {u} PROVE DataOf(w)' = DataOf(w)
  <2>1. RowsOf(w, db') = RowsOf(w, db)
    BY RowsAcross
  <2> QED BY <2>1 DEF DataOf
<1>3. ASSUME NEW r \in RowsOf(u, db) PROVE \E q \in RowsOf(u, db') : Key(q) = Key(r)
  BY RowsAcross
<1>4. DataOf(u) \subseteq DataOf(u)'
  BY <1>3 DEF DataOf
<1>5. UNCHANGED <<Minted, Told>>
  BY DEF Minted, Told
<1> QED BY <1>1, <1>2, <1>4, <1>5, PromisedData
        DEF Promise!Write, Promise!Only, DataOf, Told

\* A commit that takes whole users is a Forget.
LEMMA StepForgets ==
  ASSUME Custody, Custody', NamesKept, UNCHANGED <<expiresAt, Told>>, db' \subseteq db,
         \A r \in db \ db' : UserRow(Owner(r)) \notin db'
  PROVE  Promise!Forget
<1>1. ASSUME NEW u \in Users PROVE DataOf(u)' \in {DataOf(u), {}}
  <2>1. CASE UserRow(u) \in db'
    <3>1. RowsOf(u, db') = RowsOf(u, db)
      BY <2>1, RowsAcross
    <3> QED BY <3>1 DEF DataOf
  <2>2. CASE UserRow(u) \notin db'
    <3>1. RowsOf(u, db') = {}
      BY <2>2, RowsAcross, NoUserNoRows
    <3> QED BY <3>1 DEF DataOf
  <2> QED BY <2>1, <2>2
<1>2. UNCHANGED Minted
  BY DEF Minted
<1> QED BY <1>1, <1>2, PromisedData DEF Promise!Forget, DataOf, Told

LEMMA StepStutters ==
  ASSUME UNCHANGED <<expiresAt, db, Told>>
  PROVE  UNCHANGED Promise!vars
BY DEF Promise!vars, Minted, Told

LEMMA CommitErases ==
  ASSUME Custody, Custody', NamesKept, NEW e \in Erasers, CommitErase(e),
         NEW u, u = erase[e].user
  PROVE  u \in Users /\ Promise!Erase(u)
<1> e \in Txns
  BY DEF Txns
<1>1. /\ erase[e].pc = "commit" /\ expiresAt' = expiresAt
      /\ db' = db \ deleted[e] /\ erase' = [erase EXCEPT ![e].pc = "erased"]
  BY DEF CommitErase, CommitRows, EraseTo, TxnFrame
<1>2. u \in Minted /\ u \in Users
  BY <1>1 DEF Custody, Inv, TypedInv, TxnsOK, Minted
<1>3. \A r \in deleted[e] : Owner(r) = u
  BY DEF Custody, EraseCustody
<1>4. ASSUME NEW w \in Users \ {u} PROVE DataOf(w)' = DataOf(w)
  <2>1. RowsOf(w, db') = RowsOf(w, db)
    BY <1>1, <1>3, RowsAcross
  <2> QED BY <2>1 DEF DataOf
<1>5. UserRow(u) \notin db'
  BY <1>1 DEF Custody, Inv, EraseInv, See
<1>6. RowsOf(u, db') = {}
  BY <1>5, RowsAcross, NoUserNoRows
<1>7. DataOf(u)' = {}
  BY <1>6 DEF DataOf
<1>8. Told' = Told \cup {u}
  BY <1>1 DEF Told, Custody, Inv, TypedInv, TxnsOK
<1>9. UNCHANGED Minted
  BY <1>1 DEF Minted
<1> QED BY <1>2, <1>4, <1>7, <1>8, <1>9, PromisedData
        DEF Promise!Erase, Promise!Only, DataOf, Told

LEMMA MintAppears ==
  ASSUME Custody, Custody', NamesKept, NEW u \in Users, Mint(u)
  PROVE  Promise!Appear(u)
<1>1. db' = db \cup {UserRow(u), TokenRow(u)} /\ erase' = erase /\ turn' = turn
  BY DEF Mint
<1>2. Minted' = Minted \cup {u} /\ u \notin Minted
  BY ConstantsAssumption DEF Mint, Minted, Custody, Inv, TypedInv, DataOK
<1>3. ASSUME NEW w \in Users \ {u} PROVE DataOf(w)' = DataOf(w)
  <2>1. OwnerIn(turn', UserRow(u)) = u /\ OwnerIn(turn', TokenRow(u)) = u
    BY RowColumns DEF OwnerIn
  <2>2. RowsOf(w, db') = RowsOf(w, db)
    BY <1>1, <2>1, RowsAcross
  <2> QED BY <2>2 DEF DataOf
<1>4. DataOf(u)' # {}
  <2>1. UserRow(u) \in RowsOf(u, db')
    BY <1>1 DEF RowsOf, OwnedBy
  <2> QED BY <2>1 DEF DataOf
<1>5. Told' = Told
  BY <1>1 DEF Told
<1> QED BY <1>2, <1>3, <1>4, <1>5, PromisedData DEF Promise!Appear, Promise!Only, DataOf, Told

\* The row a turn inserts is its user's, and its user is there.
LEMMA TurnWrites ==
  ASSUME Custody, Custody', Steady, NEW t \in Turns, AuthTurn(t) \/ TurnStep(t) \/ FailTurn(t)
  PROVE  [Promise!Next]_Promise!vars
<1> /\ turn \in [Turns -> [pc : TurnPcs, user : Users \cup {None}, chat : Turns \cup {None}]]
    /\ TurnCustody(t) /\ NamesKept
    /\ turn[t].pc \in Writing => turn[t].chat \in Turns
    /\ turn[t].pc # "idle" => turn[t].user \in Users
    /\ \A s \in late : turn[s].pc # "idle"
  BY DEF Custody, Inv, TypedInv, TurnsOK, Writing, Steady
<1> UNCHANGED <<expiresAt, erase>>
  BY DEF AuthTurn, TurnStep, FailTurn, CheckOwner, OpenChat, StoreQuestion, RunPipeline,
         StoreTrace, StoreAnswer, Reply, StoreLateTrace, TurnInserts, TurnFrame
<1>1. CASE db' = db
  <2>1. Told' = Told
    BY DEF Told
  <2> QED BY <1>1, <2>1, StepStutters
<1>2. ASSUME NEW R, db' = db \cup R, R # {}, turn[t].pc # "idle",
             \A r \in R : OwnerIn(turn', r) = turn[t].user
      PROVE  Promise!Next
  <2>1. PICK u \in Users : u = turn[t].user
    BY <1>2
  <2>2. UserRow(u) \in db'
    <3>1. PICK r \in R : TRUE
      BY <1>2
    <3>2. r \in RowsOf(u, db')
      BY <1>2, <2>1, RowsAcross
    <3> QED BY <3>2, RowsAcross, NoUserNoRows
  <2>3. Alive(u)
    BY <1>2, <2>1, <2>2 DEF TurnCustody, Steady, UsersKept, Alive
  <2>4. Promise!Write(u)
    BY <1>2, <2>1, <2>3, StepWrites
  <2> QED BY <2>4 DEF Promise!Next
<1>3. turn[t].pc \in Writing => turn'[turn[t].chat].user = turn[t].user /\ turn'[t].user = turn[t].user
  BY DEF TurnCustody, NamesKept, Named, Writing
<1>4. CASE OpenChat(t)
  <2> DEFINE R == {ChatRow(t, turn[t].user)}
  <2>1. db' = db \cup R \/ db' = db
    BY <1>4 DEF OpenChat
  <2>2. \A r \in R : OwnerIn(turn', r) = turn[t].user
    BY RowColumns DEF OwnerIn
  <2> QED BY <1>1, <1>2, <1>4, <2>1, <2>2 DEF OpenChat
<1>5. CASE StoreQuestion(t)
  <2> DEFINE R == {MessageRow(t, "user", turn[t].chat)}
  <2>1. (db' = db \cup R \/ db' = db) /\ turn[t].pc = "question"
    BY <1>5 DEF StoreQuestion, TurnInserts
  <2>2. \A r \in R : OwnerIn(turn', r) = turn[t].user
    BY <1>3, <2>1, RowColumns DEF OwnerIn, Writing
  <2>3. R # {} /\ turn[t].pc # "idle"
    BY <2>1
  <2> HIDE DEF R
  <2> QED BY <1>1, <1>2, <2>1, <2>2, <2>3
<1>6. CASE StoreTrace(t) \/ StoreLateTrace(t)
  <2> DEFINE R == {TraceRow(t, turn[t].user)}
  <2>1. (db' = db \cup R \/ db' = db) /\ turn[t].pc # "idle"
    BY <1>6 DEF StoreTrace, StoreLateTrace, TurnInserts
  <2>2. \A r \in R : OwnerIn(turn', r) = turn[t].user
    BY RowColumns DEF OwnerIn
  <2> QED BY <1>1, <1>2, <2>1, <2>2
<1>7. CASE StoreAnswer(t)
  <2> DEFINE R == {MessageRow(t, "assistant", turn[t].chat), TraceIdColumn(t)}
  <2>1. (db' = db \cup R \/ db' = db) /\ turn[t].pc = "answer"
    BY <1>7 DEF StoreAnswer, TurnInserts
  <2>2. \A r \in R : OwnerIn(turn', r) = turn[t].user
    BY <1>3, <2>1, RowColumns DEF OwnerIn, Writing
  <2>3. R # {} /\ turn[t].pc # "idle"
    BY <2>1
  <2> HIDE DEF R
  <2> QED BY <1>1, <1>2, <2>1, <2>2, <2>3
<1>8. CASE AuthTurn(t) \/ CheckOwner(t) \/ RunPipeline(t) \/ Reply(t) \/ FailTurn(t)
  BY <1>1, <1>8 DEF AuthTurn, CheckOwner, RunPipeline, Reply, FailTurn
<1> QED BY <1>4, <1>5, <1>6, <1>7, <1>8 DEF TurnStep

LEMMA VoteWrites ==
  ASSUME Custody, Custody', Steady, NEW v \in Votes, AuthVote(v) \/ VoteStep(v)
  PROVE  [Promise!Next]_Promise!vars
<1> UNCHANGED <<expiresAt, erase, turn>> /\ NamesKept
  BY DEF AuthVote, VoteStep, FindTarget, StoreVote, VoteFrame, Steady
<1>1. CASE db' = db
  <2>1. Told' = Told
    BY DEF Told
  <2> QED BY <1>1, <2>1, StepStutters
<1>2. CASE StoreVote(v) /\ db' # db
  <2>1. vote[v].pc = "store" /\ vote[v].user \in Minted
    BY <1>2 DEF StoreVote, Custody, VoteCustody
  <2>2. PICK u \in Users : u = vote[v].user /\ u \in Minted
    BY <2>1 DEF Minted
  <2> DEFINE row == FeedbackRow(u, vote[v].turn, vote[v].anchor, vote[v].rating)
             old == {r \in db : Key(r) = Key(row)}
  <2>3. db' = db \cup {row} \/ db' = (db \ old) \cup {row}
    BY <1>2, <2>2 DEF StoreVote
  <2>4. OwnerIn(turn', row) = u
    BY RowColumns DEF OwnerIn
  <2>5. ASSUME NEW r \in old PROVE Owner(r) = u
    <3>1. r \in Rows /\ r.table = "feedback" /\ r.id = row.id
      BY RowColumns, CustodyTables DEF Key
    <3>2. r.user_id = u
      BY <3>1, RowKinds, RowColumns
    <3> QED BY <3>1, <3>2 DEF Owner, OwnerIn
  <2>6. Alive(u)
    <3>1. row \in RowsOf(u, db')
      BY <2>3, <2>4, RowsAcross
    <3>2. UserRow(u) \in db'
      BY <3>1, RowsAcross, NoUserNoRows
    <3> QED BY <2>2, <3>2 DEF Steady, UsersKept, Alive
  <2>7. Promise!Write(u)
    <3>1. \A r \in db' \ db : OwnerIn(turn', r) = u
      BY <2>3, <2>4
    <3>2. \A r \in db \ db' : Owner(r) = u /\ \E q \in db' : Key(q) = Key(r) /\ OwnerIn(turn', q) = u
      BY <2>3, <2>4, <2>5
    <3> QED BY <2>6, <3>1, <3>2, StepWrites
  <2> QED BY <2>7 DEF Promise!Next
<1> QED BY <1>1, <1>2 DEF AuthVote, VoteStep, FindTarget

LEMMA TxnForgets ==
  ASSUME Custody, Custody', Steady,
         \/ \E e \in Erasers : AuthErase(e) \/ EraseStep(e) \/ LoseCommitAck(e)
         \/ StartNightly \/ NightlyStep
         \/ \E x \in Txns : GiveUpWaiting(x) \/ FailTxn(x)
  PROVE  [Promise!Next]_Promise!vars
<1> Nightly \in Txns /\ Erasers \subseteq Txns /\ Nightly \notin Erasers /\ NamesKept
  BY ConstantsAssumption DEF Txns, Steady
<1> DEFINE Pcs == ErasePcs \cup {"idle", "unauthorized", "erased", "failed"}
<1> erase \in [Erasers -> [pc : Pcs, user : Users \cup {None}]]
  BY DEF Custody, Inv, TypedInv, TxnsOK
<1> "erased" \notin ErasePcs
  BY DEF ErasePcs, NextStatement
\* An erasure that moves without being told leaves Told as it is.
<1>1. ASSUME NEW e \in Erasers, erase[e].pc # "erased", erase'[e].pc # "erased",
             \A f \in Erasers \ {e} : erase'[f] = erase[f]
      PROVE  Told' = Told
  BY <1>1 DEF Told
<1>2. ASSUME NEW e \in Erasers, NEW pc \in Pcs \ {"erased"}, EraseTo(e, pc), erase[e].pc \in ErasePcs
      PROVE  Told' = Told
  BY <1>1, <1>2 DEF EraseTo
<1>3. ASSUME erase' = erase PROVE Told' = Told
  BY <1>3 DEF Told
<1>4. ASSUME NEW x \in Txns, RollBack(x), Open(x) PROVE UNCHANGED Promise!vars
  <2>1. Told' = Told
    BY <1>2, <1>3, <1>4 DEF RollBack, Open, NightlyTo, Txns
  <2> QED BY <1>4, <2>1, StepStutters DEF RollBack, TxnFrame
<1>5. ASSUME NEW e \in Erasers, AuthErase(e) PROVE UNCHANGED Promise!vars
  <2>1. Told' = Told
    BY <1>1, <1>5 DEF AuthErase
  <2> QED BY <1>5, <2>1, StepStutters DEF AuthErase, TxnFrame
<1>6. ASSUME NEW e \in Erasers, Sweep(e) PROVE UNCHANGED Promise!vars
  <2>1. NextStatement[erase[e].pc] \in Pcs \ {"erased"} /\ erase[e].pc \in ErasePcs
    BY <1>6 DEF Sweep, Sweeps, NextStatement, ErasePcs
  <2>2. Told' = Told
    BY <1>2, <1>6, <2>1 DEF Sweep
  <2> QED BY <1>6, <2>2, StepStutters DEF Sweep, DeleteTarget, TxnFrame
<1>7. ASSUME NEW e \in Erasers, Verify(e) PROVE UNCHANGED Promise!vars
  <2>1. NextStatement[erase[e].pc] \in Pcs \ {"erased"} /\ erase[e].pc \in ErasePcs
    BY <1>7 DEF Verify, NextStatement, ErasePcs
  <2>2. CASE RollBack(e)
    BY <1>4, <2>1, <2>2 DEF Open
  <2>3. CASE ~RollBack(e)
    <3>1. Told' = Told
      BY <1>2, <1>7, <2>1, <2>3 DEF Verify
    <3> QED BY <1>7, <2>3, <3>1, StepStutters DEF Verify, TxnFrame
  <2> QED BY <2>2, <2>3
<1>8. ASSUME NEW e \in Erasers, CommitErase(e) PROVE Promise!Next
  <2>1. PICK u : u = erase[e].user
    OBVIOUS
  <2>2. u \in Users /\ Promise!Erase(u)
    BY <1>8, <2>1, CommitErases
  <2> QED BY <2>2 DEF Promise!Next
<1>9. ASSUME NEW e \in Erasers, LoseCommitAck(e) PROVE Promise!Next
  <2>1. Told' = Told
    <3>1. erase[e].pc = "commit" /\ EraseTo(e, "failed")
      BY <1>9 DEF LoseCommitAck
    <3> QED BY <1>2, <3>1 DEF ErasePcs
  <2>2. Promise!Forget
    BY <1>9, <2>1, CommitIsWhole, StepForgets DEF LoseCommitAck, CommitRows, TxnFrame
  <2> QED BY <2>2 DEF Promise!Next
<1>10. CASE StartNightly \/ Reclaim
  BY <1>3, <1>10, StepStutters DEF StartNightly, Reclaim, DeleteTarget, NightlyTo, TxnFrame
<1>11. CASE CommitNightly
  <2>1. Told' = Told
    BY <1>3, <1>11 DEF CommitNightly, NightlyTo
  <2>2. Promise!Forget
    BY <1>11, <2>1, CommitIsWhole, StepForgets DEF CommitNightly, CommitRows, TxnFrame
  <2> QED BY <2>2 DEF Promise!Next
<1>12. ASSUME NEW x \in Txns, GiveUpWaiting(x) \/ FailTxn(x) PROVE UNCHANGED Promise!vars
  BY <1>4, <1>12 DEF GiveUpWaiting, FailTxn, Waits
<1> QED BY <1>5, <1>6, <1>7, <1>8, <1>9, <1>10, <1>11, <1>12 DEF EraseStep, NightlyStep

\* ChatStore implements UserData: a user's data appears once, grows item by item and
\* goes as a whole and for good; the user who asked is told after it is gone.
THEOREM StoreImplementsPromise == Spec => ImplementsPromise
<1>1. Init => Promise!Init
  <2>1. ASSUME Init PROVE Minted = {} /\ Told = {} /\ \A u \in Users : DataOf(u) = {}
    BY <2>1 DEF Init, Minted, Told, DataOf, RowsOf
  <2> QED BY <2>1 DEF Promise!Init, Told, DataOf
<1>2. ASSUME Custody, Custody', [Next]_vars PROVE [Promise!Next]_Promise!vars
  <2>1. Steady /\ NamesKept
    BY <1>2, StepSteady DEF Steady
  <2>2. CASE \E u \in Users : Mint(u)
    BY <1>2, <2>1, <2>2, MintAppears DEF Promise!Next
  <2>3. CASE Tick \/ UNCHANGED vars
    <3>1. UNCHANGED <<expiresAt, db, Told>>
      BY <2>3 DEF Tick, vars, Told
    <3> QED BY <3>1, StepStutters
  <2> QED BY <1>2, <2>1, <2>2, <2>3, TurnWrites, VoteWrites, TxnForgets DEF Next
<1> QED BY <1>1, <1>2, CustodyInit, CustodyNext, PTL DEF Spec, ImplementsPromise, Promise!Spec

\* The promise itself is kept by every step of UserData: only users who appeared are
\* told, and nothing is left of who was told.
PromiseHeld == Told \subseteq Minted /\ Promise!ToldIsGone

LEMMA PromiseHolds ==
  ASSUME PromiseHeld, [Promise!Next]_Promise!vars
  PROVE  PromiseHeld' /\ \A u \in Minted : DataOf(u) = {} => DataOf(u)' = {}
<1> DEFINE data == [u \in Users |-> DataOf(u)]
<1>1. Told \subseteq Minted /\ (\A u \in Told : data[u] = {}) /\ Minted \subseteq Users
  BY DEF PromiseHeld, Promise!ToldIsGone, Minted, Told, DataOf
<1>2. SUFFICES /\ Told' \subseteq Minted' /\ \A u \in Told' : data'[u] = {}
               /\ \A u \in Minted : data[u] = {} => data'[u] = {}
  BY <1>1 DEF PromiseHeld, Promise!ToldIsGone, Told, DataOf
<1>3. ASSUME UNCHANGED Promise!vars PROVE Told' = Told /\ Minted' = Minted /\ data' = data
  BY <1>3 DEF Promise!vars, Told, DataOf
<1>4. ASSUME Promise!Forget
      PROVE  Told' = Told /\ Minted' = Minted /\ \A u \in Users : data'[u] \in {data[u], {}}
  BY <1>4 DEF Promise!Forget, Told, DataOf
<1>5. ASSUME NEW u \in Users, Promise!Appear(u)
      PROVE  /\ Told' = Told /\ Minted' = Minted \cup {u} /\ u \notin Minted
             /\ \A w \in Users \ {u} : data'[w] = data[w]
  BY <1>5 DEF Promise!Appear, Promise!Only, Told, DataOf
<1>6. ASSUME NEW u \in Users, Promise!Write(u)
      PROVE  /\ Told' = Told /\ Minted' = Minted /\ data[u] # {}
             /\ \A w \in Users \ {u} : data'[w] = data[w]
  BY <1>6 DEF Promise!Write, Promise!Only, Told, DataOf
<1>7. ASSUME NEW u \in Users, Promise!Erase(u)
      PROVE  /\ Told' = Told \cup {u} /\ Minted' = Minted /\ u \in Minted /\ data'[u] = {}
             /\ \A w \in Users \ {u} : data'[w] = data[w]
  BY <1>7 DEF Promise!Erase, Promise!Only, Told, DataOf
<1> HIDE DEF data
<1> QED
  <2>1. CASE UNCHANGED Promise!vars \/ Promise!Forget
    BY <1>1, <1>3, <1>4, <2>1
  <2>2. ASSUME NEW u \in Users, Promise!Appear(u) \/ Promise!Write(u) \/ Promise!Erase(u)
        PROVE  /\ Told' \subseteq Minted' /\ \A w \in Told' : data'[w] = {}
               /\ \A w \in Minted : data[w] = {} => data'[w] = {}
    BY <1>1, <1>5, <1>6, <1>7, <2>2
  <2> QED BY <2>1, <2>2 DEF Promise!Next

\* What the store promises a user, carried over from UserData: nothing is left of a user
\* who was answered {deleted: true}, and a user with nothing left never has anything
\* stored again, by a turn, a vote or a mint that was still under way.
THEOREM PromiseKept == Spec => []Promise!ToldIsGone /\ Promise!GoneForGood
<1>1. Promise!Init => PromiseHeld
  BY DEF Promise!Init, PromiseHeld, Promise!ToldIsGone, Told, DataOf
<1>2. PromiseHeld /\ [Promise!Next]_Promise!vars => PromiseHeld'
  BY PromiseHolds
<1>3. PromiseHeld /\ [Promise!Next]_Promise!vars => [Promise!StaysGone]_Promise!vars
  BY PromiseHolds DEF Promise!StaysGone, Minted, DataOf
<1>4. PromiseHeld => Promise!ToldIsGone
  BY DEF PromiseHeld
<1> QED
  BY <1>1, <1>2, <1>3, <1>4, StoreImplementsPromise, PTL
  DEF ImplementsPromise, Promise!Spec, Promise!GoneForGood
====
