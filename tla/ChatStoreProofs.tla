--------------------------- MODULE ChatStoreProofs ---------------------------
(***************************************************************************)
(* Proofs about ChatStore, for any sets of users and requests.             *)
(***************************************************************************)
EXTENDS ChatStore, TLAPS

-----------------------------------------------------------------------------
(* Rows. *)

LEMMA CascadeSubset ==
  ASSUME NEW tbl, NEW S \in SUBSET tbl
  PROVE  Cascade(S, tbl) \subseteq tbl /\ S \subseteq Cascade(S, tbl)
BY DEF Cascade, WithReferrers

\* How many foreign keys can lead on from a row.
Rank(r) == IF r.table = "users" THEN 0
           ELSE IF r.table \in OwnedTables THEN 1
           ELSE IF r.table = "chat_messages" THEN 2 ELSE 3

LEMMA RowTables ==
  ASSUME NEW r \in Rows
  PROVE  r.table \in {"users", "chat_messages", "answer_trace_id"} \cup OwnedTables
BY DEF Rows, UserRow, TokenRow, ChatRow, TraceRow, MessageRow, TraceIdColumn,
       FeedbackRow, OwnedTables

LEMMA ReferencesDescend ==
  ASSUME NEW r \in Rows, NEW p \in Rows, RefersTo(r, p)
  PROVE  Rank(r) \in 0 .. 3 /\ Rank(p) \in 0 .. 3 /\ Rank(p) < Rank(r)
<1>1. CASE r.table \in OwnedTables
  <2>1. p.table = "users"
    BY <1>1 DEF RefersTo, References, UserReference, Key, OwnedTables
  <2> QED BY <1>1, <2>1 DEF Rank, OwnedTables
<1>2. CASE r.table = "chat_messages"
  <2>1. p.table = "chat_sessions"
    BY <1>2 DEF RefersTo, References, UserReference, Key, OwnedTables
  <2> QED BY <1>2, <2>1 DEF Rank, OwnedTables
<1>3. CASE r.table = "answer_trace_id"
  <2>1. p.table \in {"chat_messages", "answer_traces"}
    BY <1>3 DEF RefersTo, References, UserReference, Key, OwnedTables
  <2> QED BY <1>3, <2>1 DEF Rank, OwnedTables
<1>4. CASE r.table = "users"
  BY <1>4 DEF RefersTo, References, UserReference, OwnedTables
<1> QED BY <1>1, <1>2, <1>3, <1>4, RowTables

\* Three levels are enough: what the cascade leaves refers to nothing it takes.
LEMMA CascadeClosed ==
  ASSUME NEW tbl \in SUBSET Rows, NEW S \in SUBSET tbl,
         NEW p \in Cascade(S, tbl), NEW r \in tbl, RefersTo(r, p)
  PROVE  r \in Cascade(S, tbl)
<1> DEFINE L1 == WithReferrers(S, tbl)
           L2 == WithReferrers(L1, tbl)
<1>1. Cascade(S, tbl) = WithReferrers(L2, tbl)
  BY DEF Cascade
<1>2. L1 \subseteq tbl /\ L2 \subseteq tbl /\ Cascade(S, tbl) \subseteq tbl
  BY <1>1 DEF WithReferrers
<1>3. SUFFICES ASSUME r \notin Cascade(S, tbl) PROVE FALSE
  OBVIOUS
<1>4. p \notin L2
  BY <1>1, <1>3 DEF WithReferrers
<1>5. PICK p1 \in L2 : RefersTo(p, p1)
  BY <1>1, <1>4 DEF WithReferrers
<1>6. p1 \notin L1
  BY <1>4, <1>5, <1>2 DEF WithReferrers
<1>7. PICK p2 \in L1 : RefersTo(p1, p2)
  BY <1>6 DEF WithReferrers
<1>8. p2 \notin S
  BY <1>6, <1>7, <1>2 DEF WithReferrers
<1>9. PICK p3 \in S : RefersTo(p2, p3)
  BY <1>8 DEF WithReferrers
<1>10. r \in Rows /\ p \in Rows /\ p1 \in Rows /\ p2 \in Rows /\ p3 \in Rows
  BY <1>2
<1>11. /\ Rank(p) < Rank(r) /\ Rank(p1) < Rank(p)
       /\ Rank(p2) < Rank(p1) /\ Rank(p3) < Rank(p2)
  BY <1>5, <1>7, <1>9, <1>10, ReferencesDescend
<1>12. /\ Rank(r) \in 0 .. 3 /\ Rank(p) \in 0 .. 3 /\ Rank(p1) \in 0 .. 3
       /\ Rank(p2) \in 0 .. 3 /\ Rank(p3) \in 0 .. 3
  BY <1>5, <1>7, <1>9, <1>10, ReferencesDescend
<1> QED BY <1>11, <1>12

\* Without the user row there is no row of the user.
LEMMA NoUserNoRows ==
  ASSUME NEW tbl \in SUBSET Rows, ReferencesHold(tbl), NEW u, UserRow(u) \notin tbl
  PROVE  RowsOf(u, tbl) = {}
<1>1. ASSUME NEW r \in tbl, r.table \in OwnedTables, r.user_id = u PROVE FALSE
  <2>1. <<"users", u>> \in References(r)
    BY <1>1 DEF References, UserReference
  <2>2. PICK p \in tbl : Key(p) = <<"users", u>>
    BY <1>1, <2>1 DEF ReferencesHold
  <2>3. p.table = "users" /\ p.id = u
    BY <2>2 DEF Key
  <2>4. p = UserRow(u)
    BY <2>3 DEF Rows, UserRow, TokenRow, ChatRow, TraceRow, MessageRow,
                TraceIdColumn, FeedbackRow
  <2> QED BY <2>2, <2>4
<1>2. ASSUME NEW c, ChatRow(c, u) \in tbl PROVE FALSE
  BY <1>1, <1>2 DEF ChatRow, OwnedTables
<1> QED BY <1>1, <1>2 DEF RowsOf, OwnedBy
-----------------------------------------------------------------------------
(* The tables and what the open transactions deleted from them.            *)

\* del is an assignment of rows to the transactions that deleted them.
DbOK(tbl, del) ==
  /\ KeysUnique(tbl)
  /\ ReferencesHold(tbl)
  /\ \A x \in Txns : del[x] \subseteq tbl
  /\ \A x, y \in Txns : x # y => del[x] \cap del[y] = {}
  \* what refers to a deleted row was deleted with it
  /\ \A x \in Txns : \A p \in del[x], r \in tbl : RefersTo(r, p) => r \in del[x]

LEMMA InsertKeepsDb ==
  ASSUME DbOK(db, deleted), NEW R, CanInsert(R), KeysUnique(R)
  PROVE  DbOK(db \cup R, deleted)
<1>1. KeysUnique(db \cup R)
  BY DEF DbOK, CanInsert, KeyTaken, KeysUnique
<1>2. ASSUME NEW r \in R, NEW k \in References(r)
      PROVE  \/ k \in Needs(R)
             \/ \E q \in R : k = Key(q)
  BY DEF Needs
<1>3. ReferencesHold(db \cup R)
  BY <1>2 DEF DbOK, CanInsert, ReferencesHold
<1>4. ASSUME NEW x \in Txns, NEW p \in deleted[x], NEW r \in R, RefersTo(r, p)
      PROVE  FALSE
  <2>1. p \in db /\ p \in Doomed
    BY DEF DbOK, Doomed
  <2>2. CASE Key(p) \in Needs(R)
    BY <2>1, <2>2 DEF CanInsert, DbOK, KeysUnique
  <2>3. CASE \E q \in R : Key(p) = Key(q)
    BY <2>1, <2>3 DEF CanInsert, KeyTaken
  <2> QED BY <1>2, <1>4, <2>2, <2>3 DEF RefersTo
<1> QED BY <1>1, <1>3, <1>4 DEF DbOK

\* ON CONFLICT DO UPDATE: a row with the same key and the same references.
LEMMA ReplaceKeepsDb ==
  ASSUME DbOK(db, deleted), NEW old \in SUBSET db, NEW row,
         old = {r \in db : Key(r) = Key(row)}, old # {}, old \cap Doomed = {},
         \A r \in old : References(r) = References(row)
  PROVE  DbOK((db \ old) \cup {row}, deleted)
<1> DEFINE new == (db \ old) \cup {row}
<1>1. KeysUnique(new)
  BY DEF DbOK, KeysUnique
<1>2. PICK o \in old : TRUE
  OBVIOUS
<1>3. ASSUME NEW k, NEW p \in db, Key(p) = k PROVE \E q \in new : Key(q) = k
  BY <1>3
<1>4. \A r \in new : \E q \in db : References(q) = References(r)
  BY <1>2
<1>5. ReferencesHold(new)
  BY <1>3, <1>4 DEF DbOK, ReferencesHold
<1>6. \A x \in Txns : deleted[x] \subseteq new
  BY DEF DbOK, Doomed
<1>7. \A x \in Txns : o \notin deleted[x]
  BY <1>2 DEF Doomed
<1>8. \A x \in Txns : \A p \in deleted[x] : ~RefersTo(row, p)
  BY <1>2, <1>7 DEF DbOK, RefersTo
<1> QED BY <1>1, <1>5, <1>6, <1>8 DEF DbOK

LEMMA DeleteKeepsDb ==
  ASSUME DbOK(db, deleted), db \subseteq Rows, deleted \in [Txns -> SUBSET Rows],
         NEW x \in Txns, NEW S \in SUBSET See(x), ~MustWait(x, S)
  PROVE  DbOK(db, [deleted EXCEPT ![x] = @ \cup DeletedBy(x, S)])
<1> DEFINE D == DeletedBy(x, S)
           del == [deleted EXCEPT ![x] = @ \cup D]
<1>1. D \subseteq See(x)
  BY CascadeSubset DEF DeletedBy
<1>2. \A y \in Txns : del[y] = IF y = x THEN deleted[x] \cup D ELSE deleted[y]
  OBVIOUS
<1>3. \A y \in Txns : del[y] \subseteq db
  BY <1>1, <1>2 DEF DbOK, See
<1>4. \A y \in Txns \ {x} : D \cap deleted[y] = {}
  BY DEF MustWait, LockedFor
<1>5. \A y, z \in Txns : y # z => del[y] \cap del[z] = {}
  BY <1>2, <1>4 DEF DbOK
<1>6. ASSUME NEW p \in D, NEW r \in db, RefersTo(r, p), r \notin deleted[x]
      PROVE  r \in D
  <2>1. r \in See(x) /\ See(x) \subseteq Rows
    BY <1>6 DEF See
  <2> QED BY <1>6, <2>1, CascadeClosed DEF DeletedBy
<1>7. \A y \in Txns : \A p \in del[y], r \in db : RefersTo(r, p) => r \in del[y]
  BY <1>2, <1>6 DEF DbOK
<1> QED BY <1>3, <1>5, <1>7 DEF DbOK

LEMMA CommitKeepsDb ==
  ASSUME DbOK(db, deleted), deleted \in [Txns -> SUBSET Rows], NEW x \in Txns
  PROVE  DbOK(db \ deleted[x], [deleted EXCEPT ![x] = {}])
<1> DEFINE new == db \ deleted[x]
           del == [deleted EXCEPT ![x] = {}]
<1>1. \A y \in Txns : del[y] = IF y = x THEN {} ELSE deleted[y]
  OBVIOUS
<1>2. KeysUnique(new)
  BY DEF DbOK, KeysUnique
<1>3. ASSUME NEW r \in new, NEW k \in References(r)
      PROVE  \E p \in new : Key(p) = k
  <2>1. PICK p \in db : Key(p) = k
    BY DEF DbOK, ReferencesHold
  <2>2. p \notin deleted[x]
    BY <2>1 DEF DbOK, RefersTo
  <2> QED BY <2>1, <2>2
<1>4. ReferencesHold(new)
  BY <1>3 DEF ReferencesHold
<1>5. \A y \in Txns : del[y] \subseteq new
  BY <1>1 DEF DbOK
<1> QED BY <1>1, <1>2, <1>4, <1>5 DEF DbOK

LEMMA RollBackKeepsDb ==
  ASSUME DbOK(db, deleted), deleted \in [Txns -> SUBSET Rows], NEW x \in Txns
  PROVE  DbOK(db, [deleted EXCEPT ![x] = {}])
<1>1. \A y \in Txns : [deleted EXCEPT ![x] = {}][y] = IF y = x THEN {} ELSE deleted[y]
  OBVIOUS
<1> QED BY <1>1 DEF DbOK
-----------------------------------------------------------------------------
(* Type correctness.  TypeOK alone is not inductive: an insert stays within *)
(* Rows only because the handler has its user and its chat session by then. *)

TurnsOK ==
  /\ turn \in [Turns -> [pc : TurnPcs, user : Users \cup {None},
                         chat : Turns \cup {None}]]
  /\ late \subseteq Turns
  /\ \A t \in Turns : turn[t].pc # "idle" => turn[t].user \in Users
  /\ \A t \in Turns : turn[t].pc \in {"question", "pipeline", "trace", "answer", "reply"}
                        => turn[t].chat \in Turns
  /\ \A t \in late : turn[t].pc # "idle"

VotesOK ==
  /\ vote \in [Votes -> [pc : VotePcs, user : Users \cup {None},
                         turn : Turns \cup {None}, anchor : AnchorKinds,
                         rating : {"up", "down"}]]
  /\ \A v \in Votes : vote[v].pc \in {"target", "store"}
                        => vote[v].user \in Users /\ vote[v].turn \in Turns

TxnsOK ==
  /\ erase \in [Erasers -> [pc : ErasePcs \cup {"idle", "unauthorized", "erased", "failed"},
                            user : Users \cup {None}]]
  /\ \A e \in Erasers : erase[e].pc # "idle" => erase[e].user \in Minted
  /\ nightly \in [pc : NightlyPcs \cup {"idle"}, before : Nat]

DataOK ==
  /\ now \in Nat /\ faults \in Nat
  /\ expiresAt \in [Users -> Nat]
  /\ db \subseteq Rows
  /\ deleted \in [Txns -> SUBSET Rows]

TypedInv == DataOK /\ TurnsOK /\ VotesOK /\ TxnsOK

LEMMA RowTypes ==
  /\ \A u \in Users : UserRow(u) \in Rows /\ TokenRow(u) \in Rows
  /\ \A t \in Turns, u \in Users : ChatRow(t, u) \in Rows /\ TraceRow(t, u) \in Rows
  /\ \A t \in Turns, role \in Roles, c \in Turns : MessageRow(t, role, c) \in Rows
  /\ \A t \in Turns : TraceIdColumn(t) \in Rows
  /\ \A u \in Users, t \in Turns, a \in AnchorKinds, x \in {"up", "down"} :
       FeedbackRow(u, t, a, x) \in Rows
BY DEF Rows

\* A statement deletes only rows it sees.
LEMMA TargetSeen ==
  ASSUME NEW x \in Txns
  PROVE  Target(x) \subseteq See(x) /\ DeletedBy(x, Target(x)) \subseteq See(x)
<1>1. Target(x) \subseteq See(x)
  <2>1. CASE x = Nightly
    BY <2>1 DEF Target, NightlyTarget
  <2>2. CASE x # Nightly
    BY <2>2 DEF Target, EraseTarget
  <2> QED BY <2>1, <2>2
<1> QED BY <1>1, CascadeSubset DEF DeletedBy

LEMMA TypedInit == ASSUME Init PROVE TypedInv
BY ConstantsAssumption
   DEF Init, TypedInv, DataOK, TurnsOK, VotesOK, TxnsOK, TurnPcs, VotePcs,
       AnchorKinds, NightlyPcs

\* The next program counter of a turn whose user is known.
LEMMA TurnMoves ==
  ASSUME TurnsOK, NEW t \in Turns, NEW pc \in TurnPcs, TurnTo(t, pc),
         turn[t].pc # "idle", late' \subseteq late \cup {t},
         pc \in {"question", "pipeline", "trace", "answer", "reply"}
           => turn[t].chat \in Turns,
         pc # "idle"
  PROVE  TurnsOK'
<1>1. \A s \in Turns : turn'[s] = IF s = t THEN [turn[t] EXCEPT !.pc = pc] ELSE turn[s]
  BY DEF TurnTo, TurnsOK
<1>2. turn[t] \in [pc : TurnPcs, user : Users \cup {None}, chat : Turns \cup {None}]
  BY DEF TurnsOK
<1>3. /\ turn'[t].pc = pc /\ turn'[t].user = turn[t].user /\ turn'[t].chat = turn[t].chat
  BY <1>1, <1>2
<1>4. turn' \in [Turns -> [pc : TurnPcs, user : Users \cup {None}, chat : Turns \cup {None}]]
  BY <1>2 DEF TurnTo, TurnsOK
<1> QED BY <1>1, <1>3, <1>4 DEF TurnsOK

LEMMA TurnStepTyped ==
  ASSUME TypedInv, TurnFrame, db' \subseteq Rows, faults' \in Nat, TurnsOK'
  PROVE  TypedInv'
BY DEF TypedInv, DataOK, VotesOK, TxnsOK, TurnFrame, Minted

LEMMA TurnInsertTyped ==
  ASSUME TypedInv, NEW t \in Turns, NEW R \in SUBSET Rows,
         NEW next \in {"pipeline", "answer", "reply"},
         turn[t].pc # "idle", turn[t].chat \in Turns, TurnInserts(t, R, next)
  PROVE  TypedInv'
<1>1. db' \subseteq Rows /\ faults' \in Nat
  BY DEF TurnInserts, TypedInv, DataOK
<1>2. TurnsOK'
  BY TurnMoves DEF TurnInserts, TypedInv, TurnPcs
<1> QED BY <1>1, <1>2, TurnStepTyped DEF TurnInserts

LEMMA TypedTurn ==
  ASSUME TypedInv, NEW t \in Turns, AuthTurn(t) \/ TurnStep(t) \/ FailTurn(t)
  PROVE  TypedInv'
<1> DEFINE Known == turn[t].user \in Users
<1>1. CASE AuthTurn(t)
  <2>1. TurnsOK'
    BY <1>1 DEF AuthTurn, TypedInv, TurnsOK, TurnPcs, Minted
  <2> QED BY <1>1, <2>1, TurnStepTyped DEF AuthTurn, TypedInv, DataOK
<1>2. CASE CheckOwner(t)
  <2>1. turn[t].chat \in Turns
    BY <1>2 DEF CheckOwner, TypedInv, TurnsOK
  <2>2. TurnsOK'
    BY <1>2, <2>1, TurnMoves DEF CheckOwner, TypedInv, TurnPcs
  <2> QED BY <1>2, <2>2, TurnStepTyped DEF CheckOwner, TypedInv, DataOK
<1>3. CASE OpenChat(t)
  <2>1. turn[t].pc = "session" /\ turn[t].user \in Users
    BY <1>3 DEF OpenChat, TypedInv, TurnsOK
  <2>2. db' \subseteq Rows
    BY <1>3, <2>1, RowTypes DEF OpenChat, TypedInv, DataOK
  <2>3. CASE TurnTo(t, "failed")
    BY <1>3, <2>1, <2>2, <2>3, TurnMoves, TurnStepTyped
       DEF OpenChat, TypedInv, DataOK, TurnPcs
  <2>4. CASE turn' = [turn EXCEPT ![t].pc = "question", ![t].chat = t]
    <3>1. TurnsOK'
      BY <1>3, <2>1, <2>4 DEF OpenChat, TypedInv, TurnsOK, TurnPcs
    <3> QED BY <1>3, <2>2, <3>1, TurnStepTyped DEF OpenChat, TypedInv, DataOK
  <2> QED BY <1>3, <2>3, <2>4 DEF OpenChat
<1>4. CASE StoreQuestion(t)
  <2>1. turn[t].chat \in Turns
    BY <1>4 DEF StoreQuestion, TypedInv, TurnsOK
  <2> QED BY <1>4, <2>1, RowTypes, TurnInsertTyped DEF StoreQuestion, Roles
<1>5. CASE RunPipeline(t)
  <2>1. turn[t].chat \in Turns
    BY <1>5 DEF RunPipeline, TypedInv, TurnsOK
  <2>2. TurnsOK'
    BY <1>5, <2>1, TurnMoves DEF RunPipeline, TypedInv, TurnPcs
  <2> QED BY <1>5, <2>2, TurnStepTyped DEF RunPipeline, TypedInv, DataOK
<1>6. CASE StoreTrace(t)
  <2>1. turn[t].chat \in Turns /\ turn[t].user \in Users
    BY <1>6 DEF StoreTrace, TypedInv, TurnsOK
  <2> QED BY <1>6, <2>1, RowTypes, TurnInsertTyped DEF StoreTrace
<1>7. CASE StoreAnswer(t)
  <2>1. turn[t].chat \in Turns
    BY <1>7 DEF StoreAnswer, TypedInv, TurnsOK
  <2> QED BY <1>7, <2>1, RowTypes, TurnInsertTyped DEF StoreAnswer, Roles
<1>8. CASE Reply(t)
  <2>1. TurnsOK'
    BY <1>8, TurnMoves DEF Reply, TypedInv, TurnPcs
  <2> QED BY <1>8, <2>1, TurnStepTyped DEF Reply, TypedInv, DataOK
<1>9. CASE StoreLateTrace(t)
  <2>1. turn[t].user \in Users
    BY <1>9 DEF StoreLateTrace, TypedInv, TurnsOK
  <2>2. db' \subseteq Rows
    BY <1>9, <2>1, RowTypes DEF StoreLateTrace, TypedInv, DataOK
  <2>3. TurnsOK'
    BY <1>9 DEF StoreLateTrace, TypedInv, TurnsOK
  <2> QED BY <1>9, <2>2, <2>3, TurnStepTyped DEF StoreLateTrace, TypedInv, DataOK
<1>10. CASE FailTurn(t)
  <2>1. CASE TurnOpen(t) /\ TurnTo(t, "failed") /\ late' = late
    <3>1. turn[t].pc # "idle"
      BY <2>1 DEF TurnOpen
    <3>2. TurnsOK'
      BY <2>1, <3>1, TurnMoves DEF TypedInv, TurnPcs
    <3> QED BY <1>10, <3>2, TurnStepTyped DEF FailTurn, TypedInv, DataOK
  <2>2. CASE t \in late /\ late' = late \ {t} /\ turn' = turn
    <3>1. TurnsOK'
      BY <2>2 DEF TypedInv, TurnsOK
    <3> QED BY <1>10, <3>1, TurnStepTyped DEF FailTurn, TypedInv, DataOK
  <2> QED BY <1>10, <2>1, <2>2 DEF FailTurn
<1> QED BY <1>1, <1>2, <1>3, <1>4, <1>5, <1>6, <1>7, <1>8, <1>9, <1>10 DEF TurnStep

LEMMA VoteMoves ==
  ASSUME VotesOK, NEW v \in Votes, NEW pc \in VotePcs, VoteTo(v, pc),
         vote[v].pc \in {"target", "store"}
  PROVE  VotesOK'
<1>1. vote[v] \in [pc : VotePcs, user : Users \cup {None}, turn : Turns \cup {None},
                   anchor : AnchorKinds, rating : {"up", "down"}]
  BY DEF VotesOK
<1>2. \A w \in Votes : vote'[w] = IF w = v THEN [vote[v] EXCEPT !.pc = pc] ELSE vote[w]
  BY DEF VoteTo, VotesOK
<1>3. vote'[v].user = vote[v].user /\ vote'[v].turn = vote[v].turn
  BY <1>1, <1>2
<1>4. vote' \in [Votes -> [pc : VotePcs, user : Users \cup {None}, turn : Turns \cup {None},
                           anchor : AnchorKinds, rating : {"up", "down"}]]
  BY <1>1 DEF VoteTo, VotesOK
<1> QED BY <1>2, <1>3, <1>4 DEF VotesOK

LEMMA TypedVote ==
  ASSUME TypedInv, NEW v \in Votes, AuthVote(v) \/ VoteStep(v)
  PROVE  TypedInv'
<1>1. ASSUME VoteFrame, db' \subseteq Rows, VotesOK' PROVE TypedInv'
  BY <1>1 DEF TypedInv, DataOK, TurnsOK, TxnsOK, VoteFrame, Minted
<1>2. CASE AuthVote(v)
  <2>1. VotesOK'
    BY <1>2, ConstantsAssumption
       DEF AuthVote, RatingsOf, TypedInv, VotesOK, VotePcs, Minted
  <2> QED BY <1>1, <1>2, <2>1 DEF AuthVote, TypedInv, DataOK
<1>3. CASE FindTarget(v)
  <2>1. VotesOK'
    BY <1>3, VoteMoves DEF FindTarget, TypedInv, VotePcs
  <2> QED BY <1>1, <1>3, <2>1 DEF FindTarget, TypedInv, DataOK
<1>4. CASE StoreVote(v)
  <2>1. VotesOK'
    BY <1>4, VoteMoves DEF StoreVote, TypedInv, VotePcs
  <2>2. /\ vote[v].user \in Users /\ vote[v].turn \in Turns
        /\ vote[v].anchor \in AnchorKinds /\ vote[v].rating \in {"up", "down"}
    BY <1>4 DEF StoreVote, TypedInv, VotesOK
  <2>3. FeedbackRow(vote[v].user, vote[v].turn, vote[v].anchor, vote[v].rating) \in Rows
    BY <2>2, RowTypes
  <2>4. db' \subseteq Rows
    BY <1>4, <2>3 DEF StoreVote, TypedInv, DataOK
  <2> QED BY <1>1, <1>4, <2>1, <2>4 DEF StoreVote
<1> QED BY <1>2, <1>3, <1>4 DEF VoteStep

LEMMA EraseMoves ==
  ASSUME TxnsOK, NEW e \in Erasers, NEW pc \in ErasePcs \cup {"erased", "failed"},
         EraseTo(e, pc), erase[e].pc # "idle", expiresAt' = expiresAt
  PROVE  TxnsOK'
<1> DEFINE Pcs == ErasePcs \cup {"idle", "unauthorized", "erased", "failed"}
<1>1. erase[e] \in [pc : Pcs, user : Users \cup {None}]
  BY DEF TxnsOK
<1>2. \A f \in Erasers : erase'[f] = IF f = e THEN [erase[e] EXCEPT !.pc = pc] ELSE erase[f]
  BY DEF EraseTo, TxnsOK
<1>3. erase'[e].user = erase[e].user
  BY <1>1, <1>2
<1>4. erase' \in [Erasers -> [pc : Pcs, user : Users \cup {None}]]
  BY <1>1 DEF EraseTo, TxnsOK
<1>5. \A f \in Erasers : erase'[f].pc # "idle" => erase'[f].user \in Minted'
  BY <1>2, <1>3 DEF TxnsOK, Minted
<1> QED BY <1>4, <1>5 DEF TxnsOK, EraseTo

LEMMA TypedTxn ==
  ASSUME TypedInv,
         \/ \E e \in Erasers : AuthErase(e) \/ EraseStep(e) \/ LoseCommitAck(e)
         \/ StartNightly \/ NightlyStep
         \/ \E x \in Txns : GiveUpWaiting(x) \/ FailTxn(x)
  PROVE  TypedInv'
<1> USE DEF TypedInv, DataOK, TurnsOK, VotesOK, TxnsOK, TxnFrame, EraseTo, NightlyTo, Minted
<1> Nightly \in Txns /\ Erasers \subseteq Txns /\ Nightly \notin Erasers
  BY ConstantsAssumption DEF Txns
<1> NextStatement \in [Sweeps \cup {"verifyMessages", "verify"} -> ErasePcs]
  BY DEF NextStatement, ErasePcs, Sweeps
<1>1. ASSUME NEW e \in Erasers, AuthErase(e) PROVE TypedInv'
  BY <1>1 DEF AuthErase, ErasePcs, NextStatement
<1>2. ASSUME NEW x \in Txns, DeleteTarget(x)
      PROVE  deleted' \in [Txns -> SUBSET Rows]
  BY <1>2, TargetSeen DEF DeleteTarget, See
<1>3. ASSUME NEW e \in Erasers, Sweep(e) PROVE TypedInv'
  <2>1. erase[e].pc \in Sweeps /\ erase[e].user \in Minted
    BY <1>3 DEF Sweep, Sweeps
  <2>2. TxnsOK'
    BY <1>3, <2>1 DEF Sweep, DeleteTarget
  <2>3. DataOK'
    BY <1>3, <1>2 DEF Sweep, DeleteTarget
  <2> QED BY <1>3, <2>2, <2>3 DEF Sweep, DeleteTarget
<1>4. ASSUME NEW x \in Txns, Open(x), RollBack(x), faults' \in Nat PROVE TypedInv'
  BY <1>4 DEF RollBack, Txns, Open, ErasePcs, NextStatement
<1>5. ASSUME NEW e \in Erasers, Verify(e) PROVE TypedInv'
  <2>1. Open(e)
    BY <1>5 DEF Verify, Open, ErasePcs, NextStatement
  <2>2. CASE LeftBehind(e) # {}
    BY <1>4, <1>5, <2>1, <2>2 DEF Verify, Txns
  <2>3. CASE LeftBehind(e) = {}
    <3>1. NextStatement[erase[e].pc] \in ErasePcs /\ erase[e].user \in Minted
      BY <1>5 DEF Verify
    <3>2. TxnsOK'
      <4>1. EraseTo(e, NextStatement[erase[e].pc]) /\ expiresAt' = expiresAt
        BY <1>5, <2>3 DEF Verify
      <4>2. erase[e].pc # "idle"
        BY <1>5 DEF Verify
      <4> QED BY <3>1, <4>1, <4>2, EraseMoves
    <3>3. DataOK'
      BY <1>5, <2>3 DEF Verify
    <3> QED BY <1>5, <2>3, <3>2, <3>3 DEF Verify
  <2> QED BY <2>2, <2>3
<1>6. ASSUME NEW e \in Erasers, CommitErase(e) \/ LoseCommitAck(e) PROVE TypedInv'
  <2>1. /\ EraseTo(e, "erased") \/ EraseTo(e, "failed")
        /\ expiresAt' = expiresAt /\ erase[e].pc # "idle"
    BY <1>6 DEF CommitErase, LoseCommitAck, CommitRows
  <2>2. TxnsOK'
    BY <2>1, EraseMoves
  <2>3. faults' \in Nat
    BY <1>6, ConstantsAssumption DEF CommitErase, LoseCommitAck
  <2>4. CommitRows(e)
    BY <1>6 DEF CommitErase, LoseCommitAck
  <2>5. DataOK'
    BY <2>3, <2>4 DEF CommitRows
  <2> QED BY <2>2, <2>4, <2>5 DEF CommitRows
<1>7. CASE StartNightly
  BY <1>7 DEF StartNightly, NightlyPcs
<1>8. CASE Reclaim
  BY <1>8, <1>2 DEF Reclaim, DeleteTarget, NightlyPcs
<1>9. CASE CommitNightly
  BY <1>9 DEF CommitNightly, CommitRows
<1>10. ASSUME NEW x \in Txns, GiveUpWaiting(x) \/ FailTxn(x) PROVE TypedInv'
  BY <1>10, <1>4 DEF GiveUpWaiting, FailTxn, Waits
<1> QED BY <1>1, <1>3, <1>5, <1>6, <1>7, <1>8, <1>9, <1>10 DEF EraseStep, NightlyStep

LEMMA TypedNext == ASSUME TypedInv, [Next]_vars PROVE TypedInv'
<1>1. ASSUME NEW u \in Users, Mint(u) PROVE TypedInv'
  BY <1>1, RowTypes, ConstantsAssumption DEF Mint, TypedInv, DataOK, TurnsOK, VotesOK, TxnsOK, Minted
<1>2. CASE Tick
  BY <1>2 DEF Tick, TypedInv, DataOK, TurnsOK, VotesOK, TxnsOK, Minted
<1>3. CASE UNCHANGED vars
  BY <1>3 DEF vars, TypedInv, DataOK, TurnsOK, VotesOK, TxnsOK, Minted
<1> QED BY <1>1, <1>2, <1>3, TypedTurn, TypedVote, TypedTxn DEF Next

\* The tables, the open transactions and the handlers hold values of their types.
THEOREM TypeCorrect == Spec => []TypeOK
<1>1. TypedInv => TypeOK
  BY DEF TypedInv, DataOK, TurnsOK, VotesOK, TxnsOK, TypeOK
<1> QED BY <1>1, TypedInit, TypedNext, PTL DEF Spec
-----------------------------------------------------------------------------
(* The schema holds through every interleaving.                            *)

\* No row but the one Mint inserts is a user row.
NoUserRow(R) == \A r \in R : r.table # "users"

\* What a step does to the tables, in one of five ways.
Inserts == /\ deleted' = deleted
           /\ \E R : CanInsert(R) /\ KeysUnique(R) /\ NoUserRow(R) /\ db' = db \cup R
Replaces == /\ deleted' = deleted
            /\ \E row : \E old \in SUBSET db :
                 /\ old = {r \in db : Key(r) = Key(row)} /\ old # {}
                 /\ old \cap Doomed = {} /\ NoUserRow(old \cup {row})
                 /\ \A r \in old : References(r) = References(row)
                 /\ db' = (db \ old) \cup {row}
Deletes == /\ db' = db
           /\ \E x \in Txns : \E S : /\ S \subseteq See(x) /\ ~MustWait(x, S)
                                     /\ deleted' = [deleted EXCEPT ![x] = @ \cup DeletedBy(x, S)]
Ends == \E x \in Txns : /\ deleted' = [deleted EXCEPT ![x] = {}]
                        /\ db' = db \/ db' = db \ deleted[x]
Quiet == UNCHANGED <<db, deleted>>

Tabular == Inserts \/ Replaces \/ Deletes \/ Ends \/ Quiet

LEMMA TabularKeepsDb ==
  ASSUME TypedInv, DbOK(db, deleted), Tabular
  PROVE  DbOK(db', deleted')
<1> db \subseteq Rows /\ deleted \in [Txns -> SUBSET Rows]
  BY DEF TypedInv, DataOK
<1>1. CASE Inserts
  BY <1>1, InsertKeepsDb DEF Inserts
<1>2. CASE Replaces
  BY <1>2, ReplaceKeepsDb DEF Replaces
<1>3. CASE Deletes
  BY <1>3, DeleteKeepsDb DEF Deletes
<1>4. CASE Ends
  BY <1>4, CommitKeepsDb, RollBackKeepsDb DEF Ends
<1>5. CASE Quiet
  BY <1>5 DEF Quiet
<1> QED BY <1>1, <1>2, <1>3, <1>4, <1>5 DEF Tabular

LEMMA OneRow == ASSUME NEW r PROVE KeysUnique({r})
BY DEF KeysUnique

LEMMA TurnTabular ==
  ASSUME TypedInv, NEW t \in Turns, AuthTurn(t) \/ TurnStep(t) \/ FailTurn(t)
  PROVE  Inserts \/ Quiet
<1> USE DEF TurnFrame
<1>1. ASSUME NEW R, NEW next, KeysUnique(R), NoUserRow(R), TurnInserts(t, R, next)
      PROVE  Inserts \/ Quiet
  BY <1>1 DEF TurnInserts, Inserts, Quiet
<1>2. CASE AuthTurn(t) \/ CheckOwner(t) \/ RunPipeline(t) \/ Reply(t) \/ FailTurn(t)
  BY <1>2 DEF AuthTurn, CheckOwner, RunPipeline, Reply, FailTurn, Quiet
<1>3. CASE OpenChat(t)
  <2>1. NoUserRow({ChatRow(t, turn[t].user)})
    BY DEF NoUserRow, ChatRow
  <2> QED BY <1>3, <2>1, OneRow DEF OpenChat, Inserts, Quiet
<1>4. CASE StoreQuestion(t)
  <2>1. NoUserRow({MessageRow(t, "user", turn[t].chat)})
    BY DEF NoUserRow, MessageRow
  <2> QED BY <1>1, <1>4, <2>1, OneRow DEF StoreQuestion
<1>5. CASE StoreTrace(t)
  <2>1. NoUserRow({TraceRow(t, turn[t].user)})
    BY DEF NoUserRow, TraceRow
  <2> QED BY <1>1, <1>5, <2>1, OneRow DEF StoreTrace
<1>6. CASE StoreAnswer(t)
  <2> DEFINE R == {MessageRow(t, "assistant", turn[t].chat), TraceIdColumn(t)}
  <2>1. NoUserRow(R)
    BY DEF NoUserRow, MessageRow, TraceIdColumn
  <2>2. KeysUnique(R)
    BY DEF KeysUnique, Key, MessageRow, TraceIdColumn
  <2> QED BY <1>1, <1>6, <2>1, <2>2 DEF StoreAnswer
<1>7. CASE StoreLateTrace(t)
  <2>1. NoUserRow({TraceRow(t, turn[t].user)})
    BY DEF NoUserRow, TraceRow
  <2> QED BY <1>7, <2>1, OneRow DEF StoreLateTrace, Inserts, Quiet
<1> QED BY <1>2, <1>3, <1>4, <1>5, <1>6, <1>7 DEF TurnStep

LEMMA VoteTabular ==
  ASSUME TypedInv, NEW v \in Votes, AuthVote(v) \/ VoteStep(v)
  PROVE  Inserts \/ Replaces \/ Quiet
<1> USE DEF VoteFrame
<1>1. CASE AuthVote(v) \/ FindTarget(v)
  BY <1>1 DEF AuthVote, FindTarget, Quiet
<1>2. CASE StoreVote(v)
  <2> DEFINE row == FeedbackRow(vote[v].user, vote[v].turn, vote[v].anchor, vote[v].rating)
             old == {r \in db : Key(r) = Key(row)}
  <2>1. NoUserRow({row}) /\ row.table = "feedback"
    BY DEF NoUserRow, FeedbackRow
  <2>2. ASSUME NEW r \in old
        PROVE  r.table = "feedback" /\ References(r) = References(row)
    <3>1. r \in Rows /\ r.table = "feedback" /\ r.id = row.id
      BY <2>1 DEF Key, TypedInv, DataOK
    <3>2. PICK u \in Users, t \in Turns, a \in AnchorKinds, x \in {"up", "down"} :
            r = FeedbackRow(u, t, a, x)
      BY <3>1 DEF Rows, UserRow, TokenRow, ChatRow, TraceRow, MessageRow, TraceIdColumn
    <3>3. u = vote[v].user
      BY <3>1, <3>2 DEF FeedbackRow
    <3>4. r.user_id = row.user_id
      BY <3>2, <3>3 DEF FeedbackRow
    <3> QED BY <2>1, <3>1, <3>4 DEF References, UserReference, OwnedTables
  <2>3. NoUserRow(old \cup {row})
    BY <2>1, <2>2 DEF NoUserRow
  <2>4. CASE CanInsert({row}) /\ db' = db \cup {row}
    BY <1>2, <2>1, <2>4, OneRow DEF StoreVote, Inserts
  <2>5. CASE old # {} /\ old \cap Doomed = {} /\ db' = (db \ old) \cup {row}
    BY <1>2, <2>2, <2>3, <2>5 DEF StoreVote, Replaces
  <2>6. CASE db' = db
    BY <1>2, <2>6 DEF StoreVote, Quiet
  <2> QED BY <1>2, <2>4, <2>5, <2>6 DEF StoreVote
<1> QED BY <1>1, <1>2 DEF VoteStep
LEMMA TxnTabular ==
  ASSUME TypedInv,
         \/ \E e \in Erasers : AuthErase(e) \/ EraseStep(e) \/ LoseCommitAck(e)
         \/ StartNightly \/ NightlyStep
         \/ \E x \in Txns : GiveUpWaiting(x) \/ FailTxn(x)
  PROVE  Deletes \/ Ends \/ Quiet
<1> Nightly \in Txns /\ Erasers \subseteq Txns
  BY DEF Txns
<1>1. ASSUME NEW x \in Txns, DeleteTarget(x) PROVE Deletes
  BY <1>1, TargetSeen DEF DeleteTarget, Deletes
<1>2. ASSUME NEW x \in Txns, CommitRows(x) \/ RollBack(x) PROVE Ends
  BY <1>2 DEF CommitRows, RollBack, Ends
<1>3. ASSUME NEW e \in Erasers, AuthErase(e) \/ EraseStep(e) \/ LoseCommitAck(e)
      PROVE  Deletes \/ Ends \/ Quiet
  BY <1>1, <1>2, <1>3
     DEF AuthErase, EraseStep, Sweep, Verify, CommitErase, LoseCommitAck, Quiet
<1>4. CASE StartNightly \/ NightlyStep
  BY <1>1, <1>2, <1>4 DEF StartNightly, NightlyStep, Reclaim, CommitNightly, Quiet
<1>5. ASSUME NEW x \in Txns, GiveUpWaiting(x) \/ FailTxn(x) PROVE Ends
  BY <1>2, <1>5 DEF GiveUpWaiting, FailTxn
<1> QED BY <1>3, <1>4, <1>5

LEMMA MintKeepsDb ==
  ASSUME TypedInv, DbOK(db, deleted), NEW u \in Users, Mint(u), UserRow(u) \notin db
  PROVE  DbOK(db', deleted')
<1> DEFINE R == {UserRow(u), TokenRow(u)}
<1>1. KeysUnique(R)
  BY DEF KeysUnique, Key, UserRow, TokenRow
<1>2. RowsOf(u, db) = {}
  BY NoUserNoRows DEF TypedInv, DataOK, DbOK
<1>3. ~KeyTaken(R)
  <2>1. ASSUME NEW p \in db, Key(p) = <<"users", u>> PROVE FALSE
    <3>1. p.table = "users" /\ p.id = u /\ p \in Rows
      BY <2>1 DEF Key, TypedInv, DataOK
    <3>2. p = UserRow(u)
      BY <3>1 DEF Rows, UserRow, TokenRow, ChatRow, TraceRow, MessageRow,
                  TraceIdColumn, FeedbackRow
    <3> QED BY <3>2
  <2>2. ASSUME NEW p \in db, Key(p) = <<"sessions", u>> PROVE FALSE
    <3>1. p.table = "sessions" /\ p.id = u /\ p \in Rows
      BY <2>2 DEF Key, TypedInv, DataOK
    <3>2. p.user_id = u
      BY <3>1 DEF Rows, UserRow, TokenRow, ChatRow, TraceRow, MessageRow,
                  TraceIdColumn, FeedbackRow
    <3> QED BY <1>2, <3>1, <3>2 DEF RowsOf, OwnedBy, OwnedTables
  <2> QED BY <2>1, <2>2 DEF KeyTaken, Key, UserRow, TokenRow
<1>4. Needs(R) = {}
  <2>1. References(UserRow(u)) = {}
    BY DEF References, UserReference, UserRow, OwnedTables
  <2>2. References(TokenRow(u)) = {<<"users", u>>}
    BY DEF References, UserReference, TokenRow, OwnedTables
  <2> QED BY <2>1, <2>2 DEF Needs, Key, UserRow
<1>5. CanInsert(R)
  BY <1>3, <1>4 DEF CanInsert
<1> QED BY <1>1, <1>5, InsertKeepsDb DEF Mint

\* The inductive invariant.  A user row exists only for a minted user; an erasure
\* that passed its last sweep no longer sees its user, and once it committed the
\* row is gone.
EraseInv ==
  \A e \in Erasers :
    /\ erase[e].pc \in {"verify", "commit"} => UserRow(erase[e].user) \notin See(e)
    /\ erase[e].pc = "erased" => UserRow(erase[e].user) \notin db

Inv == /\ TypedInv
       /\ DbOK(db, deleted)
       /\ \A u \in Users : UserRow(u) \in db => u \in Minted
       /\ EraseInv

\* No step but Mint adds a user row, and no step brings one back into view of a
\* transaction that deleted it and is still open.
LEMMA UserRowsShrink ==
  ASSUME Tabular, NEW u, UserRow(u) \notin db
  PROVE  UserRow(u) \notin db'
<1>1. UserRow(u).table = "users"
  BY DEF UserRow
<1> QED BY <1>1 DEF Tabular, Inserts, Replaces, Deletes, Ends, Quiet, NoUserRow
ErasedOK(e) ==
  /\ erase[e].pc \in {"verify", "commit"} => UserRow(erase[e].user) \notin See(e)
  /\ erase[e].pc = "erased" => UserRow(erase[e].user) \notin db

LEMMA ErasureUntouched ==
  ASSUME Tabular, NEW e \in Erasers, ErasedOK(e),
         erase'[e] = erase[e], deleted'[e] = deleted[e]
  PROVE  ErasedOK(e)'
BY UserRowsShrink DEF ErasedOK, See

LEMMA TxnKeepsErased ==
  ASSUME Inv, NEW e \in Erasers,
         \/ \E f \in Erasers : AuthErase(f) \/ EraseStep(f) \/ LoseCommitAck(f)
         \/ StartNightly \/ NightlyStep
         \/ \E x \in Txns : GiveUpWaiting(x) \/ FailTxn(x)
  PROVE  ErasedOK(e)'
<1> Nightly \in Txns /\ Erasers \subseteq Txns /\ Nightly \notin Erasers
  BY ConstantsAssumption DEF Txns
<1> deleted \in [Txns -> SUBSET Rows]
  BY DEF Inv, TypedInv, DataOK
<1> Tabular /\ ErasedOK(e)
  BY TxnTabular DEF Inv, Tabular, EraseInv, ErasedOK
<1> DEFINE Pcs == ErasePcs \cup {"idle", "unauthorized", "erased", "failed"}
<1> erase \in [Erasers -> [pc : Pcs, user : Users \cup {None}]]
  BY DEF Inv, TypedInv, TxnsOK
<1>1. ASSUME NEW f \in Erasers, AuthErase(f) PROVE ErasedOK(e)'
  <2>1. CASE e = f
    BY <1>1, <2>1 DEF AuthErase, ErasedOK
  <2>2. CASE e # f
    BY <1>1, <2>2, ErasureUntouched DEF AuthErase
  <2> QED BY <2>1, <2>2
<1>2. ASSUME NEW f \in Erasers, Sweep(f) PROVE ErasedOK(e)'
  <2>1. CASE e # f
    BY <1>2, <2>1, ErasureUntouched DEF Sweep, DeleteTarget, EraseTo
  <2>2. CASE e = f /\ erase[e].pc = "users"
    <3>1. Target(e) = See(e) \cap {UserRow(erase[e].user)}
      BY <2>2 DEF Target, EraseTarget, OwnedTables
    <3>2. Target(e) \subseteq DeletedBy(e, Target(e))
      BY TargetSeen, CascadeSubset DEF DeletedBy
    <3>3. UserRow(erase[e].user) \notin See(e)'
      BY <1>2, <2>2, <3>1, <3>2 DEF Sweep, DeleteTarget, See
    <3>4. erase'[e].user = erase[e].user /\ erase'[e].pc = "verify"
      BY <1>2, <2>2 DEF Sweep, EraseTo, NextStatement
    <3> QED BY <3>3, <3>4 DEF ErasedOK
  <2>3. CASE e = f /\ erase[e].pc # "users"
    <3>1. erase'[e].pc \notin {"verify", "commit", "erased"}
      BY <1>2, <2>3 DEF Sweep, EraseTo, NextStatement, Sweeps
    <3> QED BY <3>1 DEF ErasedOK
  <2> QED BY <2>1, <2>2, <2>3
<1>3. ASSUME NEW x \in Txns, RollBack(x), Open(x) PROVE ErasedOK(e)'
  <2>1. CASE e = x
    BY <1>3, <2>1 DEF RollBack, EraseTo, ErasedOK
  <2>2. CASE e # x
    BY <1>3, <2>2, ErasureUntouched DEF RollBack, EraseTo, NightlyTo, Txns
  <2> QED BY <2>1, <2>2
<1>4. ASSUME NEW f \in Erasers, Verify(f) PROVE ErasedOK(e)'
  <2>1. CASE RollBack(f)
    BY <1>3, <1>4, <2>1 DEF Verify, Open, ErasePcs, NextStatement
  <2>2. CASE ~RollBack(f) /\ e # f
    BY <1>4, <2>2, ErasureUntouched DEF Verify, EraseTo
  <2>3. CASE ~RollBack(f) /\ e = f
    <3>1. /\ erase[e].pc \in {"verifyMessages", "verify"}
          /\ erase'[e].pc = NextStatement[erase[e].pc] /\ erase'[e].user = erase[e].user
          /\ db' = db /\ deleted' = deleted
      BY <1>4, <2>3 DEF Verify, EraseTo
    <3> QED BY <3>1 DEF ErasedOK, See, NextStatement
  <2> QED BY <2>1, <2>2, <2>3
<1>5. ASSUME NEW f \in Erasers, CommitErase(f) \/ LoseCommitAck(f) PROVE ErasedOK(e)'
  <2>1. CASE e # f
    BY <1>5, <2>1, ErasureUntouched DEF CommitErase, LoseCommitAck, CommitRows, EraseTo
  <2>2. CASE e = f
    <3>1. /\ erase[e].pc = "commit" /\ db' = See(e)
          /\ erase'[e].pc \in {"erased", "failed"} /\ erase'[e].user = erase[e].user
      BY <1>5, <2>2 DEF CommitErase, LoseCommitAck, CommitRows, EraseTo, See
    <3> QED BY <3>1 DEF ErasedOK
  <2> QED BY <2>1, <2>2
<1>6. CASE StartNightly
  BY <1>6, ErasureUntouched DEF StartNightly
<1>7. CASE Reclaim
  BY <1>7, ErasureUntouched DEF Reclaim, DeleteTarget, NightlyTo
<1>8. CASE CommitNightly
  BY <1>8, ErasureUntouched DEF CommitNightly, CommitRows, NightlyTo
<1>9. ASSUME NEW x \in Txns, GiveUpWaiting(x) \/ FailTxn(x) PROVE ErasedOK(e)'
  BY <1>3, <1>9 DEF GiveUpWaiting, FailTxn, Waits
<1> QED BY <1>1, <1>2, <1>4, <1>5, <1>6, <1>7, <1>8, <1>9 DEF EraseStep, NightlyStep

LEMMA InvInit == ASSUME Init PROVE Inv
<1>1. DbOK(db, deleted)
  BY DEF Init, DbOK, KeysUnique, ReferencesHold
<1> QED BY <1>1, TypedInit DEF Init, Inv, EraseInv

LEMMA InvNext == ASSUME Inv, [Next]_vars PROVE Inv'
<1> TypedInv'
  BY TypedNext DEF Inv
<1> Inv => DbOK(db, deleted) /\ TypedInv
  BY DEF Inv
<1> DEFINE UsersMinted == \A u \in Users : UserRow(u) \in db => u \in Minted
<1>1. ASSUME Tabular, expiresAt' = expiresAt, \A e \in Erasers : ErasedOK(e)' PROVE Inv'
  <2>1. DbOK(db', deleted')
    BY <1>1, TabularKeepsDb
  <2>2. UsersMinted'
    BY <1>1, UserRowsShrink DEF Inv, Minted
  <2> QED BY <1>1, <2>1, <2>2 DEF Inv, EraseInv, ErasedOK
<1>2. ASSUME Tabular, expiresAt' = expiresAt, erase' = erase, deleted' = deleted PROVE Inv'
  <2>1. \A e \in Erasers : ErasedOK(e)'
    BY <1>2, ErasureUntouched DEF Inv, EraseInv, ErasedOK
  <2> QED BY <1>1, <1>2, <2>1
<1>3. ASSUME NEW u \in Users, Mint(u) PROVE Inv'
  <2>1. u \notin Minted /\ UserRow(u) \notin db
    BY <1>3 DEF Mint, Minted, Inv
  <2>2. DbOK(db', deleted')
    BY <1>3, <2>1, MintKeepsDb
  <2>3. Minted' = Minted \cup {u}
    BY <1>3, ConstantsAssumption DEF Mint, Minted, Inv, TypedInv, DataOK
  <2>4. \A w : UserRow(w) \in db' => w = u \/ UserRow(w) \in db
    BY <1>3 DEF Mint, UserRow, TokenRow
  <2>5. UsersMinted'
    BY <2>3, <2>4 DEF Inv
  <2>6. \A e \in Erasers : erase[e].pc # "idle" => erase[e].user # u
    BY <2>1 DEF Inv, TypedInv, TxnsOK
  <2>7. EraseInv'
    BY <1>3, <2>4, <2>6 DEF Mint, Inv, EraseInv, See
  <2> QED BY <2>2, <2>5, <2>7 DEF Inv
<1>4. ASSUME NEW t \in Turns, AuthTurn(t) \/ TurnStep(t) \/ FailTurn(t) PROVE Inv'
  <2>1. expiresAt' = expiresAt /\ erase' = erase /\ deleted' = deleted
    BY <1>4 DEF AuthTurn, TurnStep, FailTurn, CheckOwner, OpenChat, StoreQuestion, RunPipeline,
                StoreTrace, StoreAnswer, Reply, StoreLateTrace, TurnInserts, TurnFrame
  <2> QED BY <1>2, <1>4, <2>1, TurnTabular DEF Tabular
<1>5. ASSUME NEW v \in Votes, AuthVote(v) \/ VoteStep(v) PROVE Inv'
  <2>1. expiresAt' = expiresAt /\ erase' = erase /\ deleted' = deleted
    BY <1>5 DEF AuthVote, VoteStep, FindTarget, StoreVote, VoteFrame
  <2> QED BY <1>2, <1>5, <2>1, VoteTabular DEF Tabular
<1>6. ASSUME \/ \E e \in Erasers : AuthErase(e) \/ EraseStep(e) \/ LoseCommitAck(e)
             \/ StartNightly \/ NightlyStep
             \/ \E x \in Txns : GiveUpWaiting(x) \/ FailTxn(x)
      PROVE  Inv'
  <2>1. expiresAt' = expiresAt
    BY <1>6 DEF AuthErase, EraseStep, LoseCommitAck, StartNightly, NightlyStep, GiveUpWaiting,
                FailTxn, Sweep, Verify, CommitErase, Reclaim, CommitNightly, DeleteTarget,
                CommitRows, RollBack, TxnFrame
  <2> QED BY <1>1, <1>6, <2>1, TxnTabular, TxnKeepsErased DEF Tabular
<1>7. CASE Tick
  BY <1>2, <1>7 DEF Tick, Tabular, Quiet
<1>8. CASE UNCHANGED vars
  BY <1>2, <1>8 DEF vars, Tabular, Quiet
<1> QED BY <1>3, <1>4, <1>5, <1>6, <1>7, <1>8 DEF Next

\* The committed tables satisfy their keys and foreign keys in every state.
THEOREM SchemaAlwaysHolds == Spec => []SchemaHolds
<1>1. Inv => SchemaHolds
  BY DEF Inv, DbOK, SchemaHolds
<1> QED BY <1>1, InvInit, InvNext, PTL DEF Spec

\* A caller who was told {deleted: true} owns no row, then or ever after.
THEOREM ErasureFinal == Spec => []ErasureIsFinal
<1>1. ASSUME Inv PROVE ErasureIsFinal
  <2>1. ASSUME NEW e \in Erasers, erase[e].pc = "erased"
        PROVE  RowsOf(erase[e].user, db) = {}
    BY <1>1, <2>1, NoUserNoRows DEF Inv, TypedInv, DataOK, DbOK, EraseInv
  <2> QED BY <2>1 DEF ErasureIsFinal
<1> QED BY <1>1, InvInit, InvNext, PTL DEF Spec
\* The erasure's last check sees the tables it would commit: they satisfy the
\* schema and hold no user row, so nothing of the user is left in them.
THEOREM FinalCheckNeverRaises == Spec => []FinalCheckPasses
<1>1. ASSUME Inv PROVE FinalCheckPasses
  <2>1. ASSUME NEW e \in Erasers, erase[e].pc = "verify" PROVE LeftBehind(e) = {}
    <3>1. e \in Txns /\ See(e) \subseteq Rows
      BY <1>1 DEF Txns, See, Inv, TypedInv, DataOK
    <3>2. ReferencesHold(See(e))
      BY <1>1, <3>1, CommitKeepsDb DEF Inv, TypedInv, DataOK, DbOK, See
    <3>3. RowsOf(erase[e].user, See(e)) = {}
      BY <1>1, <2>1, <3>1, <3>2, NoUserNoRows DEF Inv, EraseInv
    <3> QED BY <2>1, <3>3 DEF LeftBehind, RowsOf, OwnedBy
  <2> QED BY <2>1 DEF FinalCheckPasses
<1> QED BY <1>1, InvInit, InvNext, PTL DEF Spec
=============================================================================
