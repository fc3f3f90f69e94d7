----------------------------- MODULE ChatTables -----------------------------
(***************************************************************************)
(* The conversational part of the database schema: the tables a user's     *)
(* erasure has to empty, their keys and their foreign keys, and the        *)
(* ON DELETE actions (packages/infra/migrations/0001_init.sql and          *)
(* 0003_feedback_dedup.sql).                                               *)
(*                                                                         *)
(* A row is a record: its table, its key, and the columns that refer to    *)
(* other rows.  Content columns are left out.                              *)
(*                                                                         *)
(* The nullable column chat_messages.answer_trace_id is a row of its own,  *)
(* of a table "answer_trace_id": it is present exactly when the column is  *)
(* not NULL.  It refers to the message it belongs to and to the trace it   *)
(* names, so ON DELETE SET NULL on the trace and the disappearance of the  *)
(* message are both ordinary cascades.                                     *)
(***************************************************************************)
EXTENDS FiniteSets

Roles == {"user", "assistant"}

UserRow(u)    == [table |-> "users", id |-> u]
TokenRow(u)   == [table |-> "sessions", id |-> u, user_id |-> u]
ChatRow(c, u) == [table |-> "chat_sessions", id |-> c, user_id |-> u]
TraceRow(t, u) == [table |-> "answer_traces", id |-> t, user_id |-> u]
MessageRow(t, role, c) ==
  [table |-> "chat_messages", id |-> <<t, role>>, session_id |-> c]
TraceIdColumn(t) == [table |-> "answer_trace_id", id |-> t]

\* One verdict of user u on element a of the answer of turn t; the key is the
\* expression list of the unique index feedback_user_answer_anchor_key.
FeedbackRow(u, t, a, rating) ==
  [table |-> "feedback", id |-> <<u, t, a>>, user_id |-> u, rating |-> rating]

OwnedTables == {"sessions", "chat_sessions", "answer_traces", "feedback"}

\* What a foreign key names, and what a primary key or unique index keeps apart.
Key(r) == <<r.table, r.id>>

\* The keys a row refers to through its foreign keys.  (Operators whose names end
\* in _ and a word are mutants: the next definition with a plausible bug in it.)
UserReference_NoTraceOwner(r) ==
  IF r.table \in OwnedTables \ {"answer_traces"} THEN {<<"users", r.user_id>>} ELSE {}
UserReference(r) == IF r.table \in OwnedTables THEN {<<"users", r.user_id>>} ELSE {}

References(r) ==
  UserReference(r) \cup
  CASE r.table = "chat_messages" -> {<<"chat_sessions", r.session_id>>}
    [] r.table = "answer_trace_id" ->
         {<<"chat_messages", <<r.id, "assistant">>>>, <<"answer_traces", r.id>>}
    [] OTHER -> {}

RefersTo(r, p) == Key(p) \in References(r)

\* The rows of tbl that refer to a row of S, and the rows the database removes
\* with S: the longest chain of foreign keys has three links
\* (users <- chat_sessions <- chat_messages <- answer_trace_id).
WithReferrers(S, tbl) == S \cup {r \in tbl : \E p \in S : RefersTo(r, p)}
Cascade(S, tbl) ==
  WithReferrers(WithReferrers(WithReferrers(S, tbl), tbl), tbl)

\* No two rows have one key, and every foreign key names a row.
KeysUnique(tbl) == \A p, r \in tbl : Key(p) = Key(r) => p = r
ReferencesHold(tbl) == \A r \in tbl : \A k \in References(r) :
                         \E p \in tbl : Key(p) = k

\* The user a row belongs to.  A message has no owner column: its owner is its
\* chat session's.
OwnedBy(r, u, tbl) ==
  \/ r = UserRow(u)
  \/ r.table \in OwnedTables /\ r.user_id = u
  \/ r.table = "chat_messages" /\ ChatRow(r.session_id, u) \in tbl
  \/ /\ r.table = "answer_trace_id"
     /\ \E m \in tbl : /\ m.table = "chat_messages"
                       /\ m.id = <<r.id, "assistant">>
                       /\ ChatRow(m.session_id, u) \in tbl
RowsOf(u, tbl) == {r \in tbl : OwnedBy(r, u, tbl)}
=============================================================================
