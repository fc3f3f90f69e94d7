------------------------------ MODULE WebProofs ------------------------------
(***************************************************************************)
(* The chat page and what it keeps in the browser, for any number of       *)
(* users, conversations, turns, mounts and tabs: no transcript that        *)
(* arrives late hides an answer the page has shown, none is forgotten that *)
(* could be read, and the reader's answer about storage is honoured.       *)
(*                                                                         *)
(* What a late transcript may do depends on when it was asked for, by      *)
(* which mount, with which token, and on what happened since; the          *)
(* invariants below say of each request under way, and of each result in   *)
(* the query cache, what it still covers.                                  *)
(***************************************************************************)
EXTENDS MCWebChat, FiniteSetTheorems, TLAPS

-----------------------------------------------------------------------------
(* The type invariant, with a name for each kind of record. *)

Views == [mounted : BOOLEAN, sid : Chats \cup {None}, live : Chats \cup {None},
          shown : SUBSET Turns, busy : BOOLEAN, epoch : Nat, seen : SUBSET Chats,
          recovered : BOOLEAN, owed : SUBSET Turns]
TurnRecords == [pc : TurnPcs, bearer : Users \cup {None}, second : BOOLEAN,
                chat : Chats \cup {None}, mount : 0 .. MaxMounts, mine : BOOLEAN]
RequestRecords == [pc : {"none", "mint", "ask", "answered"},
                   bearer : Users \cup {None}, second : BOOLEAN, epoch : Nat,
                   mount : 0 .. MaxMounts, outcome : {"ok", "missing", "error"},
                   turns : SUBSET Turns]
Transcripts == [turns : SUBSET Turns, found : BOOLEAN, epoch : Nat, mount : 0 .. MaxMounts]
CacheRecords == [data : Transcripts, failed : BOOLEAN]

LEMMA Blank ==
  /\ NoView \in Views /\ NoTurn \in TurnRecords /\ NoRequest \in RequestRecords
  /\ NoData \in Transcripts
  /\ Requests = {"page", "drawer"} \X Chats
BY WebAssumption DEF Views, TurnRecords, RequestRecords, Transcripts, NoView, NoTurn,
  NoRequest, NoData, TurnPcs, Requests

Typed ==
  /\ minted \subseteq Users /\ valid \subseteq minted
  /\ owner \in [Chats -> Users \cup {None}] /\ answers \in [Chats -> SUBSET Turns]
  /\ token \in Users \cup {None} /\ stored \in Chats \cup {None}
  /\ history \in [Chats -> {"absent", "kept", "expired"}]
  /\ mounts \in 0 .. MaxMounts /\ faults \in 0 .. MaxFaults
  /\ view \in Views /\ (view.mounted \/ view = NoView)
  /\ turn \in [Turns -> TurnRecords]
  /\ request \in [Requests -> RequestRecords]
  /\ cache \in [Chats -> CacheRecords]

LEMMA TypedMeans == (TypeOK <=> Typed) /\ (TypeOK' <=> Typed')
BY DEF TypeOK, Typed, Views, TurnRecords, RequestRecords, Transcripts, CacheRecords

LEMMA TypeInit == Init => Typed
<1> SUFFICES ASSUME Init PROVE Typed
  OBVIOUS
<1>1. 0 \in 0 .. MaxMounts /\ 0 \in 0 .. MaxFaults
  BY WebAssumption
<1> QED BY <1>1, Blank DEF Init, NoHistory, CacheRecords, Typed

\* A request of a conversation the page no longer shows is kept as it is, or dropped.
LEMMA AbandoningShape ==
  ASSUME Typed, NEW rest \in [Requests -> RequestRecords], NEW c \in Chats \cup {None},
         request' \in Abandoning(rest, c)
  PROVE  /\ request' \in [Requests -> RequestRecords]
         /\ \A q \in Requests : request'[q] \in {rest[q], NoRequest}
<1>1. CASE c = None
  BY <1>1 DEF Abandoning
<1>2. CASE c # None
  <2>1. request' = rest \/ request' = [rest EXCEPT ![<<"page", c>>] = NoRequest]
    BY <1>2 DEF Abandoning
  <2>2. <<"page", c>> \in Requests
    BY <1>2 DEF Requests
  <2> QED BY <2>1, <2>2, Blank
<1> QED BY <1>1, <1>2

LEMMA AbandonTyped ==
  ASSUME Typed, NEW c \in Chats \cup {None}, Abandon(c)
  PROVE  request' \in [Requests -> RequestRecords]
BY AbandoningShape DEF Abandon, Typed

\* The effect on a transcript, and an arrival for the drawer, start no request.
LEMMA ShownDropsRequests ==
  ASSUME Typed, NEW c \in Chats, ShowTranscript(c)
  PROVE  /\ request' \in [Requests -> RequestRecords]
         /\ \A q \in Requests : request'[q] \in {request[q], NoRequest}
<1>1. request' = request \/ request' \in Abandoning(request, c)
  BY DEF ShowTranscript, Abandon
<1>2. CASE request' = request
  BY <1>2 DEF Typed
<1>3. CASE request' \in Abandoning(request, c)
  BY <1>3, AbandoningShape DEF Typed
<1> QED BY <1>1, <1>2, <1>3

LEMMA DrawerDropsRequests ==
  ASSUME Typed, NEW c \in Chats, ArriveDrawer(c)
  PROVE  /\ request' \in [Requests -> RequestRecords]
         /\ \A q \in Requests : request'[q] \in {request[q], NoRequest}
<1> DEFINE rest == [request EXCEPT ![<<"drawer", c>>] = NoRequest]
           left == IF view.sid = c THEN None ELSE view.sid
<1>1. request' = rest \/ request' \in Abandoning(rest, left)
  BY DEF ArriveDrawer
<1>2. rest \in [Requests -> RequestRecords] /\ \A q \in Requests : rest[q] \in {request[q], NoRequest}
  BY Blank DEF Typed
<1>3. left \in Chats \cup {None}
  BY DEF Typed, Views
<1>4. CASE request' = rest
  BY <1>2, <1>4
<1>5. CASE request' \in Abandoning(rest, left)
  <2> HIDE DEF rest, left
  <2> QED BY <1>2, <1>3, <1>5, AbandoningShape
<1> QED BY <1>1, <1>4, <1>5

LEMMA LeaveTyped ==
  ASSUME Typed, Leave PROVE turn' \in [Turns -> TurnRecords]
BY DEF Typed, Leave, TurnRecords

LEMMA FaultTyped ==
  ASSUME Typed, Fault PROVE faults' \in 0 .. MaxFaults
BY WebAssumption DEF Fault, Typed

LEMMA HistoryTyped ==
  ASSUME Typed, NEW c \in Chats
  PROVE  /\ Archived(c) \in [Chats -> {"absent", "kept", "expired"}]
         /\ Expired(c) \in [Chats -> {"absent", "kept", "expired"}]
         /\ NoHistory \in [Chats -> {"absent", "kept", "expired"}]
BY DEF Typed, Archived, Expired, NoHistory

LEMMA RequestTyped ==
  ASSUME Typed, NEW q \in Requests
  PROVE  /\ request[q] \in RequestRecords
         /\ \A e \in Nat, m \in 0 .. MaxMounts :
              StartRequest(q, e, m) => request' \in [Requests -> RequestRecords]
<1>1. request[q] \in RequestRecords
  BY DEF Typed
<1>2. ASSUME NEW e \in Nat, NEW m \in 0 .. MaxMounts, StartRequest(q, e, m)
      PROVE  request' \in [Requests -> RequestRecords]
  <2>1. [NoRequest EXCEPT !.pc = IF token = None THEN "mint" ELSE "ask",
                          !.bearer = token, !.epoch = e, !.mount = m] \in RequestRecords
    BY Blank DEF RequestRecords, Typed
  <2> QED BY <1>2, <2>1 DEF StartRequest, Typed
<1> QED BY <1>1, <1>2

LEMMA SettledTyped ==
  ASSUME Typed, NEW t \in Turns, NEW s \in SUBSET Turns
  PROVE  Settled(t, s) \in Views /\ (Settled(t, s).mounted \/ Settled(t, s) = NoView)
<1>1. CASE Here(t)
  <2>1. [view EXCEPT !.busy = FALSE, !.epoch = @ + 1, !.shown = s] \in Views
    <3>1. view.epoch + 1 \in Nat
      BY DEF Typed, Views
    <3> QED BY <3>1 DEF Typed, Views
  <2> QED BY <1>1, <2>1 DEF Settled, Here, Views, Typed
<1>2. CASE ~Here(t)
  BY <1>2 DEF Settled, Typed
<1> QED BY <1>1, <1>2

\* One step per action of the page, of its requests and of its turns.
LEMMA TypeNext == Typed /\ [Next]_vars => Typed'
<1> SUFFICES ASSUME Typed, [Next]_vars PROVE Typed'
  OBVIOUS
<1> USE DEF Typed
<1>1. ASSUME NEW u \in Users, Reclaim(u) PROVE Typed'
  BY <1>1 DEF Reclaim, storage
<1>2. CASE Mount
  <2>1. mounts' \in 0 .. MaxMounts
    BY <1>2, WebAssumption DEF Mount
  <2>2. view' \in Views /\ view'.mounted
    BY <1>2, Blank DEF Mount, Views
  <2>3. cache' \in [Chats -> CacheRecords]
    BY <1>2 DEF Mount, CacheRecords
  <2> QED BY <1>2, <2>1, <2>2, <2>3 DEF Mount, server, storage
<1>3. CASE Unmount
  <2>1. request' \in [Requests -> RequestRecords] /\ turn' \in [Turns -> TurnRecords]
    BY <1>3, AbandonTyped, LeaveTyped DEF Unmount, Views
  <2> QED BY <1>3, <2>1, Blank DEF Unmount, server, storage
<1>4. CASE Reload
  <2>1. faults' \in 0 .. MaxFaults
    BY <1>4, FaultTyped DEF Reload
  <2>2. turn' \in [Turns -> TurnRecords]
    BY <1>4, Blank DEF Reload, TurnRecords, TurnPcs
  <2>3. request' \in [Requests -> RequestRecords] /\ cache' \in [Chats -> CacheRecords]
    BY <1>4, Blank DEF Reload, CacheRecords
  <2>4. /\ token' \in Users \cup {None} /\ stored' \in Chats \cup {None}
        /\ history' \in [Chats -> {"absent", "kept", "expired"}]
    BY <1>4, HistoryTyped DEF Reload, storage, NoHistory
  <2> QED BY <1>4, <2>1, <2>2, <2>3, <2>4, Blank DEF Reload, server
<1>5. CASE NewSession
  <2>1. request' \in [Requests -> RequestRecords] /\ turn' \in [Turns -> TurnRecords]
    BY <1>5, AbandonTyped, LeaveTyped DEF NewSession, Views
  <2>2. view' \in Views /\ view'.mounted
    BY <1>5 DEF NewSession, Views
  <2>3. history' \in [Chats -> {"absent", "kept", "expired"}]
    BY <1>5, HistoryTyped DEF NewSession, Views
  <2> QED BY <1>5, <2>1, <2>2, <2>3 DEF NewSession, server
<1>6. ASSUME NEW q \in Requests, MintForRequest(q) PROVE Typed'
  <2>1. minted' \subseteq Users /\ valid' \subseteq minted' /\ token' \in Users \cup {None}
    BY <1>6 DEF MintForRequest, Minting
  <2>2. faults' \in 0 .. MaxFaults
    BY <1>6, FaultTyped DEF MintForRequest
  <2>3. request' \in [Requests -> RequestRecords]
    <3>1. \A u \in Users : [request[q] EXCEPT !.pc = "ask", !.bearer = u] \in RequestRecords
      BY DEF RequestRecords
    <3>2. [request[q] EXCEPT !.pc = "answered", !.outcome = "error"] \in RequestRecords
      BY DEF RequestRecords
    <3>3. CASE \E u \in Users : request' = [request EXCEPT ![q].pc = "ask", ![q].bearer = u]
      BY <3>1, <3>3
    <3>4. CASE request' = [request EXCEPT ![q].pc = "answered", ![q].outcome = "error"]
      BY <3>2, <3>4
    <3> QED BY <1>6, <3>3, <3>4 DEF MintForRequest
  <2> QED BY <1>6, <2>1, <2>2, <2>3 DEF MintForRequest, RequestFrame
<1>7. ASSUME NEW q \in Requests, AnswerRequest(q) PROVE Typed'
  <2>1. faults' \in 0 .. MaxFaults
    BY <1>7, FaultTyped DEF AnswerRequest
  <2>2. request' \in [Requests -> RequestRecords]
    <3>1. answers[q[2]] \subseteq Turns
      BY DEF Requests
    <3>2. \A o \in {"ok", "missing", "error"}, ts \in SUBSET Turns :
            [request[q] EXCEPT !.pc = "answered", !.bearer = None, !.outcome = o, !.turns = ts]
              \in RequestRecords
      BY DEF RequestRecords
    <3>3. [request[q] EXCEPT !.pc = "mint", !.second = TRUE] \in RequestRecords
      BY DEF RequestRecords
    <3>4. \/ \E o \in {"ok", "missing", "error"}, ts \in SUBSET Turns :
               request' = [request EXCEPT ![q] =
                 [request[q] EXCEPT !.pc = "answered", !.bearer = None, !.outcome = o, !.turns = ts]]
          \/ request' = [request EXCEPT ![q].pc = "mint", ![q].second = TRUE]
      BY <1>7, <3>1 DEF AnswerRequest
    <3>5. CASE \E o \in {"ok", "missing", "error"}, ts \in SUBSET Turns :
                 request' = [request EXCEPT ![q] =
                   [request[q] EXCEPT !.pc = "answered", !.bearer = None, !.outcome = o, !.turns = ts]]
      <4>1. PICK o \in {"ok", "missing", "error"}, ts \in SUBSET Turns :
              request' = [request EXCEPT ![q] =
                [request[q] EXCEPT !.pc = "answered", !.bearer = None, !.outcome = o, !.turns = ts]]
        BY <3>5
      <4>2. PICK r : r = [request[q] EXCEPT !.pc = "answered", !.bearer = None, !.outcome = o,
                                           !.turns = ts]
        OBVIOUS
      <4> QED BY <3>2, <4>1, <4>2
    <3>6. CASE request' = [request EXCEPT ![q].pc = "mint", ![q].second = TRUE]
      BY <3>3, <3>6
    <3> QED BY <3>4, <3>5, <3>6
  <2> QED BY <1>7, <2>1, <2>2 DEF AnswerRequest, RequestFrame
<1>8. ASSUME NEW c \in Chats, Fetch(c) PROVE Typed'
  <2>1. request' \in [Requests -> RequestRecords]
    BY <1>8, RequestTyped DEF Fetch, Views, Requests
  <2>2. view' \in Views /\ view'.mounted
    BY <1>8 DEF Fetch, Views, Cached
  <2> QED BY <1>8, <2>1, <2>2 DEF Fetch, server, storage
<1>9. ASSUME NEW c \in Chats, Reconnect(c) PROVE Typed'
  <2>1. request' \in [Requests -> RequestRecords]
    BY <1>9, RequestTyped DEF Reconnect, Views, Requests
  <2>2. cache' \in [Chats -> CacheRecords]
    BY <1>9 DEF Reconnect, CacheRecords, Cached
  <2> QED BY <1>9, <2>1, <2>2 DEF Reconnect, server, storage
<1>10. ASSUME NEW c \in Chats, Arrive(c) PROVE Typed'
  <2> DEFINE r == request[<<"page", c>>]
  <2>1. r \in RequestRecords
    BY DEF Requests
  <2>2. request' \in [Requests -> RequestRecords]
    BY <1>10, Blank DEF Arrive
  <2>3. cache' \in [Chats -> CacheRecords]
    <3>1. [turns |-> r.turns, found |-> r.outcome = "ok", epoch |-> r.epoch, mount |-> r.mount]
            \in Transcripts
      BY <2>1 DEF RequestRecords, Transcripts
    <3>2. \A d \in Transcripts : [data |-> d, failed |-> FALSE] \in CacheRecords
      BY DEF CacheRecords
    <3>3. [cache[c] EXCEPT !.failed = TRUE] \in CacheRecords
      BY DEF CacheRecords
    <3> QED BY <1>10, <3>1, <3>2, <3>3 DEF Arrive
  <2>4. view' \in Views /\ (view'.mounted \/ view' = NoView)
    BY <1>10 DEF Arrive, Views, NoView
  <2> QED BY <1>10, <2>2, <2>3, <2>4 DEF Arrive, server, storage
<1>11. ASSUME NEW c \in Chats, ShowTranscript(c) PROVE Typed'
  <2>1. view' \in Views /\ view'.mounted
    <3>1. cache[c].data.turns \subseteq Turns
      BY DEF CacheRecords, Transcripts
    <3> QED BY <1>11, <3>1 DEF ShowTranscript, Views
  <2>2. history' \in [Chats -> {"absent", "kept", "expired"}] /\ stored' \in Chats \cup {None}
    BY <1>11, HistoryTyped DEF ShowTranscript
  <2> QED BY <1>11, <2>1, <2>2, ShownDropsRequests DEF ShowTranscript, server
<1>12. ASSUME NEW c \in Chats, OpenHistory(c) PROVE Typed'
  <2>1. request' \in [Requests -> RequestRecords]
    BY <1>12, RequestTyped, WebAssumption DEF OpenHistory, Requests
  <2> QED BY <1>12, <2>1 DEF OpenHistory, server, storage
<1>13. ASSUME NEW c \in Chats, ArriveDrawer(c) PROVE Typed'
  <2> DEFINE r == request[<<"drawer", c>>]
  <2>1. r \in RequestRecords
    BY DEF Requests
  <2>2. request' \in [Requests -> RequestRecords]
    BY <1>13, DrawerDropsRequests
  <2>3. ASSUME Adopt(c, r.turns) PROVE /\ view' \in Views /\ (view'.mounted \/ view' = NoView)
                                       /\ cache' \in [Chats -> CacheRecords]
                                       /\ turn' \in [Turns -> TurnRecords]
                                       /\ stored' = c /\ history' = history
    <3>1. r.turns \subseteq Turns
      BY <2>1 DEF RequestRecords
    <3>2. [turns |-> r.turns, found |-> TRUE, epoch |-> view.epoch, mount |-> mounts]
            \in Transcripts
      BY <3>1 DEF Transcripts, Views
    <3> HIDE DEF r
    <3>3. view' \in Views /\ (view'.mounted \/ view' = NoView)
      <4>1. [view EXCEPT !.sid = c, !.live = c, !.shown = r.turns, !.seen = @ \ {c}, !.owed = {}]
              \in Views
        BY <3>1 DEF Views
      <4> QED BY <2>3, <4>1 DEF Adopt, Views
    <3>4. cache' \in [Chats -> CacheRecords]
      <4>1. \A d \in Transcripts : [data |-> d, failed |-> FALSE] \in CacheRecords
        BY DEF CacheRecords
      <4> QED BY <2>3, <3>2, <4>1 DEF Adopt
    <3> QED BY <2>3, <3>3, <3>4, LeaveTyped DEF Adopt
  <2>4. /\ history' \in [Chats -> {"absent", "kept", "expired"}]
        /\ stored' \in Chats \cup {None}
        /\ view' \in Views /\ (view'.mounted \/ view' = NoView)
        /\ cache' \in [Chats -> CacheRecords] /\ turn' \in [Turns -> TurnRecords]
    BY <1>13, <2>3, HistoryTyped DEF ArriveDrawer
  <2> QED BY <1>13, <2>2, <2>4 DEF ArriveDrawer, server
<1>14. ASSUME NEW t \in Turns, Send(t) PROVE Typed'
  <2>1. view' \in Views /\ view'.mounted
    BY <1>14 DEF Send, Views
  <2>2. turn' \in [Turns -> TurnRecords]
    BY <1>14 DEF Send, TurnRecords, TurnPcs, Views
  <2> QED BY <1>14, <2>1, <2>2 DEF Send, server, storage, TurnFrame, NoFault
<1>15. ASSUME NEW t \in Turns, MintForTurn(t) PROVE Typed'
  <2>1. minted' \subseteq Users /\ valid' \subseteq minted' /\ token' \in Users \cup {None}
    BY <1>15 DEF MintForTurn, Minting
  <2>2. turn' \in [Turns -> TurnRecords]
    <3>1. \A u \in Users : [turn[t] EXCEPT !.pc = "post", !.bearer = u] \in TurnRecords
      BY DEF TurnRecords, TurnPcs
    <3> QED BY <1>15, <3>1 DEF MintForTurn
  <2> QED BY <1>15, <2>1, <2>2 DEF MintForTurn, TurnFrame, NoFault
<1>16. ASSUME NEW t \in Turns, PostTurn(t) PROVE Typed'
  <2>1. turn' \in [Turns -> TurnRecords]
    <3>1. [turn[t] EXCEPT !.pc = "mint", !.second = TRUE] \in TurnRecords
      BY DEF TurnRecords, TurnPcs
    <3>2. \A c \in Chats : [turn[t] EXCEPT !.pc = "stream", !.chat = c, !.bearer = None,
                                          !.second = FALSE] \in TurnRecords
      BY DEF TurnRecords, TurnPcs
    <3> QED BY <1>16, <3>1, <3>2 DEF PostTurn
  <2>2. owner' \in [Chats -> Users \cup {None}] /\ answers' \in [Chats -> SUBSET Turns]
    <3>1. turn[t].bearer \in valid => turn[t].bearer \in Users
      OBVIOUS
    <3>2. \A c \in Chats : answers[c] \cup {t} \in SUBSET Turns
      OBVIOUS
    <3>3. CASE UNCHANGED <<owner, answers>>
      BY <3>3
    <3>4. CASE \E c \in Chats : /\ owner' = [owner EXCEPT ![c] = turn[t].bearer]
                               /\ answers' = [answers EXCEPT ![c] = @ \cup {t}]
                               /\ turn[t].bearer \in valid
      BY <3>1, <3>2, <3>4
    <3> QED BY <1>16, <3>3, <3>4 DEF PostTurn
  <2> QED BY <1>16, <2>1, <2>2 DEF PostTurn, storage, TurnFrame, NoFault
<1>17. ASSUME NEW t \in Turns, Meta(t) PROVE Typed'
  <2>1. view' \in Views /\ (view'.mounted \/ view' = NoView)
    BY <1>17 DEF Meta, Views, Here, TurnRecords
  <2>2. turn' \in [Turns -> TurnRecords]
    BY <1>17 DEF Meta, TurnRecords, TurnPcs
  <2> QED BY <1>17, <2>1, <2>2 DEF Meta, server, storage, TurnFrame, NoFault
<1>18. ASSUME NEW t \in Turns, FinishTurn(t) PROVE Typed'
  <2>1. view' \in Views /\ (view'.mounted \/ view' = NoView)
    BY <1>18, SettledTyped DEF FinishTurn, Views
  <2>2. turn' \in [Turns -> TurnRecords] /\ stored' \in Chats \cup {None}
    BY <1>18 DEF FinishTurn, TurnRecords, TurnPcs
  <2> QED BY <1>18, <2>1, <2>2 DEF FinishTurn, server, TurnFrame, NoFault
<1>19. ASSUME NEW t \in Turns, FailTurn(t) PROVE Typed'
  <2>1. view' \in Views /\ (view'.mounted \/ view' = NoView)
    BY <1>19, SettledTyped DEF FailTurn, Views
  <2>2. turn' \in [Turns -> TurnRecords]
    BY <1>19, Blank DEF FailTurn, TurnRecords, TurnPcs
  <2>3. faults' \in 0 .. MaxFaults
    BY <1>19, FaultTyped DEF FailTurn, NoFault
  <2> QED BY <1>19, <2>1, <2>2, <2>3 DEF FailTurn, server, storage, TurnFrame
<1>20. CASE UNCHANGED vars
  BY <1>20 DEF vars, server, storage
<1> QED BY <1>1, <1>2, <1>3, <1>4, <1>5, <1>6, <1>7, <1>8, <1>9, <1>10, <1>11, <1>12, <1>13,
           <1>14, <1>15, <1>16, <1>17, <1>18, <1>19, <1>20
        DEF Next, RequestStep, PageStep, TurnStep

-----------------------------------------------------------------------------
(* Every conversation that anything names has an owner, for good. *)

\* Turns under way, and turns whose answer the server has stored.
Going == {"mint", "post", "stream", "meta"}
Answered == {"stream", "meta", "done"}
Began(c) == c = None \/ owner[c] # None

\* Whatever names a conversation (storage, the page, a turn, the drawer, the query
\* cache, a request) names one that has begun, and its owner is a user of the server.
Named ==
  /\ \A c \in Chats : owner[c] # None => owner[c] \in minted
  /\ Began(stored) /\ Began(view.sid) /\ Began(view.live)
  /\ \A t \in Turns : Began(turn[t].chat)
  /\ \A c \in Chats : history[c] = "kept" => owner[c] # None
  /\ \A c \in Chats : Cached(c) => owner[c] # None
  /\ \A q \in Requests : request[q].pc # "none" => owner[q[2]] # None

LEMMA NamedInit == Init => Named
<1> SUFFICES ASSUME Init PROVE Named
  OBVIOUS
<1>1. \A q \in Requests : request[q].pc = "none"
  BY DEF Init, NoRequest
<1>2. \A t \in Turns : turn[t].chat = None
  BY DEF Init, NoTurn
<1>3. \A c \in Chats : owner[c] = None /\ history[c] = "absent" /\ ~Cached(c)
  BY DEF Init, NoHistory, Cached
<1> QED BY <1>1, <1>2, <1>3 DEF Init, Named, Began, NoView

LEMMA AbandonShape ==
  ASSUME Typed, Abandon(view.sid), NEW q \in Requests
  PROVE  request'[q] \in {request[q], NoRequest}
BY AbandoningShape DEF Abandon, Typed, Views

\* Only a new user or a new conversation changes whose a conversation is.
LEMMA ReadersStay ==
  ASSUME Typed, Named, [Next]_vars, NEW c \in Chats, owner[c] # None
  PROVE  owner'[c] = owner[c] /\ answers[c] \subseteq answers'[c] /\ (Readable(c)' => Readable(c))
<1>1. owner[c] \in minted /\ owner[c] \in Users /\ valid \subseteq Users /\ None \notin Users
  BY WebAssumption DEF Named, Typed
<1>2. CASE UNCHANGED <<owner, answers, token>> /\ valid' \subseteq valid
  BY <1>2 DEF Readable, Alive
<1>3. ASSUME NEW u \in Users, Minting(u), token' = u, UNCHANGED <<owner, answers>>
      PROVE  owner'[c] = owner[c] /\ answers[c] \subseteq answers'[c] /\ ~Readable(c)'
  BY <1>1, <1>3 DEF Readable, Minting
<1>4. CASE UNCHANGED <<owner, answers, valid>> /\ token' = None
  BY <1>1, <1>4 DEF Readable, Alive
<1>5. ASSUME NEW t \in Turns, PostTurn(t)
      PROVE  UNCHANGED <<token, valid>> /\ owner'[c] = owner[c] /\ answers[c] \subseteq answers'[c]
  <2>1. \/ UNCHANGED <<owner, answers>>
        \/ \E d \in Chats : /\ owner[d] \in {None, turn[t].bearer}
                            /\ turn[t].bearer \in valid
                            /\ owner' = [owner EXCEPT ![d] = turn[t].bearer]
                            /\ answers' = [answers EXCEPT ![d] = @ \cup {t}]
    BY <1>5 DEF PostTurn
  <2>2. UNCHANGED <<token, valid>>
    BY <1>5 DEF PostTurn, storage
  <2> QED BY <1>1, <2>1, <2>2 DEF Typed
<1>6. ASSUME NEW u \in Users, Reclaim(u)
      PROVE  UNCHANGED <<owner, answers, token>> /\ valid' \subseteq valid
  BY <1>6 DEF Reclaim, storage
<1>7. CASE Mount \/ Unmount \/ NewSession
  BY <1>2, <1>7 DEF Mount, Unmount, NewSession, server, storage
<1>8. CASE Reload
  BY <1>2, <1>4, <1>8 DEF Reload, server, storage
<1>9. ASSUME NEW q \in Requests, MintForRequest(q)
      PROVE  \/ UNCHANGED <<owner, answers, token, valid>>
             \/ UNCHANGED <<owner, answers>> /\ \E u \in Users : Minting(u) /\ token' = u
  BY <1>9 DEF MintForRequest, RequestFrame
<1>10. ASSUME NEW q \in Requests, AnswerRequest(q)
       PROVE  UNCHANGED <<owner, answers, token, valid>>
  BY <1>10 DEF AnswerRequest, RequestFrame
<1>11. ASSUME NEW d \in Chats, PageStep(d) \/ Reconnect(d) \/ OpenHistory(d) \/ ArriveDrawer(d)
       PROVE  UNCHANGED <<owner, answers, token, valid>>
  BY <1>11 DEF PageStep, Fetch, Arrive, ShowTranscript, Reconnect, OpenHistory, ArriveDrawer,
     server, storage
<1>12. ASSUME NEW t \in Turns, MintForTurn(t)
       PROVE  UNCHANGED <<owner, answers>> /\ \E u \in Users : Minting(u) /\ token' = u
  BY <1>12 DEF MintForTurn
<1>13. ASSUME NEW t \in Turns, Send(t) \/ Meta(t) \/ FinishTurn(t) \/ FailTurn(t)
       PROVE  UNCHANGED <<owner, answers, token, valid>>
  BY <1>13 DEF Send, Meta, FinishTurn, FailTurn, server, storage
<1>14. CASE UNCHANGED vars
  BY <1>2, <1>14 DEF vars, server, storage
<1> QED BY <1>2, <1>3, <1>5, <1>6, <1>7, <1>8, <1>9, <1>10, <1>11, <1>12, <1>13, <1>14
        DEF Next, RequestStep, TurnStep, Readable, Alive

\* A conversation that exists stays named, whatever changes around it.
LEMMA StillBegan ==
  ASSUME Typed, Named, [Next]_vars
  PROVE  /\ \A c \in Chats : owner[c] # None => owner'[c] # None
         /\ \A c \in Chats \cup {None} : Began(c) => Began(c)'
         /\ minted \subseteq minted'
         /\ \A c \in Chats : owner'[c] # None => owner'[c] \in minted'
<1>1. \A c \in Chats : owner[c] # None => owner'[c] # None
  BY ReadersStay
<1>2. \A c \in Chats \cup {None} : Began(c) => Began(c)'
  BY <1>1 DEF Began
<1>3. minted' = minted \/ \E u \in Users : Minting(u)
  BY DEF Next, Reclaim, Mount, Unmount, Reload, NewSession, RequestStep, MintForRequest,
     AnswerRequest, PageStep, Fetch, Arrive, ShowTranscript, Reconnect, OpenHistory,
     ArriveDrawer, TurnStep, Send, MintForTurn, PostTurn, Meta, FinishTurn, FailTurn, vars, server
<1>4. minted \subseteq minted'
  BY <1>3 DEF Minting
<1>5. \A c \in Chats : owner'[c] = owner[c] \/ owner'[c] \in valid
  BY DEF Next, Reclaim, Mount, Unmount, Reload, NewSession, RequestStep, MintForRequest,
     AnswerRequest, PageStep, Fetch, Arrive, ShowTranscript, Reconnect, OpenHistory,
     ArriveDrawer, TurnStep, Send, MintForTurn, PostTurn, Meta, FinishTurn, FailTurn, vars, server,
     RequestFrame, Typed
<1> QED BY <1>1, <1>2, <1>4, <1>5 DEF Named, Typed

LEMMA NamedNext ==
  ASSUME Typed, Typed', Named, [Next]_vars PROVE Named'
<1> DEFINE Places ==
      /\ Began(stored)' /\ Began(view.sid)' /\ Began(view.live)'
      /\ \A t \in Turns : Began(turn[t].chat)'
      /\ \A c \in Chats : (history'[c] = "kept" \/ Cached(c)') => owner'[c] # None
      /\ \A q \in Requests : request'[q].pc # "none" => owner'[q[2]] # None
<1>1. /\ \A c \in Chats : owner[c] # None => owner'[c] # None
      /\ \A c \in Chats \cup {None} : Began(c) => Began(c)'
      /\ \A c \in Chats : owner'[c] # None => owner'[c] \in minted'
  BY StillBegan
<1>2. /\ stored \in Chats \cup {None} /\ view.sid \in Chats \cup {None}
      /\ view.live \in Chats \cup {None} /\ \A t \in Turns : turn[t].chat \in Chats \cup {None}
      /\ \A q \in Requests : q[2] \in Chats
  BY DEF Typed, Views, TurnRecords, Requests
<1>3. /\ Began(stored) /\ Began(view.sid) /\ Began(view.live)
      /\ \A t \in Turns : Began(turn[t].chat)
      /\ \A c \in Chats : history[c] = "kept" \/ Cached(c) => owner[c] # None
      /\ \A q \in Requests : request[q].pc # "none" => owner[q[2]] # None
  BY DEF Named
<1> SUFFICES Places
  BY <1>1 DEF Named, Cached
<1>4. ASSUME stored' \in {stored, None} \/ Began(stored)',
             view'.sid \in {view.sid, None} \/ Began(view.sid)',
             view'.live \in {view.live, None} \/ Began(view.live)',
             \A t \in Turns : turn'[t].chat \in {turn[t].chat, None} \/ Began(turn[t].chat)',
             \A c \in Chats : history'[c] = "kept" => history[c] = "kept" \/ owner'[c] # None,
             \A c \in Chats : Cached(c)' => Cached(c) \/ owner'[c] # None,
             \A q \in Requests : request'[q].pc # "none" => request[q].pc # "none" \/ owner'[q[2]] # None
      PROVE  Places
  BY <1>1, <1>2, <1>3, <1>4 DEF Began
<1>5. ASSUME NEW u \in Users, Reclaim(u) PROVE Places
  BY <1>4, <1>5 DEF Reclaim, storage, Cached
<1>6. CASE Mount
  <2>1. view'.sid = stored /\ view'.live = stored /\ Began(stored)'
    BY <1>1, <1>2, <1>3, <1>6 DEF Mount, NoView, storage
  <2>2. \A c \in Chats : Cached(c)' => Cached(c)
    BY <1>6 DEF Mount, Cached, Typed, CacheRecords
  <2> QED BY <1>4, <1>6, <2>1, <2>2 DEF Mount, server, storage
<1>7. CASE Unmount \/ NewSession
  <2>1. \A q \in Requests : request'[q].pc # "none" => request[q].pc # "none"
    BY <1>7, AbandonShape DEF Unmount, NewSession, NoRequest
  <2>2. \A t \in Turns : turn'[t].chat = turn[t].chat
    BY <1>7 DEF Unmount, NewSession, Leave, Typed, TurnRecords
  <2>3. \A c \in Chats : history'[c] = "kept" => history[c] = "kept" \/ owner'[c] # None
    BY <1>1, <1>2, <1>3, <1>7 DEF Unmount, NewSession, storage, Archived, Typed, Began
  <2>4. view'.sid = None /\ view'.live = None /\ stored' \in {stored, None} /\ UNCHANGED cache
    <3>1. CASE Unmount
      BY <3>1 DEF Unmount, NoView, storage
    <3>2. CASE NewSession
      BY <3>2 DEF NewSession, Typed, Views
    <3> QED BY <1>7, <3>1, <3>2
  <2> QED BY <1>4, <2>1, <2>2, <2>3, <2>4 DEF Cached
<1>8. CASE Reload
  <2>1. \A t \in Turns : turn'[t].chat \in {turn[t].chat, None}
    BY <1>8 DEF Reload, NoTurn, Typed
  <2>2. \A c \in Chats : ~Cached(c)' /\ (history'[c] = "kept" => history[c] = "kept")
    BY <1>8 DEF Reload, Cached, storage, NoHistory
  <2>3. \A q \in Requests : request'[q].pc = "none"
    BY <1>8 DEF Reload, NoRequest
  <2>4. view'.sid = None /\ view'.live = None /\ stored' \in {stored, None}
    BY <1>8 DEF Reload, NoView, storage
  <2> QED BY <1>4, <2>1, <2>2, <2>3, <2>4
<1>9. ASSUME NEW q \in Requests, MintForRequest(q) \/ AnswerRequest(q) PROVE Places
  <2>1. UNCHANGED <<stored, history, view, turn, cache>>
    BY <1>9 DEF MintForRequest, AnswerRequest, RequestFrame
  <2>2. request[q].pc # "none" /\ \A p \in Requests : p # q => request'[p] = request[p]
    BY <1>9 DEF MintForRequest, AnswerRequest, Typed
  <2> QED BY <1>4, <2>1, <2>2 DEF Cached
<1>10. ASSUME NEW c \in Chats, Fetch(c) \/ Reconnect(c) \/ OpenHistory(c) PROVE Places
  <2>1. owner'[c] # None
    BY <1>1, <1>3, <1>10, WebAssumption DEF Fetch, Reconnect, OpenHistory, Began
  <2>2. PICK w \in {"page", "drawer"} : \A q \in Requests : q # <<w, c>> => request'[q] = request[q]
    BY <1>10 DEF Fetch, Reconnect, OpenHistory, StartRequest, Typed
  <2>3. \A q \in Requests : q = <<w, c>> => q[2] = c
    OBVIOUS
  <2>4. /\ view'.sid = view.sid /\ view'.live = view.live /\ UNCHANGED <<stored, history, turn>>
        /\ \A d \in Chats : cache'[d].data = cache[d].data
    BY <1>10 DEF Fetch, Reconnect, OpenHistory, storage, Typed, Views, CacheRecords
  <2> QED BY <1>4, <2>1, <2>2, <2>3, <2>4 DEF Cached
<1>11. ASSUME NEW c \in Chats, Arrive(c) PROVE Places
  <2>1. <<"page", c>> \in Requests /\ <<"page", c>>[2] = c
    BY DEF Requests
  <2>2. owner'[c] # None
    BY <1>1, <1>3, <1>11, <2>1 DEF Arrive
  <2>3. \A q \in Requests : request'[q].pc # "none" => request[q].pc # "none"
    BY <1>11 DEF Arrive, NoRequest, Typed
  <2>4. \A d \in Chats : d # c => cache'[d] = cache[d]
    BY <1>11 DEF Arrive, Typed
  <2>5. view'.sid = view.sid /\ view'.live = view.live /\ UNCHANGED <<stored, history, turn>>
    BY <1>11 DEF Arrive, storage, Typed, Views
  <2> QED BY <1>4, <2>2, <2>3, <2>4, <2>5 DEF Cached
<1>12. ASSUME NEW c \in Chats, ShowTranscript(c) PROVE Places
  <2>1. /\ view'.sid \in {view.sid, None} /\ view'.live \in {view.live, None}
        /\ stored' \in {stored, None} /\ UNCHANGED <<turn, cache>>
    BY <1>12 DEF ShowTranscript, Typed, Views
  <2>2. \A d \in Chats : history'[d] = "kept" => history[d] = "kept"
    BY <1>12 DEF ShowTranscript, Expired, Typed
  <2>3. \A q \in Requests : request'[q].pc # "none" => request[q].pc # "none"
    BY <1>12, ShownDropsRequests DEF NoRequest
  <2> QED BY <1>4, <2>1, <2>2, <2>3 DEF Cached
<1>13. ASSUME NEW c \in Chats, ArriveDrawer(c) PROVE Places
  <2>1. <<"drawer", c>> \in Requests /\ <<"drawer", c>>[2] = c
    BY DEF Requests
  <2>2. owner'[c] # None
    BY <1>1, <1>3, <1>13, <2>1 DEF ArriveDrawer
  <2>3. \A q \in Requests : request'[q].pc # "none" => request[q].pc # "none"
    BY <1>13, DrawerDropsRequests DEF NoRequest
  <2>4. /\ stored' \in {stored, c} /\ view'.sid \in {view.sid, c} /\ view'.live \in {view.live, c}
    <3>1. CASE \E ts : Adopt(c, ts)
      BY <3>1 DEF Adopt, Typed, Views
    <3>2. CASE UNCHANGED <<stored, view>>
      BY <3>2
    <3> QED BY <1>13, <3>1, <3>2 DEF ArriveDrawer
  <2>5. \A t \in Turns : turn'[t].chat = turn[t].chat
    <3>1. CASE \E ts : Adopt(c, ts)
      BY <3>1 DEF Adopt, Leave, Typed, TurnRecords
    <3>2. CASE UNCHANGED turn
      BY <3>2
    <3> QED BY <1>13, <3>1, <3>2 DEF ArriveDrawer
  <2>6. \A d \in Chats : d # c => cache'[d] = cache[d]
    BY <1>13 DEF ArriveDrawer, Adopt, Typed
  <2>7. \A d \in Chats : history'[d] = "kept" => history[d] = "kept"
    BY <1>13 DEF ArriveDrawer, Adopt, Expired, Typed
  <2> QED BY <1>4, <2>2, <2>3, <2>4, <2>5, <2>6, <2>7 DEF Cached, Began
<1>14. ASSUME NEW t \in Turns, Send(t) PROVE Places
  <2>1. \A s \in Turns : turn'[s].chat \in {turn[s].chat, view.live}
    BY <1>14 DEF Send, Typed
  <2>2. Began(view.live) /\ Began(view.live)' /\ view'.live = view.live /\ view'.sid = view.sid
    BY <1>1, <1>2, <1>3, <1>14 DEF Send, Typed, Views, Began
  <2>3. UNCHANGED <<stored, history, cache, request>>
    BY <1>14 DEF Send, storage, TurnFrame
  <2>4. \A s \in Turns : turn'[s].chat = turn[s].chat \/ Began(turn[s].chat)'
    BY <2>1, <2>2 DEF Began
  <2> QED BY <1>4, <2>2, <2>3, <2>4 DEF Cached
<1>15. ASSUME NEW t \in Turns, MintForTurn(t) PROVE Places
  <2>1. \A s \in Turns : turn'[s].chat = turn[s].chat
    BY <1>15 DEF MintForTurn, Typed, TurnRecords
  <2> QED BY <1>4, <1>15, <2>1 DEF MintForTurn, TurnFrame, Cached
<1>16. ASSUME NEW t \in Turns, PostTurn(t) PROVE Places
  <2>1. \A s \in Turns : turn'[s].chat = turn[s].chat \/ Began(turn[s].chat)'
    <3>1. None \notin valid
      BY WebAssumption DEF Typed
    <3>2. \/ \A s \in Turns : turn'[s].chat = turn[s].chat
          \/ \E c \in Chats : /\ owner'[c] \in valid
                              /\ \A s \in Turns : turn'[s].chat \in {turn[s].chat, c}
      <4>1. CASE turn' = [turn EXCEPT ![t].pc = "mint", ![t].second = TRUE]
        BY <4>1 DEF Typed, TurnRecords
      <4>2. ASSUME NEW c \in Chats, turn[t].bearer \in valid,
                   owner' = [owner EXCEPT ![c] = turn[t].bearer],
                   turn' = [turn EXCEPT ![t] = [turn[t] EXCEPT !.pc = "stream", !.chat = c,
                                                  !.bearer = None, !.second = FALSE]]
            PROVE  owner'[c] \in valid /\ \A s \in Turns : turn'[s].chat \in {turn[s].chat, c}
        BY <4>2 DEF Typed, TurnRecords
      <4> QED BY <1>16, <4>1, <4>2 DEF PostTurn
    <3> QED BY <3>1, <3>2 DEF Began
  <2> QED BY <1>4, <1>16, <2>1 DEF PostTurn, storage, TurnFrame, Cached
<1>17. ASSUME NEW t \in Turns, Meta(t) \/ FinishTurn(t) \/ FailTurn(t) PROVE Places
  <2>1. \A s \in Turns : turn'[s].chat \in {turn[s].chat, None}
    BY <1>17 DEF Meta, FinishTurn, FailTurn, Typed, TurnRecords, NoTurn
  <2>2. view'.sid = view.sid /\ view'.live \in {view.live, turn[t].chat}
        /\ stored' \in {stored, turn[t].chat}
    BY <1>17 DEF Meta, FinishTurn, FailTurn, Settled, Typed, Views, storage
  <2>3. UNCHANGED <<history, cache, request>>
    BY <1>17 DEF Meta, FinishTurn, FailTurn, TurnFrame, storage
  <2>4. view'.live = turn[t].chat => Began(view.live)'
    BY <1>1, <1>2, <1>3 DEF Began
  <2>5. stored' = turn[t].chat => Began(stored)'
    BY <1>1, <1>2, <1>3 DEF Began
  <2> QED BY <1>4, <2>1, <2>2, <2>3, <2>4, <2>5 DEF Cached
<1>18. CASE UNCHANGED vars
  BY <1>4, <1>18 DEF vars, storage, Cached
<1> QED BY <1>5, <1>6, <1>7, <1>8, <1>9, <1>10, <1>11, <1>12, <1>13, <1>14, <1>15, <1>16, <1>17, <1>18
        DEF Next, RequestStep, PageStep, TurnStep

-----------------------------------------------------------------------------
(* The turns of this mount: at most one is under way, and the page is busy with it. *)

\* The turns of this mount.  At most one is under way; it keeps the page busy and its
\* question on screen.  A turn that counts as the page's belongs to the conversation
\* the page shows.  An answer that was streamed is stored.
TurnsHere ==
  /\ \A t \in Turns : turn[t].mount <= mounts
  /\ \A t \in Turns : turn[t].mine => Here(t)
  /\ \A t \in Turns : Here(t) /\ turn[t].pc \in Going => view.busy
  /\ \A s, t \in Turns : Here(s) /\ Here(t) /\ turn[s].pc \in Going /\ turn[t].pc \in Going => s = t
  /\ \A t \in Turns : turn[t].mine /\ turn[t].pc \in Going => t \in view.shown
  /\ \A t \in Turns : turn[t].mine /\ view.sid # None => turn[t].chat = view.sid
  /\ \A t \in Turns : turn[t].pc \in Answered =>
       turn[t].chat # None /\ t \in answers[turn[t].chat]

LEMMA TurnsHereInit == Init => TurnsHere
<1> SUFFICES ASSUME Init PROVE TurnsHere
  OBVIOUS
<1>1. \A t \in Turns : turn[t].mount = 0 /\ ~turn[t].mine /\ turn[t].pc = "unsent"
  BY DEF Init, NoTurn
<1> QED BY <1>1 DEF Init, TurnsHere, Going, Answered

\* While the turns are as they were.
LEMMA TurnsStill ==
  ASSUME Typed, Typed', Named, TurnsHere, [Next]_vars,
         UNCHANGED <<turn, mounts>>, view'.mounted = view.mounted, view'.busy = view.busy,
         view'.sid \in {view.sid, None}, view'.shown = view.shown \/ ~view.busy
  PROVE  TurnsHere'
<1>1. \A t \in Turns : Here(t)' <=> Here(t)
  BY DEF Here
<1>2. \A t \in Turns : turn[t].pc \in Answered =>
        turn[t].chat # None /\ t \in answers'[turn[t].chat]
  <2> SUFFICES ASSUME NEW t \in Turns, turn[t].pc \in Answered
               PROVE  turn[t].chat # None /\ t \in answers'[turn[t].chat]
    OBVIOUS
  <2>1. PICK c : c = turn[t].chat
    OBVIOUS
  <2>2. c \in Chats /\ owner[c] # None /\ t \in answers[c]
    BY <2>1 DEF TurnsHere, Named, Began, Typed, TurnRecords
  <2> QED BY <2>1, <2>2, ReadersStay, WebAssumption
<1> QED BY <1>1, <1>2 DEF TurnsHere

\* When no turn is the page's any more.
LEMMA TurnsLeft ==
  ASSUME Typed, TurnsHere, Leave, UNCHANGED <<mounts, answers>>,
         ~view'.mounted \/ (view'.mounted = view.mounted /\ view'.busy = view.busy)
  PROVE  TurnsHere'
<1>1. \A t \in Turns : /\ turn'[t].pc = turn[t].pc /\ turn'[t].chat = turn[t].chat
                       /\ turn'[t].mount = turn[t].mount /\ ~turn'[t].mine
  BY DEF Leave, Typed, TurnRecords
<1>2. \A t \in Turns : Here(t)' => Here(t)
  BY <1>1 DEF Here
<1>3. \A t \in Turns : Here(t)' => view'.busy = view.busy
  BY DEF Here
<1> QED BY <1>1, <1>2, <1>3 DEF TurnsHere

\* A step of one turn.
LEMMA TurnMoves ==
  ASSUME Typed, Typed', Named, TurnsHere, [Next]_vars, NEW t \in Turns,
         \A s \in Turns : s # t => turn'[s] = turn[s],
         turn'[t].pc \in Going \/ turn'[t].mine => turn'[t].mount = turn[t].mount,
         turn'[t].mount \in {turn[t].mount, 0},
         turn'[t].mine => turn[t].mine,
         turn'[t].pc \in Going => turn[t].pc \in Going,
         turn'[t].pc \in Answered =>
           turn'[t].chat # None /\ t \in answers'[turn'[t].chat],
         turn'[t].mine /\ turn[t].chat # None => turn'[t].chat = turn[t].chat,
         mounts' = mounts, view'.mounted = view.mounted, view'.sid = view.sid,
         view'.busy = view.busy \/ (Here(t) /\ turn[t].pc \in Going /\ turn'[t].pc \notin Going),
         view.shown \ {t} \subseteq view'.shown,
         turn'[t].pc \in Going => view'.shown = view.shown
  PROVE  TurnsHere'
<1>1. \A s \in Turns : s # t => (Here(s)' <=> Here(s))
  BY DEF Here
<1>2. turn'[t].pc \in Going \/ turn'[t].mine => (Here(t)' <=> Here(t))
  BY DEF Here
<1>3. \A s \in Turns : turn'[s].mount <= mounts'
  BY DEF TurnsHere, Typed
<1>4. \A s \in Turns : turn'[s].mine => Here(s)'
  BY <1>1, <1>2 DEF TurnsHere
<1>5. \A s \in Turns : Here(s)' /\ turn'[s].pc \in Going => Here(s) /\ turn[s].pc \in Going
  BY <1>1, <1>2
<1>6. \A r, s \in Turns : Here(r)' /\ Here(s)' /\ turn'[r].pc \in Going /\ turn'[s].pc \in Going => r = s
  BY <1>5 DEF TurnsHere
<1>7. \A s \in Turns : Here(s)' /\ turn'[s].pc \in Going => view'.busy
  <2> SUFFICES ASSUME NEW s \in Turns, Here(s)', turn'[s].pc \in Going PROVE view'.busy
    OBVIOUS
  <2>1. Here(s) /\ turn[s].pc \in Going /\ view.busy
    BY <1>5 DEF TurnsHere
  <2>2. CASE view'.busy = view.busy
    BY <2>1, <2>2
  <2>3. CASE Here(t) /\ turn[t].pc \in Going /\ turn'[t].pc \notin Going
    BY <2>1, <2>3 DEF TurnsHere
  <2> QED BY <2>2, <2>3
<1>8. \A s \in Turns : turn'[s].mine /\ turn'[s].pc \in Going => s \in view'.shown
  BY DEF TurnsHere
<1>9. \A s \in Turns : turn'[s].mine /\ view'.sid # None => turn'[s].chat = view'.sid
  BY DEF TurnsHere
<1>10. \A s \in Turns : turn'[s].pc \in Answered =>
         turn'[s].chat # None /\ s \in answers'[turn'[s].chat]
  <2> SUFFICES ASSUME NEW s \in Turns, s # t, turn[s].pc \in Answered
               PROVE  turn[s].chat # None /\ s \in answers'[turn[s].chat]
    OBVIOUS
  <2>1. PICK c : c = turn[s].chat
    OBVIOUS
  <2>2. c \in Chats /\ owner[c] # None /\ s \in answers[c]
    BY <2>1 DEF TurnsHere, Named, Began, Typed, TurnRecords
  <2> QED BY <2>1, <2>2, ReadersStay, WebAssumption
<1> QED BY <1>3, <1>4, <1>6, <1>7, <1>8, <1>9, <1>10 DEF TurnsHere

LEMMA TurnsHereNext ==
  ASSUME Typed, Typed', Named, TurnsHere, [Next]_vars PROVE TurnsHere'
<1>1. ASSUME NEW u \in Users, Reclaim(u) PROVE TurnsHere'
  BY <1>1, TurnsStill DEF Reclaim
<1>2. CASE Mount
  <2>1. /\ mounts' > mounts /\ UNCHANGED <<turn, answers>>
    BY <1>2 DEF Mount, server, Typed
  <2>2. \A t \in Turns : turn[t].mount < mounts' /\ ~turn[t].mine
    BY <1>2, <2>1 DEF Mount, TurnsHere, Typed, TurnRecords, Here
  <2>3. \A t \in Turns : ~Here(t)'
    BY <2>1, <2>2 DEF Here, Typed, TurnRecords
  <2>4. \A t \in Turns : turn'[t].mount <= mounts'
    BY <2>1, <2>2 DEF Typed, TurnRecords
  <2> QED BY <2>1, <2>2, <2>3, <2>4 DEF TurnsHere
<1>3. CASE Unmount
  BY <1>3, TurnsLeft DEF Unmount, server, NoView
<1>4. CASE Reload
  <2>1. \A t \in Turns :
          \/ /\ turn'[t].pc = turn[t].pc /\ turn'[t].chat = turn[t].chat
             /\ turn'[t].mount = turn[t].mount /\ ~turn'[t].mine
          \/ turn'[t].pc = "failed" /\ turn'[t].mount = 0 /\ ~turn'[t].mine
    BY <1>4 DEF Reload, NoTurn, Typed, TurnRecords
  <2>2. ~view'.mounted /\ UNCHANGED <<mounts, answers>> /\ 0 <= mounts
    BY <1>4 DEF Reload, NoView, server, Typed
  <2>3. \A t \in Turns : ~Here(t)'
    BY <2>2 DEF Here
  <2> QED BY <2>1, <2>2, <2>3 DEF TurnsHere, Answered
<1>5. CASE NewSession
  BY <1>5, TurnsLeft DEF NewSession, server, Typed, Views
<1>6. ASSUME NEW q \in Requests, MintForRequest(q) \/ AnswerRequest(q) PROVE TurnsHere'
  BY <1>6, TurnsStill DEF MintForRequest, AnswerRequest, RequestFrame
<1>7. ASSUME NEW c \in Chats, Fetch(c) PROVE TurnsHere'
  BY <1>7, TurnsStill DEF Fetch, Typed, Views
<1>8. ASSUME NEW c \in Chats, Reconnect(c) \/ OpenHistory(c) PROVE TurnsHere'
  BY <1>8, TurnsStill DEF Reconnect, OpenHistory
<1>9. ASSUME NEW c \in Chats, Arrive(c) PROVE TurnsHere'
  BY <1>9, TurnsStill DEF Arrive, Typed, Views
<1>10. ASSUME NEW c \in Chats, ShowTranscript(c) PROVE TurnsHere'
  BY <1>10, TurnsStill DEF ShowTranscript, Outdated, Typed, Views
<1>11. ASSUME NEW c \in Chats, ArriveDrawer(c) PROVE TurnsHere'
  <2>1. CASE \E ts : Adopt(c, ts)
    <3>1. CASE view.mounted
      <4>1. Leave /\ UNCHANGED <<mounts, answers>>
        BY <1>11, <2>1, <3>1 DEF Adopt, ArriveDrawer, server
      <4>2. view'.mounted = view.mounted /\ view'.busy = view.busy
        BY <2>1, <3>1 DEF Adopt, Typed, Views
      <4> QED BY <4>1, <4>2, TurnsLeft
    <3>2. CASE ~view.mounted
      BY <1>11, <2>1, <3>2, TurnsStill DEF Adopt, ArriveDrawer
    <3> QED BY <3>1, <3>2
  <2>2. CASE UNCHANGED <<turn, view>>
    BY <1>11, <2>2, TurnsStill DEF ArriveDrawer
  <2> QED BY <1>11, <2>1, <2>2 DEF ArriveDrawer
<1>12. ASSUME NEW t \in Turns, Send(t) PROVE TurnsHere'
  <2> DEFINE Asked == {None, view.live}
  <2>1. /\ turn'[t] = [pc |-> IF token = None THEN "mint" ELSE "post",
                       bearer |-> token, second |-> FALSE, chat |-> view.live,
                       mount |-> mounts, mine |-> view.sid \in Asked]
        /\ \A s \in Turns : s # t => turn'[s] = turn[s]
        /\ UNCHANGED <<mounts, answers>> /\ ~view.busy
        /\ view'.mounted /\ view.mounted /\ view'.sid = view.sid
        /\ view'.busy /\ view'.shown = view.shown \cup {t}
    BY <1>12 DEF Send, TurnFrame, server, Typed, Views
  <2> HIDE DEF Asked
  <2>2. \A s \in Turns : s # t => (Here(s)' <=> Here(s))
    BY <2>1 DEF Here
  <2>3. turn'[t].pc \notin Answered /\ Here(t)' /\ turn'[t].mount <= mounts'
    BY <2>1 DEF Answered, Here, Typed
  <2>4. turn'[t].mine /\ view'.sid # None => turn'[t].chat = view'.sid
    <3>1. turn'[t].chat = view.live /\ turn'[t].mine = (view.sid \in Asked)
      BY <2>1
    <3>2. turn'[t].mine => view.sid \in Asked
      BY <3>1, Zenon
    <3>3. view.sid \in Asked => view.sid \in {None, view.live}
      BY DEF Asked
    <3> QED BY <2>1, <3>1, <3>2, <3>3
  <2>5. \A s \in Turns : s # t => ~(Here(s)' /\ turn'[s].pc \in Going)
    BY <2>1, <2>2 DEF TurnsHere
  <2> QED BY <2>1, <2>2, <2>3, <2>4, <2>5 DEF TurnsHere
<1>13. ASSUME NEW t \in Turns, MintForTurn(t) PROVE TurnsHere'
  <2>1. PICK u \in Users : turn' = [turn EXCEPT ![t].pc = "post", ![t].bearer = u]
    BY <1>13 DEF MintForTurn
  <2>2. /\ turn[t].pc = "mint" /\ turn'[t].pc = "post" /\ turn'[t].chat = turn[t].chat
        /\ turn'[t].mount = turn[t].mount /\ turn'[t].mine = turn[t].mine
        /\ \A s \in Turns : s # t => turn'[s] = turn[s]
    BY <1>13, <2>1 DEF MintForTurn, Typed, TurnRecords
  <2>3. UNCHANGED <<mounts, view, answers>>
    BY <1>13 DEF MintForTurn, TurnFrame
  <2> QED BY <2>2, <2>3, TurnMoves DEF Going, Answered
<1>14. ASSUME NEW t \in Turns, PostTurn(t) PROVE TurnsHere'
  <2>1. /\ turn[t].pc = "post" /\ turn'[t].pc \in {"mint", "stream"}
        /\ turn'[t].mount = turn[t].mount /\ turn'[t].mine = turn[t].mine
        /\ \A s \in Turns : s # t => turn'[s] = turn[s]
        /\ turn[t].chat # None => turn'[t].chat = turn[t].chat
        /\ turn'[t].pc = "stream" => turn'[t].chat # None /\ t \in answers'[turn'[t].chat]
    <3>1. CASE turn' = [turn EXCEPT ![t].pc = "mint", ![t].second = TRUE]
      <4>1. turn'[t] = [turn[t] EXCEPT !.pc = "mint", !.second = TRUE]
        BY <3>1 DEF Typed
      <4>2. turn[t].pc = "post" /\ \A s \in Turns : s # t => turn'[s] = turn[s]
        BY <1>14, <3>1 DEF PostTurn, Typed
      <4>3. /\ turn'[t].pc = "mint" /\ turn'[t].mount = turn[t].mount
            /\ turn'[t].mine = turn[t].mine /\ turn'[t].chat = turn[t].chat
        BY <4>1 DEF Typed, TurnRecords
      <4> QED BY <4>2, <4>3
    <3>2. ASSUME NEW c \in Chats,
                 turn[t].chat = None \/ c = turn[t].chat,
                 answers' = [answers EXCEPT ![c] = @ \cup {t}],
                 turn' = [turn EXCEPT ![t] = [turn[t] EXCEPT !.pc = "stream", !.chat = c,
                                                  !.bearer = None, !.second = FALSE]]
          PROVE  /\ turn'[t].pc = "stream" /\ turn'[t].chat = c /\ turn'[t].chat # None
                 /\ turn'[t].mount = turn[t].mount /\ turn'[t].mine = turn[t].mine
                 /\ \A s \in Turns : s # t => turn'[s] = turn[s]
                 /\ turn[t].chat # None => turn'[t].chat = turn[t].chat
                 /\ t \in answers'[turn'[t].chat]
      BY <3>2, WebAssumption DEF Typed, TurnRecords
    <3> QED BY <1>14, <3>1, <3>2 DEF PostTurn
  <2>2. UNCHANGED <<mounts, view>>
    BY <1>14 DEF PostTurn, TurnFrame
  <2> QED BY <2>1, <2>2, TurnMoves DEF Going, Answered
<1>15. ASSUME NEW t \in Turns, Meta(t) PROVE TurnsHere'
  <2>1. /\ turn[t].pc = "stream" /\ turn'[t].pc = "meta" /\ turn'[t].chat = turn[t].chat
        /\ turn'[t].mount = turn[t].mount /\ turn'[t].mine = turn[t].mine
        /\ \A s \in Turns : s # t => turn'[s] = turn[s]
    BY <1>15 DEF Meta, Typed, TurnRecords
  <2>2. /\ UNCHANGED <<mounts, answers>> /\ view'.mounted = view.mounted /\ view'.sid = view.sid
        /\ view'.busy = view.busy /\ view'.shown = view.shown
    BY <1>15 DEF Meta, TurnFrame, server, Typed, Views
  <2>3. turn[t].chat # None /\ t \in answers[turn[t].chat]
    BY <2>1 DEF TurnsHere, Answered
  <2> QED BY <2>1, <2>2, <2>3, TurnMoves DEF Going, Answered
<1>16. ASSUME NEW t \in Turns, FinishTurn(t) PROVE TurnsHere'
  <2>1. /\ turn[t].pc = "meta" /\ turn'[t].pc = "done" /\ turn'[t].chat = turn[t].chat
        /\ turn'[t].mount = turn[t].mount /\ turn'[t].mine = turn[t].mine
        /\ \A s \in Turns : s # t => turn'[s] = turn[s]
    BY <1>16 DEF FinishTurn, Typed, TurnRecords
  <2>2. /\ UNCHANGED <<mounts, answers>> /\ view'.mounted = view.mounted /\ view'.sid = view.sid
        /\ view'.busy = view.busy \/ Here(t)
    BY <1>16 DEF FinishTurn, TurnFrame, Settled, server, Typed, Views
  <2>3. turn[t].chat # None /\ t \in answers[turn[t].chat]
    BY <2>1 DEF TurnsHere, Answered
  <2>4. view'.shown = view.shown
    BY <1>16 DEF FinishTurn, Settled, Typed, Views
  <2> QED BY <2>1, <2>2, <2>3, <2>4, TurnMoves DEF Going, Answered
<1>17. ASSUME NEW t \in Turns, FailTurn(t) PROVE TurnsHere'
  <2>1. /\ turn[t].pc \in Going /\ turn'[t].pc = "failed" /\ turn'[t].mount = 0 /\ ~turn'[t].mine
        /\ \A s \in Turns : s # t => turn'[s] = turn[s]
    BY <1>17 DEF FailTurn, NoTurn, Typed, TurnRecords, Going
  <2>2. /\ UNCHANGED <<mounts, answers>> /\ view'.mounted = view.mounted /\ view'.sid = view.sid
        /\ view.shown \ {t} \subseteq view'.shown
    BY <1>17 DEF FailTurn, TurnFrame, Settled, server, Typed, Views
  <2>3. view'.busy = view.busy \/ Here(t)
    BY <1>17 DEF FailTurn, Settled
  <2> QED BY <2>1, <2>2, <2>3, TurnMoves DEF Going, Answered
<1>18. CASE UNCHANGED vars
  BY <1>18, TurnsStill DEF vars
<1> QED BY <1>1, <1>2, <1>3, <1>4, <1>5, <1>6, <1>7, <1>8, <1>9, <1>10, <1>11, <1>12, <1>13,
           <1>14, <1>15, <1>16, <1>17, <1>18
        DEF Next, RequestStep, PageStep, TurnStep

-----------------------------------------------------------------------------
(* Counts of turns: what is in hand is never ahead of the page. *)

PageRequest(c) == request[<<"page", c>>]

\* What a mount has in hand is no newer than its own count of turns.
Epochs ==
  \A c \in Chats :
    /\ PageRequest(c).mount <= mounts /\ cache[c].data.mount <= mounts
    /\ view.mounted /\ PageRequest(c).pc # "none" /\ PageRequest(c).mount = mounts
         => PageRequest(c).epoch <= view.epoch
    /\ view.mounted /\ OwnData(c) => cache[c].data.epoch <= view.epoch

\* What the page owes after a return to it, the server holds.
Owed == view.sid # None => view.owed \subseteq answers[view.sid]

LEMMA PageRequestTyped ==
  ASSUME Typed, NEW c \in Chats
  PROVE  /\ <<"page", c>> \in Requests /\ PageRequest(c) \in RequestRecords
         /\ <<"page", c>>[2] = c
BY DEF Typed, PageRequest, Requests

LEMMA Numbers ==
  ASSUME Typed, NEW c \in Chats
  PROVE  /\ view.epoch \in Nat /\ mounts \in Nat
         /\ PageRequest(c).epoch \in Nat /\ PageRequest(c).mount \in Nat
         /\ cache[c].data.epoch \in Nat /\ cache[c].data.mount \in Nat
<1>1. view.epoch \in Nat /\ mounts \in Nat
  BY DEF Typed, Views
<1>2. PageRequest(c).epoch \in Nat /\ PageRequest(c).mount \in Nat
  <2>1. PageRequest(c) \in RequestRecords
    BY PageRequestTyped
  <2>2. \A r \in RequestRecords : r.epoch \in Nat /\ r.mount \in Nat
    BY DEF RequestRecords
  <2> QED BY <2>1, <2>2
<1>3. cache[c].data \in Transcripts
  BY DEF Typed, CacheRecords
<1> QED BY <1>1, <1>2, <1>3 DEF Transcripts

LEMMA EpochsInit == Init => Epochs /\ Owed
<1> SUFFICES ASSUME Init PROVE Epochs /\ Owed
  OBVIOUS
<1>1. ~view.mounted /\ view.sid = None /\ mounts = 0
  BY DEF Init, NoView
<1>2. \A c \in Chats : PageRequest(c).mount = 0 /\ cache[c].data.mount = 0
  BY DEF Init, NoRequest, NoData, PageRequest, Requests
<1> QED BY <1>1, <1>2 DEF Epochs, Owed

LEMMA EpochsStill ==
  ASSUME Typed, Typed', Epochs, mounts' = mounts,
         view'.mounted => view.mounted /\ view'.epoch >= view.epoch,
         \A c \in Chats :
           \/ PageRequest(c)'.pc = "none" /\ PageRequest(c)'.mount = 0
           \/ PageRequest(c)'.mount = mounts /\ PageRequest(c)'.epoch = view.epoch
           \/ /\ PageRequest(c).pc # "none" /\ PageRequest(c)'.mount = PageRequest(c).mount
              /\ PageRequest(c)'.epoch = PageRequest(c).epoch
           \/ PageRequest(c)' = PageRequest(c),
         \A c \in Chats : cache'[c].data = cache[c].data
  PROVE  Epochs'
<1> SUFFICES ASSUME NEW c \in Chats
             PROVE  /\ PageRequest(c)'.mount <= mounts' /\ cache'[c].data.mount <= mounts'
                    /\ view'.mounted /\ PageRequest(c)'.pc # "none" /\ PageRequest(c)'.mount = mounts'
                         => PageRequest(c)'.epoch <= view'.epoch
                    /\ view'.mounted /\ OwnData(c)' => cache'[c].data.epoch <= view'.epoch
  BY DEF Epochs
<1>1. /\ view.epoch \in Nat /\ view'.epoch \in Nat /\ mounts \in Nat
      /\ PageRequest(c).epoch \in Nat /\ PageRequest(c).mount \in Nat
      /\ cache[c].data.epoch \in Nat
  BY Numbers DEF Typed, Views
<1>2. OwnData(c)' <=> OwnData(c)
  BY DEF OwnData, Cached
<1>3. /\ PageRequest(c).mount <= mounts /\ cache[c].data.mount <= mounts
      /\ view.mounted /\ PageRequest(c).pc # "none" /\ PageRequest(c).mount = mounts
           => PageRequest(c).epoch <= view.epoch
      /\ view.mounted /\ OwnData(c) => cache[c].data.epoch <= view.epoch
  BY DEF Epochs
<1> QED BY <1>1, <1>2, <1>3

\* The requests of the page that a step leaves alone.
LEMMA PageRequests ==
  ASSUME Typed, Typed', NEW c \in Chats
  PROVE  /\ UNCHANGED request => PageRequest(c)' = PageRequest(c)
         /\ Abandon(view.sid) => PageRequest(c)' \in {PageRequest(c), NoRequest}
         /\ NoRequest.pc = "none" /\ NoRequest.mount = 0
         /\ \A d \in Chats : \A r : request' = [request EXCEPT ![<<"page", d>>] = r]
              => PageRequest(c)' = IF c = d THEN r ELSE PageRequest(c)
         /\ \A d \in Chats : \A r : request' = [request EXCEPT ![<<"drawer", d>>] = r]
              => PageRequest(c)' = PageRequest(c)
<1>1. <<"page", c>> \in Requests
  BY DEF Requests
<1>2. NoRequest.pc = "none" /\ NoRequest.mount = 0
  BY DEF NoRequest
<1>3. Abandon(view.sid) => PageRequest(c)' \in {PageRequest(c), NoRequest}
  BY <1>1, AbandonShape DEF PageRequest
<1>4. ASSUME NEW d \in Chats, NEW r, request' = [request EXCEPT ![<<"page", d>>] = r]
      PROVE  PageRequest(c)' = IF c = d THEN r ELSE PageRequest(c)
  BY <1>1, <1>4 DEF PageRequest, Typed
<1>5. ASSUME NEW d \in Chats, NEW r, request' = [request EXCEPT ![<<"drawer", d>>] = r]
      PROVE  PageRequest(c)' = PageRequest(c)
  BY <1>1, <1>5 DEF PageRequest, Typed
<1> QED BY <1>2, <1>3, <1>4, <1>5 DEF PageRequest

\* A request under way keeps its mount and its count.
LEMMA RequestMoves ==
  ASSUME Typed, Typed', NEW q \in Requests, MintForRequest(q) \/ AnswerRequest(q)
  PROVE  \A c \in Chats :
           \/ PageRequest(c)' = PageRequest(c)
           \/ /\ q = <<"page", c>> /\ PageRequest(c).pc \in {"mint", "ask"}
              /\ PageRequest(c)'.mount = PageRequest(c).mount
              /\ PageRequest(c)'.epoch = PageRequest(c).epoch
<1> SUFFICES ASSUME NEW c \in Chats
             PROVE  \/ PageRequest(c)' = PageRequest(c)
                    \/ /\ q = <<"page", c>> /\ PageRequest(c).pc \in {"mint", "ask"}
                       /\ PageRequest(c)'.mount = PageRequest(c).mount
                       /\ PageRequest(c)'.epoch = PageRequest(c).epoch
  OBVIOUS
<1>1. <<"page", c>> \in Requests /\ PageRequest(c) \in RequestRecords
  BY PageRequestTyped
<1>2. request[q].pc \in {"mint", "ask"} /\ \A p \in Requests : p # q => request'[p] = request[p]
  BY DEF MintForRequest, AnswerRequest, Typed
<1>3. request'[q].mount = request[q].mount /\ request'[q].epoch = request[q].epoch
  <2>1. CASE MintForRequest(q)
    BY <2>1 DEF MintForRequest, Typed, RequestRecords
  <2>2. CASE AnswerRequest(q)
    <3>1. \/ \E o, ts : request' = [request EXCEPT ![q] =
               [request[q] EXCEPT !.pc = "answered", !.bearer = None, !.outcome = o, !.turns = ts]]
          \/ request' = [request EXCEPT ![q].pc = "mint", ![q].second = TRUE]
      BY <2>2 DEF AnswerRequest
    <3>2. ASSUME NEW o, NEW ts, request' = [request EXCEPT ![q] =
               [request[q] EXCEPT !.pc = "answered", !.bearer = None, !.outcome = o, !.turns = ts]]
          PROVE  request'[q].mount = request[q].mount /\ request'[q].epoch = request[q].epoch
      BY <3>2 DEF Typed, RequestRecords
    <3>3. CASE request' = [request EXCEPT ![q].pc = "mint", ![q].second = TRUE]
      BY <3>3 DEF Typed, RequestRecords
    <3> QED BY <3>1, <3>2, <3>3
  <2> QED BY <2>1, <2>2
<1> QED BY <1>1, <1>2, <1>3 DEF PageRequest

LEMMA EpochsNext ==
  ASSUME Typed, Typed', Epochs, [Next]_vars PROVE Epochs'
<1> USE PageRequests
<1>1. ASSUME NEW u \in Users, Reclaim(u) PROVE Epochs'
  BY <1>1, EpochsStill DEF Reclaim, Typed, Views
<1>2. CASE Mount
  <2>1. mounts' = mounts + 1 /\ UNCHANGED request /\ mounts \in Nat
    BY <1>2 DEF Mount, Typed
  <2>2. \A c \in Chats : cache'[c].data = cache[c].data
    BY <1>2 DEF Mount, Typed, CacheRecords
  <2>3. \A c \in Chats : /\ PageRequest(c)' = PageRequest(c) /\ PageRequest(c).mount \in Nat
                         /\ PageRequest(c).mount <= mounts
                         /\ cache[c].data.mount \in Nat /\ cache[c].data.mount <= mounts
    BY <2>1, Numbers DEF Epochs
  <2>4. \A c \in Chats :
          /\ PageRequest(c)'.mount <= mounts' /\ PageRequest(c)'.mount # mounts'
          /\ cache'[c].data.mount <= mounts' /\ cache'[c].data.mount # mounts'
    BY <2>1, <2>2, <2>3
  <2> QED BY <2>1, <2>4 DEF Epochs, OwnData
<1>3. CASE Unmount \/ NewSession
  <2>1. UNCHANGED <<mounts, cache>> /\ Abandon(view.sid)
    BY <1>3 DEF Unmount, NewSession
  <2>2. view'.mounted => view.mounted /\ view'.epoch = view.epoch
    <3>1. CASE Unmount
      BY <3>1 DEF Unmount, NoView
    <3>2. CASE NewSession
      BY <3>2 DEF NewSession, Typed, Views
    <3> QED BY <1>3, <3>1, <3>2
  <2>3. view.epoch \in Nat
    BY DEF Typed, Views
  <2> QED BY <2>1, <2>2, <2>3, EpochsStill
<1>4. CASE Reload
  <2>1. ~view'.mounted /\ mounts' \in Nat
    BY <1>4 DEF Reload, NoView, Typed
  <2>2. \A c \in Chats : PageRequest(c)'.mount = 0 /\ cache'[c].data.mount = 0
    BY <1>4 DEF Reload, NoRequest, NoData, PageRequest, Requests
  <2> QED BY <2>1, <2>2 DEF Epochs
<1>5. ASSUME NEW q \in Requests, MintForRequest(q) \/ AnswerRequest(q) PROVE Epochs'
  <2>1. UNCHANGED <<mounts, view, cache>> /\ view.epoch \in Nat
    BY <1>5 DEF MintForRequest, AnswerRequest, RequestFrame, Typed, Views
  <2>2. \A c \in Chats :
          \/ PageRequest(c)' = PageRequest(c)
          \/ /\ PageRequest(c).pc # "none" /\ PageRequest(c)'.mount = PageRequest(c).mount
             /\ PageRequest(c)'.epoch = PageRequest(c).epoch
    BY <1>5, RequestMoves
  <2> QED BY <2>1, <2>2, EpochsStill
<1>6. ASSUME NEW c \in Chats, Fetch(c) \/ Reconnect(c) PROVE Epochs'
  <2>1. PICK r : /\ r = [NoRequest EXCEPT !.pc = IF token = None THEN "mint" ELSE "ask",
                                     !.bearer = token, !.epoch = view.epoch, !.mount = mounts]
                 /\ request' = [request EXCEPT ![<<"page", c>>] = r]
    BY <1>6 DEF Fetch, Reconnect, StartRequest
  <2>2. r.mount = mounts /\ r.epoch = view.epoch
    BY <2>1 DEF NoRequest
  <2>3. \A d \in Chats : PageRequest(d)' = PageRequest(d)
                         \/ (PageRequest(d)'.mount = mounts /\ PageRequest(d)'.epoch = view.epoch)
    BY <2>1, <2>2
  <2>4. /\ UNCHANGED mounts /\ view'.mounted = view.mounted /\ view'.epoch = view.epoch
        /\ \A d \in Chats : cache'[d].data = cache[d].data
    <3>1. CASE Fetch(c)
      BY <3>1 DEF Fetch, Typed, Views
    <3>2. CASE Reconnect(c)
      BY <3>2 DEF Reconnect, Typed, CacheRecords
    <3> QED BY <1>6, <3>1, <3>2
  <2>5. view.epoch \in Nat
    BY DEF Typed, Views
  <2> QED BY <2>3, <2>4, <2>5, EpochsStill
<1>7. ASSUME NEW c \in Chats, Arrive(c) PROVE Epochs'
  <2> DEFINE r == PageRequest(c)
  <2>1. \A d \in Chats : PageRequest(d)' = IF d = c THEN NoRequest ELSE PageRequest(d)
    BY <1>7 DEF Arrive
  <2>2. UNCHANGED mounts /\ view'.mounted = view.mounted /\ view'.epoch = view.epoch
    BY <1>7 DEF Arrive, Typed, Views
  <2>3. \A d \in Chats : d # c => cache'[d] = cache[d]
    BY <1>7 DEF Arrive, Typed
  <2>4. \/ cache'[c].data = cache[c].data
        \/ cache'[c].data.mount = r.mount /\ cache'[c].data.epoch = r.epoch
    BY <1>7 DEF Arrive, Typed, CacheRecords, PageRequest
  <2>5. r.pc # "none" /\ r.mount \in Nat /\ r.epoch \in Nat /\ mounts \in Nat /\ view.epoch \in Nat
    BY <1>7, PageRequestTyped DEF Arrive, PageRequest, RequestRecords, Typed, Views
  <2>6. ASSUME NEW d \in Chats
        PROVE  /\ cache'[d].data.mount <= mounts'
               /\ view'.mounted /\ OwnData(d)' => cache'[d].data.epoch <= view'.epoch
    <3>1. CASE cache'[d].data = cache[d].data
      BY <2>2, <3>1 DEF Epochs, OwnData, Cached
    <3>2. CASE d = c /\ cache'[c].data.mount = r.mount /\ cache'[c].data.epoch = r.epoch
      BY <2>2, <2>5, <3>2 DEF Epochs, OwnData
    <3> QED BY <2>3, <2>4, <3>1, <3>2
  <2> QED BY <2>1, <2>2, <2>5, <2>6 DEF Epochs
<1>8. ASSUME NEW c \in Chats, ShowTranscript(c) PROVE Epochs'
  BY <1>8, EpochsStill DEF ShowTranscript, Typed, Views
<1>9. ASSUME NEW c \in Chats, OpenHistory(c) PROVE Epochs'
  <2>1. PICK r : request' = [request EXCEPT ![<<"drawer", c>>] = r]
    BY <1>9 DEF OpenHistory, StartRequest
  <2>2. UNCHANGED <<mounts, view, cache>> /\ view.epoch \in Nat
    BY <1>9 DEF OpenHistory, Typed, Views
  <2>3. \A d \in Chats : PageRequest(d)' = PageRequest(d)
    BY <2>1
  <2> QED BY <2>2, <2>3, EpochsStill
<1>10. ASSUME NEW c \in Chats, ArriveDrawer(c) PROVE Epochs'
  <2>1. \A d \in Chats : PageRequest(d)' \in {PageRequest(d), NoRequest}
    BY <1>10, DrawerDropsRequests DEF PageRequest, Requests
  <2>2. UNCHANGED mounts /\ view'.mounted = view.mounted /\ view'.epoch = view.epoch
    <3>1. CASE \E ts : Adopt(c, ts)
      BY <1>10, <3>1 DEF ArriveDrawer, Adopt, Typed, Views
    <3>2. CASE UNCHANGED view
      BY <1>10, <3>2 DEF ArriveDrawer
    <3> QED BY <1>10, <3>1, <3>2 DEF ArriveDrawer
  <2>3. \A d \in Chats : \/ cache'[d].data = cache[d].data
                         \/ cache'[d].data.mount = mounts /\ cache'[d].data.epoch = view.epoch
    <3>1. CASE \E ts : Adopt(c, ts)
      BY <1>10, <3>1 DEF ArriveDrawer, Adopt, Typed
    <3>2. CASE UNCHANGED cache
      BY <3>2
    <3> QED BY <1>10, <3>1, <3>2 DEF ArriveDrawer
  <2>4. mounts \in Nat /\ view.epoch \in Nat
    BY DEF Typed, Views
  <2>5. ASSUME NEW d \in Chats
        PROVE  /\ cache'[d].data.mount <= mounts'
               /\ view'.mounted /\ OwnData(d)' => cache'[d].data.epoch <= view'.epoch
    <3>1. CASE cache'[d].data = cache[d].data
      BY <2>2, <3>1 DEF Epochs, OwnData, Cached
    <3>2. CASE cache'[d].data.mount = mounts /\ cache'[d].data.epoch = view.epoch
      BY <2>2, <2>4, <3>2
    <3> QED BY <2>3, <3>1, <3>2
  <2>6. ASSUME NEW d \in Chats
        PROVE  /\ PageRequest(d)'.mount <= mounts'
               /\ view'.mounted /\ PageRequest(d)'.pc # "none" /\ PageRequest(d)'.mount = mounts'
                    => PageRequest(d)'.epoch <= view'.epoch
    <3>1. CASE PageRequest(d)' = NoRequest
      BY <2>2, <2>4, <3>1
    <3>2. CASE PageRequest(d)' = PageRequest(d)
      BY <2>2, <3>2 DEF Epochs
    <3> QED BY <2>1, <3>1, <3>2
  <2> QED BY <2>5, <2>6 DEF Epochs
<1>11. ASSUME NEW t \in Turns, Send(t) \/ MintForTurn(t) \/ PostTurn(t) \/ Meta(t) PROVE Epochs'
  <2>1. UNCHANGED <<mounts, request, cache>>
    BY <1>11 DEF Send, MintForTurn, PostTurn, Meta, TurnFrame
  <2>2. view'.mounted = view.mounted /\ view'.epoch = view.epoch /\ view.epoch \in Nat
    BY <1>11 DEF Send, MintForTurn, PostTurn, Meta, Typed, Views
  <2> QED BY <2>1, <2>2, EpochsStill
<1>12. ASSUME NEW t \in Turns, FinishTurn(t) \/ FailTurn(t) PROVE Epochs'
  <2>1. UNCHANGED <<mounts, request, cache>>
    BY <1>12 DEF FinishTurn, FailTurn, TurnFrame
  <2>2. view'.mounted = view.mounted /\ view'.epoch >= view.epoch
    <3>1. view.epoch \in Nat
      BY DEF Typed, Views
    <3>2. \A shown : /\ Settled(t, shown).mounted = view.mounted
                     /\ Settled(t, shown).epoch >= view.epoch
      BY <3>1 DEF Settled, Typed, Views
    <3> QED BY <1>12, <3>2 DEF FinishTurn, FailTurn
  <2> QED BY <2>1, <2>2, EpochsStill
<1>13. CASE UNCHANGED vars
  BY <1>13, EpochsStill DEF vars, Typed, Views
<1> QED BY <1>1, <1>2, <1>3, <1>4, <1>5, <1>6, <1>7, <1>8, <1>9, <1>10, <1>11, <1>12, <1>13
        DEF Next, RequestStep, PageStep, TurnStep

\* What a page owes was stored before it was mounted.
LEMMA OwedNext ==
  ASSUME Typed, Typed', Named, TurnsHere, Owed, [Next]_vars PROVE Owed'
<1>1. view.sid # None => view.owed \subseteq answers'[view.sid]
  <2>1. PICK c : c = view.sid
    OBVIOUS
  <2>2. c # None => c \in Chats /\ owner[c] # None
    BY <2>1 DEF Named, Began, Typed, Views
  <2> QED BY <2>1, <2>2, ReadersStay DEF Owed
<1>2. view'.sid \in {view.sid, None} /\ view'.owed = view.owed => Owed'
  BY <1>1 DEF Owed
<1>3. CASE Mount
  <2>1. UNCHANGED answers /\ view'.sid = stored
        /\ view'.owed = {t \in Turns : turn[t].pc = "done" /\ turn[t].chat = stored}
    BY <1>3 DEF Mount, server, NoView
  <2> QED BY <2>1 DEF Owed, TurnsHere, Answered
<1>4. CASE Unmount \/ Reload
  BY <1>4 DEF Unmount, Reload, NoView, Owed
<1>5. CASE NewSession
  BY <1>2, <1>5 DEF NewSession, Typed, Views
<1>6. ASSUME NEW c \in Chats, PageStep(c) \/ Reconnect(c) \/ OpenHistory(c)
      PROVE  view'.sid \in {view.sid, None} /\ view'.owed = view.owed
  BY <1>6 DEF PageStep, Fetch, Arrive, ShowTranscript, Reconnect, OpenHistory, Typed, Views
<1>7. ASSUME NEW c \in Chats, ArriveDrawer(c)
      PROVE  (view'.sid = view.sid /\ view'.owed = view.owed) \/ view'.owed = {}
  <2>1. CASE \E ts : Adopt(c, ts)
    BY <2>1 DEF Adopt, Typed, Views
  <2>2. CASE UNCHANGED view
    BY <2>2
  <2> QED BY <1>7, <2>1, <2>2 DEF ArriveDrawer
<1>8. ASSUME NEW t \in Turns, Send(t) \/ MintForTurn(t) \/ PostTurn(t) \/ Meta(t) \/ FinishTurn(t)
                                \/ FailTurn(t)
      PROVE  view'.sid = view.sid /\ view'.owed = view.owed
  BY <1>8 DEF Send, MintForTurn, PostTurn, Meta, FinishTurn, FailTurn, Settled, Typed, Views
<1>9. ASSUME NEW q \in Requests, RequestStep(q) PROVE UNCHANGED view
  BY <1>9 DEF RequestStep, MintForRequest, AnswerRequest, RequestFrame
<1>10. ASSUME NEW u \in Users, Reclaim(u) PROVE UNCHANGED view
  BY <1>10 DEF Reclaim
<1>11. view'.owed = {} => Owed'
  BY DEF Owed
<1> QED BY <1>2, <1>3, <1>4, <1>5, <1>6, <1>7, <1>8, <1>9, <1>10, <1>11
        DEF Next, TurnStep, vars

-----------------------------------------------------------------------------
(* Transcripts that are gone. *)

\* A 404 the page believes is about a conversation the reader cannot read.
BearerHolds(c) ==
  PageRequest(c).pc = "ask" /\ ~PageRequest(c).second
    => PageRequest(c).bearer = owner[c] \/ owner[c] # token
GoneHolds(c) == PageRequest(c).pc = "answered" /\ Gone(PageRequest(c)) => ~Readable(c)
MissHolds(c) == Cached(c) /\ ~cache[c].data.found => ~Readable(c)
Lost == \A c \in Chats : BearerHolds(c) /\ GoneHolds(c) /\ MissHolds(c)

LEMMA LostInit == Init => Lost
<1> SUFFICES ASSUME Init PROVE Lost
  OBVIOUS
<1>1. \A c \in Chats : PageRequest(c).pc = "none" /\ ~Cached(c)
  BY DEF Init, NoRequest, PageRequest, Requests, Cached
<1> QED BY <1>1 DEF Lost, BearerHolds, GoneHolds, MissHolds

\* A user minted now owns no conversation yet.
LEMMA TokensNew ==
  ASSUME Typed, Named, [Next]_vars, NEW c \in Chats, owner[c] # None, owner[c] # token
  PROVE  owner'[c] # token'
<1>1. owner'[c] = owner[c] /\ owner[c] \in minted
  BY ReadersStay DEF Named
<1>2. token' \in {token, None} \/ \E u \in Users : Minting(u) /\ token' = u
  BY DEF Next, Reclaim, Mount, Unmount, Reload, NewSession, RequestStep, MintForRequest,
     AnswerRequest, PageStep, Fetch, Arrive, ShowTranscript, Reconnect, OpenHistory,
     ArriveDrawer, TurnStep, Send, MintForTurn, PostTurn, Meta, FinishTurn, FailTurn, vars,
     storage, RequestFrame
<1> QED BY <1>1, <1>2 DEF Minting

LEMMA LostKept ==
  ASSUME Typed, Typed', Named, Lost, [Next]_vars, NEW c \in Chats
  PROVE  /\ PageRequest(c)' = PageRequest(c) => BearerHolds(c)' /\ GoneHolds(c)'
         /\ PageRequest(c)' = NoRequest => BearerHolds(c)' /\ GoneHolds(c)'
         /\ cache'[c].data = cache[c].data => MissHolds(c)'
<1>1. PageRequest(c).pc # "none" => owner[c] # None
  BY PageRequestTyped DEF Named, PageRequest
<1>2. Cached(c) => owner[c] # None
  BY DEF Named
<1>3. owner[c] # None => /\ owner'[c] = owner[c] /\ (Readable(c)' => Readable(c))
                         /\ owner[c] # token => owner'[c] # token'
  BY ReadersStay, TokensNew
<1>4. BearerHolds(c) /\ GoneHolds(c) /\ MissHolds(c)
  BY DEF Lost
<1>5. ASSUME PageRequest(c)' = PageRequest(c) PROVE BearerHolds(c)' /\ GoneHolds(c)'
  BY <1>1, <1>3, <1>4, <1>5 DEF BearerHolds, GoneHolds, Gone
<1>6. ASSUME PageRequest(c)' = NoRequest PROVE BearerHolds(c)' /\ GoneHolds(c)'
  BY <1>6 DEF BearerHolds, GoneHolds, NoRequest
<1>7. ASSUME cache'[c].data = cache[c].data PROVE MissHolds(c)'
  BY <1>2, <1>3, <1>4, <1>7 DEF MissHolds, Cached
<1> QED BY <1>5, <1>6, <1>7

LEMMA LostNext ==
  ASSUME Typed, Typed', Named, Lost, [Next]_vars PROVE Lost'
<1> USE PageRequests, LostKept
<1>1. ASSUME UNCHANGED <<request, cache>> PROVE Lost'
  BY <1>1 DEF Lost
<1>2. CASE Mount
  <2>1. \A c \in Chats : cache'[c].data = cache[c].data
    BY <1>2 DEF Mount, Typed, CacheRecords
  <2> QED BY <1>2, <2>1 DEF Mount, Lost
<1>3. CASE Unmount \/ NewSession
  BY <1>3 DEF Unmount, NewSession, Lost
<1>4. CASE Reload
  <2>1. \A c \in Chats : PageRequest(c)'.pc = "none" /\ ~Cached(c)'
    BY <1>4 DEF Reload, NoRequest, PageRequest, Requests, Cached
  <2> QED BY <2>1 DEF Lost, BearerHolds, GoneHolds, MissHolds
<1>5. ASSUME NEW q \in Requests, MintForRequest(q) PROVE Lost'
  <2>1. \A c \in Chats : MissHolds(c)'
    BY <1>5 DEF MintForRequest, RequestFrame
  <2>2. ASSUME NEW c \in Chats, q = <<"page", c>> PROVE BearerHolds(c)' /\ GoneHolds(c)'
    <3>1. owner[c] # None /\ owner[c] \in minted /\ owner' = owner
      BY <1>5, <2>2, PageRequestTyped DEF MintForRequest, RequestFrame, Named
    <3>2. \/ PageRequest(c)'.pc = "ask" /\ \E u \in Users : Minting(u) /\ token' = u
          \/ PageRequest(c)'.pc = "answered" /\ PageRequest(c)'.outcome = "error"
      <4>1. request'[q] = PageRequest(c)'
        BY <2>2 DEF PageRequest
      <4>2. CASE \E u \in Users : /\ Minting(u) /\ token' = u
                                 /\ request' = [request EXCEPT ![q].pc = "ask", ![q].bearer = u]
        BY <4>1, <4>2 DEF Typed, RequestRecords
      <4>3. CASE request' = [request EXCEPT ![q].pc = "answered", ![q].outcome = "error"]
        BY <4>1, <4>3 DEF Typed, RequestRecords
      <4> QED BY <1>5, <4>2, <4>3 DEF MintForRequest
    <3> QED BY <3>1, <3>2 DEF BearerHolds, GoneHolds, Gone, Minting
  <2>3. ASSUME NEW c \in Chats, q # <<"page", c>> PROVE BearerHolds(c)' /\ GoneHolds(c)'
    BY <1>5, <2>3, RequestMoves
  <2> QED BY <2>1, <2>2, <2>3 DEF Lost
<1>6. ASSUME NEW q \in Requests, AnswerRequest(q) PROVE Lost'
  <2>1. \A c \in Chats : MissHolds(c)'
    BY <1>6 DEF AnswerRequest, RequestFrame
  <2>2. ASSUME NEW c \in Chats, q = <<"page", c>> PROVE BearerHolds(c)' /\ GoneHolds(c)'
    <3>1. q[2] = c /\ request[q] = PageRequest(c) /\ request'[q] = PageRequest(c)'
      BY <2>2, PageRequestTyped DEF PageRequest
    <3>2. UNCHANGED <<owner, valid, token>> /\ BearerHolds(c)
      BY <1>6 DEF AnswerRequest, RequestFrame, Lost
    <3>3. \/ PageRequest(c)'.pc = "mint"
          \/ PageRequest(c)'.pc = "answered" /\ PageRequest(c)'.outcome \in {"ok", "error"}
          \/ /\ PageRequest(c)'.pc = "answered" /\ PageRequest(c)'.second = PageRequest(c).second
             /\ PageRequest(c).pc = "ask" /\ owner[c] # PageRequest(c).bearer
      <4> DEFINE Told(o, ts) == [request[q] EXCEPT !.pc = "answered", !.bearer = None,
                                                 !.outcome = o, !.turns = ts]
      <4>1. \A o, ts : /\ Told(o, ts).pc = "answered" /\ Told(o, ts).outcome = o
                       /\ Told(o, ts).second = request[q].second
        BY DEF Typed, RequestRecords
      <4>2. \/ \E ts : request' = [request EXCEPT ![q] = Told("error", ts)]
            \/ \E ts : request' = [request EXCEPT ![q] = Told("ok", ts)]
            \/ request[q].pc = "ask" /\ owner[c] # request[q].bearer
                 /\ \E ts : request' = [request EXCEPT ![q] = Told("missing", ts)]
            \/ request' = [request EXCEPT ![q].pc = "mint", ![q].second = TRUE]
        BY <1>6, <3>1 DEF AnswerRequest
      <4> HIDE DEF Told
      <4>3. \A r : request' = [request EXCEPT ![q] = r] => request'[q] = r
        BY DEF Typed
      <4>4. request' = [request EXCEPT ![q].pc = "mint", ![q].second = TRUE] => request'[q].pc = "mint"
        BY DEF Typed, RequestRecords
      <4> QED BY <3>1, <4>1, <4>2, <4>3, <4>4
    <3> QED BY <3>2, <3>3 DEF BearerHolds, GoneHolds, Gone, Readable
  <2>3. ASSUME NEW c \in Chats, q # <<"page", c>> PROVE BearerHolds(c)' /\ GoneHolds(c)'
    BY <1>6, <2>3, RequestMoves
  <2> QED BY <2>1, <2>2, <2>3 DEF Lost
<1>7. ASSUME NEW c \in Chats, Fetch(c) \/ Reconnect(c) PROVE Lost'
  <2>1. PICK r : /\ r = [NoRequest EXCEPT !.pc = IF token = None THEN "mint" ELSE "ask",
                                     !.bearer = token, !.epoch = view.epoch, !.mount = mounts]
                 /\ request' = [request EXCEPT ![<<"page", c>>] = r]
    BY <1>7 DEF Fetch, Reconnect, StartRequest
  <2>2. r.bearer = token /\ r.pc \in {"mint", "ask"}
    BY <2>1 DEF NoRequest
  <2>3. UNCHANGED <<token, owner>> /\ \A d \in Chats : cache'[d].data = cache[d].data
    BY <1>7 DEF Fetch, Reconnect, storage, server, Typed, CacheRecords
  <2>4. \A d \in Chats : PageRequest(d)' = IF d = c THEN r ELSE PageRequest(d)
    <3>1. request' = [request EXCEPT ![<<"page", c>>] = r]
      BY <2>1
    <3> QED BY <3>1
  <2>5. BearerHolds(c)' /\ GoneHolds(c)'
    BY <2>2, <2>3, <2>4 DEF BearerHolds, GoneHolds
  <2> QED BY <2>3, <2>4, <2>5 DEF Lost
<1>8. ASSUME NEW c \in Chats, Arrive(c) PROVE Lost'
  <2> DEFINE r == PageRequest(c)
  <2>1. \A d \in Chats : PageRequest(d)' \in {NoRequest, PageRequest(d)}
    BY <1>8 DEF Arrive
  <2>2. \A d \in Chats : d # c => cache'[d] = cache[d]
    BY <1>8 DEF Arrive, Typed
  <2>3. \/ cache'[c].data = cache[c].data
        \/ ~Failed(r) /\ cache'[c].data.found = (r.outcome = "ok")
    BY <1>8 DEF Arrive, Typed, CacheRecords, PageRequest
  <2>4. ~Failed(r) /\ r.outcome # "ok" => ~Readable(c)
    BY <1>8 DEF Failed, Arrive, PageRequest, Lost, GoneHolds
  <2>5. Readable(c)' = Readable(c)
    BY <1>8 DEF Arrive, Readable, Alive, server, storage
  <2>6. MissHolds(c)'
    BY <2>3, <2>4, <2>5 DEF MissHolds
  <2> QED BY <2>1, <2>2, <2>6 DEF Lost
<1>9. ASSUME NEW c \in Chats, OpenHistory(c) PROVE Lost'
  <2>1. PICK r : request' = [request EXCEPT ![<<"drawer", c>>] = r]
    BY <1>9 DEF OpenHistory, StartRequest
  <2>2. \A d \in Chats : PageRequest(d)' = PageRequest(d)
    BY <2>1
  <2> QED BY <1>9, <2>2 DEF OpenHistory, Lost
<1>10. ASSUME NEW c \in Chats, ArriveDrawer(c) PROVE Lost'
  <2>1. \A d \in Chats : PageRequest(d)' \in {PageRequest(d), NoRequest}
    BY <1>10, DrawerDropsRequests DEF PageRequest, Requests
  <2>2. \A d \in Chats : cache'[d].data = cache[d].data \/ cache'[d].data.found
    <3>1. CASE \E ts : Adopt(c, ts)
      BY <1>10, <3>1 DEF ArriveDrawer, Adopt, Typed
    <3>2. CASE UNCHANGED cache
      BY <3>2
    <3> QED BY <1>10, <3>1, <3>2 DEF ArriveDrawer
  <2>3. \A d \in Chats : MissHolds(d)'
    BY <2>2 DEF MissHolds
  <2> QED BY <2>1, <2>3 DEF Lost
<1>11. ASSUME NEW t \in Turns, Send(t) \/ TurnStep(t) PROVE UNCHANGED <<request, cache>>
  BY <1>11 DEF TurnStep, Send, MintForTurn, PostTurn, Meta, FinishTurn, FailTurn, TurnFrame
<1>12. ASSUME NEW c \in Chats, ShowTranscript(c) PROVE Lost'
  <2>1. \A d \in Chats : PageRequest(d)' \in {PageRequest(d), NoRequest}
    BY <1>12, ShownDropsRequests DEF PageRequest, Requests
  <2> QED BY <1>12, <2>1 DEF ShowTranscript, Lost
<1> QED BY <1>1, <1>2, <1>3, <1>4, <1>5, <1>6, <1>7, <1>8, <1>9, <1>10, <1>11, <1>12
        DEF Next, RequestStep, PageStep, Reclaim, vars

-----------------------------------------------------------------------------
(* Transcripts that are there. *)

\* A transcript asked for by this mount holds what the page owes, and the turns the page
\* asked and finished, unless one of them finished since.
Covers(turns, epoch) ==
  /\ view.owed \subseteq turns
  /\ epoch >= view.epoch => \A t \in Turns : turn[t].pc = "done" /\ turn[t].mine => t \in turns
RequestCovers(c) ==
  PageRequest(c).pc = "answered" /\ PageRequest(c).outcome = "ok" /\ PageRequest(c).mount = mounts
    => Covers(PageRequest(c).turns, PageRequest(c).epoch)
DataCovers(c) ==
  OwnData(c) /\ cache[c].data.found => Covers(cache[c].data.turns, cache[c].data.epoch)
Fresh == \A c \in Chats : view.sid = c => RequestCovers(c) /\ DataCovers(c)

\* The inductive invariant.
WebInv == /\ TypeOK /\ Named /\ TurnsHere /\ Owed /\ Epochs /\ Lost /\ Fresh /\ FinishedTurnsStay

LEMMA MountedWhen == ASSUME Typed, view.sid # None PROVE view.mounted
BY DEF Typed, NoView

\* A step that turns no request into an answer and stores no result; a turn that
\* finishes makes every transcript in hand outdated.
LEMMA FreshStill ==
  ASSUME Typed, Typed', Epochs, Fresh, mounts' = mounts, view'.owed = view.owed,
         view'.sid \in {view.sid, None},
         \/ /\ view'.epoch = view.epoch
            /\ \A t \in Turns : turn'[t].pc = "done" /\ turn'[t].mine
                                  => turn[t].pc = "done" /\ turn[t].mine
         \/ view'.epoch = view.epoch + 1,
         \A c \in Chats : \/ PageRequest(c)' = PageRequest(c)
                          \/ PageRequest(c)'.pc # "answered" \/ PageRequest(c)'.outcome # "ok",
         \A c \in Chats : cache'[c].data = cache[c].data
  PROVE  Fresh'
<1> SUFFICES ASSUME NEW c \in Chats, view'.sid = c PROVE RequestCovers(c)' /\ DataCovers(c)'
  BY DEF Fresh
<1>1. view.sid = c /\ view.mounted
  BY WebAssumption, MountedWhen
<1>2. RequestCovers(c) /\ DataCovers(c)
  BY <1>1 DEF Fresh
<1>3. /\ view.epoch \in Nat /\ PageRequest(c).epoch \in Nat /\ cache[c].data.epoch \in Nat
      /\ PageRequest(c).pc # "none" /\ PageRequest(c).mount = mounts
           => PageRequest(c).epoch <= view.epoch
      /\ OwnData(c) => cache[c].data.epoch <= view.epoch
  BY <1>1, Numbers DEF Epochs
<1>4. ASSUME NEW ts, NEW e \in Nat, e <= view.epoch, Covers(ts, e)
      PROVE  /\ view'.owed \subseteq ts
             /\ e >= view'.epoch => \A t \in Turns : turn'[t].pc = "done" /\ turn'[t].mine => t \in ts
  BY <1>3, <1>4 DEF Covers
<1>5. RequestCovers(c)'
  <2> SUFFICES ASSUME PageRequest(c)'.pc = "answered", PageRequest(c)'.outcome = "ok",
                      PageRequest(c)'.mount = mounts'
               PROVE  Covers(PageRequest(c).turns, PageRequest(c).epoch)'
    BY DEF RequestCovers
  <2>1. PICK r : r = PageRequest(c) /\ r = PageRequest(c)'
    OBVIOUS
  <2>2. r.epoch \in Nat /\ r.epoch <= view.epoch /\ Covers(r.turns, r.epoch)
    BY <1>2, <1>3, <2>1 DEF RequestCovers
  <2>3. /\ view'.owed \subseteq r.turns
        /\ r.epoch >= view'.epoch
             => \A t \in Turns : turn'[t].pc = "done" /\ turn'[t].mine => t \in r.turns
    BY <1>4, <2>2
  <2> QED BY <2>1, <2>3 DEF Covers
<1>6. DataCovers(c)'
  <2> SUFFICES ASSUME OwnData(c)', cache'[c].data.found
               PROVE  Covers(cache[c].data.turns, cache[c].data.epoch)'
    BY DEF DataCovers
  <2>1. PICK d : d = cache[c].data /\ d = cache'[c].data
    OBVIOUS
  <2>2. OwnData(c)
    BY DEF OwnData, Cached
  <2>3. d.epoch \in Nat /\ d.epoch <= view.epoch /\ Covers(d.turns, d.epoch)
    BY <1>2, <1>3, <2>1, <2>2 DEF DataCovers
  <2>4. /\ view'.owed \subseteq d.turns
        /\ d.epoch >= view'.epoch
             => \A t \in Turns : turn'[t].pc = "done" /\ turn'[t].mine => t \in d.turns
    BY <1>4, <2>3
  <2> QED BY <2>1, <2>4 DEF Covers
<1> QED BY <1>5, <1>6

LEMMA FreshNext ==
  ASSUME Typed, Typed', Named, TurnsHere, Owed, Epochs, Fresh, [Next]_vars PROVE Fresh'
<1> USE PageRequests
<1>1. view'.sid = None => Fresh'
  BY WebAssumption DEF Fresh
<1>2. ASSUME UNCHANGED <<mounts, turn, request>>, view'.owed = view.owed,
             view'.sid \in {view.sid, None}, view'.epoch = view.epoch,
             \A c \in Chats : cache'[c].data = cache[c].data
      PROVE  Fresh'
  BY <1>2, FreshStill
<1>3. ASSUME NEW u \in Users, Reclaim(u) PROVE Fresh'
  BY <1>2, <1>3 DEF Reclaim
<1>4. CASE Mount
  <2>1. mounts' = mounts + 1 /\ UNCHANGED request /\ mounts \in Nat
    BY <1>4 DEF Mount, Typed
  <2>2. \A c \in Chats : cache'[c].data = cache[c].data
    BY <1>4 DEF Mount, Typed, CacheRecords
  <2>3. \A c \in Chats : /\ PageRequest(c)' = PageRequest(c)
                         /\ PageRequest(c).mount \in Nat /\ PageRequest(c).mount <= mounts
                         /\ cache[c].data.mount \in Nat /\ cache[c].data.mount <= mounts
    BY <2>1, Numbers DEF Epochs
  <2>4. \A c \in Chats : PageRequest(c)'.mount # mounts' /\ cache'[c].data.mount # mounts'
    BY <2>1, <2>2, <2>3
  <2> QED BY <2>4 DEF Fresh, RequestCovers, DataCovers, OwnData
<1>5. CASE Unmount \/ Reload
  BY <1>1, <1>5 DEF Unmount, Reload, NoView
<1>6. CASE NewSession
  BY <1>1, <1>6 DEF NewSession, Typed, Views
<1>7. ASSUME NEW q \in Requests, MintForRequest(q) PROVE Fresh'
  <2>1. ASSUME NEW c \in Chats
        PROVE  PageRequest(c)' = PageRequest(c)
                 \/ PageRequest(c)'.pc # "answered" \/ PageRequest(c)'.outcome # "ok"
    <3>1. CASE q = <<"page", c>>
      <4>1. request'[q] = PageRequest(c)'
        BY <3>1 DEF PageRequest
      <4>2. CASE \E u \in Users : request' = [request EXCEPT ![q].pc = "ask", ![q].bearer = u]
        BY <4>1, <4>2 DEF Typed, RequestRecords
      <4>3. CASE request' = [request EXCEPT ![q].pc = "answered", ![q].outcome = "error"]
        BY <4>1, <4>3 DEF Typed, RequestRecords
      <4> QED BY <1>7, <4>2, <4>3 DEF MintForRequest
    <3>2. CASE q # <<"page", c>>
      BY <1>7, <3>2, RequestMoves
    <3> QED BY <3>1, <3>2
  <2>2. UNCHANGED <<mounts, view, turn, cache>>
    BY <1>7 DEF MintForRequest, RequestFrame
  <2> QED BY <2>1, <2>2, FreshStill
<1>8. ASSUME NEW q \in Requests, AnswerRequest(q) PROVE Fresh'
  <2>1. UNCHANGED <<mounts, view, turn, cache, answers>>
    BY <1>8 DEF AnswerRequest, RequestFrame
  <2>2. \A c \in Chats : q # <<"page", c>> => PageRequest(c)' = PageRequest(c)
    BY <1>8, RequestMoves
  <2>3. CASE \E c \in Chats : q = <<"page", c>> /\ view.sid = c
    <3>1. PICK c \in Chats : q = <<"page", c>> /\ view.sid = c
      BY <2>3
    <3>2. q[2] = c /\ request'[q] = PageRequest(c)'
      BY <3>1 DEF PageRequest
    <3>3. /\ view.owed \subseteq answers[c]
          /\ \A t \in Turns : turn[t].pc = "done" /\ turn[t].mine => t \in answers[c]
      BY <3>1, WebAssumption DEF Owed, TurnsHere, Answered
    <3>4. PageRequest(c)'.pc = "answered" /\ PageRequest(c)'.outcome = "ok"
            => PageRequest(c)'.turns = answers[c]
      <4> DEFINE Told(o, ts) == [request[q] EXCEPT !.pc = "answered", !.bearer = None,
                                                 !.outcome = o, !.turns = ts]
      <4>1. \A o, ts : Told(o, ts).outcome = o /\ Told(o, ts).turns = ts
        BY DEF Typed, RequestRecords
      <4>2. \/ \E o \in {"error", "missing"} : \E ts : request' = [request EXCEPT ![q] = Told(o, ts)]
            \/ request' = [request EXCEPT ![q] = Told("ok", answers[c])]
            \/ request' = [request EXCEPT ![q].pc = "mint", ![q].second = TRUE]
        BY <1>8, <3>2 DEF AnswerRequest
      <4> HIDE DEF Told
      <4>3. \A r : request' = [request EXCEPT ![q] = r] => request'[q] = r
        BY DEF Typed
      <4>4. request' = [request EXCEPT ![q].pc = "mint", ![q].second = TRUE] => request'[q].pc = "mint"
        BY DEF Typed, RequestRecords
      <4> QED BY <3>2, <4>1, <4>2, <4>3, <4>4
    <3>5. RequestCovers(c)'
      BY <2>1, <3>3, <3>4 DEF RequestCovers, Covers
    <3>6. DataCovers(c)'
      <4>1. DataCovers(c)
        BY <3>1 DEF Fresh
      <4> QED BY <2>1, <4>1 DEF DataCovers, OwnData, Cached, Covers
    <3> QED BY <2>1, <3>1, <3>5, <3>6 DEF Fresh
  <2>4. CASE \A c \in Chats : view.sid = c => q # <<"page", c>>
    <3> SUFFICES ASSUME NEW c \in Chats, view'.sid = c PROVE RequestCovers(c)' /\ DataCovers(c)'
      BY DEF Fresh
    <3>1. PageRequest(c)' = PageRequest(c)
      BY <2>1, <2>2, <2>4
    <3>2. RequestCovers(c) /\ DataCovers(c)
      BY <2>1 DEF Fresh
    <3> QED BY <2>1, <3>1, <3>2 DEF RequestCovers, DataCovers, OwnData, Cached, Covers
  <2> QED BY <2>3, <2>4
<1>9. ASSUME NEW c \in Chats, Fetch(c) \/ Reconnect(c) PROVE Fresh'
  <2>1. PICK r : /\ r = [NoRequest EXCEPT !.pc = IF token = None THEN "mint" ELSE "ask",
                                     !.bearer = token, !.epoch = view.epoch, !.mount = mounts]
                 /\ request' = [request EXCEPT ![<<"page", c>>] = r]
    BY <1>9 DEF Fetch, Reconnect, StartRequest
  <2>2. r.pc # "answered"
    BY <2>1 DEF NoRequest
  <2>3. request' = [request EXCEPT ![<<"page", c>>] = r]
    BY <2>1
  <2>4. \A d \in Chats : PageRequest(d)' = IF d = c THEN r ELSE PageRequest(d)
    BY <2>3
  <2>5. /\ UNCHANGED <<mounts, turn>> /\ view'.owed = view.owed /\ view'.sid = view.sid
        /\ view'.epoch = view.epoch
    BY <1>9 DEF Fetch, Reconnect, Typed, Views
  <2>6. \A d \in Chats : cache'[d].data = cache[d].data
    BY <1>9 DEF Fetch, Reconnect, Typed, CacheRecords
  <2> QED BY <2>2, <2>4, <2>5, <2>6, FreshStill
<1>10. ASSUME NEW c \in Chats, Arrive(c) PROVE Fresh'
  <2> DEFINE r == PageRequest(c)
  <2>1. \A d \in Chats : PageRequest(d)' = IF d = c THEN NoRequest ELSE PageRequest(d)
    BY <1>10 DEF Arrive
  <2>2. /\ UNCHANGED <<mounts, turn>> /\ view'.owed = view.owed /\ view'.sid = view.sid
        /\ view'.epoch = view.epoch
    BY <1>10 DEF Arrive, Typed, Views
  <2>3. \A d \in Chats : d # c => cache'[d] = cache[d]
    BY <1>10 DEF Arrive, Typed
  <2>4. \/ cache'[c].data = cache[c].data
        \/ cache'[c].data = [turns |-> r.turns, found |-> r.outcome = "ok",
                             epoch |-> r.epoch, mount |-> r.mount]
    BY <1>10 DEF Arrive, Typed, CacheRecords, PageRequest
  <2>5. r.pc = "answered"
    BY <1>10 DEF Arrive, PageRequest
  <2> SUFFICES ASSUME NEW d \in Chats, view'.sid = d PROVE RequestCovers(d)' /\ DataCovers(d)'
    BY DEF Fresh
  <2>6. RequestCovers(d) /\ DataCovers(d)
    BY <2>2 DEF Fresh
  <2>7. \A ts, e : Covers(ts, e) => Covers(ts, e)'
    BY <2>2 DEF Covers
  <2>8. RequestCovers(d)'
    BY <2>1, <2>2, <2>6 DEF RequestCovers, Covers
  <2>9. CASE cache'[d].data = cache[d].data
    BY <2>2, <2>6, <2>8, <2>9 DEF DataCovers, OwnData, Cached, Covers
  <2>10. CASE /\ d = c
              /\ cache'[c].data = [turns |-> r.turns, found |-> r.outcome = "ok",
                                   epoch |-> r.epoch, mount |-> r.mount]
    <3>1. cache'[c].data.found => r.outcome = "ok"
      <4>1. cache'[c].data.found = (r.outcome = "ok")
        BY <2>10
      <4> QED BY <4>1, Zenon
    <3>2. /\ cache'[c].data.turns = r.turns /\ cache'[c].data.epoch = r.epoch
          /\ cache'[c].data.mount = r.mount
      BY <2>10
    <3>3. OwnData(c)' => r.mount = mounts
      BY <2>2, <3>2 DEF OwnData
    <3>4. OwnData(c)' /\ cache'[c].data.found => Covers(r.turns, r.epoch)
      BY <2>5, <2>6, <2>10, <3>1, <3>3 DEF RequestCovers
    <3>5. DataCovers(c)'
      BY <2>2, <3>2, <3>4 DEF DataCovers, Covers
    <3> QED BY <2>8, <2>10, <3>5
  <2> QED BY <2>3, <2>4, <2>9, <2>10
<1>11. ASSUME NEW c \in Chats, ShowTranscript(c) PROVE Fresh'
  <2>1. \A d \in Chats : PageRequest(d)' \in {PageRequest(d), NoRequest}
    BY <1>11, ShownDropsRequests DEF PageRequest, Requests
  <2>2. view'.owed = view.owed /\ view'.sid \in {view.sid, None} /\ view'.epoch = view.epoch
    BY <1>11 DEF ShowTranscript, Typed, Views
  <2> QED BY <1>11, <2>1, <2>2, FreshStill DEF ShowTranscript
<1>12. ASSUME NEW c \in Chats, OpenHistory(c) PROVE Fresh'
  <2>1. PICK r : request' = [request EXCEPT ![<<"drawer", c>>] = r]
    BY <1>12 DEF OpenHistory, StartRequest
  <2>2. \A d \in Chats : PageRequest(d)' = PageRequest(d)
    BY <2>1
  <2> QED BY <1>12, <2>2, FreshStill DEF OpenHistory
<1>13. ASSUME NEW c \in Chats, ArriveDrawer(c) PROVE Fresh'
  <2>1. \A d \in Chats : PageRequest(d)' \in {PageRequest(d), NoRequest}
    BY <1>13, DrawerDropsRequests DEF PageRequest, Requests
  <2>2. CASE view.mounted /\ \E ts : Adopt(c, ts)
    <3>1. view'.owed = {} /\ Leave
      BY <2>2 DEF Adopt, Typed, Views
    <3>2. \A t \in Turns : ~turn'[t].mine
      BY <3>1 DEF Leave, Typed, TurnRecords
    <3> QED BY <3>1, <3>2 DEF Fresh, RequestCovers, DataCovers, Covers
  <2>3. CASE UNCHANGED <<mounts, view, turn, cache>>
    BY <2>1, <2>3, FreshStill
  <2> QED BY <1>13, <2>2, <2>3 DEF ArriveDrawer, Adopt
<1>14. ASSUME NEW t \in Turns, Send(t) \/ MintForTurn(t) \/ PostTurn(t) \/ Meta(t) PROVE Fresh'
  <2>1. UNCHANGED <<mounts, request, cache>>
    BY <1>14 DEF Send, MintForTurn, PostTurn, Meta, TurnFrame
  <2>2. view'.owed = view.owed /\ view'.sid = view.sid /\ view'.epoch = view.epoch
    BY <1>14 DEF Send, MintForTurn, PostTurn, Meta, Typed, Views
  <2>3. turn'[t].pc # "done" /\ \A s \in Turns : s # t => turn'[s] = turn[s]
    <3>1. CASE Send(t) \/ MintForTurn(t) \/ Meta(t)
      BY <3>1 DEF Send, MintForTurn, Meta, Typed, TurnRecords
    <3>2. CASE PostTurn(t)
      <4>1. CASE turn' = [turn EXCEPT ![t].pc = "mint", ![t].second = TRUE]
        BY <4>1 DEF Typed, TurnRecords
      <4>2. ASSUME NEW d, turn' = [turn EXCEPT ![t] = [turn[t] EXCEPT !.pc = "stream", !.chat = d,
                                                         !.bearer = None, !.second = FALSE]]
            PROVE  turn'[t].pc # "done" /\ \A s \in Turns : s # t => turn'[s] = turn[s]
        BY <4>2 DEF Typed, TurnRecords
      <4> QED BY <3>2, <4>1, <4>2 DEF PostTurn
    <3> QED BY <1>14, <3>1, <3>2
  <2> QED BY <2>1, <2>2, <2>3, FreshStill
<1>15. ASSUME NEW t \in Turns, FinishTurn(t) PROVE Fresh'
  <2>1. UNCHANGED <<mounts, request, cache>>
    BY <1>15 DEF FinishTurn, TurnFrame
  <2>2. view'.owed = view.owed /\ view'.sid = view.sid
    BY <1>15 DEF FinishTurn, Settled, Typed, Views
  <2>3. view'.epoch = IF Here(t) THEN view.epoch + 1 ELSE view.epoch
    BY <1>15 DEF FinishTurn, Settled, Typed, Views
  <2>4. turn'[t].mine = turn[t].mine /\ \A s \in Turns : s # t => turn'[s] = turn[s]
    BY <1>15 DEF FinishTurn, Typed, TurnRecords
  <2>5. ~Here(t) => ~turn[t].mine
    BY DEF TurnsHere
  <2> QED BY <2>1, <2>2, <2>3, <2>4, <2>5, FreshStill
<1>16. ASSUME NEW t \in Turns, FailTurn(t) PROVE Fresh'
  <2>1. UNCHANGED <<mounts, request, cache>>
    BY <1>16 DEF FailTurn, TurnFrame
  <2>2. view'.owed = view.owed /\ view'.sid = view.sid /\ view'.epoch \in {view.epoch, view.epoch + 1}
    BY <1>16 DEF FailTurn, Settled, Typed, Views
  <2>3. turn'[t].pc # "done" /\ \A s \in Turns : s # t => turn'[s] = turn[s]
    BY <1>16 DEF FailTurn, NoTurn, Typed
  <2> QED BY <2>1, <2>2, <2>3, FreshStill
<1>17. CASE UNCHANGED vars
  BY <1>2, <1>17 DEF vars
<1> QED BY <1>3, <1>4, <1>5, <1>6, <1>7, <1>8, <1>9, <1>10, <1>11, <1>12, <1>13, <1>14, <1>15,
           <1>16, <1>17
        DEF Next, RequestStep, PageStep, TurnStep

-----------------------------------------------------------------------------
\* The transcript a page shows, and why it shows it.
LEMMA Shows ==
  ASSUME Typed, Named, Lost, Fresh, NEW c \in Chats, ShowTranscript(c)
  PROVE  /\ UNCHANGED <<owner, valid, token, turn>> /\ view.sid = c
         /\ view'.shown = view.shown
              \/ (Readable(c) => /\ view.owed \subseteq view'.shown
                                 /\ \A t \in Turns : turn[t].pc = "done" /\ turn[t].mine
                                                       => t \in view'.shown)
         /\ stored # None /\ stored' = None => ~Readable(stored)
<1>1. view.sid = c /\ UNCHANGED <<owner, valid, token, turn>> /\ MissHolds(c) /\ DataCovers(c)
  BY DEF ShowTranscript, server, Lost, Fresh
<1>2. stored # None /\ stored' = None => ~Readable(stored)
  BY <1>1 DEF ShowTranscript, Forgets, MissHolds
<1>3. \/ view'.shown = view.shown
      \/ OwnData(c) /\ ~(cache[c].data.epoch < view.epoch) /\ view'.shown = cache[c].data.turns
  BY DEF ShowTranscript, Usable, Outdated, Typed, Views
<1>4. view.epoch \in Nat /\ cache[c].data.epoch \in Nat
  BY Numbers
<1>5. OwnData(c) /\ Readable(c) => Covers(cache[c].data.turns, cache[c].data.epoch)
  BY <1>1 DEF MissHolds, DataCovers, OwnData
<1> QED BY <1>1, <1>2, <1>3, <1>4, <1>5 DEF Covers

\* What was shown stays: the steps that replace what is shown either leave the turns
\* behind or show a transcript that covers them.
LEMMA StayNext ==
  ASSUME Typed, Typed', Named, TurnsHere, Lost, Fresh, FinishedTurnsStay, [Next]_vars
  PROVE  FinishedTurnsStay'
<1> DEFINE Kept(t) == /\ turn[t].pc = "done" /\ turn[t].mine /\ turn'[t].chat = turn[t].chat
                      /\ t \in view.shown => t \in view'.shown
<1>1. ASSUME \A t \in Turns : turn'[t].pc = "done" /\ turn'[t].mine
                                => Kept(t) \/ t \in view'.shown
      PROVE  FinishedTurnsStay'
  <2> SUFFICES ASSUME NEW t \in Turns, turn'[t].pc = "done", turn'[t].mine,
                      Readable(turn[t].chat)', Kept(t)
               PROVE  t \in view'.shown
    BY <1>1 DEF FinishedTurnsStay
  <2>1. PICK c : c = turn[t].chat /\ c = turn'[t].chat
    OBVIOUS
  <2>2. c \in Chats /\ owner[c] # None
    BY <2>1, WebAssumption DEF TurnsHere, Answered, Named, Began, Typed, TurnRecords
  <2>3. Readable(c)'
    BY <2>1
  <2>4. Readable(c)
    BY <2>2, <2>3, ReadersStay
  <2> QED BY <2>1, <2>4 DEF FinishedTurnsStay
<1>2. ASSUME UNCHANGED turn, view'.shown = view.shown PROVE FinishedTurnsStay'
  BY <1>1, <1>2
<1>3. ASSUME \A t \in Turns : ~turn'[t].mine PROVE FinishedTurnsStay'
  BY <1>3 DEF FinishedTurnsStay
<1>4. Leave => \A t \in Turns : ~turn'[t].mine
  BY DEF Leave, Typed, TurnRecords
<1>5. ASSUME NEW u \in Users, Reclaim(u) PROVE FinishedTurnsStay'
  BY <1>2, <1>5 DEF Reclaim
<1>6. CASE Mount
  <2>1. \A t \in Turns : ~turn'[t].mine
    BY <1>6 DEF Mount, TurnsHere, Here
  <2> QED BY <1>3, <2>1
<1>7. CASE Unmount \/ NewSession
  BY <1>3, <1>4, <1>7 DEF Unmount, NewSession
<1>8. CASE Reload
  <2>1. \A t \in Turns : ~turn'[t].mine
    BY <1>8 DEF Reload, Typed, TurnRecords, NoTurn
  <2> QED BY <1>3, <2>1
<1>9. ASSUME NEW q \in Requests, RequestStep(q) PROVE FinishedTurnsStay'
  BY <1>2, <1>9 DEF RequestStep, MintForRequest, AnswerRequest, RequestFrame
<1>10. ASSUME NEW c \in Chats, Fetch(c) \/ Arrive(c) \/ Reconnect(c) \/ OpenHistory(c)
       PROVE  FinishedTurnsStay'
  <2>1. UNCHANGED turn /\ view'.shown = view.shown
    BY <1>10 DEF Fetch, Arrive, Reconnect, OpenHistory, Typed, Views
  <2> QED BY <1>2, <2>1
<1>11. ASSUME NEW c \in Chats, ShowTranscript(c) PROVE FinishedTurnsStay'
  <2>1. CASE view'.shown = view.shown
    BY <1>2, <1>11, <2>1, Shows
  <2>2. CASE view'.shown # view.shown
    <3> SUFFICES ASSUME NEW t \in Turns, turn'[t].pc = "done", turn'[t].mine,
                        Readable(turn[t].chat)'
                 PROVE  t \in view'.shown
      BY DEF FinishedTurnsStay
    <3>1. UNCHANGED <<owner, valid, token, turn>> /\ view.sid = c
      BY <1>11, Shows
    <3>2. turn[t].chat = c /\ turn'[t].chat = c
      BY <3>1, WebAssumption DEF TurnsHere
    <3>3. Readable(c)
      BY <3>1, <3>2 DEF Readable, Alive
    <3> QED BY <1>11, <2>2, <3>1, <3>3, Shows
  <2> QED BY <2>1, <2>2
<1>12. ASSUME NEW c \in Chats, ArriveDrawer(c) PROVE FinishedTurnsStay'
  BY <1>2, <1>3, <1>4, <1>12 DEF ArriveDrawer, Adopt
<1>13. ASSUME NEW t \in Turns, Send(t) PROVE FinishedTurnsStay'
  <2>1. /\ turn'[t].pc # "done" /\ \A s \in Turns : s # t => turn'[s] = turn[s]
        /\ view'.shown = view.shown \cup {t}
    BY <1>13 DEF Send, Typed, Views
  <2> QED BY <1>1, <2>1
<1>14. ASSUME NEW t \in Turns, MintForTurn(t) \/ Meta(t) PROVE FinishedTurnsStay'
  <2>1. /\ turn'[t].pc # "done" /\ \A s \in Turns : s # t => turn'[s] = turn[s]
        /\ view'.shown = view.shown
    BY <1>14 DEF MintForTurn, Meta, Typed, Views, TurnRecords
  <2> QED BY <1>1, <2>1
<1>15. ASSUME NEW t \in Turns, PostTurn(t) PROVE FinishedTurnsStay'
  <2>1. turn'[t].pc # "done" /\ \A s \in Turns : s # t => turn'[s] = turn[s]
    <3>1. CASE turn' = [turn EXCEPT ![t].pc = "mint", ![t].second = TRUE]
      BY <3>1 DEF Typed, TurnRecords
    <3>2. ASSUME NEW d, turn' = [turn EXCEPT ![t] = [turn[t] EXCEPT !.pc = "stream", !.chat = d,
                                                       !.bearer = None, !.second = FALSE]]
          PROVE  turn'[t].pc # "done" /\ \A s \in Turns : s # t => turn'[s] = turn[s]
      BY <3>2 DEF Typed, TurnRecords
    <3> QED BY <1>15, <3>1, <3>2 DEF PostTurn
  <2>2. view'.shown = view.shown
    BY <1>15 DEF PostTurn
  <2> QED BY <1>1, <2>1, <2>2
<1>16. ASSUME NEW t \in Turns, FinishTurn(t) PROVE FinishedTurnsStay'
  <2>1. /\ turn[t].pc = "meta" /\ turn'[t].mine = turn[t].mine
        /\ \A s \in Turns : s # t => turn'[s] = turn[s]
    BY <1>16 DEF FinishTurn, Typed, TurnRecords
  <2>2. view'.shown = view.shown
    BY <1>16 DEF FinishTurn, Settled, Typed, Views
  <2>3. turn[t].mine => t \in view.shown
    BY <2>1 DEF TurnsHere, Going
  <2> QED BY <1>1, <2>1, <2>2, <2>3
<1>17. ASSUME NEW t \in Turns, FailTurn(t) PROVE FinishedTurnsStay'
  <2>1. turn'[t].pc # "done" /\ \A s \in Turns : s # t => turn'[s] = turn[s]
    BY <1>17 DEF FailTurn, NoTurn, Typed
  <2>2. view.shown \ {t} \subseteq view'.shown
    BY <1>17 DEF FailTurn, Settled, Typed, Views
  <2> QED BY <1>1, <2>1, <2>2
<1>18. CASE UNCHANGED vars
  BY <1>2, <1>18 DEF vars
<1> QED BY <1>5, <1>6, <1>7, <1>8, <1>9, <1>10, <1>11, <1>12, <1>13, <1>14, <1>15, <1>16, <1>17, <1>18
        DEF Next, PageStep, TurnStep

-----------------------------------------------------------------------------
LEMMA WebInvInit == Init => WebInv
<1> SUFFICES ASSUME Init PROVE WebInv
  OBVIOUS
<1>1. view.sid = None /\ \A t \in Turns : turn[t].pc = "unsent"
  BY DEF Init, NoView, NoTurn
<1>2. Fresh /\ FinishedTurnsStay
  BY <1>1, WebAssumption DEF Fresh, FinishedTurnsStay
<1> QED BY <1>2, TypeInit, TypedMeans, NamedInit, TurnsHereInit, EpochsInit, LostInit DEF WebInv

LEMMA WebInvNext == WebInv /\ [Next]_vars => WebInv'
<1> SUFFICES ASSUME WebInv, [Next]_vars PROVE WebInv'
  OBVIOUS
<1>1. Typed /\ Typed' /\ TypeOK'
  BY TypeNext, TypedMeans DEF WebInv
<1>2. Named' /\ TurnsHere'
  BY <1>1, NamedNext, TurnsHereNext DEF WebInv
<1>3. Owed' /\ Epochs'
  BY <1>1, OwedNext, EpochsNext DEF WebInv
<1>4. Lost' /\ Fresh' /\ FinishedTurnsStay'
  BY <1>1, LostNext, FreshNext, StayNext DEF WebInv
<1> QED BY <1>1, <1>2, <1>3, <1>4 DEF WebInv

\* The variables of the page, its requests and the cache have their types, and a page
\* that is not mounted has no state: the callbacks of a turn whose page was left set
\* nothing (use-chat.ts).
THEOREM PageTypeCorrect == Spec => []TypeOK
<1>1. WebInv => TypeOK
  BY DEF WebInv
<1> QED BY <1>1, WebInvInit, WebInvNext, PTL DEF Spec

\* A turn that the page asked in the conversation it shows, and finished, stays on
\* screen until the reader leaves it, while the reader can read the conversation:
\* however many requests, retries, mounts and late answers there are, the comparison of
\* epochs (use-chat.ts) lets no transcript in that was asked for before the turn ended.
THEOREM FinishedStay == Spec => []FinishedTurnsStay
<1>1. WebInv => FinishedTurnsStay
  BY DEF WebInv
<1> QED BY <1>1, WebInvInit, WebInvNext, PTL DEF Spec

\* A transcript that is shown holds every turn finished before the page was mounted, so
\* the result of an earlier mount never stands in for it; and a 404 forgets a
\* conversation only when the token at hand cannot read it.
THEOREM TranscriptsKeep == Spec => TranscriptsLoseNothing
<1> DEFINE Step ==
      \A c \in Chats : ShowTranscript(c) =>
        /\ view'.shown # view.shown /\ Readable(c) => view.owed \subseteq view'.shown
        /\ stored # None /\ stored' = None => ~Readable(stored)
<1>1. WebInv /\ [Next]_vars => [Step]_vars
  <2> SUFFICES ASSUME WebInv PROVE Step
    OBVIOUS
  <2>1. Typed
    BY TypedMeans DEF WebInv
  <2> QED BY <2>1, Shows DEF WebInv
<1> QED BY <1>1, WebInvInit, WebInvNext, PTL DEF Spec, TranscriptsLoseNothing

-----------------------------------------------------------------------------
(* The composer has a way out. *)

\* The page is busy only with a turn of its own that is under way.
BusyHasTurn == view.busy => \E t \in Turns : Here(t) /\ turn[t].pc \in Going

LEMMA BusyNext ==
  ASSUME Typed, Typed', TurnsHere, BusyHasTurn, [Next]_vars PROVE BusyHasTurn'
<1> SUFFICES ASSUME view'.busy PROVE \E t \in Turns : Here(t)' /\ turn'[t].pc \in Going
  BY DEF BusyHasTurn
<1>1. ASSUME view'.busy = view.busy, view'.mounted = view.mounted, mounts' = mounts,
             \A t \in Turns : turn'[t].mount = turn[t].mount /\ turn'[t].pc = turn[t].pc
      PROVE  \E t \in Turns : Here(t)' /\ turn'[t].pc \in Going
  BY <1>1 DEF BusyHasTurn, Here
<1>2. ASSUME UNCHANGED <<turn, mounts>>, view'.busy = view.busy, view'.mounted = view.mounted
      PROVE  \E t \in Turns : Here(t)' /\ turn'[t].pc \in Going
  BY <1>1, <1>2
<1>3. ASSUME Leave PROVE \A t \in Turns : turn'[t].mount = turn[t].mount /\ turn'[t].pc = turn[t].pc
  BY <1>3 DEF Leave, Typed, TurnRecords
<1>4. CASE Mount \/ Unmount \/ Reload
  <2>1. NoView.busy = FALSE /\ Mount => view'.busy = FALSE
    BY DEF Mount, NoView
  <2>2. Unmount \/ Reload => view' = NoView
    BY DEF Unmount, Reload
  <2> QED BY <1>4, <2>1, <2>2 DEF NoView
<1>5. CASE NewSession
  BY <1>1, <1>3, <1>5 DEF NewSession, Typed, Views
<1>6. ASSUME NEW c \in Chats, Fetch(c) \/ Arrive(c) \/ ShowTranscript(c) \/ Reconnect(c) \/ OpenHistory(c)
      PROVE  \E t \in Turns : Here(t)' /\ turn'[t].pc \in Going
  BY <1>2, <1>6 DEF Fetch, Arrive, ShowTranscript, Reconnect, OpenHistory, Typed, Views
<1>7. ASSUME NEW c \in Chats, ArriveDrawer(c)
      PROVE  \E t \in Turns : Here(t)' /\ turn'[t].pc \in Going
  <2>1. CASE view.mounted /\ \E ts : Adopt(c, ts)
    <3>1. Leave /\ view'.busy = view.busy /\ view'.mounted = view.mounted
      BY <2>1 DEF Adopt, Typed, Views
    <3> QED BY <1>1, <1>3, <1>7, <3>1 DEF ArriveDrawer
  <2>2. CASE UNCHANGED <<view, turn>>
    BY <1>2, <1>7, <2>2 DEF ArriveDrawer
  <2> QED BY <1>7, <2>1, <2>2 DEF ArriveDrawer, Adopt
<1>8. ASSUME NEW t \in Turns, Send(t) PROVE Here(t)' /\ turn'[t].pc \in Going
  BY <1>8 DEF Send, TurnFrame, Here, Going, Typed, Views, TurnRecords
<1>9. ASSUME NEW t \in Turns, MintForTurn(t) \/ PostTurn(t) \/ Meta(t)
      PROVE  \E s \in Turns : Here(s)' /\ turn'[s].pc \in Going
  <2>1. view'.busy = view.busy /\ view'.mounted = view.mounted /\ mounts' = mounts
    BY <1>9 DEF MintForTurn, PostTurn, Meta, TurnFrame, Typed, Views
  <2>2. \A s \in Turns : s # t => turn'[s] = turn[s]
    BY <1>9 DEF MintForTurn, PostTurn, Meta, Typed
  <2>3. turn'[t].mount = turn[t].mount /\ turn'[t].pc \in Going
    <3>1. CASE MintForTurn(t) \/ Meta(t)
      BY <3>1 DEF MintForTurn, Meta, Typed, TurnRecords, Going
    <3>2. CASE PostTurn(t)
      <4>1. CASE turn' = [turn EXCEPT ![t].pc = "mint", ![t].second = TRUE]
        BY <4>1 DEF Typed, TurnRecords, Going
      <4>2. ASSUME NEW d, turn' = [turn EXCEPT ![t] = [turn[t] EXCEPT !.pc = "stream", !.chat = d,
                                                         !.bearer = None, !.second = FALSE]]
            PROVE  turn'[t].mount = turn[t].mount /\ turn'[t].pc \in Going
        BY <4>2 DEF Typed, TurnRecords, Going
      <4> QED BY <3>2, <4>1, <4>2 DEF PostTurn
    <3> QED BY <1>9, <3>1, <3>2
  <2> QED BY <2>1, <2>2, <2>3 DEF BusyHasTurn, Here
<1>10. ASSUME NEW t \in Turns, FinishTurn(t) \/ FailTurn(t)
       PROVE  \E s \in Turns : Here(s)' /\ turn'[s].pc \in Going
  <2>1. ~Here(t) /\ UNCHANGED <<view, mounts>>
    BY <1>10 DEF FinishTurn, FailTurn, Settled, TurnFrame, Typed, Views
  <2>2. \A s \in Turns : s # t => turn'[s] = turn[s]
    BY <1>10 DEF FinishTurn, FailTurn, Typed
  <2> QED BY <2>1, <2>2 DEF BusyHasTurn, Here
<1>11. CASE UNCHANGED vars
  BY <1>2, <1>11 DEF vars
<1>12. CASE \E u \in Users : Reclaim(u)
  BY <1>2, <1>12 DEF Reclaim
<1>13. CASE \E q \in Requests : RequestStep(q)
  BY <1>2, <1>13 DEF RequestStep, MintForRequest, AnswerRequest, RequestFrame
<1> QED BY <1>4, <1>5, <1>6, <1>7, <1>8, <1>9, <1>10, <1>11, <1>12, <1>13
        DEF Next, PageStep, TurnStep

\* The composer is never held by a turn that is over: when the page is busy, a turn its
\* present mount asked is still under way, however turns, mounts and "New conversation"
\* follow each other (the finally of send, use-chat.ts).
THEOREM BusyMeansATurn == Spec => []BusyHasTurn
<1>1. Init => BusyHasTurn
  BY DEF Init, NoView, BusyHasTurn
<1>2. WebInv /\ BusyHasTurn /\ [Next]_vars => BusyHasTurn'
  BY BusyNext, TypeNext, TypedMeans DEF WebInv
<1> QED BY <1>1, <1>2, WebInvInit, WebInvNext, PTL DEF Spec

\* The query library cancels the request of a conversation the page no longer shows,
\* rather than letting it run on.
Cancels ==
  \A c \in Chats : view.sid = c /\ view'.sid # c => PageRequest(c)' = NoRequest

\* A page that waits for a transcript has a request of it under way, or may make one:
\* the guard of Fetch.
LoadingHasWayOut ==
  \A c \in Chats : view.mounted /\ view.sid = c /\ Loading
    => PageRequest(c) # NoRequest \/ (~Cached(c) /\ ~cache[c].failed) \/ Recover(c)

\* A request under way is this mount's, for the conversation shown; and the mount's one
\* recovery was of that conversation, and is still under way or came to something.
Composer ==
  /\ view.mounted => mounts > 0
  /\ \A c \in Chats : PageRequest(c) # NoRequest => view.sid = c /\ PageRequest(c).mount = mounts
  /\ \A c \in Chats : view.sid = c /\ view.recovered /\ PageRequest(c) = NoRequest
       => OwnData(c) \/ cache[c].failed

LEMMA ComposerWayOut == Typed /\ Composer => LoadingHasWayOut
BY WebAssumption DEF Typed, Composer, LoadingHasWayOut, Loading, Recover, Cached, OwnData

LEMMA ComposerInit == Init => Composer
<1> SUFFICES ASSUME Init PROVE Composer
  OBVIOUS
<1>1. ~view.mounted /\ view.sid = None
  BY DEF Init, NoView
<1>2. \A c \in Chats : PageRequest(c) = NoRequest
  BY DEF Init, PageRequest, Requests
<1> QED BY <1>1, <1>2, WebAssumption DEF Composer

\* While the page shows what it showed, and starts nothing.
LEMMA ComposerStill ==
  ASSUME Typed, Typed', Composer, mounts' = mounts, view'.mounted = view.mounted,
         view'.sid = view.sid, view'.recovered = view.recovered,
         \A c \in Chats :
           \/ PageRequest(c)' = PageRequest(c)
           \/ /\ PageRequest(c) # NoRequest /\ PageRequest(c)' # NoRequest
              /\ PageRequest(c)'.mount = PageRequest(c).mount,
         \A c \in Chats :
           /\ cache'[c].data = cache[c].data \/ OwnData(c)'
           /\ cache[c].failed => cache'[c].failed \/ OwnData(c)'
  PROVE  Composer'
<1>1. \A c \in Chats : PageRequest(c)' # NoRequest
        => PageRequest(c) # NoRequest /\ PageRequest(c)'.mount = PageRequest(c).mount
  OBVIOUS
<1>2. \A c \in Chats : OwnData(c) => OwnData(c)'
  BY DEF OwnData, Cached
<1>3. \A c \in Chats : PageRequest(c)' # NoRequest => view'.sid = c /\ PageRequest(c)'.mount = mounts'
  BY <1>1 DEF Composer
<1>4. \A c \in Chats : view'.sid = c /\ view'.recovered /\ PageRequest(c)' = NoRequest
        => OwnData(c)' \/ cache'[c].failed
  BY <1>2 DEF Composer
<1> QED BY <1>3, <1>4 DEF Composer

\* When the page leaves a conversation, or is left, and its request is cancelled.
LEMMA ComposerLeaves ==
  ASSUME Typed, Typed', Composer, Cancels, mounts' = mounts,
         view'.mounted => view.mounted,
         \A c \in Chats : PageRequest(c)' \in {PageRequest(c), NoRequest},
         \A c \in Chats : view'.sid = c => view.sid # c /\ OwnData(c)'
  PROVE  Composer'
<1>1. \A c \in Chats : PageRequest(c)' = NoRequest
  <2> SUFFICES ASSUME NEW c \in Chats, PageRequest(c)' # NoRequest PROVE FALSE
    OBVIOUS
  <2>1. view.sid = c
    BY DEF Composer
  <2>2. view'.sid # c
    BY <2>1
  <2> QED BY <2>1, <2>2 DEF Cancels
<1> QED BY <1>1 DEF Composer

LEMMA ComposerNext ==
  ASSUME Typed, Typed', Composer, [Next]_vars, Cancels PROVE Composer'
<1> USE PageRequests
<1>1. ASSUME UNCHANGED <<mounts, request, cache>>, view'.mounted = view.mounted,
             view'.sid = view.sid, view'.recovered = view.recovered
      PROVE  Composer'
  BY <1>1, ComposerStill
<1>2. CASE Mount
  <2>1. ~view.mounted /\ \A c \in Chats : view.sid # c
    BY <1>2, MountedWhen, WebAssumption DEF Mount
  <2>2. \A c \in Chats : PageRequest(c)' = NoRequest
    BY <1>2, <2>1 DEF Mount, Composer
  <2>3. mounts' > 0
    BY <1>2 DEF Mount, Typed
  <2>4. ~view'.recovered
    BY <1>2 DEF Mount, NoView
  <2> QED BY <2>2, <2>3, <2>4 DEF Composer
<1>3. CASE Unmount \/ Reload \/ NewSession
  <2>1. \A c \in Chats : PageRequest(c)' \in {PageRequest(c), NoRequest}
    BY <1>3 DEF Unmount, NewSession, Reload, PageRequest, Requests
  <2>2. view'.sid = None /\ mounts' = mounts /\ (view'.mounted => view.mounted)
    <3>1. CASE NewSession
      BY <3>1 DEF NewSession, Typed, Views
    <3>2. CASE Unmount \/ Reload
      BY <3>2 DEF Unmount, Reload, NoView
    <3> QED BY <1>3, <3>1, <3>2
  <2> QED BY <2>1, <2>2, ComposerLeaves, WebAssumption
<1>4. ASSUME NEW q \in Requests, RequestStep(q) PROVE Composer'
  <2>1. UNCHANGED <<mounts, view, cache>>
    BY <1>4 DEF RequestStep, MintForRequest, AnswerRequest, RequestFrame
  <2>2. request'[q].pc \in {"mint", "ask", "answered"}
    <3>1. CASE MintForRequest(q)
      BY <3>1 DEF MintForRequest, Typed, RequestRecords
    <3>2. CASE AnswerRequest(q)
      <4>1. \/ \E o, ts : request' = [request EXCEPT ![q] =
               [request[q] EXCEPT !.pc = "answered", !.bearer = None, !.outcome = o, !.turns = ts]]
            \/ request' = [request EXCEPT ![q].pc = "mint", ![q].second = TRUE]
        BY <3>2 DEF AnswerRequest
      <4>2. ASSUME NEW o, NEW ts, request' = [request EXCEPT ![q] =
               [request[q] EXCEPT !.pc = "answered", !.bearer = None, !.outcome = o, !.turns = ts]]
            PROVE  request'[q].pc = "answered"
        BY <4>2 DEF Typed, RequestRecords
      <4>3. CASE request' = [request EXCEPT ![q].pc = "mint", ![q].second = TRUE]
        BY <4>3 DEF Typed, RequestRecords
      <4> QED BY <4>1, <4>2, <4>3
    <3> QED BY <1>4, <3>1, <3>2 DEF RequestStep
  <2>3. ASSUME NEW c \in Chats
        PROVE  \/ PageRequest(c)' = PageRequest(c)
               \/ /\ PageRequest(c) # NoRequest /\ PageRequest(c)' # NoRequest
                  /\ PageRequest(c)'.mount = PageRequest(c).mount
    BY <1>4, <2>2, RequestMoves DEF RequestStep, PageRequest
  <2> QED BY <2>1, <2>3, ComposerStill
<1>5. ASSUME NEW c \in Chats, Fetch(c) \/ Reconnect(c) PROVE Composer'
  <2>1. PICK r : /\ r = [NoRequest EXCEPT !.pc = IF token = None THEN "mint" ELSE "ask",
                                     !.bearer = token, !.epoch = view.epoch, !.mount = mounts]
                 /\ request' = [request EXCEPT ![<<"page", c>>] = r]
    BY <1>5 DEF Fetch, Reconnect, StartRequest
  <2>2. r.pc # "none" /\ r.mount = mounts
    BY <2>1 DEF NoRequest
  <2>3. \A d \in Chats : PageRequest(d)' = IF d = c THEN r ELSE PageRequest(d)
    <3>1. request' = [request EXCEPT ![<<"page", c>>] = r]
      BY <2>1
    <3> QED BY <3>1
  <2>4. /\ view.mounted /\ view.sid = c /\ mounts' = mounts
        /\ view'.mounted = view.mounted /\ view'.sid = view.sid
    BY <1>5 DEF Fetch, Reconnect, Typed, Views
  <2>5. PageRequest(c)' # NoRequest /\ PageRequest(c)'.mount = mounts
    BY <2>2, <2>3
  <2>6. \A d \in Chats : PageRequest(d)' # NoRequest => view'.sid = d /\ PageRequest(d)'.mount = mounts'
    BY <2>3, <2>4, <2>5 DEF Composer
  <2> QED BY <2>4, <2>5, <2>6 DEF Composer
<1>6. ASSUME NEW c \in Chats, Arrive(c) PROVE Composer'
  <2> DEFINE r == PageRequest(c)
  <2>1. r.pc = "answered" /\ view.sid = c /\ r.mount = mounts
    BY <1>6 DEF Arrive, Composer, PageRequest
  <2>2. \A d \in Chats : PageRequest(d)' = IF d = c THEN NoRequest ELSE PageRequest(d)
    BY <1>6 DEF Arrive
  <2>3. /\ mounts' = mounts /\ view'.mounted = view.mounted /\ view'.sid = view.sid
    BY <1>6 DEF Arrive, Typed, Views
  <2>4. view.mounted /\ mounts > 0 /\ mounts \in Nat
    BY <2>1, MountedWhen, WebAssumption DEF Composer, Typed
  <2>5. cache'[c].failed \/ OwnData(c)'
    <3>1. CASE cache' = [cache EXCEPT ![c].failed = TRUE]
      BY <3>1 DEF Typed, CacheRecords
    <3>2. CASE cache' = [cache EXCEPT ![c] =
                            [data |-> [turns |-> r.turns, found |-> r.outcome = "ok",
                                       epoch |-> r.epoch, mount |-> r.mount],
                             failed |-> FALSE]]
      <4>1. cache'[c].data.mount = mounts
        BY <2>1, <3>2 DEF Typed
      <4>2. NoData.mount = 0
        BY DEF NoData
      <4> QED BY <2>3, <2>4, <4>1, <4>2 DEF OwnData, Cached
    <3> QED BY <1>6, <3>1, <3>2 DEF Arrive, PageRequest
  <2>6. \A d \in Chats : PageRequest(d)' # NoRequest => view'.sid = d /\ PageRequest(d)'.mount = mounts'
    BY <2>2, <2>3 DEF Composer
  <2> QED BY <2>1, <2>3, <2>4, <2>5, <2>6 DEF Composer
<1>7. ASSUME NEW c \in Chats, ShowTranscript(c) PROVE Composer'
  <2>1. /\ UNCHANGED <<mounts, cache>> /\ view'.mounted = view.mounted
        /\ view'.recovered = view.recovered /\ view.sid = c
    BY <1>7 DEF ShowTranscript, Typed, Views
  <2>2. CASE Forgets(c)
    <3>1. view'.sid = None
      BY <1>7, <2>2 DEF ShowTranscript, Typed, Views
    <3>2. \A d \in Chats : PageRequest(d)' \in {PageRequest(d), NoRequest}
      BY <1>7, ShownDropsRequests DEF PageRequest, Requests
    <3> QED BY <2>1, <3>1, <3>2, ComposerLeaves, WebAssumption
  <2>3. CASE ~Forgets(c)
    <3>1. view'.sid = view.sid /\ UNCHANGED request
      BY <1>7, <2>3 DEF ShowTranscript, Typed, Views
    <3> QED BY <1>1, <2>1, <3>1
  <2> QED BY <2>2, <2>3
<1>8. ASSUME NEW c \in Chats, OpenHistory(c) PROVE Composer'
  <2>1. PICK r : request' = [request EXCEPT ![<<"drawer", c>>] = r]
    BY <1>8 DEF OpenHistory, StartRequest
  <2>2. \A d \in Chats : PageRequest(d)' = PageRequest(d)
    BY <2>1
  <2>3. UNCHANGED <<mounts, view, cache>>
    BY <1>8 DEF OpenHistory
  <2> QED BY <2>2, <2>3, ComposerStill
<1>9. ASSUME NEW c \in Chats, ArriveDrawer(c) PROVE Composer'
  <2> DEFINE rest == [request EXCEPT ![<<"drawer", c>>] = NoRequest]
  <2>1. mounts' = mounts
    BY <1>9 DEF ArriveDrawer
  <2>2. \A d \in Chats : PageRequest(d)' \in {PageRequest(d), NoRequest}
    BY <1>9, DrawerDropsRequests DEF PageRequest, Requests
  <2>3. request' = rest => \A d \in Chats : PageRequest(d)' = PageRequest(d)
    OBVIOUS
  <2>4. CASE view.mounted /\ \E ts : Adopt(c, ts)
    <3>1. /\ view'.sid = c /\ view'.mounted = view.mounted /\ view'.recovered = view.recovered
      BY <2>4 DEF Adopt, Typed, Views
    <3>2. OwnData(c)' /\ \A d \in Chats : d # c => cache'[d] = cache[d]
      BY <2>1, <2>4 DEF Adopt, OwnData, Cached, NoData, Typed
    <3>3. CASE view.sid = c
      <4>1. request' = rest
        BY <1>9, <3>3 DEF ArriveDrawer, Abandoning
      <4> QED BY <2>1, <2>3, <3>1, <3>2, <3>3, <4>1, ComposerStill
    <3>4. CASE view.sid # c
      BY <2>1, <2>2, <3>1, <3>2, <3>4, ComposerLeaves
    <3> QED BY <3>3, <3>4
  <2>5. CASE UNCHANGED <<view, cache>> /\ request' = rest
    BY <2>1, <2>3, <2>5, ComposerStill
  <2>6. CASE ~view.mounted
    <3>1. view.sid = None
      BY <2>6, MountedWhen
    <3>2. request' = rest
      BY <1>9, <3>1 DEF ArriveDrawer, Abandoning
    <3>3. UNCHANGED <<view, cache>>
      BY <1>9, <2>6 DEF ArriveDrawer, Adopt
    <3> QED BY <2>5, <3>2, <3>3
  <2> QED BY <1>9, <2>4, <2>5, <2>6 DEF ArriveDrawer
<1>10. ASSUME NEW t \in Turns, Send(t) \/ TurnStep(t) PROVE Composer'
  <2>1. UNCHANGED <<mounts, request, cache>>
    BY <1>10 DEF TurnStep, Send, MintForTurn, PostTurn, Meta, FinishTurn, FailTurn, TurnFrame
  <2>2. view'.mounted = view.mounted /\ view'.sid = view.sid /\ view'.recovered = view.recovered
    <3>1. CASE Send(t)
      BY <3>1 DEF Send, Typed, Views
    <3>2. CASE MintForTurn(t) \/ PostTurn(t) \/ Meta(t)
      BY <3>2 DEF MintForTurn, PostTurn, Meta, Typed, Views
    <3>3. CASE FinishTurn(t) \/ FailTurn(t)
      BY <3>3 DEF FinishTurn, FailTurn, Settled, Typed, Views
    <3> QED BY <1>10, <3>1, <3>2, <3>3 DEF TurnStep
  <2> QED BY <1>1, <2>1, <2>2
<1>11. CASE UNCHANGED vars
  BY <1>1, <1>11 DEF vars
<1>12. CASE \E u \in Users : Reclaim(u)
  BY <1>1, <1>12 DEF Reclaim
<1> QED BY <1>2, <1>3, <1>4, <1>5, <1>6, <1>7, <1>8, <1>9, <1>10, <1>11, <1>12
        DEF Next, PageStep

\* A page never waits for a transcript that nobody will bring: it has a request of its
\* own under way or may make one.  A mount recovers only once (recoveryRequestedRef,
\* use-chat.ts), so this rests on the query library: were it to let the request of a
\* conversation the page left run on, the late result could replace the page's own
\* after the one recovery is used up.
THEOREM WaitingHasAWayOut == Spec /\ [][Cancels]_vars => []LoadingHasWayOut
<1>1. WebInv => Typed
  BY TypedMeans DEF WebInv
<1>2. WebInv /\ WebInv' /\ Composer /\ [Next]_vars /\ [Cancels]_vars => Composer'
  <2> SUFFICES ASSUME WebInv, WebInv', Composer, [Next]_vars, [Cancels]_vars PROVE Composer'
    OBVIOUS
  <2>1. Typed /\ Typed'
    BY TypedMeans DEF WebInv
  <2>2. UNCHANGED vars => Cancels
    BY DEF vars, Cancels
  <2> QED BY <2>1, <2>2, ComposerNext
<1>3. WebInv /\ Composer => LoadingHasWayOut
  BY <1>1, ComposerWayOut
<1> QED BY <1>2, <1>3, WebInvInit, WebInvNext, ComposerInit, PTL DEF Spec

-----------------------------------------------------------------------------
(* Consent. *)

\* localStorage and the map of a tab are tables of the chat's keys, an answer is one of
\* the reader's, and a recorded refusal leaves nothing in localStorage.  What the keys
\* hold does not matter.
IsTable(f) == f = [k \in ChatKeys |-> f[k]]
ConsentInv ==
  /\ IsTable(kept) /\ memory = [t \in Tabs |-> memory[t]] /\ \A t \in Tabs : IsTable(memory[t])
  /\ record \in Answers /\ tabChoice \in [Tabs -> Answers] /\ refusals \in Nat
  /\ record = "session-only" => kept = Nothing

LEMMA ConsentInvInit == ConsentInit => ConsentInv
BY DEF ConsentInit, ConsentInv, IsTable, Nothing, Answers

\* Past the gate a write of a tab reaches its map, and localStorage only where the
\* reader's answer allows it.
LEMMA SetKeepsConsentInv ==
  ASSUME ConsentInv, NEW t \in Tabs, NEW k \in ChatKeys, NEW v, Set(t, k, v)
  PROVE  ConsentInv'
<1>1. /\ memory' = [memory EXCEPT ![t][k] = v] /\ UNCHANGED <<record, tabChoice>>
      /\ kept' = kept \/ (Allowed(t) /\ kept' = [kept EXCEPT ![k] = v])
      /\ refusals' = refusals \/ refusals' = refusals + Cardinality({k})
  BY DEF Set, Refusing
<1>2. Cardinality({k}) = 1
  BY FS_Singleton
<1>3. IsTable(kept') /\ refusals' \in Nat
  BY <1>1, <1>2 DEF ConsentInv, IsTable
<1>4. memory' = [u \in Tabs |-> memory'[u]] /\ \A u \in Tabs : IsTable(memory'[u])
  <2>1. \A u \in Tabs : memory'[u] = IF u = t THEN [memory[t] EXCEPT ![k] = v] ELSE memory[u]
    BY <1>1 DEF ConsentInv
  <2>2. IsTable([memory[t] EXCEPT ![k] = v])
    BY DEF ConsentInv, IsTable
  <2> QED BY <1>1, <2>1, <2>2 DEF ConsentInv
<1>5. record = "session-only" => kept' = Nothing
  <2>1. record = "session-only" => ~Allowed(t)
    BY ConsentAssumption DEF Allowed, Choice
  <2> QED BY <1>1, <2>1 DEF ConsentInv
<1> QED BY <1>1, <1>3, <1>4, <1>5 DEF ConsentInv

LEMMA GrantKeepsConsentInv ==
  ASSUME ConsentInv, NEW t \in Tabs, Grant(t)
  PROVE  /\ ConsentInv'
         /\ refusals' = refusals =>
              /\ record' = "store"
              /\ \A k \in ChatKeys : memory[t][k] # Null => kept'[k] = memory[t][k]
         /\ UNCHANGED memory
<1> DEFINE Offered == {"record"} \cup {k \in ChatKeys : memory[t][k] # Null}
<1>1. PICK refused \in SUBSET Offered :
        /\ SetConsent(t, "store", "record" \in refused)
        /\ Refusing(refused)
        /\ kept' = [k \in ChatKeys |->
                      IF Choice(t)' = "store" /\ memory[t][k] # Null /\ k \notin refused
                        THEN memory[t][k] ELSE kept[k]]
        /\ UNCHANGED memory
  BY DEF Grant
<1>2. IsFiniteSet(refused)
  <2>1. IsFiniteSet(ChatKeys)
    BY ConsentAssumption, FS_AddElement DEF ChatKeys
  <2>2. IsFiniteSet({k \in ChatKeys : memory[t][k] # Null})
    BY <2>1, FS_Subset
  <2>3. IsFiniteSet(Offered)
    BY <2>2, FS_Singleton, FS_Union
  <2> QED BY <2>3, FS_Subset
<1>3. Cardinality(refused) \in Nat /\ (Cardinality(refused) = 0 <=> refused = {})
  BY <1>2, FS_CardinalityType, FS_EmptySet
<1>4. refusals' \in Nat /\ (refusals' = refusals => refused = {})
  <2>1. refusals' = refusals + Cardinality(refused)
    BY <1>1 DEF Refusing
  <2> QED BY <1>3, <2>1 DEF ConsentInv
<1>5. /\ record' \in Answers /\ tabChoice' \in [Tabs -> Answers]
      /\ record' = record \/ record' = "store"
      /\ refused = {} => record' = "store"
  BY <1>1 DEF SetConsent, ConsentInv, Answers
<1>6. "session-only" # Null /\ "store" # Null
  BY ConsentAssumption
<1>7. Choice(t)' = IF record' # Null THEN record' ELSE tabChoice'[t]
  BY DEF Choice
<1>8. record' = "session-only" => kept' = Nothing
  <2> SUFFICES ASSUME record' = "session-only" PROVE kept' = Nothing
    OBVIOUS
  <2>1. record = "session-only" /\ Choice(t)' # "store"
    BY <1>5, <1>6, <1>7
  <2>2. kept' = [k \in ChatKeys |-> kept[k]]
    BY <1>1, <2>1
  <2> QED BY <2>1, <2>2 DEF ConsentInv, IsTable
<1>9. IsTable(kept')
  BY <1>1 DEF IsTable
<1>10. refusals' = refusals => \A k \in ChatKeys : memory[t][k] # Null => kept'[k] = memory[t][k]
  BY <1>1, <1>4, <1>5, <1>6, <1>7
<1> QED BY <1>1, <1>4, <1>5, <1>8, <1>9, <1>10 DEF ConsentInv

LEMMA WithdrawKeepsConsentInv ==
  ASSUME ConsentInv, NEW t \in Tabs, Withdraw(t)
  PROVE  /\ ConsentInv' /\ kept' = Nothing
         /\ memory' = [memory EXCEPT ![t] = Forgotten(t)]
<1>1. PICK refused \in SUBSET {"record"} :
        /\ SetConsent(t, "session-only", refused # {})
        /\ Refusing(refused)
        /\ memory' = [memory EXCEPT ![t] = Forgotten(t)]
        /\ kept' = Nothing
  BY DEF Withdraw
<1>2. Cardinality(refused) \in Nat
  BY FS_Singleton, FS_Subset, FS_CardinalityType
<1>3. refusals' \in Nat
  BY <1>1, <1>2 DEF Refusing, ConsentInv
<1>4. record' \in Answers /\ tabChoice' \in [Tabs -> Answers]
  BY <1>1 DEF SetConsent, ConsentInv, Answers
<1>5. IsTable(kept') /\ IsTable(Forgotten(t))
  BY <1>1 DEF IsTable, Nothing, Forgotten
<1>6. memory' = [u \in Tabs |-> memory'[u]] /\ \A u \in Tabs : IsTable(memory'[u])
  BY <1>1, <1>5 DEF ConsentInv
<1> QED BY <1>1, <1>3, <1>4, <1>5, <1>6 DEF ConsentInv

LEMMA ConsentInvNext == ConsentInv /\ [ConsentNext]_consentVars => ConsentInv'
<1> SUFFICES ASSUME ConsentInv, [ConsentNext]_consentVars PROVE ConsentInv'
  OBVIOUS
<1>1. ASSUME NEW t \in Tabs, CloseTab(t) PROVE ConsentInv'
  <2>1. memory' = [memory EXCEPT ![t] = Nothing] /\ IsTable(Nothing)
    BY <1>1 DEF CloseTab, IsTable, Nothing
  <2>2. memory' = [u \in Tabs |-> memory'[u]] /\ \A u \in Tabs : IsTable(memory'[u])
    BY <2>1 DEF ConsentInv
  <2> QED BY <1>1, <2>2 DEF CloseTab, ConsentInv, Answers
<1>2. ASSUME NEW t \in Tabs, NEW k \in ChatKeys, StorageRemove(t, k) PROVE ConsentInv'
  <2>1. kept' = [kept EXCEPT ![k] = Null] /\ memory' = [memory EXCEPT ![t][k] = Null]
    BY <1>2 DEF StorageRemove
  <2>2. IsTable(kept') /\ (kept = Nothing => kept' = Nothing)
    BY <2>1 DEF ConsentInv, IsTable, Nothing
  <2>3. \A u \in Tabs : memory'[u] = IF u = t THEN [memory[t] EXCEPT ![k] = Null] ELSE memory[u]
    BY <2>1 DEF ConsentInv
  <2>4. IsTable([memory[t] EXCEPT ![k] = Null])
    BY DEF ConsentInv, IsTable
  <2>5. memory' = [u \in Tabs |-> memory'[u]] /\ \A u \in Tabs : IsTable(memory'[u])
    BY <2>1, <2>3, <2>4 DEF ConsentInv
  <2> QED BY <1>2, <2>2, <2>5 DEF StorageRemove, ConsentInv
<1>3. ASSUME NEW t \in Tabs, NEW k \in ChatKeys, NEW c \in Ids, Save(t, k, c) PROVE ConsentInv'
  BY <1>3, SetKeepsConsentInv DEF Save
<1>4. ASSUME NEW t \in Tabs, MarkExpired(t) \/ \E c \in Ids : Archive(t, c) \/ RemoveEntry(t, c)
      PROVE  ConsentInv'
  <2>1. \E list : SaveList(t, list)
    BY <1>4 DEF MarkExpired, Archive, RemoveEntry
  <2>2. History \in ChatKeys
    BY DEF ChatKeys
  <2> QED BY <2>1, <2>2, SetKeepsConsentInv DEF SaveList
<1>5. CASE ClearSite
  BY <1>5 DEF ClearSite, ConsentInv, IsTable, Nothing, Answers
<1>6. CASE UNCHANGED consentVars
  BY <1>6 DEF consentVars, ConsentInv
<1> QED BY <1>1, <1>2, <1>3, <1>4, <1>5, <1>6, GrantKeepsConsentInv, WithdrawKeepsConsentInv
        DEF ConsentNext

\* The storage of the tabs alone.
ConsentSpec == ConsentInit /\ [][ConsentNext]_consentVars

\* After a recorded refusal localStorage holds nothing of the chat, whichever tab writes
\* and whatever that tab was told before; and neither answer takes a value from the tab
\* that gives it, if no write was refused (consent.ts, chat-storage.ts).
THEOREM ConsentHonoured == ConsentSpec => ConsentIsHonoured
<1> DEFINE Step ==
      /\ record' = "session-only" => kept' = Nothing
      /\ \A t \in Tabs, k \in ChatKeys :
           \/ Allowed(t) /\ Withdraw(t)
           \/ ~Allowed(t) /\ memory[t][k] # Null /\ refusals' = refusals /\ Grant(t)
           => Value(t, k)' = Value(t, k)
<1>1. ConsentInv /\ [ConsentNext]_consentVars => [Step]_consentVars
  <2> SUFFICES ASSUME ConsentInv, [ConsentNext]_consentVars PROVE Step
    OBVIOUS
  <2>1. record' = "session-only" => kept' = Nothing
    BY ConsentInvNext DEF ConsentInv
  <2>2. ASSUME NEW t \in Tabs, NEW k \in ChatKeys, Allowed(t), Withdraw(t)
        PROVE  Value(t, k)' = Value(t, k)
    <3>1. kept'[k] = Null /\ memory'[t][k] = Forgotten(t)[k]
      BY <2>2, WithdrawKeepsConsentInv DEF ConsentInv, Nothing
    <3>2. Value(t, k)' = memory'[t][k]
      BY <3>1 DEF Value
    <3> QED BY <2>2, <3>1, <3>2 DEF Value, Forgotten
  <2>3. ASSUME NEW t \in Tabs, NEW k \in ChatKeys, ~Allowed(t), memory[t][k] # Null,
               refusals' = refusals, Grant(t)
        PROVE  Value(t, k)' = Value(t, k)
    <3>1. record' = "store" /\ kept'[k] = memory[t][k] /\ memory' = memory
      BY <2>3, GrantKeepsConsentInv
    <3>2. Allowed(t)'
      BY <3>1, ConsentAssumption DEF Allowed, Choice
    <3> QED BY <2>3, <3>1, <3>2 DEF Value
  <2> QED BY <2>1, <2>2, <2>3
<1> QED BY <1>1, ConsentInvInit, ConsentInvNext, PTL DEF ConsentSpec, ConsentIsHonoured
-----------------------------------------------------------------------------
(* The list of conversations. *)

LEMMA SmallestIn ==
  ASSUME NEW S \in SUBSET Nat, S # {}
  PROVE  \E m \in S : \A n \in S : m <= n
<1>1. PICK m \in S : \A n \in S : ~(<<n, m>> \in OpToRel(<, Nat))
  BY NatLessThanWellFounded, WFMin, Zenon
<1>2. \A n \in S : <<n, m>> \in OpToRel(<, Nat) <=> n < m
  BY DEF OpToRel
<1>3. \A n \in S : ~(n < m)
  BY <1>1, <1>2
<1>4. \A n \in S : m <= n
  BY <1>3
<1> QED BY <1>4

\* The place of a position among those a filter leaves.
Place(left, i) == Cardinality({j \in left : j < i})

\* Every place is taken by one of the positions.
LEMMA PlacesTaken ==
  ASSUME NEW left \in SUBSET Nat, IsFiniteSet(left), NEW k \in Nat, k < Cardinality(left)
  PROVE  \E i \in left : Place(left, i) = k
<1> DEFINE Bad == {n \in Nat : n < Cardinality(left) /\ \A i \in left : Place(left, i) # n}
<1>0. Cardinality(left) \in Nat /\ \A i \in left : i \in Nat
  BY FS_CardinalityType
<1>1. Bad = {}
  <2> SUFFICES ASSUME Bad # {} PROVE FALSE
    OBVIOUS
  <2>1. PICK n \in Bad : \A j \in Bad : n <= j
    BY SmallestIn
  <2>2. n \in Nat /\ n < Cardinality(left) /\ \A i \in left : Place(left, i) # n
    OBVIOUS
  <2>3. CASE n = 0
    <3>1. left # {}
      BY <2>2, <2>3, FS_EmptySet
    <3>2. PICK i \in left : \A j \in left : i <= j
      BY <3>1, SmallestIn
    <3>3. \A j \in left : ~(j < i)
      BY <1>0, <3>2
    <3>4. {j \in left : j < i} = {}
      BY <3>3
    <3>5. Place(left, i) = 0
      BY <3>4, FS_EmptySet DEF Place
    <3> QED BY <2>2, <2>3, <3>5
  <2>4. CASE n # 0
    <3>1. n - 1 \in Nat /\ n - 1 < Cardinality(left) /\ ~(n <= n - 1)
      BY <1>0, <2>2, <2>4
    <3>2. n - 1 \notin Bad
      BY <2>1, <3>1
    <3>3. PICK i \in left : Place(left, i) = n - 1
      BY <3>1, <3>2
    <3> DEFINE Below == {j \in left : j < i}
               Above == {j \in left : i < j}
    <3>4. IsFiniteSet(Below) /\ Cardinality(Below) = n - 1
      BY <3>3, FS_Subset DEF Place
    <3>5. Cardinality(Below \cup {i}) = n
      <4>1. i \notin Below
        OBVIOUS
      <4>2. Cardinality(Below \cup {i}) = Cardinality(Below) + 1
        BY <3>4, <4>1, FS_AddElement
      <4> HIDE DEF Below
      <4> QED BY <2>2, <3>4, <4>2
    <3>6. \A j \in left : j < i \/ j = i \/ i < j
      BY <1>0
    <3>7. Above # {}
      <4> SUFFICES ASSUME Above = {} PROVE FALSE
        OBVIOUS
      <4>1. left = Below \cup {i}
        BY <3>6
      <4>2. Cardinality(left) = n
        BY <3>5, <4>1
      <4> QED BY <2>2, <4>2, <1>0
    <3>8. PICK q \in Above : \A j \in Above : q <= j
      BY <3>7, SmallestIn
    <3>9. {j \in left : j < q} = Below \cup {i}
      <4>1. q \in left /\ i < q
        BY <3>8
      <4>2. \A j \in left : i < j => ~(j < q)
        BY <1>0, <3>8
      <4>3. \A j \in left : j < i => j < q
        BY <1>0, <4>1
      <4> QED BY <3>6, <4>1, <4>2, <4>3
    <3>10. Place(left, q) = n
      BY <3>5, <3>9 DEF Place
    <3> QED BY <2>2, <3>8, <3>10
  <2> QED BY <2>3, <2>4
<1> QED BY <1>1

NamesOnce(list) == \A m, n \in DOMAIN list : list[m] = list[n] => m = n

\* What a filter leaves of a list that names no conversation twice is such a list, no
\* longer than it was, and without the one that is filtered out.
LEMMA WithoutLeavesAList ==
  ASSUME NEW list \in Seq(Ids), NEW c \in Ids, NamesOnce(list)
  PROVE  /\ Without(list, c) \in Seq(Ids) /\ NamesOnce(Without(list, c))
         /\ Len(Without(list, c)) <= Len(list)
         /\ \A n \in DOMAIN Without(list, c) : Without(list, c)[n] # c
<1> DEFINE left == {i \in DOMAIN list : list[i] # c}
           At(n) == CHOOSE i \in left : Place(left, i) = n - 1
           N == Cardinality(left)
           f == [n \in 1..N |-> list[At(n)]]
<1>1. Len(list) \in Nat /\ DOMAIN list = 1..Len(list)
  OBVIOUS
<1>2. /\ left \in SUBSET Nat /\ IsFiniteSet(left)
      /\ N \in Nat /\ N <= Len(list)
  <2> DEFINE L == Len(list)
  <2>0. L \in Nat
    BY <1>1
  <2>1. IsFiniteSet(1..L) /\ Cardinality(1..L) = L
    <3> HIDE DEF L
    <3> QED BY <2>0, FS_Interval
  <2>2. left \subseteq 1..L
    BY <1>1
  <2>3. IsFiniteSet(left) /\ N <= L
    <3> HIDE DEF L, left
    <3> QED BY <2>1, <2>2, FS_Subset
  <2>4. left \in SUBSET Nat
    BY <2>2
  <2> QED BY <2>3, <2>4, FS_CardinalityType
<1>3. \A n \in 1..N : At(n) \in left /\ Place(left, At(n)) = n - 1
  <2> SUFFICES ASSUME NEW n \in 1..N PROVE At(n) \in left /\ Place(left, At(n)) = n - 1
    OBVIOUS
  <2>1. n - 1 \in Nat /\ n - 1 < N
    BY <1>2
  <2>2. \E i \in left : Place(left, i) = n - 1
    <3> HIDE DEF left
    <3> QED BY <1>2, <2>1, PlacesTaken
  <2> HIDE DEF left
  <2> QED BY <2>2
<1>4. Without(list, c) = f
  BY DEF Without, Place
<1>5. \A n \in 1..N : f[n] = list[At(n)] /\ f[n] \in Ids /\ f[n] # c /\ At(n) \in DOMAIN list
  <2> SUFFICES ASSUME NEW n \in 1..N
               PROVE  /\ f[n] = list[At(n)] /\ f[n] \in Ids /\ f[n] # c
                      /\ At(n) \in DOMAIN list
    OBVIOUS
  <2>1. At(n) \in left
    BY <1>3
  <2>2. At(n) \in DOMAIN list /\ list[At(n)] # c
    <3> HIDE DEF At
    <3> QED BY <2>1
  <2>3. f[n] = list[At(n)]
    <3> HIDE DEF At, N
    <3> QED OBVIOUS
  <2> HIDE DEF f, At
  <2> QED BY <1>1, <2>2, <2>3
<1>6. f \in Seq(Ids) /\ Len(f) = N /\ DOMAIN f = 1..N
  <2> HIDE DEF At, left, N
  <2>1. f \in [1..N -> Ids]
    BY <1>5
  <2> QED BY <1>2, <2>1
<1>7. NamesOnce(f)
  <2> SUFFICES ASSUME NEW m \in 1..N, NEW n \in 1..N, f[m] = f[n] PROVE m = n
    BY <1>6 DEF NamesOnce
  <2>1. At(m) = At(n)
    <3> HIDE DEF At, left, N, f
    <3> QED BY <1>5 DEF NamesOnce
  <2>2. m - 1 = n - 1
    <3> HIDE DEF At, left, N, f
    <3> QED BY <1>3, <2>1
  <2> QED BY <1>2, <2>2
<1> HIDE DEF f, N, left, At
<1> QED BY <1>2, <1>4, <1>5, <1>6, <1>7

\* What a key holds, in localStorage or in the map of a tab.
ListHeld(v) == v = Null \/ (v \in Seq(Ids) /\ Len(v) <= HistoryLimit /\ NamesOnce(v))
Held(f) == (\A k \in Keys : f[k] \in Ids \cup {Null}) /\ ListHeld(f[History])
ConsentTyped ==
  /\ ConsentInv /\ refusals \in 0 .. MaxRefusals
  /\ Held(kept) /\ \A t \in Tabs : Held(memory[t])

LEMMA ConsentTypedMeans == ConsentTyped => ConsentTypeOK
BY DEF ConsentTyped, ConsentInv, ConsentTypeOK, Held, ListHeld

LEMMA NothingHeld == Held(Nothing)
BY ConsentAssumption DEF Held, ListHeld, Nothing, ChatKeys

LEMMA ConsentTypedInit == ConsentInit => ConsentTyped
BY NothingHeld, ConsentInvInit, ConsentAssumption DEF ConsentInit, ConsentTyped

\* One value of a table is written.
LEMMA WriteHeld ==
  ASSUME NEW f, IsTable(f), Held(f), NEW k \in ChatKeys, NEW v,
         k \in Keys => v \in Ids \cup {Null}, k = History => ListHeld(v)
  PROVE  Held([f EXCEPT ![k] = v])
<1>1. \A j \in ChatKeys : [f EXCEPT ![k] = v][j] = IF j = k THEN v ELSE f[j]
  BY DEF IsTable
<1>2. History \in ChatKeys /\ Keys \subseteq ChatKeys
  BY DEF ChatKeys
<1> QED BY <1>1, <1>2 DEF Held

\* A tab reads what one of its two places holds.
LEMMA ListedHeld ==
  ASSUME ConsentTyped, NEW t \in Tabs
  PROVE  Listed(t) \in Seq(Ids) /\ Len(Listed(t)) <= HistoryLimit /\ NamesOnce(Listed(t))
<1>1. ListHeld(Value(t, History))
  BY DEF ConsentTyped, Held, Value
<1>2. <<>> \in Seq(Ids) /\ Len(<<>>) <= HistoryLimit /\ NamesOnce(<<>>)
  BY ConsentAssumption DEF NamesOnce
<1> QED BY <1>1, <1>2 DEF Listed, ListHeld

LEMMA ArchivedHeld ==
  ASSUME NEW list \in Seq(Ids), NamesOnce(list), Len(list) <= HistoryLimit, NEW c \in Ids
  PROVE  LET new == <<c>> \o Without(list, c)
         IN  ListHeld(SubSeq(new, 1, IF Len(new) < HistoryLimit THEN Len(new) ELSE HistoryLimit))
<1> DEFINE rest == Without(list, c)
           new == <<c>> \o rest
           L == IF Len(new) < HistoryLimit THEN Len(new) ELSE HistoryLimit
           cut == SubSeq(new, 1, L)
<1>1. /\ rest \in Seq(Ids) /\ NamesOnce(rest)
      /\ \A n \in DOMAIN rest : rest[n] # c
  BY WithoutLeavesAList
<1> HIDE DEF rest
<1>2. new \in Seq(Ids) /\ Len(new) = Len(rest) + 1 /\ Len(rest) \in Nat
  BY <1>1
<1>3. new[1] = c /\ \A n \in 2..Len(new) : n - 1 \in DOMAIN rest /\ new[n] = rest[n - 1]
  BY <1>1
<1>4. NamesOnce(new)
  <2> SUFFICES ASSUME NEW m \in 1..Len(new), NEW n \in 1..Len(new), new[m] = new[n] PROVE m = n
    BY <1>2 DEF NamesOnce
  <2>1. m = 1 \/ m \in 2..Len(new)
    BY <1>2
  <2>2. n = 1 \/ n \in 2..Len(new)
    BY <1>2
  <2> HIDE DEF new
  <2>3. CASE m = 1 \/ n = 1
    BY <1>1, <1>3, <2>1, <2>2, <2>3
  <2>4. CASE m \in 2..Len(new) /\ n \in 2..Len(new)
    <3>1. m - 1 = n - 1
      BY <1>1, <1>3, <2>4 DEF NamesOnce
    <3> QED BY <3>1, <1>2
  <2> QED BY <2>1, <2>2, <2>3, <2>4
<1> HIDE DEF new
<1>5. L \in Nat /\ L <= Len(new) /\ L <= HistoryLimit
  BY <1>2, ConsentAssumption
<1>6. cut \in Seq(Ids) /\ Len(cut) = L /\ DOMAIN cut = 1..L /\ \A n \in 1..L : cut[n] = new[n]
  <2> HIDE DEF L
  <2> QED BY <1>2, <1>5
<1>7. NamesOnce(cut)
  <2> HIDE DEF L, cut
  <2>1. \A n \in 1..L : n \in DOMAIN new
    BY <1>2, <1>5
  <2> QED BY <1>4, <1>6, <2>1 DEF NamesOnce
<1>8. ListHeld(cut)
  BY <1>5, <1>6, <1>7 DEF ListHeld
<1> QED BY <1>8 DEF new, rest

LEMMA SetHeld ==
  ASSUME ConsentTyped, NEW t \in Tabs, NEW k \in ChatKeys, NEW v, Set(t, k, v),
         k \in Keys => v \in Ids \cup {Null}, k = History => ListHeld(v)
  PROVE  ConsentTyped'
<1>1. /\ memory' = [memory EXCEPT ![t][k] = v]
      /\ kept' = kept \/ kept' = [kept EXCEPT ![k] = v]
      /\ refusals' = refusals \/ Refusing({k})
  BY DEF Set
<1>2. ConsentInv'
  BY SetKeepsConsentInv DEF ConsentTyped
<1>3. Held(kept')
  BY <1>1, WriteHeld DEF ConsentTyped, ConsentInv
<1>4. \A u \in Tabs : memory'[u] = IF u = t THEN [memory[t] EXCEPT ![k] = v] ELSE memory[u]
  BY <1>1 DEF ConsentTyped, ConsentInv
<1>5. Held([memory[t] EXCEPT ![k] = v])
  BY WriteHeld DEF ConsentTyped, ConsentInv
<1>6. \A u \in Tabs : Held(memory'[u])
  BY <1>4, <1>5 DEF ConsentTyped
<1>7. refusals' \in 0 .. MaxRefusals
  BY <1>1, <1>2, ConsentAssumption DEF ConsentTyped, Refusing, ConsentInv
<1> QED BY <1>2, <1>3, <1>6, <1>7 DEF ConsentTyped

LEMMA ConsentTypedNext == ConsentTyped /\ [ConsentNext]_consentVars => ConsentTyped'
<1> SUFFICES ASSUME ConsentTyped, [ConsentNext]_consentVars PROVE ConsentTyped'
  OBVIOUS
<1>0. ConsentInv' /\ refusals' \in Nat
  BY ConsentInvNext DEF ConsentTyped, ConsentInv
<1>1. ASSUME NEW t \in Tabs, CloseTab(t) PROVE ConsentTyped'
  BY <1>0, <1>1, NothingHeld DEF CloseTab, ConsentTyped, ConsentInv
<1>2. ASSUME NEW t \in Tabs, NEW k \in ChatKeys, StorageRemove(t, k) PROVE ConsentTyped'
  <2>1. Null \in Ids \cup {Null} /\ ListHeld(Null)
    BY DEF ListHeld
  <2>2. Held([kept EXCEPT ![k] = Null]) /\ Held([memory[t] EXCEPT ![k] = Null])
    BY <2>1, WriteHeld DEF ConsentTyped, ConsentInv
  <2>3. \A u \in Tabs : memory'[u] = IF u = t THEN [memory[t] EXCEPT ![k] = Null] ELSE memory[u]
    BY <1>2 DEF StorageRemove, ConsentTyped, ConsentInv
  <2>4. \A u \in Tabs : Held(memory'[u])
    BY <2>2, <2>3 DEF ConsentTyped
  <2> QED BY <1>0, <1>2, <2>2, <2>4 DEF StorageRemove, ConsentTyped
<1>3. ASSUME NEW t \in Tabs, NEW k \in ChatKeys, NEW c \in Ids, Save(t, k, c) PROVE ConsentTyped'
  BY <1>3, SetHeld, ConsentAssumption DEF Save
<1>4. ASSUME NEW t \in Tabs, NEW list, ListHeld(list), SaveList(t, list) PROVE ConsentTyped'
  <2>1. History \in ChatKeys /\ History \notin Keys
    BY ConsentAssumption DEF ChatKeys
  <2> QED BY <1>4, <2>1, SetHeld DEF SaveList
<1>5. ASSUME NEW t \in Tabs, MarkExpired(t) PROVE ConsentTyped'
  BY <1>4, <1>5, ListedHeld DEF MarkExpired, ListHeld
<1>6. ASSUME NEW t \in Tabs, NEW c \in Ids, Archive(t, c) \/ RemoveEntry(t, c)
      PROVE  ConsentTyped'
  <2> DEFINE list == Listed(t)
             new == <<c>> \o Without(list, c)
             cut == SubSeq(new, 1, IF Len(new) < HistoryLimit THEN Len(new) ELSE HistoryLimit)
  <2>1. list \in Seq(Ids) /\ Len(list) <= HistoryLimit /\ NamesOnce(list)
    BY ListedHeld
  <2>2. SaveList(t, cut) \/ SaveList(t, Without(list, c))
    BY <1>6 DEF Archive, RemoveEntry
  <2> HIDE DEF list
  <2>3. ListHeld(cut)
    BY <2>1, ArchivedHeld
  <2>4. ListHeld(Without(list, c))
    <3> DEFINE rest == Without(list, c)
    <3>1. rest \in Seq(Ids) /\ NamesOnce(rest) /\ Len(rest) <= Len(list)
      BY <2>1, WithoutLeavesAList
    <3> HIDE DEF rest
    <3>2. Len(rest) <= HistoryLimit
      BY <2>1, <3>1, ConsentAssumption
    <3>3. ListHeld(rest)
      BY <3>1, <3>2 DEF ListHeld
    <3> QED BY <3>3 DEF rest
  <2> HIDE DEF cut
  <2> QED BY <1>4, <2>2, <2>3, <2>4
<1>7. ASSUME NEW t \in Tabs, Grant(t) PROVE ConsentTyped'
  <2>1. PICK refused \in SUBSET ({"record"} \cup {k \in ChatKeys : memory[t][k] # Null}) :
          /\ Refusing(refused)
          /\ kept' = [k \in ChatKeys |->
                        IF Choice(t)' = "store" /\ memory[t][k] # Null /\ k \notin refused
                          THEN memory[t][k] ELSE kept[k]]
          /\ UNCHANGED memory
    BY <1>7 DEF Grant
  <2>2. \A k \in ChatKeys : kept'[k] = memory[t][k] \/ kept'[k] = kept[k]
    BY <2>1
  <2>3. History \in ChatKeys /\ Keys \subseteq ChatKeys
    BY DEF ChatKeys
  <2>4. Held(kept')
    BY <2>2, <2>3 DEF ConsentTyped, Held
  <2>5. refusals' \in 0 .. MaxRefusals
    BY <1>0, <2>1, ConsentAssumption DEF Refusing
  <2> QED BY <1>0, <2>1, <2>4, <2>5 DEF ConsentTyped
<1>8. ASSUME NEW t \in Tabs, Withdraw(t) PROVE ConsentTyped'
  <2>1. kept' = Nothing /\ memory' = [memory EXCEPT ![t] = Forgotten(t)]
    BY <1>8, WithdrawKeepsConsentInv DEF ConsentTyped
  <2>2. refusals' \in 0 .. MaxRefusals
    BY <1>0, <1>8, ConsentAssumption DEF Withdraw, Refusing
  <2>3. \A k \in ChatKeys : Forgotten(t)[k] = memory[t][k] \/ Forgotten(t)[k] = kept[k]
    BY DEF Forgotten
  <2>4. History \in ChatKeys /\ Keys \subseteq ChatKeys
    BY DEF ChatKeys
  <2>5. Held(Forgotten(t))
    BY <2>3, <2>4 DEF ConsentTyped, Held
  <2>6. \A u \in Tabs : Held(memory'[u])
    BY <2>1, <2>5 DEF ConsentTyped, ConsentInv
  <2> QED BY <1>0, <2>1, <2>2, <2>6, NothingHeld DEF ConsentTyped
<1>9. CASE ClearSite
  BY <1>0, <1>9, NothingHeld DEF ClearSite, ConsentTyped
<1>10. CASE UNCHANGED consentVars
  BY <1>0, <1>10 DEF consentVars, ConsentTyped
<1> QED BY <1>1, <1>2, <1>3, <1>5, <1>6, <1>7, <1>8, <1>9, <1>10 DEF ConsentNext

\* Whatever the tabs write, the list of conversations, in localStorage or in the map of a
\* tab, names no conversation twice and never more than the cap (chat-history.ts).
ListNamesOnce ==
  \A v \in {kept} \cup {memory[t] : t \in Tabs} : v[History] # Null => NamesOnce(v[History])

\* The record, the keys in localStorage and the map of every tab keep their types, and
\* archiving, marking and removing rows (chat-history.ts) leave a list that names each
\* conversation once and keeps to its cap, in whatever order the tabs write.
THEOREM ConsentTypeCorrect == ConsentSpec => [](ConsentTypeOK /\ ListNamesOnce)
<1>1. ConsentTyped => ListNamesOnce
  BY DEF ConsentTyped, Held, ListHeld, ListNamesOnce
<1> QED BY <1>1, ConsentTypedMeans, ConsentTypedInit, ConsentTypedNext, PTL DEF ConsentSpec

-----------------------------------------------------------------------------
(* The page and the storage together. *)

\* Each step of the checked specification is one of the page (use-chat.ts) or one of the
\* storage (chat-storage.ts), so what is proved of either holds of it.
THEOREM WebImplementsParts == WebSpec => Spec /\ ConsentSpec
<1>1. WebInit => Init /\ ConsentInit
  BY DEF WebInit
<1>2. [Page \/ Browser]_webVars => [Next]_vars /\ [ConsentNext]_consentVars
  BY DEF Page, Browser, webVars, vars, consentVars
<1> QED BY <1>1, <1>2, PTL DEF WebSpec, Spec, ConsentSpec

\* Every state of the page, and every state of what the browser keeps (use-chat.ts,
\* chat-storage.ts), is well typed.
THEOREM WebTypeCorrect == WebSpec => []WebTypeOK
<1>1. TypeOK /\ ConsentTypeOK => WebTypeOK
  BY DEF WebTypeOK
<1> QED BY <1>1, WebImplementsParts, PageTypeCorrect, ConsentTypeCorrect, PTL
=============================================================================
