------------------------------- MODULE WebChat -------------------------------
(***************************************************************************)
(* The chat page of the web client: one browser tab in which the page is   *)
(* mounted, left and mounted again, over a server that keeps the answers.  *)
(*                                                                         *)
(*   turn[t]          a question being asked (chat-client.ts, use-chat.ts) *)
(*   request[w, c]    a transcript being rehydrated (chat-store.ts): for   *)
(*                    the page, through the query cache, or for a row of   *)
(*                    the history drawer                                   *)
(*   view             the state of the mounted page (use-chat.ts)          *)
(*                                                                         *)
(* Every await is a step boundary, and so is the gap between a change of   *)
(* the query cache and the effect that reads it.                           *)
(***************************************************************************)
EXTENDS Naturals

CONSTANTS Users, Chats, Turns,
          MaxMounts,  \* bound on how often the page is mounted
          MaxFaults,  \* bound on requests that fail and reloads
          None

ASSUME WebAssumption ==
  /\ MaxMounts \in Nat /\ MaxFaults \in Nat
  /\ None \notin Users \cup Chats

VARIABLES minted, valid,          \* users the server minted, and still accepts
          owner, answers,         \* the server's conversations
          token, stored, history, \* browser storage: token, session id, drawer
          mounts, view,
          turn, request, cache,
          faults

server == <<minted, valid, owner, answers>>
storage == <<token, stored, history>>
vars == <<server, storage, mounts, view, turn, request, cache, faults>>

Fault == faults < MaxFaults /\ faults' = faults + 1

Requests == {"page", "drawer"} \X Chats

-----------------------------------------------------------------------------
(* The server, as far as the page can tell. *)

Alive(c) == owner[c] \in valid
Readable(c) == owner[c] = token /\ Alive(c)

Minting(u) == u \notin minted /\ minted' = minted \cup {u} /\ valid' = valid \cup {u}

\* A user's token expires, or the user is erased; nobody else reads the conversation.
Reclaim(u) ==
  /\ u \in valid /\ valid' = valid \ {u}
  /\ UNCHANGED <<minted, owner, answers, storage, mounts, view, turn, request, cache, faults>>

-----------------------------------------------------------------------------
(* The page. *)

NoView == [mounted |-> FALSE, sid |-> None, live |-> None, shown |-> {}, busy |-> FALSE,
           epoch |-> 0, seen |-> {}, recovered |-> FALSE, owed |-> {}]
NoData == [turns |-> {}, found |-> FALSE, epoch |-> 0, mount |-> 0]
NoRequest == [pc |-> "none", bearer |-> None, second |-> FALSE, epoch |-> 0, mount |-> 0,
              outcome |-> "ok", turns |-> {}]
NoTurn == [pc |-> "unsent", bearer |-> None, second |-> FALSE, chat |-> None, mount |-> 0,
           mine |-> FALSE]

Cached(c) == cache[c].data # NoData
OwnData(c) == Cached(c) /\ cache[c].data.mount = mounts

\* loadingTranscript: what the page waits for before it lets the reader ask.
Loading == view.sid # None /\ ~OwnData(view.sid) /\ ~cache[view.sid].failed

Here(t) == view.mounted /\ turn[t].mount = mounts

\* What becomes of a request of the page for a conversation it no longer shows is up
\* to the query library.
Abandoning(requests, c) ==
  {requests, IF c = None THEN requests ELSE [requests EXCEPT ![<<"page", c>>] = NoRequest]}
Abandon(c) == request' \in Abandoning(request, c)

\* Rows of the drawer: one that expired can no longer be opened, archived again or not.
NoHistory == [c \in Chats |-> "absent"]
Archived(c) == IF history[c] = "absent" THEN [history EXCEPT ![c] = "kept"] ELSE history
Expired(c) == IF history[c] = "kept" THEN [history EXCEPT ![c] = "expired"] ELSE history

\* The questions asked so far are no longer this page's to show.
Leave == turn' = [t \in Turns |-> [turn[t] EXCEPT !.mine = FALSE]]

Mount ==
  /\ ~view.mounted /\ mounts < MaxMounts
  /\ mounts' = mounts + 1
  /\ view' = [NoView EXCEPT !.mounted = TRUE, !.sid = stored, !.live = stored,
                !.owed = {t \in Turns : turn[t].pc = "done" /\ turn[t].chat = stored}]
  /\ cache' = IF stored = None \/ Cached(stored) THEN cache
              ELSE [cache EXCEPT ![stored].failed = FALSE]
  /\ UNCHANGED <<server, storage, turn, request, faults>>

\* Navigation to another page; a turn under way goes on.
Unmount ==
  /\ view.mounted
  /\ view' = NoView
  /\ Leave /\ Abandon(view.sid)
  /\ UNCHANGED <<server, storage, mounts, cache, faults>>

\* The tab is reloaded; what was kept depends on the reader's consent.
Reload ==
  /\ Fault
  /\ \/ UNCHANGED storage
     \/ token' = None /\ stored' = None /\ history' = NoHistory
  /\ view' = NoView
  /\ turn' = [t \in Turns |->
                IF turn[t].pc \in {"unsent", "done"} THEN [turn[t] EXCEPT !.mine = FALSE]
                ELSE [NoTurn EXCEPT !.pc = "failed"]]
  /\ request' = [q \in Requests |-> NoRequest]
  /\ cache' = [c \in Chats |-> [data |-> NoData, failed |-> FALSE]]
  /\ UNCHANGED <<server, mounts>>

\* newSession, at any time.
NewSession ==
  /\ view.mounted
  /\ view' = [view EXCEPT !.sid = None, !.live = None, !.shown = {}]
  /\ stored' = None
  /\ history' = IF view.live # None /\ view.shown # {} THEN Archived(view.live) ELSE history
  /\ Leave /\ Abandon(view.sid)
  /\ UNCHANGED <<server, token, mounts, cache, faults>>

-----------------------------------------------------------------------------
(* Rehydration: bootstrap when there is no token, one retry after a 401. *)

StartRequest(q, epoch, mount) ==
  /\ request[q] = NoRequest
  /\ request' = [request EXCEPT ![q] =
                   [NoRequest EXCEPT !.pc = IF token = None THEN "mint" ELSE "ask",
                                     !.bearer = token, !.epoch = epoch, !.mount = mount]]

RequestFrame == UNCHANGED <<owner, answers, stored, history, mounts, view, turn, cache>>

MintForRequest(q) ==
  /\ request[q].pc = "mint"
  /\ \/ \E u \in Users :
          /\ Minting(u) /\ token' = u
          /\ request' = [request EXCEPT ![q].pc = "ask", ![q].bearer = u]
          /\ faults' = faults
     \/ /\ IF minted = Users THEN faults' = faults ELSE Fault
        /\ request' = [request EXCEPT ![q].pc = "answered", ![q].outcome = "error"]
        /\ UNCHANGED <<minted, valid, token>>
  /\ RequestFrame

AnswerRequest(q) ==
  LET r == request[q]
      reply(outcome, turns) ==
        request' = [request EXCEPT ![q] =
                      [r EXCEPT !.pc = "answered", !.bearer = None, !.outcome = outcome,
                                !.turns = turns]]
  IN /\ r.pc = "ask"
     /\ \/ Fault /\ reply("error", {})
        \/ /\ r.bearer \notin valid /\ faults' = faults
           /\ IF r.second THEN reply("error", {})
              ELSE request' = [request EXCEPT ![q].pc = "mint", ![q].second = TRUE]
        \/ /\ r.bearer \in valid /\ faults' = faults
           /\ IF owner[q[2]] = r.bearer THEN reply("ok", answers[q[2]]) ELSE reply("missing", {})
     /\ UNCHANGED <<minted, valid, token>>
     /\ RequestFrame

\* null only for the 404 of the first attempt: the second is outside the try.
Gone(r) == r.outcome = "missing" /\ ~r.second
Failed(r) == r.outcome # "ok" /\ ~Gone(r)

-----------------------------------------------------------------------------
(* The page's transcript, through the query cache. *)

\* No result yet, or the mount's one recovery of a result that is not its own.
Recover_Never(c) == FALSE
Recover(c) == Cached(c) /\ ~OwnData(c) /\ ~cache[c].failed /\ ~view.recovered

Fetch(c) ==
  /\ view.mounted /\ view.sid = c
  /\ (~Cached(c) /\ ~cache[c].failed) \/ Recover(c)
  /\ StartRequest(<<"page", c>>, view.epoch, mounts)
  /\ view' = [view EXCEPT !.recovered = @ \/ Cached(c)]
  /\ UNCHANGED <<server, storage, mounts, turn, cache, faults>>

\* A failed query is asked again when the browser is back online.
Reconnect(c) ==
  /\ view.mounted /\ view.sid = c /\ cache[c].failed
  /\ StartRequest(<<"page", c>>, view.epoch, mounts)
  /\ cache' = [cache EXCEPT ![c].failed = Cached(c)]
  /\ UNCHANGED <<server, storage, mounts, view, turn, faults>>

Arrive(c) ==
  LET r == request[<<"page", c>>]
  IN /\ r.pc = "answered"
     /\ request' = [request EXCEPT ![<<"page", c>>] = NoRequest]
     /\ IF Failed(r)
        THEN cache' = [cache EXCEPT ![c].failed = TRUE] /\ UNCHANGED view
        ELSE /\ cache' = [cache EXCEPT ![c] =
                            [data |-> [turns |-> r.turns, found |-> r.outcome = "ok",
                                       epoch |-> r.epoch, mount |-> r.mount],
                             failed |-> FALSE]]
             /\ view' = [view EXCEPT !.seen = @ \ {c}]
     /\ UNCHANGED <<server, storage, mounts, turn, faults>>

\* The effect on the transcript: a conversation that is gone is forgotten if it is
\* still the stored one; a transcript is shown once, unless it is another mount's or
\* older than the turn under way or the last one finished.
Forgets_Always(c) == ~cache[c].data.found
Forgets(c) == ~cache[c].data.found /\ stored = c
Outdated_Busy(c) == view.busy
Outdated(c) == view.busy \/ cache[c].data.epoch < view.epoch
Usable_AnyMount(c) == Cached(c)
Usable(c) == OwnData(c)

ShowTranscript(c) ==
  /\ view.mounted /\ view.sid = c /\ Cached(c)
  /\ Forgets(c) \/ (Usable(c) /\ c \notin view.seen)
  /\ LET shows == Usable(c) /\ c \notin view.seen
     IN view' = [view EXCEPT
          !.sid   = IF Forgets(c) THEN None ELSE @,
          !.live  = IF Forgets(c) THEN None ELSE @,
          !.seen  = IF shows THEN @ \cup {c} ELSE @,
          !.shown = IF shows /\ ~Outdated(c) THEN cache[c].data.turns ELSE @]
  /\ IF Forgets(c) THEN stored' = None /\ history' = Expired(c)
                   ELSE UNCHANGED <<stored, history>>
  /\ IF Forgets(c) THEN Abandon(c) ELSE UNCHANGED request
  /\ UNCHANGED <<server, token, mounts, turn, cache, faults>>

-----------------------------------------------------------------------------
(* The history drawer. *)

OpenHistory(c) ==
  /\ history[c] = "kept"
  /\ \A d \in Chats : request[<<"drawer", d>>] = NoRequest
  /\ StartRequest(<<"drawer", c>>, 0, 0)
  /\ UNCHANGED <<server, storage, mounts, view, turn, cache, faults>>

\* adopt, when the page is mounted; otherwise the stored id is what it will find.
Adopt(c, turns) ==
  /\ stored' = c /\ history' = history
  /\ IF view.mounted
     THEN /\ view' = [view EXCEPT !.sid = c, !.live = c, !.shown = turns,
                                  !.seen = @ \ {c}, !.owed = {}]
          /\ cache' = [cache EXCEPT ![c] =
                         [data |-> [turns |-> turns, found |-> TRUE, epoch |-> view.epoch,
                                    mount |-> mounts],
                          failed |-> FALSE]]
          /\ Leave
     ELSE UNCHANGED <<view, cache, turn>>

ArriveDrawer(c) ==
  LET r == request[<<"drawer", c>>]
      rest == [request EXCEPT ![<<"drawer", c>>] = NoRequest]
  IN /\ r.pc = "answered"
     /\ IF r.outcome = "ok"
        THEN Adopt(c, r.turns)
             /\ request' \in Abandoning(rest, IF view.sid = c THEN None ELSE view.sid)
        ELSE /\ request' = rest
             /\ history' = IF Gone(r) THEN Expired(c) ELSE history
             /\ UNCHANGED <<stored, view, cache, turn>>
     /\ UNCHANGED <<server, token, mounts, faults>>

-----------------------------------------------------------------------------
(* A turn. *)

TurnFrame == UNCHANGED <<mounts, request, cache>>
NoFault == faults' = faults

Send(t) ==
  /\ view.mounted /\ ~view.busy /\ ~Loading
  /\ turn[t].pc = "unsent"
  /\ view' = [view EXCEPT !.busy = TRUE, !.shown = @ \cup {t}]
  /\ turn' = [turn EXCEPT ![t] = [pc |-> IF token = None THEN "mint" ELSE "post",
                                  bearer |-> token, second |-> FALSE, chat |-> view.live,
                                  mount |-> mounts, mine |-> view.sid \in {None, view.live}]]
  /\ UNCHANGED <<server, storage>> /\ TurnFrame /\ NoFault

MintForTurn(t) ==
  /\ turn[t].pc = "mint"
  /\ \E u \in Users :
       /\ Minting(u) /\ token' = u
       /\ turn' = [turn EXCEPT ![t].pc = "post", ![t].bearer = u]
  /\ UNCHANGED <<owner, answers, stored, history, view>> /\ TurnFrame /\ NoFault

\* The server answers: a 401 is retried once with a new user; otherwise the answer is
\* stored before it is streamed, in the conversation named or in a new one.
PostTurn(t) ==
  LET r == turn[t]
  IN /\ r.pc = "post"
     /\ \/ /\ r.bearer \notin valid /\ ~r.second
           /\ turn' = [turn EXCEPT ![t].pc = "mint", ![t].second = TRUE]
           /\ UNCHANGED <<owner, answers>>
        \/ /\ r.bearer \in valid
           /\ \E c \in Chats :
                /\ IF r.chat = None THEN owner[c] = None ELSE c = r.chat /\ owner[c] = r.bearer
                /\ owner' = [owner EXCEPT ![c] = r.bearer]
                /\ answers' = [answers EXCEPT ![c] = @ \cup {t}]
                /\ turn' = [turn EXCEPT ![t] = [r EXCEPT !.pc = "stream", !.chat = c,
                                                        !.bearer = None, !.second = FALSE]]
     /\ UNCHANGED <<minted, valid, storage, view>> /\ TurnFrame /\ NoFault

\* onMeta.
Meta(t) ==
  /\ turn[t].pc = "stream"
  /\ turn' = [turn EXCEPT ![t].pc = "meta"]
  /\ view' = IF Here(t) THEN [view EXCEPT !.live = turn[t].chat] ELSE view
  /\ UNCHANGED <<server, storage>> /\ TurnFrame /\ NoFault

\* finally.
Settled_Unmounted(t, shown) ==
  [view EXCEPT !.busy = FALSE, !.epoch = @ + 1, !.shown = shown]
Settled(t, shown) ==
  IF Here(t) THEN [view EXCEPT !.busy = FALSE, !.epoch = @ + 1, !.shown = shown] ELSE view

FinishTurn(t) ==
  /\ turn[t].pc = "meta"
  /\ turn' = [turn EXCEPT ![t].pc = "done"]
  /\ stored' = turn[t].chat
  /\ view' = Settled(t, view.shown)
  /\ UNCHANGED <<server, token, history>> /\ TurnFrame /\ NoFault

\* A conversation the bearer may not continue, a second 401, or the mint limit. A
\* model out of users or of conversations refuses too.
Refused(r) ==
  \/ r.pc = "mint" /\ minted = Users
  \/ r.pc = "post" /\ r.bearer \notin valid /\ r.second
  \/ r.pc = "post" /\ r.bearer \in valid
       /\ IF r.chat = None THEN \A c \in Chats : owner[c] # None ELSE owner[r.chat] # r.bearer

\* The server's refusal, a request that fails, or a broken stream.
FailTurn(t) ==
  /\ turn[t].pc \in {"mint", "post", "stream", "meta"}
  /\ IF Refused(turn[t]) THEN NoFault ELSE Fault
  /\ turn' = [turn EXCEPT ![t] = [NoTurn EXCEPT !.pc = "failed"]]
  /\ view' = Settled(t, view.shown \ {t})
  /\ UNCHANGED <<server, storage>> /\ TurnFrame

-----------------------------------------------------------------------------
Init ==
  /\ minted = {} /\ valid = {}
  /\ owner = [c \in Chats |-> None] /\ answers = [c \in Chats |-> {}]
  /\ token = None /\ stored = None /\ history = NoHistory
  /\ mounts = 0 /\ view = NoView /\ faults = 0
  /\ turn = [t \in Turns |-> NoTurn]
  /\ request = [q \in Requests |-> NoRequest]
  /\ cache = [c \in Chats |-> [data |-> NoData, failed |-> FALSE]]

RequestStep(q) == MintForRequest(q) \/ AnswerRequest(q)
PageStep(c) == Fetch(c) \/ Arrive(c) \/ ShowTranscript(c)
TurnStep(t) == MintForTurn(t) \/ PostTurn(t) \/ Meta(t) \/ FinishTurn(t) \/ FailTurn(t)

Next ==
  \/ \E u \in Users : Reclaim(u)
  \/ Mount \/ Unmount \/ Reload \/ NewSession
  \/ \E q \in Requests : RequestStep(q)
  \/ \E c \in Chats : PageStep(c) \/ Reconnect(c) \/ OpenHistory(c) \/ ArriveDrawer(c)
  \/ \E t \in Turns : Send(t) \/ TurnStep(t)

Spec == Init /\ [][Next]_vars

\* A request is answered or fails, and the page runs its callbacks and effects.
FairSpec ==
  /\ Spec
  /\ \A q \in Requests : WF_vars(RequestStep(q))
  /\ \A c \in Chats : WF_vars(PageStep(c))
  /\ \A t \in Turns : WF_vars(TurnStep(t))

-----------------------------------------------------------------------------
TurnPcs == {"unsent", "mint", "post", "stream", "meta", "done", "failed"}

\* The type invariant; a page that is not mounted has no state.
TypeOK ==
  /\ minted \subseteq Users /\ valid \subseteq minted
  /\ owner \in [Chats -> Users \cup {None}] /\ answers \in [Chats -> SUBSET Turns]
  /\ token \in Users \cup {None} /\ stored \in Chats \cup {None} /\ history \in [Chats -> {"absent", "kept", "expired"}]
  /\ mounts \in 0 .. MaxMounts /\ faults \in 0 .. MaxFaults
  /\ view \in [mounted : BOOLEAN, sid : Chats \cup {None}, live : Chats \cup {None},
               shown : SUBSET Turns, busy : BOOLEAN, epoch : Nat, seen : SUBSET Chats,
               recovered : BOOLEAN, owed : SUBSET Turns]
  /\ view.mounted \/ view = NoView
  /\ turn \in [Turns -> [pc : TurnPcs, bearer : Users \cup {None}, second : BOOLEAN,
                         chat : Chats \cup {None}, mount : 0 .. MaxMounts, mine : BOOLEAN]]
  /\ request \in [Requests -> [pc : {"none", "mint", "ask", "answered"},
                     bearer : Users \cup {None}, second : BOOLEAN, epoch : Nat,
                     mount : 0 .. MaxMounts, outcome : {"ok", "missing", "error"},
                     turns : SUBSET Turns]]
  /\ cache \in [Chats -> [data : [turns : SUBSET Turns, found : BOOLEAN, epoch : Nat,
                                  mount : 0 .. MaxMounts],
                          failed : BOOLEAN]]

\* A turn that this page asked, in the conversation it shows, and finished stays on
\* screen until the reader leaves it: no transcript, however late, hides it while the
\* reader can read the conversation.
FinishedTurnsStay ==
  \A t \in Turns : turn[t].pc = "done" /\ turn[t].mine /\ Readable(turn[t].chat)
                     => t \in view.shown

\* A transcript that is shown loses nothing that is not lost.  After a return to the
\* page it holds every turn that was finished before: a result cached by an earlier
\* mount never stands in for it.  And a late 404 forgets the conversation it was asked
\* for, never one begun since: what the page drops from storage could not be read with
\* the token it holds.
TranscriptsLoseNothing ==
  [][\A c \in Chats : ShowTranscript(c) =>
       /\ view'.shown # view.shown /\ Readable(c) => view.owed \subseteq view'.shown
       /\ stored # None /\ stored' = None => ~Readable(stored)]_vars

\* The composer comes back: a mounted page neither waits for a transcript nor for a
\* turn for ever.
ComposerReturns ==
  (view.mounted /\ (view.busy \/ Loading)) ~> ~(view.mounted /\ (view.busy \/ Loading))

\* What comments say, and the code does not keep.

\* After "New conversation" the next question creates a fresh session: a page that
\* names no conversation and shows no answer continues none.
NewConversationIsFresh ==
  [][\A t \in Turns :
       Send(t) /\ view.sid = None /\ view.shown = {} => view.live = None]_vars

\* A 404 of the transcript is a fresh start, not an error.
LostSessionStartsFresh ==
  [][\A c \in Chats : Arrive(c) /\ cache'[c].failed
       => request[<<"page", c>>].outcome # "missing"]_vars
=============================================================================
