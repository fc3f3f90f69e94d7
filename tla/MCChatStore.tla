----------------------------- MODULE MCChatStore -----------------------------
(* ChatStore for TLC.  Three parts of it are explored side by side, because their   *)
(* full product is beyond TLC: one user's turns against an erasure, with a failure; *)
(* two users' turns, each free to name the other's conversation; and verdicts on    *)
(* one answer, once it is stored, against an erasure.  Two turns, an expiry and a    *)
(* failure do not all meet.  Handlers of one kind are interchangeable, and so are   *)
(* users; no part tells them apart.                                                 *)
EXTENDS ChatStore, TLC

VARIABLE side

chatVars == <<vars, side>>

Symmetry == Permutations(Users) \cup Permutations(Turns)
              \cup Permutations(Votes) \cup Permutations(Erasers)

AtMostOne(S) == \A p, q \in S : p = q
UsersNow == {u \in Users : expiresAt'[u] # 0}
TurnsNow == {t \in Turns : turn'[t].pc # "idle"}
NoVotes == \A v \in Votes : vote'[v].pc = "idle"
Over == {"reply", "answered", "failed"}
NoErasures == \A e \in Erasers : erase'[e].pc = "idle"
NoFailures == faults' = 0

ChatInit == Init /\ side \in {"erasure", "isolation", "feedback"}

ChatNext ==
  /\ Next
  /\ \/ /\ side = "erasure" /\ AtMostOne(UsersNow) /\ NoVotes
        /\ now' = 0 \/ NoFailures \/ AtMostOne(TurnsNow)
     \/ side = "isolation" /\ NoVotes /\ NoErasures /\ NoFailures
     \/ /\ side = "feedback" /\ AtMostOne(UsersNow) /\ AtMostOne(TurnsNow) /\ NoFailures
        /\ \A v \in Votes : vote'[v].turn \in TurnsNow \cup {None}
        /\ \A t \in TurnsNow : turn'[t].chat \in {t, None}
        /\ NoVotes \/ \A t \in TurnsNow : turn'[t].pc \in Over
  /\ UNCHANGED side

ChatSpec == ChatInit /\ [][ChatNext]_chatVars
=============================================================================
