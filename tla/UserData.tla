------------------------------ MODULE UserData ------------------------------
(***************************************************************************)
(* What the chat store promises a user about their data, with every        *)
(* handler, transaction and table abstracted away: a user appears once,    *)
(* their data grows item by item, and it disappears as a whole, for good.  *)
(* told is the set of users who were answered {deleted: true}.             *)
(***************************************************************************)
CONSTANTS Users, Items

VARIABLES known, data, told

vars == <<known, data, told>>

Init == known = {} /\ data = [u \in Users |-> {}] /\ told = {}

\* Nobody's data but u's changes.
Only(u) == /\ data' \in [Users -> SUBSET Items]
           /\ \A w \in Users \ {u} : data'[w] = data[w]

Appear(u) ==
  /\ u \notin known
  /\ known' = known \cup {u}
  /\ Only(u) /\ data'[u] # {}
  /\ told' = told

Write(u) ==
  /\ data[u] # {}
  /\ Only(u) /\ data[u] \subseteq data'[u]
  /\ UNCHANGED <<known, told>>

\* The data of some users is gone in one step; no one is told.
Forget ==
  /\ data' \in [Users -> SUBSET Items]
  /\ \A u \in Users : data'[u] \in {data[u], {}}
  /\ UNCHANGED <<known, told>>

\* The user asked; repeating the request finds nothing left to delete.
Erase(u) ==
  /\ u \in known
  /\ Only(u) /\ data'[u] = {}
  /\ told' = told \cup {u}
  /\ known' = known

Next == Forget \/ \E u \in Users : Appear(u) \/ Write(u) \/ Erase(u)

Spec == Init /\ [][Next]_vars

\* Who was told has nothing left; a user forgotten does not come back.
ToldIsGone == \A u \in told : data[u] = {}
StaysGone == \A u \in known : data[u] = {} => data'[u] = {}
GoneForGood == [][StaysGone]_vars
=============================================================================
