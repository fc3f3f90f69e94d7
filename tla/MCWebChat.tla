------------------------------ MODULE MCWebChat ------------------------------
(* WebChat and ConsentStorage for TLC: users, conversations and turns are           *)
(* interchangeable.  Three sides are explored: one conversation of one user with a  *)
(* failure; two users who switch between two conversations without one, where both  *)
(* users are lost only while there is one conversation; and the storage of two tabs, *)
(* which is small enough without symmetry.                                          *)
EXTENDS WebChat, ConsentStorage, TLC

VARIABLE side

webVars == <<vars, consentVars, side>>

Symmetry == Permutations(Users) \cup Permutations(Chats) \cup Permutations(Turns)

WebInit == Init /\ ConsentInit /\ side \in {"failing", "switching", "storage"}

Opened == {c \in Chats : owner[c] # None}
AtMostOne(S) == Cardinality(S) <= 1

Page ==
  /\ side # "storage" /\ Next
  /\ side = "failing" => AtMostOne(minted') /\ AtMostOne(Opened')
  /\ side = "switching" => /\ UNCHANGED faults
                           /\ AtMostOne(minted' \ valid') \/ AtMostOne(Opened')
  /\ UNCHANGED <<consentVars, side>>

Browser == side = "storage" /\ ConsentNext /\ UNCHANGED <<vars, side>>

WebSpec == WebInit /\ [][Page \/ Browser]_webVars

WebTypeOK == IF side = "storage" THEN ConsentTypeOK ELSE TypeOK
=============================================================================
