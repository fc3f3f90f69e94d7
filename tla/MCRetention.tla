----------------------------- MODULE MCRetention -----------------------------
(***************************************************************************)
(* The documented retention of an anonymous user's data, against the code: *)
(* ChatStore with one history variable, the time each user last signed a   *)
(* request in.                                                             *)
(***************************************************************************)
EXTENDS ChatStore

VARIABLE lastUse

\* authGuard let a request of u through in this step.
SignedIn(u) ==
  \/ \E t \in Turns : turn[t].pc = "idle" /\ turn'[t].pc = "session" /\ turn'[t].user = u
  \/ \E v \in Votes : vote[v].pc = "idle" /\ vote'[v].pc = "target" /\ vote'[v].user = u

HInit == Init /\ lastUse = [u \in Users |-> 0]
HNext == /\ Next
         /\ lastUse' = [u \in Users |-> IF SignedIn(u) \/ u \in Minted' \ Minted
                                        THEN now ELSE lastUse[u]]
HSpec == HInit /\ [][HNext]_<<vars, lastUse>>

\* The privacy notice: an anonymous user's data is kept until 30 days without
\* activity have passed, a session that keeps being used keeps its transcript.
\* TTL is the model's 30 days.
KeptWhileUsed ==
  [][\A u \in Users : (UserRow(u) \in db \ db' /\ nightly.pc = "commit" /\ nightly' # nightly)
        => now - lastUse[u] >= TTL]_<<vars, lastUse>>

\* The erasure endpoint's documentation: a 500 means the transaction rolled back
\* and the user's rows are untouched.
FailedErasureKeepsRows ==
  [][\A e \in Erasers : (erase[e].pc \in ErasePcs /\ erase'[e].pc = "failed")
        => RowsOf(erase[e].user, db') = RowsOf(erase[e].user, db)]_<<vars, lastUse>>
=============================================================================
