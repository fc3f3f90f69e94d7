------------------------------ MODULE MCLiveness ------------------------------
(* What must happen in the end, for TLC: the store's handlers and the page of the  *)
(* client, under the fairness each of them states.  They share no variable here,   *)
(* so each is explored on its own.                                                 *)
EXTENDS ChatStore

CONSTANTS Readers, Chats, Questions, MaxMounts

VARIABLES minted, valid, owner, answers, token, stored, history, mounts, view,
          question, request, cache, pageFaults, side

Page == INSTANCE WebChat WITH Users <- Readers, Turns <- Questions, turn <- question, faults <- pageFaults

pageVars == <<minted, valid, owner, answers, token, stored, history, mounts, view,
              question, request, cache, pageFaults>>
bothVars == <<vars, pageVars, side>>

BothInit == Init /\ Page!Init /\ side \in {"store", "page"}

BothNext ==
  /\ \/ side = "store" /\ Next /\ UNCHANGED pageVars
     \/ side = "page" /\ Page!Next /\ UNCHANGED vars
  /\ UNCHANGED side

\* The fairness of ChatStore and of WebChat, each on its side.
StoreFairness ==
  /\ \A t \in Turns : WF_vars(side = "store" /\ TurnStep(t))
  /\ \A v \in Votes : WF_vars(side = "store" /\ VoteStep(v))
  /\ \A e \in Erasers : SF_vars(side = "store" /\ EraseStep(e))
  /\ WF_vars(side = "store" /\ StartNightly)
  /\ WF_vars(side = "store" /\ NightlyStep)
  /\ \A x \in Txns : WF_vars(side = "store" /\ GiveUpWaiting(x))
PageFairness ==
  /\ \A q \in Page!Requests : WF_pageVars(side = "page" /\ Page!RequestStep(q))
  /\ \A c \in Chats : WF_pageVars(side = "page" /\ Page!PageStep(c))
  /\ \A t \in Questions : WF_pageVars(side = "page" /\ Page!TurnStep(t))

BothSpec == BothInit /\ [][BothNext]_bothVars /\ StoreFairness /\ PageFairness

\* The composer comes back (WebChat): a mounted page waits neither for a transcript
\* nor for a turn for ever.
ComposerReturns == Page!ComposerReturns
=============================================================================
