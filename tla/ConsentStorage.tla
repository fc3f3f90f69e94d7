--------------------------- MODULE ConsentStorage ---------------------------
(***************************************************************************)
(* What the chat keeps in the browser (consent.ts, chat-storage.ts,        *)
(* chat-history.ts): the tabs of one browser share localStorage, and each  *)
(* has a map of its own that lasts as long as its page.                    *)
(*                                                                         *)
(*   record   the reader's answer, in localStorage                         *)
(*   kept     the chat's keys in localStorage                              *)
(*   memory   the map of a tab, and its answer when the record refused it  *)
(*                                                                         *)
(* A handler of a tab is one step: its calls are synchronous.              *)
(***************************************************************************)
EXTENDS Naturals, Sequences, FiniteSets

CONSTANTS Tabs, Ids,
          Keys,         \* the keys with one value: token and session id
          HistoryLimit, \* CHAT_HISTORY_LIMIT (20)
          MaxRefusals,  \* bound on writes that localStorage refuses
          Null

History == "history"

ASSUME ConsentAssumption ==
  /\ History \notin Keys /\ IsFiniteSet(Keys) /\ MaxRefusals \in Nat
  /\ Null \notin Ids \cup {"store", "session-only"}
  /\ HistoryLimit \in Nat \ {0}

VARIABLES record, kept, memory, tabChoice, refusals

consentVars == <<record, kept, memory, tabChoice, refusals>>

ChatKeys == Keys \cup {History}
Nothing == [k \in ChatKeys |-> Null]

\* A write of the keys that are not refused.
Refusing(keys) == refusals' = refusals + Cardinality(keys) /\ refusals' <= MaxRefusals

-----------------------------------------------------------------------------
(* consent.ts and the gate. *)

\* read: the record counts, and the tab's own answer only where there is none.
Choice_OwnFirst(t) == IF tabChoice[t] # Null THEN tabChoice[t] ELSE record
Choice(t) == IF record # Null THEN record ELSE tabChoice[t]

Allowed(t) == Choice(t) = "store"

\* storageGet.
Value(t, k) == IF Allowed(t) /\ kept[k] # Null THEN kept[k] ELSE memory[t][k]

\* storageSet: past the gate, a refused write still reaches the map.
Set(t, k, v) ==
  /\ memory' = [memory EXCEPT ![t][k] = v]
  /\ \/ Allowed(t) /\ kept' = [kept EXCEPT ![k] = v] /\ UNCHANGED refusals
     \/ Allowed(t) /\ UNCHANGED kept /\ Refusing({k})
     \/ ~Allowed(t) /\ UNCHANGED <<kept, refusals>>
  /\ UNCHANGED <<record, tabChoice>>

Save(t, k, c) == k \in Keys /\ Set(t, k, c)

\* storageRemove reaches localStorage whatever the answer: New conversation, a
\* conversation that is gone, and the list cleared.
StorageRemove(t, k) ==
  /\ kept' = [kept EXCEPT ![k] = Null]
  /\ memory' = [memory EXCEPT ![t][k] = Null]
  /\ UNCHANGED <<record, tabChoice, refusals>>

-----------------------------------------------------------------------------
(* The list of conversations is read, changed and written back. *)

Listed(t) == IF Value(t, History) = Null THEN <<>> ELSE Value(t, History)

SaveList(t, list) == Set(t, History, list)

\* filter: the entries that are not c's, in their order.
Without(list, c) ==
  LET left == {i \in DOMAIN list : list[i] # c}
  IN  [n \in 1..Cardinality(left) |->
         list[CHOOSE i \in left : Cardinality({j \in left : j < i}) = n - 1]]

\* The front of the list, once; the oldest entry falls off.
Archive(t, c) ==
  LET list == <<c>> \o Without(Listed(t), c)
  IN  SaveList(t, SubSeq(list, 1, IF Len(list) < HistoryLimit THEN Len(list) ELSE HistoryLimit))

RemoveEntry(t, c) == SaveList(t, Without(Listed(t), c))
\* The mark of an entry is left out, the write is not.
MarkExpired(t) == SaveList(t, Listed(t))

-----------------------------------------------------------------------------
(* The answer: the card, and the switch of the drawer, whose view of the record may *)
(* lag behind another tab's answer.                                                 *)

SetConsent(t, choice, refused) ==
  IF refused THEN /\ record' = record
                  /\ tabChoice' = [tabChoice EXCEPT ![t] = choice]
             ELSE record' = choice /\ tabChoice' = [tabChoice EXCEPT ![t] = Null]

\* The map is written to localStorage, if the new answer allows it.
Grant(t) ==
  \E refused \in SUBSET ({"record"} \cup {k \in ChatKeys : memory[t][k] # Null}) :
    /\ SetConsent(t, "store", "record" \in refused)
    /\ Refusing(refused)
    /\ kept' = [k \in ChatKeys |->
                  IF Choice(t)' = "store" /\ memory[t][k] # Null /\ k \notin refused
                    THEN memory[t][k] ELSE kept[k]]
    /\ UNCHANGED memory

\* localStorage is emptied; this tab takes over what it held.
Forgotten_OwnCopy(t) == memory[t]
Forgotten(t) == [k \in ChatKeys |-> IF kept[k] # Null THEN kept[k] ELSE memory[t][k]]

Withdraw(t) ==
  \E refused \in SUBSET {"record"} :
    /\ SetConsent(t, "session-only", refused # {})
    /\ Refusing(refused)
    /\ memory' = [memory EXCEPT ![t] = Forgotten(t)]
    /\ kept' = Nothing

-----------------------------------------------------------------------------
\* The tab is closed or reloaded.
CloseTab(t) ==
  /\ memory' = [memory EXCEPT ![t] = Nothing]
  /\ tabChoice' = [tabChoice EXCEPT ![t] = Null]
  /\ UNCHANGED <<record, kept, refusals>>

\* The reader clears the site's data.
ClearSite ==
  /\ record' = Null /\ kept' = Nothing
  /\ UNCHANGED <<memory, tabChoice, refusals>>

ConsentInit ==
  /\ record = Null /\ kept = Nothing /\ refusals = 0
  /\ memory = [t \in Tabs |-> Nothing] /\ tabChoice = [t \in Tabs |-> Null]

ConsentNext ==
  \/ \E t \in Tabs : Grant(t) \/ Withdraw(t) \/ CloseTab(t) \/ MarkExpired(t)
  \/ \E t \in Tabs, c \in Ids : Archive(t, c) \/ RemoveEntry(t, c)
  \/ \E t \in Tabs, k \in ChatKeys : StorageRemove(t, k) \/ \E c \in Ids : Save(t, k, c)
  \/ ClearSite

-----------------------------------------------------------------------------
Answers == {Null, "store", "session-only"}

ConsentTypeOK ==
  /\ record \in Answers /\ tabChoice \in [Tabs -> Answers] /\ refusals \in 0 .. MaxRefusals
  /\ \A v \in {kept} \cup {memory[t] : t \in Tabs} :
       /\ \A k \in Keys : v[k] \in Ids \cup {Null}
       /\ v[History] = Null \/ (v[History] \in Seq(Ids) /\ Len(v[History]) <= HistoryLimit)

\* The reader's answer counts in every tab, and takes no conversation off the screen.
\* While a recorded refusal stands, no tab leaves anything of the chat in localStorage,
\* not even one whose own grant was refused before.  A tab reads after a withdrawal
\* what it read from localStorage before, and after a grant what it had in its own
\* map, if no write of the grant was refused.
ConsentIsHonoured ==
  [][/\ record' = "session-only" => kept' = Nothing
     /\ \A t \in Tabs, k \in ChatKeys :
          \/ Allowed(t) /\ Withdraw(t)
          \/ ~Allowed(t) /\ memory[t][k] # Null /\ refusals' = refusals /\ Grant(t)
          => Value(t, k)' = Value(t, k)]_consentVars
=============================================================================
