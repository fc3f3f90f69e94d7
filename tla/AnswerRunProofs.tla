--------------------------- MODULE AnswerRunProofs ---------------------------
(***************************************************************************)
(* One run of the answering pipeline, for any bounds on its candidates,    *)
(* retries and re-reads: where the cost of a vendor attempt goes, and what *)
(* reaches the reader.                                                     *)
(*                                                                         *)
(* An attempt is written on the trail by whichever of three lists is being *)
(* filled when it happens: the trace, the chain a fallback call carries,   *)
(* the candidate's own.  That nothing is written twice or out of order is  *)
(* a fact about the three together, and inductive only with where the call *)
(* stands in its stage.                                                    *)
(***************************************************************************)
EXTENDS AnswerRun, SequenceTheorems, TLAPS


-----------------------------------------------------------------------------
(* The trail of vendor attempts as values: the attempts in the trace A, those the chain of the call *)
(* under way carries B, those of its candidate C, those left out for good D, and *)
(* n attempts in all.                                                            *)

Ascending(s) == \A i, j \in DOMAIN s : i < j => s[i] < s[j]
AllBelow(S, T) == \A x \in S, y \in T : x < y

\* Nothing is on the trail twice or out of order; told says whether nothing is missing.
SoundIds(IA, IB, IC, D, n, told) ==
  /\ n \in Nat /\ AllBelow(IA, IB \cup IC) /\ AllBelow(IB, IC)
  /\ IA \cup IB \cup IC \cup D \subseteq 1..n
  /\ D \cap (IA \cup IB \cup IC) = {}
  /\ told => 1..n \subseteq IA \cup IB \cup IC \cup D

Ordered(A) == A \in Seq(Nat) /\ Ascending(A)

SoundTrail(A, B, C, D, n, told) ==
  /\ Ordered(A) /\ Ordered(B) /\ Ordered(C)
  /\ SoundIds(Ids(A), Ids(B), Ids(C), D, n, told)

LEMMA IdsOfConcat ==
  ASSUME NEW s \in Seq(Nat), NEW t \in Seq(Nat)
  PROVE  s \o t \in Seq(Nat) /\ Ids(s \o t) = Ids(s) \cup Ids(t)
<1>1. s \o t \in Seq(Nat) /\ DOMAIN (s \o t) = 1..(Len(s) + Len(t))
  BY ConcatProperties, LenProperties
<1>2. DOMAIN s = 1..Len(s) /\ DOMAIN t = 1..Len(t) /\ Len(s) \in Nat /\ Len(t) \in Nat
  BY LenProperties
<1>3. ASSUME NEW i \in 1..(Len(s) + Len(t)) PROVE (s \o t)[i] \in Ids(s) \cup Ids(t)
  <2>1. (s \o t)[i] = IF i <= Len(s) THEN s[i] ELSE t[i - Len(s)]
    BY ConcatProperties
  <2>2. CASE i <= Len(s)
    BY <1>2, <2>1, <2>2 DEF Ids
  <2>3. CASE ~(i <= Len(s))
    <3>1. i - Len(s) \in 1..Len(t)
      BY <1>2, <2>3
    <3> QED BY <1>2, <2>1, <2>3, <3>1 DEF Ids
  <2> QED BY <2>2, <2>3
<1>4. ASSUME NEW i \in 1..Len(s) PROVE s[i] \in Ids(s \o t)
  <2>1. i \in 1..(Len(s) + Len(t)) /\ (s \o t)[i] = s[i]
    BY <1>2, ConcatProperties
  <2> QED BY <1>1, <2>1 DEF Ids
<1>5. ASSUME NEW i \in 1..Len(t) PROVE t[i] \in Ids(s \o t)
  <2>1. Len(s) + i \in 1..(Len(s) + Len(t))
    BY <1>2
  <2>2. (s \o t)[Len(s) + i] = t[i]
    BY <1>2, <2>1, ConcatProperties
  <2> QED BY <1>1, <2>1, <2>2 DEF Ids
<1> QED BY <1>1, <1>2, <1>3, <1>4, <1>5 DEF Ids

LEMMA AscendingConcat ==
  ASSUME NEW s \in Seq(Nat), NEW t \in Seq(Nat), Ascending(s), Ascending(t),
         AllBelow(Ids(s), Ids(t))
  PROVE  Ascending(s \o t)
<1>1. DOMAIN (s \o t) = 1..(Len(s) + Len(t))
  BY ConcatProperties, LenProperties
<1>2. DOMAIN s = 1..Len(s) /\ DOMAIN t = 1..Len(t) /\ Len(s) \in Nat /\ Len(t) \in Nat
  BY LenProperties
<1> SUFFICES ASSUME NEW i \in 1..(Len(s) + Len(t)), NEW j \in 1..(Len(s) + Len(t)), i < j
             PROVE  (s \o t)[i] < (s \o t)[j]
  BY <1>1 DEF Ascending
<1>3. /\ (s \o t)[i] = IF i <= Len(s) THEN s[i] ELSE t[i - Len(s)]
      /\ (s \o t)[j] = IF j <= Len(s) THEN s[j] ELSE t[j - Len(s)]
  BY ConcatProperties
<1>4. CASE j <= Len(s)
  <2>1. i \in 1..Len(s) /\ j \in 1..Len(s)
    BY <1>2, <1>4
  <2>2. s[i] < s[j]
    BY <1>2, <2>1 DEF Ascending
  <2>3. (s \o t)[i] = s[i] /\ (s \o t)[j] = s[j]
    BY <1>3, <2>1
  <2> QED BY <2>2, <2>3
<1>5. CASE i <= Len(s) /\ ~(j <= Len(s))
  <2>1. i \in 1..Len(s) /\ j - Len(s) \in 1..Len(t)
    BY <1>2, <1>5
  <2>2. s[i] \in Ids(s) /\ t[j - Len(s)] \in Ids(t)
    BY <1>2, <2>1 DEF Ids
  <2> QED BY <1>3, <1>5, <2>1, <2>2 DEF AllBelow
<1>6. CASE ~(i <= Len(s))
  <2>1. /\ i - Len(s) \in 1..Len(t) /\ j - Len(s) \in 1..Len(t)
        /\ i - Len(s) < j - Len(s) /\ ~(j <= Len(s))
    BY <1>2, <1>6
  <2> QED BY <1>2, <1>3, <1>6, <2>1 DEF Ascending
<1> QED BY <1>4, <1>5, <1>6

LEMMA OrderedConcat ==
  ASSUME NEW s, NEW t, Ordered(s), Ordered(t), AllBelow(Ids(s), Ids(t))
  PROVE  Ordered(s \o t) /\ Ids(s \o t) = Ids(s) \cup Ids(t)
BY IdsOfConcat, AscendingConcat DEF Ordered

LEMMA OneId ==
  /\ Ordered(<<>>) /\ Ids(<<>>) = {}
  /\ \A e \in Nat : Ordered(<<e>>) /\ Ids(<<e>>) = {e}
BY DEF Ordered, Ids, Ascending

LEMMA OrderedAppend ==
  ASSUME NEW s, NEW e \in Nat, Ordered(s), AllBelow(Ids(s), {e})
  PROVE  Ordered(Append(s, e)) /\ Ids(Append(s, e)) = Ids(s) \cup {e}
<1>1. Append(s, e) = s \o <<e>>
  BY AppendIsConcat DEF Ordered
<1>2. Ordered(<<e>>) /\ Ids(<<e>>) = {e}
  BY OneId
<1>3. AllBelow(Ids(s), Ids(<<e>>))
  BY <1>2
<1> QED BY <1>1, <1>2, <1>3, OrderedConcat

\* An attempt reached the vendor and failed.
LEMMA TrailAfterAttempt ==
  ASSUME NEW A, NEW B, NEW C, NEW D, NEW n, NEW told, SoundTrail(A, B, C, D, n, told)
  PROVE  SoundTrail(A, B, Append(C, n + 1), D, n + 1, told)
<1>1. n + 1 \in Nat /\ AllBelow(Ids(C), {n + 1})
  BY DEF SoundTrail, SoundIds, AllBelow
<1>2. Ordered(Append(C, n + 1)) /\ Ids(Append(C, n + 1)) = Ids(C) \cup {n + 1}
  BY <1>1, OrderedAppend DEF SoundTrail
<1>3. SoundIds(Ids(A), Ids(B), Ids(C) \cup {n + 1}, D, n + 1, told)
  BY DEF SoundTrail, SoundIds, AllBelow
<1> QED BY <1>2, <1>3 DEF SoundTrail

\* A call ends well: its record goes to the trace, or to the stream it opened, and what
\* failed before is dropped.
LEMMA TrailAfterSuccess ==
  ASSUME NEW A, NEW B, NEW C, NEW D, NEW n, NEW told, SoundTrail(A, B, C, D, n, told)
  PROVE  /\ SoundTrail(Append(A, n + 1), <<>>, <<>>, D \cup Ids(B \o C), n + 1, told)
         /\ SoundTrail(A, <<>>, <<n + 1>>, D \cup Ids(B \o C), n + 1, told)
<1>1. n + 1 \in Nat /\ AllBelow(Ids(A), {n + 1})
  BY DEF SoundTrail, SoundIds, AllBelow
<1>2. Ordered(Append(A, n + 1)) /\ Ids(Append(A, n + 1)) = Ids(A) \cup {n + 1}
  BY <1>1, OrderedAppend DEF SoundTrail
<1>3. Ids(B \o C) = Ids(B) \cup Ids(C)
  BY IdsOfConcat DEF SoundTrail, Ordered
<1>4. /\ SoundIds(Ids(A) \cup {n + 1}, {}, {}, D \cup (Ids(B) \cup Ids(C)), n + 1, told)
      /\ SoundIds(Ids(A), {}, {n + 1}, D \cup (Ids(B) \cup Ids(C)), n + 1, told)
  BY DEF SoundTrail, SoundIds, AllBelow
<1> QED BY <1>1, <1>2, <1>3, <1>4, OneId DEF SoundTrail

\* The next candidate: what this one cost goes to the chain.
LEMMA TrailAfterFallback ==
  ASSUME NEW A, NEW B, NEW C, NEW D, NEW n, NEW told, SoundTrail(A, B, C, D, n, told)
  PROVE  SoundTrail(A, B \o C, <<>>, D, n, told)
<1>1. Ordered(B \o C) /\ Ids(B \o C) = Ids(B) \cup Ids(C)
  BY OrderedConcat DEF SoundTrail, SoundIds
<1>2. SoundIds(Ids(A), Ids(B) \cup Ids(C), {}, D, n, told)
  BY DEF SoundTrail, SoundIds, AllBelow
<1> QED BY <1>1, <1>2, OneId DEF SoundTrail

\* The call is given up: its error lists the last candidate's attempts, or all of them,
\* and the trace takes over what it lists or, when the run fails, nothing.
LEMMA TrailAfterListing ==
  ASSUME NEW A, NEW B, NEW C, NEW D, NEW n, NEW told, SoundTrail(A, B, C, D, n, told)
  PROVE  /\ SoundTrail(A \o C, <<>>, <<>>, D \cup Ids(B), n, told)
         /\ SoundTrail(A \o (B \o C), <<>>, <<>>, D, n, told)
         /\ SoundTrail(A, <<>>, <<>>, D, n, FALSE)
         /\ SoundTrail(A, <<>>, <<>>, D \cup Ids(B), n, FALSE)
<1>1. Ordered(B \o C) /\ Ids(B \o C) = Ids(B) \cup Ids(C)
  BY OrderedConcat DEF SoundTrail, SoundIds
<1>2. /\ AllBelow(Ids(A), Ids(C)) /\ AllBelow(Ids(A), Ids(B) \cup Ids(C))
      /\ (Ids(B) \cup Ids(C)) \cap Ids(A) = {} /\ Ids(B) \cap Ids(C) = {}
  BY DEF SoundTrail, SoundIds, AllBelow
<1>3. Ordered(A \o C) /\ Ids(A \o C) = Ids(A) \cup Ids(C)
  BY <1>2, OrderedConcat DEF SoundTrail
<1>4. /\ Ordered(A \o (B \o C))
      /\ Ids(A \o (B \o C)) = Ids(A) \cup (Ids(B) \cup Ids(C))
  <2>1. AllBelow(Ids(A), Ids(B \o C))
    BY <1>1, <1>2
  <2> QED BY <1>1, <2>1, OrderedConcat DEF SoundTrail
<1>5. /\ SoundIds(Ids(A) \cup Ids(C), {}, {}, D \cup Ids(B), n, told)
      /\ SoundIds(Ids(A) \cup (Ids(B) \cup Ids(C)), {}, {}, D, n, told)
      /\ SoundIds(Ids(A), {}, {}, D, n, FALSE)
      /\ SoundIds(Ids(A), {}, {}, D \cup Ids(B), n, FALSE)
  BY <1>2 DEF SoundTrail, SoundIds, AllBelow
<1> QED BY <1>3, <1>4, <1>5, OneId DEF SoundTrail

-----------------------------------------------------------------------------
(* The run. *)

\* A call is under way only at a stage that makes one, and an open stream has left the
\* chain behind.
CallAtStage ==
  /\ stage \notin Calls => call = NoCall
  /\ call.body => stage \in Streams /\ call.chain = <<>>

TrailInv ==
  SoundTrail(trace, call.chain, call.costs, superseded \cup unlisted, spent, stage # "failed")

\* What the stages past the generator may assume of the draft.
DraftAtStage ==
  /\ stage \in {"validate", "reread"} => draft \in Drafts
  /\ stage = "reread" => draft = "refusal" /\ rereads < RereadLimit
  /\ stage = "review" => draft \in {"cited", "bare"}
  /\ stage = "pregate" => draft = "cited"
  /\ stage # "answered" => delivered = "nothing"

\* The counters of the call, and the values the types allow.
RunTyped ==
  /\ stage \in Calls \cup {"route", "search", "decline", "validate", "answered", "failed"}
  /\ question \in BOOLEAN /\ decider \in BOOLEAN /\ evidence \in 0..2
  /\ draft \in Drafts \cup {"none"} /\ rereads \in 0..RereadLimit
  /\ vetted \in {"no", "decider", "reviewer", "rejected"}
  /\ delivered \in {"nothing", "decline", "draft", "rules", "refusal"}
  /\ runFaults \in 0..MaxRunFaults
  /\ call \in [cand : 1..Candidates, rate : 0..RateRetries, fault : 0..FaultRetries,
               costs : Seq(Nat), chain : Seq(Nat), body : BOOLEAN]

RunInv == RunTyped /\ CallAtStage /\ TrailInv /\ DraftAtStage /\ AssertionsAreVetted

LEMMA NoCallTyped ==
  /\ NoCall \in [cand : 1..Candidates, rate : 0..RateRetries, fault : 0..FaultRetries,
                 costs : Seq(Nat), chain : Seq(Nat), body : BOOLEAN]
  /\ NoCall.costs = <<>> /\ NoCall.chain = <<>> /\ NoCall.body = FALSE
BY RunAssumption, OneId DEF NoCall, Ordered

LEMMA RunInvInit == RunInit => RunInv
<1> SUFFICES ASSUME RunInit PROVE RunInv
  OBVIOUS
<1>1. TrailInv
  <2>1. trace = <<>> /\ call.chain = <<>> /\ call.costs = <<>> /\ spent = 0
        /\ superseded \cup unlisted = {}
    BY NoCallTyped DEF RunInit
  <2>2. SoundTrail(<<>>, <<>>, <<>>, {}, 0, TRUE)
    BY OneId DEF SoundTrail, SoundIds, AllBelow
  <2> QED BY <2>1, <2>2 DEF TrailInv, RunInit
<1> QED BY <1>1, NoCallTyped, RunAssumption
        DEF RunInit, RunInv, RunTyped, CallAtStage, DraftAtStage, AssertionsAreVetted, Calls,
            Deciders, Streams

StageNames == Calls \cup {"route", "search", "decline", "validate", "answered", "failed"}

\* The steps between the calls leave the trail alone.
LEMMA QuietKeepsTrail ==
  ASSUME RunInv, UNCHANGED <<call, trail>>, stage \notin Calls, stage # "failed"
  PROVE  TrailInv' /\ CallAtStage'
<1>1. call' = call /\ call = NoCall
  BY DEF RunInv, CallAtStage
<1>2. CallAtStage'
  BY <1>1, NoCallTyped DEF CallAtStage
<1>3. TrailInv'
  <2>1. CASE stage' # "failed"
    BY <2>1 DEF trail, RunInv, TrailInv
  <2>2. CASE stage' = "failed"
    <3>1. SoundTrail(trace, <<>>, <<>>, superseded \cup unlisted, spent, FALSE)
      BY TrailAfterListing DEF RunInv, TrailInv
    <3>2. call'.chain = <<>> /\ call'.costs = <<>>
      BY <1>1, NoCallTyped
    <3>3. UNCHANGED <<trace, superseded, unlisted, spent>> /\ (stage' # "failed") = FALSE
      BY <2>2 DEF trail
    <3> QED BY <3>1, <3>2, <3>3 DEF TrailInv
  <2> QED BY <2>1, <2>2
<1> QED BY <1>2, <1>3

LEMMA SuccessKeepsTrail ==
  ASSUME RunInv, NEW next, Succeeds(next), stage # "failed", next # "failed"
  PROVE  TrailInv' /\ CallAtStage' /\ call' = NoCall
<1>1. /\ call' = NoCall /\ stage' = next
      /\ spent' = spent + 1 /\ trace' = Append(trace, spent + 1)
      /\ superseded' = superseded \cup Ids(call.chain \o call.costs) /\ unlisted' = unlisted
  BY DEF Succeeds
<1>2. SoundTrail(Append(trace, spent + 1), <<>>, <<>>,
                 (superseded \cup unlisted) \cup Ids(call.chain \o call.costs), spent + 1, TRUE)
  BY TrailAfterSuccess DEF RunInv, TrailInv
<1>3. superseded' \cup unlisted' = (superseded \cup unlisted) \cup Ids(call.chain \o call.costs)
  BY <1>1
<1>4. SoundTrail(trace', <<>>, <<>>, superseded' \cup unlisted', spent', TRUE)
  BY <1>1, <1>2, <1>3
<1> QED BY <1>1, <1>4, NoCallTyped DEF TrailInv, CallAtStage

LEMMA EndKeepsTrail ==
  ASSUME RunInv, NEW next, EndsStream(next), next # "failed"
  PROVE  TrailInv' /\ CallAtStage' /\ call' = NoCall
<1>1. /\ call' = NoCall /\ stage' = next /\ trace' = trace \o call.costs
      /\ UNCHANGED <<spent, superseded, unlisted>>
  BY DEF EndsStream
<1>2. call.chain = <<>> /\ stage # "failed"
  BY DEF RunInv, CallAtStage, EndsStream, Streams
<1>3. SoundTrail(trace \o call.costs, <<>>, <<>>, superseded \cup unlisted, spent, TRUE)
  <2>1. SoundTrail(trace, <<>>, call.costs, superseded \cup unlisted, spent, TRUE)
    BY <1>2 DEF RunInv, TrailInv
  <2>2. (superseded \cup unlisted) \cup Ids(<<>>) = superseded \cup unlisted
    BY OneId
  <2> QED BY <2>1, <2>2, TrailAfterListing
<1> QED BY <1>1, <1>3, NoCallTyped DEF TrailInv, CallAtStage

LEMMA OpenKeepsTrail ==
  ASSUME RunInv, OpenStream
  PROVE  TrailInv' /\ CallAtStage' /\ RunTyped'
<1>1. /\ call' = [NoCall EXCEPT !.body = TRUE, !.costs = <<spent + 1>>]
      /\ spent' = spent + 1 /\ superseded' = superseded \cup Ids(call.chain \o call.costs)
      /\ stage \in Streams /\ UNCHANGED <<stage, trace, unlisted>>
  BY DEF OpenStream
<1>2. call'.chain = <<>> /\ call'.costs = <<spent + 1>> /\ stage # "failed"
  BY <1>1 DEF NoCall, Streams
<1>3. SoundTrail(trace, <<>>, <<spent + 1>>,
                 (superseded \cup unlisted) \cup Ids(call.chain \o call.costs), spent + 1, TRUE)
  BY <1>2, TrailAfterSuccess DEF RunInv, TrailInv
<1>4. superseded' \cup unlisted' = (superseded \cup unlisted) \cup Ids(call.chain \o call.costs)
  BY <1>1
<1>5. TrailInv'
  <2>1. SoundTrail(trace', call'.chain, call'.costs, superseded' \cup unlisted', spent', TRUE)
    BY <1>1, <1>2, <1>3, <1>4
  <2> QED BY <1>1, <1>2, <2>1 DEF TrailInv
<1>6. CallAtStage'
  BY <1>1, <1>2 DEF CallAtStage, Calls
<1>7. RunTyped'
  <2>1. <<spent + 1>> \in Seq(Nat)
    BY <1>3 DEF SoundTrail, Ordered
  <2>2. call' \in [cand : 1..Candidates, rate : 0..RateRetries, fault : 0..FaultRetries,
                   costs : Seq(Nat), chain : Seq(Nat), body : BOOLEAN]
    BY <1>1, <2>1, NoCallTyped
  <2> QED BY <2>2 DEF OpenStream, input, reading, RunInv, RunTyped
<1> QED BY <1>5, <1>6, <1>7

\* A call is given up: on its own fail-open path, or with the run.
LEMMA GiveUpKeepsTrail ==
  ASSUME NEW chain, NEW costs, NEW lost, NEW n,
         SoundTrail(trace, chain, costs, lost, n, stage # "failed"),
         stage \in Calls, NEW listed, GiveUp(listed)
  PROVE  /\ listed = chain \o costs =>
              SoundTrail(trace', <<>>, <<>>, lost, n, stage' # "failed")
         /\ listed = costs =>
              SoundTrail(trace', <<>>, <<>>, lost \cup Ids(chain), n, stage' # "failed")
<1>1. (stage # "failed") = TRUE
  BY DEF Calls, Deciders, Streams
<1>2. CASE stage \in Optional
  <2>1. trace' = trace \o listed /\ (stage' # "failed") = TRUE
    BY <1>2 DEF GiveUp, Optional, Deciders, WithoutIt
  <2> QED BY <1>1, <2>1, TrailAfterListing
<1>3. CASE stage \notin Optional
  <2>1. trace' = trace \o <<>> /\ (stage' # "failed") = FALSE
    BY <1>3 DEF GiveUp, RunnerRecords, StageCause
  <2>2. trace' = trace
    BY <2>1, ConcatEmptySeq DEF SoundTrail, Ordered
  <2> QED BY <2>1, <2>2, TrailAfterListing
<1> QED BY <1>2, <1>3

LEMMA CutKeepsTrail ==
  ASSUME RunInv, CutStream
  PROVE  TrailInv' /\ CallAtStage'
<1>1. /\ stage \in Streams /\ call.chain = <<>> /\ GiveUp(call.costs)
      /\ UNCHANGED <<spent, superseded, unlisted>> /\ call' = NoCall
  BY DEF CutStream, GiveUp, RunInv, CallAtStage
<1>2. SoundTrail(trace', <<>>, <<>>, superseded \cup unlisted, spent, stage' # "failed")
  <2>1. (superseded \cup unlisted) \cup Ids(call.chain) = superseded \cup unlisted
    BY <1>1, OneId
  <2>2. SoundTrail(trace, call.chain, call.costs, superseded \cup unlisted, spent, stage # "failed")
    BY DEF RunInv, TrailInv
  <2>3. SoundTrail(trace', <<>>, <<>>, (superseded \cup unlisted) \cup Ids(call.chain), spent,
                   stage' # "failed")
    BY <1>1, <2>2, GiveUpKeepsTrail DEF Calls
  <2> QED BY <2>1, <2>3
<1> QED BY <1>1, <1>2, NoCallTyped DEF TrailInv, CallAtStage

LEMMA FailKeepsTrail ==
  ASSUME RunInv, FailAttempt
  PROVE  TrailInv' /\ CallAtStage' /\ call' \in [cand : 1..Candidates, rate : 0..RateRetries,
           fault : 0..FaultRetries, costs : Seq(Nat), chain : Seq(Nat), body : BOOLEAN]
<1>1. PICK kind, reached, costs :
        /\ kind \in Kinds /\ reached \in BOOLEAN
        /\ costs = IF reached THEN Append(call.costs, spent + 1) ELSE call.costs
        /\ spent' = IF reached THEN spent + 1 ELSE spent
        /\ \/ /\ MayRetry(kind)
              /\ call' = [Counted(kind) EXCEPT !.costs = costs]
              /\ UNCHANGED <<stage, trace, unlisted>>
           \/ /\ ~MayRetry(kind) /\ MayFallBack(kind)
              /\ call' = NextCandidate(costs)
              /\ UNCHANGED <<stage, trace, unlisted>>
           \/ /\ ~MayRetry(kind) /\ ~MayFallBack(kind)
              /\ GiveUp(Listed(kind, costs))
              /\ unlisted' = unlisted \cup IF kind = "bad_request" THEN Ids(call.chain) ELSE {}
  BY DEF FailAttempt, Reached
<1>2. stage \in Calls /\ ~call.body /\ superseded' = superseded /\ stage # "failed"
  BY DEF FailAttempt, Calls, Deciders, Streams
<1>3. SoundTrail(trace, call.chain, costs, superseded \cup unlisted, spent', TRUE)
  BY <1>1, <1>2, TrailAfterAttempt DEF RunInv, TrailInv
<1>4. costs \in Seq(Nat) /\ call.chain \in Seq(Nat) /\ call.chain \o costs \in Seq(Nat)
  BY <1>3, IdsOfConcat DEF SoundTrail, Ordered
<1>5. CASE /\ MayRetry(kind)
           /\ call' = [Counted(kind) EXCEPT !.costs = costs]
           /\ UNCHANGED <<stage, trace, unlisted>>
  <2>1. Counted(kind) \in [cand : 1..Candidates, rate : 0..RateRetries, fault : 0..FaultRetries,
                           costs : Seq(Nat), chain : Seq(Nat), body : BOOLEAN]
        /\ Counted(kind).chain = call.chain /\ Counted(kind).body = call.body
    <3>1. {RateRetries, FaultRetries} \subseteq Nat /\ call.rate \in Nat /\ call.fault \in Nat
      BY RunAssumption DEF RunInv, RunTyped
    <3>2. CASE kind = "rate_limited"
      <4>1. call.rate + 1 \in 0..RateRetries
        BY <1>5, <3>1, <3>2 DEF MayRetry
      <4> QED BY <3>2, <4>1 DEF Counted, RunInv, RunTyped
    <3>3. CASE kind # "rate_limited"
      <4>1. call.fault + 1 \in 0..FaultRetries
        BY <1>5, <3>1, <3>3 DEF MayRetry
      <4> QED BY <3>3, <4>1 DEF Counted, RunInv, RunTyped
    <3> QED BY <3>2, <3>3
  <2>2. /\ call' \in [cand : 1..Candidates, rate : 0..RateRetries, fault : 0..FaultRetries,
                      costs : Seq(Nat), chain : Seq(Nat), body : BOOLEAN]
        /\ call'.costs = costs /\ call'.chain = call.chain /\ call'.body = FALSE
    BY <1>2, <1>4, <1>5, <2>1 DEF RunInv, RunTyped
  <2>3. SoundTrail(trace', call'.chain, call'.costs, superseded' \cup unlisted', spent', TRUE)
    BY <1>2, <1>3, <1>5, <2>2
  <2> QED BY <1>2, <1>5, <2>2, <2>3 DEF TrailInv, CallAtStage
<1>6. CASE /\ ~MayRetry(kind) /\ MayFallBack(kind)
           /\ call' = NextCandidate(costs)
           /\ UNCHANGED <<stage, trace, unlisted>>
  <2>1. /\ call' \in [cand : 1..Candidates, rate : 0..RateRetries, fault : 0..FaultRetries,
                      costs : Seq(Nat), chain : Seq(Nat), body : BOOLEAN]
        /\ call'.costs = <<>> /\ call'.chain = call.chain \o costs /\ call'.body = FALSE
    <3>1. call.cand + 1 \in 1..Candidates
      BY <1>6, RunAssumption DEF MayFallBack, RunInv, RunTyped
    <3> QED BY <1>4, <1>6, <3>1, NoCallTyped DEF NextCandidate
  <2>2. SoundTrail(trace, call.chain \o costs, <<>>, superseded \cup unlisted, spent', TRUE)
    BY <1>3, TrailAfterFallback
  <2>3. SoundTrail(trace', call'.chain, call'.costs, superseded' \cup unlisted', spent', TRUE)
    BY <1>2, <1>6, <2>1, <2>2
  <2> QED BY <1>2, <1>6, <2>1, <2>3 DEF TrailInv, CallAtStage
<1>7. CASE /\ ~MayRetry(kind) /\ ~MayFallBack(kind)
           /\ GiveUp(Listed(kind, costs))
           /\ unlisted' = unlisted \cup IF kind = "bad_request" THEN Ids(call.chain) ELSE {}
  <2>1. call' = NoCall
    BY <1>7 DEF GiveUp
  <2>2. SoundTrail(trace, call.chain, costs, superseded \cup unlisted, spent', stage # "failed")
    BY <1>2, <1>3
  <2>3. SoundTrail(trace', <<>>, <<>>, superseded' \cup unlisted', spent', stage' # "failed")
    <3>1. CASE kind = "bad_request"
      <4>1. superseded' \cup unlisted' = (superseded \cup unlisted) \cup Ids(call.chain)
        BY <1>2, <1>7, <3>1
      <4>2. GiveUp(costs)
        BY <1>7, <3>1 DEF Listed
      <4>3. SoundTrail(trace', <<>>, <<>>, (superseded \cup unlisted) \cup Ids(call.chain), spent',
                       stage' # "failed")
        BY <1>2, <2>2, <4>2, GiveUpKeepsTrail
      <4> QED BY <4>1, <4>3
    <3>2. CASE kind # "bad_request"
      <4>1. superseded' \cup unlisted' = superseded \cup unlisted
        BY <1>2, <1>7, <3>2
      <4>2. GiveUp(call.chain \o costs)
        BY <1>7, <3>2 DEF Listed
      <4>3. SoundTrail(trace', <<>>, <<>>, superseded \cup unlisted, spent', stage' # "failed")
        BY <1>2, <2>2, <4>2, GiveUpKeepsTrail
      <4> QED BY <4>1, <4>3
    <3> QED BY <3>1, <3>2
  <2> QED BY <2>1, <2>3, NoCallTyped DEF TrailInv, CallAtStage
<1> QED BY <1>1, <1>5, <1>6, <1>7

\* Every step keeps the trail and the record of the call.
LEMMA StepKeepsTrail ==
  ASSUME RunInv, [RunNext]_runVars
  PROVE  /\ TrailInv' /\ CallAtStage'
         /\ call' \in [cand : 1..Candidates, rate : 0..RateRetries, fault : 0..FaultRetries,
                       costs : Seq(Nat), chain : Seq(Nat), body : BOOLEAN]
<1> USE DEF Calls, Deciders, Streams
<1>1. CASE Route \/ Search \/ Decline \/ Validate \/ FailStage
  <2>1. UNCHANGED <<call, trail>> /\ stage \notin Calls /\ stage # "failed"
    BY <1>1 DEF Route, Search, Decline, Validate, FailStage, Quiet, RunFault, trail
  <2> QED BY <2>1, QuietKeepsTrail DEF RunInv, RunTyped
<1>2. CASE ReadRouting \/ Embed \/ Rerank \/ Pregate \/ Review
  <2>1. PICK next \in {"embed", "search", "decline", "answered", "review"} : Succeeds(next)
    BY <1>2 DEF ReadRouting, Embed, Rerank, Pregate, Review
  <2>2. stage # "failed"
    BY <1>2 DEF ReadRouting, Embed, Rerank, Pregate, Review
  <2> QED BY <2>1, <2>2, SuccessKeepsTrail, NoCallTyped
<1>3. CASE Generate \/ ReadAgain
  <2>1. PICK next \in {"reread", "validate"} : EndsStream(next)
    BY <1>3 DEF Generate, ReadAgain
  <2> QED BY <2>1, EndKeepsTrail, NoCallTyped
<1>4. CASE OpenStream
  BY <1>4, OpenKeepsTrail DEF RunTyped
<1>5. CASE CutStream
  BY <1>5, CutKeepsTrail, NoCallTyped DEF CutStream, GiveUp
<1>6. CASE FailAttempt
  BY <1>6, FailKeepsTrail
<1>7. CASE UNCHANGED runVars
  BY <1>7 DEF runVars, RunInv, RunTyped, TrailInv, CallAtStage
<1> QED BY <1>1, <1>2, <1>3, <1>4, <1>5, <1>6, <1>7 DEF RunNext

\* And what is read and delivered.
LEMMA StepKeepsDraft ==
  ASSUME RunInv, [RunNext]_runVars
  PROVE  /\ DraftAtStage' /\ AssertionsAreVetted'
         /\ stage' \in StageNames /\ question' \in BOOLEAN /\ decider' \in BOOLEAN
         /\ evidence' \in 0..2 /\ draft' \in Drafts \cup {"none"} /\ rereads' \in 0..RereadLimit
         /\ vetted' \in {"no", "decider", "reviewer", "rejected"}
         /\ delivered' \in {"nothing", "decline", "draft", "rules", "refusal"}
         /\ runFaults' \in 0..MaxRunFaults
<1> DEFINE Kept == /\ DraftAtStage' /\ AssertionsAreVetted'
                   /\ stage' \in StageNames /\ question' \in BOOLEAN /\ decider' \in BOOLEAN
                   /\ evidence' \in 0..2 /\ draft' \in Drafts \cup {"none"}
                   /\ rereads' \in 0..RereadLimit
                   /\ vetted' \in {"no", "decider", "reviewer", "rejected"}
                   /\ delivered' \in {"nothing", "decline", "draft", "rules", "refusal"}
                   /\ runFaults' \in 0..MaxRunFaults
<1> USE RunAssumption DEF RunInv, RunTyped, DraftAtStage, AssertionsAreVetted, StageNames,
        Calls, Deciders, Streams, Drafts, input, reading
<1>1. CASE Route \/ Search \/ Decline
  <2>1. CASE Route
    BY <2>1 DEF Route, Quiet
  <2>2. CASE Search
    BY <2>2 DEF Search, Quiet
  <2>3. CASE Decline
    BY <2>3 DEF Decline, Quiet
  <2> QED BY <1>1, <2>1, <2>2, <2>3
<1>2. CASE Validate
  BY <1>2 DEF Validate, Decision, Quiet
<1>3. CASE FailStage
  BY <1>3 DEF FailStage, RunFault
<1>4. CASE ReadRouting \/ Embed \/ Rerank
  BY <1>4 DEF ReadRouting, Embed, Rerank, Succeeds
<1>5. CASE Pregate \/ Review
  BY <1>5 DEF Pregate, Review, Succeeds
<1>6. CASE Generate
  BY <1>6 DEF Generate, EndsStream, ReadsAgain
<1>7. CASE ReadAgain
  BY <1>7 DEF ReadAgain, EndsStream
<1>8. CASE OpenStream
  BY <1>8 DEF OpenStream
<1>9. ASSUME NEW listed, GiveUp(listed), RunFault, UNCHANGED <<input, reading>>, stage \in Calls
      PROVE  Kept
  <2>1. stage' \in {"decline", "review", "validate", "failed"}
        /\ (stage' = "review" => stage = "pregate") /\ (stage' = "validate" => stage = "reread")
    BY <1>9 DEF GiveUp, Optional, WithoutIt
  <2> QED BY <1>9, <2>1 DEF RunFault
<1>10. CASE CutStream
  BY <1>9, <1>10 DEF CutStream, CallAtStage
<1>11. CASE FailAttempt
  <2>1. CASE stage' = stage
    BY <1>11, <2>1 DEF FailAttempt, RunFault
  <2>2. CASE \E listed : GiveUp(listed)
    BY <1>9, <1>11, <2>2 DEF FailAttempt
  <2>3. stage' = stage \/ \E listed : GiveUp(listed)
    BY <1>11 DEF FailAttempt
  <2> QED BY <2>1, <2>2, <2>3
<1>12. CASE UNCHANGED runVars
  BY <1>12 DEF runVars
<1> QED BY <1>1, <1>2, <1>3, <1>4, <1>5, <1>6, <1>7, <1>8, <1>10, <1>11, <1>12 DEF RunNext

LEMMA RunInvNext == RunInv /\ [RunNext]_runVars => RunInv'
BY StepKeepsTrail, StepKeepsDraft DEF RunInv, RunTyped, StageNames

\* Type correctness: the counters of retries and of re-reads keep to their limits, and
\* nothing is on the trail but attempts that were made.
THEOREM RunTypeCorrect == RunSpec => []RunTypeOK
<1>1. RunInv => RunTypeOK
  <2> SUFFICES ASSUME RunInv PROVE RunTypeOK
    OBVIOUS
  <2>1. ASSUME NEW s, Ordered(s), Ids(s) \subseteq 1..spent PROVE s \in Seq(1..spent)
    <3>1. Range(s) = Ids(s) /\ s \in Seq(Range(s))
      BY <2>1, SeqOfRange DEF Ordered, Range, Ids
    <3> QED BY <2>1, <3>1, SeqMonotonic
  <2>2. /\ spent \in Nat /\ trace \in Seq(1..spent)
        /\ call.chain \in Seq(1..spent) /\ call.costs \in Seq(1..spent)
        /\ superseded \subseteq 1..spent /\ unlisted \subseteq 1..spent
    BY <2>1 DEF RunInv, TrailInv, SoundTrail, SoundIds
  <2> QED BY <2>2 DEF RunInv, RunTyped, RunTypeOK
<1> QED BY <1>1, RunInvInit, RunInvNext, PTL DEF RunSpec

\* The trace of a run tells its vendor attempts once and in order, through retries,
\* fallbacks and calls given up; of an answered run it lacks only what failed before a
\* call succeeded and what the refusal of a later candidate dropped.
THEOREM TraceTold == RunSpec => []TraceTellsTheRun
<1>1. RunInv => TraceTellsTheRun
  <2> SUFFICES ASSUME RunInv PROVE TraceTellsTheRun
    OBVIOUS
  <2>1. Ascending(trace)
    BY DEF RunInv, TrailInv, SoundTrail, Ordered
  <2>2. ASSUME stage = "answered" PROVE (1..spent) \ Ids(trace) = superseded \cup unlisted
    <3>1. call.chain = <<>> /\ call.costs = <<>>
      BY <2>2, NoCallTyped DEF RunInv, CallAtStage, Calls, Deciders, Streams
    <3>2. SoundIds(Ids(trace), {}, {}, superseded \cup unlisted, spent, TRUE)
      BY <2>2, <3>1, OneId DEF RunInv, TrailInv, SoundTrail
    <3> QED BY <3>2 DEF SoundIds
  <2> QED BY <2>1, <2>2 DEF Ascending, TraceTellsTheRun
<1> QED BY <1>1, RunInvInit, RunInvNext, PTL DEF RunSpec

\* Whatever path the stages take, text that asserts something is delivered only when it
\* was checked against its context and reviewed: a draft that was revised after its
\* verdict, or that a failed reviewer never saw, does not reach the reader.
THEOREM AssertionsVetted == RunSpec => []AssertionsAreVetted
<1>1. RunInv => AssertionsAreVetted
  BY DEF RunInv
<1> QED BY <1>1, RunInvInit, RunInvNext, PTL DEF RunSpec
=============================================================================
