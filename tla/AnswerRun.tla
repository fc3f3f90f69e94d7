------------------------------ MODULE AnswerRun ------------------------------
(***************************************************************************)
(* One run of the chat pipeline: the runner's walk of the five stages, the *)
(* vendor calls its stages make through the fallback chain, and the trail  *)
(* of what they cost.                                                      *)
(*                                                                         *)
(*   stage  where the run is; a stage that calls a vendor stays there     *)
(*          while the chain retries and falls back                         *)
(*   call   the chain walk of the call under way                           *)
(*   spent  vendor attempts that reached a vendor so far; each is known by *)
(*          its number                                                     *)
(*   trace  the attempts the trace's llm_call events stand for, in order   *)
(*   draft  the shape of the generator's draft, as the citation validator  *)
(*          and the refusal grammar read it                                *)
(*                                                                         *)
(* The text of prompts, drafts and evidence is left out.                   *)
(***************************************************************************)
EXTENDS Integers, Sequences, FiniteSets

CONSTANTS Candidates,   \* candidates of a role that may see personal data
          RateRetries,  \* retries of a throttled candidate (2)
          FaultRetries, \* retries of a candidate that failed (3)
          RereadLimit,  \* REFUSAL_REREAD_LIMIT (1)
          MaxRunFaults     \* bound on attempts and steps that fail

ASSUME RunAssumption ==
  /\ Candidates \in Nat \ {0}
  /\ {RateRetries, FaultRetries, RereadLimit, MaxRunFaults} \subseteq Nat

VARIABLES stage, question, evidence, decider, draft, rereads, vetted, delivered,
          call, spent, trace, runFaults,
          superseded, \* history: attempts that failed before their call succeeded
          unlisted    \* history: attempts a later candidate's refusal dropped

runVars == <<stage, question, evidence, decider, draft, rereads, vetted, delivered,
          call, spent, trace, runFaults, superseded, unlisted>>

input == <<question, decider>>
reading == <<evidence, draft, rereads, vetted, delivered>>
trail == <<spent, trace, superseded, unlisted>>

Ids(s) == {s[i] : i \in DOMAIN s}
RunFault == runFaults < MaxRunFaults /\ runFaults' = runFaults + 1

-----------------------------------------------------------------------------
(* Vendor calls. *)

Deciders == {"rerank", "pregate"}
Streams == {"generate", "reread"}
Calls == {"router", "embed", "review"} \cup Deciders \cup Streams

NoCall == [cand |-> 1, rate |-> 0, fault |-> 0, costs |-> <<>>, chain |-> <<>>,
           body |-> FALSE]

Kinds == {"rate_limited", "server", "transport", "bad_request"}

\* An answer with an error status reached the vendor; a broken connection or a missing
\* capability may not have.
Reached(kind) == IF kind \in {"rate_limited", "server"} THEN {TRUE} ELSE BOOLEAN

\* perKindRetrySchedule; a decider is called once.
MayRetry(kind) ==
  /\ stage \notin Deciders
  /\ \/ kind = "rate_limited" /\ call.rate < RateRetries
     \/ kind \in {"transport", "server"} /\ call.fault < FaultRetries

Counted(kind) == IF kind = "rate_limited" THEN [call EXCEPT !.rate = @ + 1]
                 ELSE [call EXCEPT !.fault = @ + 1]

MayFallBack(kind) == stage \notin Deciders /\ kind # "bad_request" /\ call.cand < Candidates

NextCandidate(costs) ==
  [NoCall EXCEPT !.cand = call.cand + 1, !.chain = call.chain \o costs]

\* What the error that leaves the chain lists: all of it once the chain is exhausted,
\* the last candidate's attempts alone when that candidate refused outright.
Listed_LastCandidate(kind, costs) == costs
Listed(kind, costs) == IF kind = "bad_request" THEN costs ELSE call.chain \o costs

\* Every stage of the chat fails with { cause } around what its provider threw; the
\* runner looks for a ProviderError one level below the StageError.
StageCause == "wrapped"
RunnerRecords(costs) == IF StageCause = "ProviderError" THEN costs ELSE <<>>

\* The calls a run does without: its own fail-open path records what the error lists.
Optional == Deciders \cup {"reread"}
WithoutIt == [rerank |-> "decline", pregate |-> "review", reread |-> "validate"]

GiveUp(listed) ==
  /\ IF stage \in Optional
     THEN stage' = WithoutIt[stage] /\ trace' = trace \o listed
     ELSE stage' = "failed" /\ trace' = trace \o RunnerRecords(listed)
  /\ call' = NoCall

\* One attempt fails.  The stamp of an attempt that reached the vendor is collected
\* before the schedule decides.
FailAttempt ==
  /\ stage \in Calls /\ ~call.body /\ RunFault
  /\ \E kind \in Kinds : \E reached \in Reached(kind) :
       LET id == spent + 1
           costs == IF reached THEN Append(call.costs, id) ELSE call.costs
       IN /\ spent' = IF reached THEN id ELSE spent
          /\ \/ /\ MayRetry(kind)
                /\ call' = [Counted(kind) EXCEPT !.costs = costs]
                /\ UNCHANGED <<stage, trace, unlisted>>
             \/ /\ ~MayRetry(kind) /\ MayFallBack(kind)
                /\ call' = NextCandidate(costs)
                /\ UNCHANGED <<stage, trace, unlisted>>
             \/ /\ ~MayRetry(kind) /\ ~MayFallBack(kind)
                /\ GiveUp(Listed(kind, costs))
                /\ unlisted' = unlisted \cup IF kind = "bad_request" THEN Ids(call.chain) ELSE {}
  /\ UNCHANGED <<input, reading, superseded>>

\* The stream is open, and the chain with its retries is behind it.
OpenStream ==
  /\ stage \in Streams /\ ~call.body
  /\ spent' = spent + 1
  /\ superseded' = superseded \cup Ids(call.chain \o call.costs)
  /\ call' = [NoCall EXCEPT !.body = TRUE, !.costs = <<spent + 1>>]
  /\ UNCHANGED <<stage, input, reading, trace, runFaults, unlisted>>

\* The body is cut: a stream that has begun is not retried.
CutStream ==
  /\ call.body /\ RunFault
  /\ GiveUp(call.costs)
  /\ UNCHANGED <<input, reading, spent, superseded, unlisted>>

\* A call without a body succeeds, and its record goes to the trace.
Succeeds(next) ==
  /\ stage' = next /\ call' = NoCall
  /\ spent' = spent + 1
  /\ trace' = Append(trace, spent + 1)
  /\ superseded' = superseded \cup Ids(call.chain \o call.costs)
  /\ UNCHANGED <<runFaults, unlisted>>

\* A stream ends, and its deferred cost is recorded.
EndsStream(next) ==
  /\ call.body
  /\ stage' = next /\ call' = NoCall
  /\ trace' = trace \o call.costs
  /\ UNCHANGED <<spent, runFaults, superseded, unlisted>>

Quiet == UNCHANGED <<call, trail, runFaults>>

-----------------------------------------------------------------------------
(* Router and Retriever. *)

\* A message with no question in it is routed, retrieved and declined without a call.
Route ==
  /\ stage = "route"
  /\ stage' = IF question THEN "router" ELSE "decline"
  /\ Quiet /\ UNCHANGED <<input, reading>>

ReadRouting == stage = "router" /\ Succeeds("embed") /\ UNCHANGED <<input, reading>>

Embed == stage = "embed" /\ Succeeds("search") /\ UNCHANGED <<input, reading>>

\* The searches and expansions; reranking takes two unlabelled chunks and a decider.
Search ==
  /\ stage = "search"
  /\ evidence' \in {0, 1, 2}
  /\ stage' = IF evidence' = 2 /\ decider THEN "rerank" ELSE "decline"
  /\ Quiet /\ UNCHANGED <<input, draft, rereads, vetted, delivered>>

\* The decision is applied, or read as unusable: the chunks are the same.
Rerank == stage = "rerank" /\ Succeeds("decline") /\ UNCHANGED <<input, reading>>

\* The decline seam, after the assembler.
Decline ==
  /\ stage = "decline"
  /\ IF question
     THEN stage' = "generate" /\ UNCHANGED delivered
     ELSE stage' = "answered" /\ delivered' = "decline"
  /\ Quiet /\ UNCHANGED <<input, evidence, draft, rereads, vetted>>

-----------------------------------------------------------------------------
(* Generator and Reviewer. *)

\* A refusal with nothing else in it; a citation the context does not hold; a refusal
\* beside grounded citations; one that asserts and cites nothing; grounded citations
\* and no refusal; neither.
Drafts == {"refusal", "ungrounded", "hybrid", "asserting", "cited", "bare"}

\* Only a refusal on evidence that was retrieved is read again.
ReadsAgain(d) == d = "refusal" /\ evidence > 0 /\ rereads < RereadLimit

Generate ==
  /\ stage = "generate"
  /\ draft' \in Drafts
  /\ EndsStream(IF ReadsAgain(draft') THEN "reread" ELSE "validate")
  /\ UNCHANGED <<input, evidence, rereads, vetted, delivered>>

\* A second refusal leaves the first draft standing.
ReadAgain ==
  /\ stage = "reread"
  /\ draft' \in Drafts
  /\ rereads' = rereads + 1
  /\ EndsStream(IF draft' = "refusal" /\ rereads' < RereadLimit THEN "reread" ELSE "validate")
  /\ UNCHANGED <<input, evidence, vetted, delivered>>

\* refusalDraftDecision, over the draft that will be delivered.
Decision == [refusal |-> "draft", ungrounded |-> "refusal", asserting |-> "refusal",
             hybrid |-> "rules"]

Validate_ReviewerOnly ==
  /\ stage = "validate"
  /\ stage' = IF decider THEN "pregate" ELSE "review"
  /\ Quiet /\ UNCHANGED <<input, reading>>
Validate ==
  /\ stage = "validate"
  /\ IF draft \in DOMAIN Decision
     THEN stage' = "answered" /\ delivered' = Decision[draft]
     ELSE /\ stage' = IF decider /\ draft = "cited" THEN "pregate" ELSE "review"
          /\ UNCHANGED delivered
  /\ Quiet /\ UNCHANGED <<input, evidence, draft, rereads, vetted>>

\* Every citation scored above the threshold skips the reviewer; a low score or an
\* unusable answer escalates.
Pregate ==
  /\ stage = "pregate"
  /\ \/ Succeeds("answered") /\ vetted' = "decider" /\ delivered' = "rules"
     \/ Succeeds("review") /\ UNCHANGED <<vetted, delivered>>
  /\ UNCHANGED <<input, evidence, draft, rereads>>

\* An unreadable verdict passes.
Review ==
  /\ stage = "review"
  /\ Succeeds("answered")
  /\ \/ vetted' = "reviewer" /\ delivered' = "rules"
     \/ vetted' = "rejected" /\ delivered' = "refusal"
  /\ UNCHANGED <<input, evidence, draft, rereads>>

\* The routing, a store search or the assembler fails: no vendor was involved.
FailStage ==
  /\ stage \in {"route", "search", "decline"} /\ RunFault
  /\ stage' = "failed"
  /\ UNCHANGED <<call, trail, input, reading>>

-----------------------------------------------------------------------------
RunInit ==
  /\ stage = "route" /\ question \in BOOLEAN /\ decider \in BOOLEAN
  /\ evidence = 0 /\ draft = "none" /\ rereads = 0 /\ vetted = "no" /\ delivered = "nothing"
  /\ call = NoCall /\ spent = 0 /\ trace = <<>> /\ runFaults = 0
  /\ superseded = {} /\ unlisted = {}

RunNext == \/ Route \/ ReadRouting \/ Embed \/ Search \/ Rerank \/ Decline
        \/ Generate \/ ReadAgain \/ Validate \/ Pregate \/ Review
        \/ OpenStream \/ CutStream \/ FailAttempt \/ FailStage

RunSpec == RunInit /\ [][RunNext]_runVars

-----------------------------------------------------------------------------
\* The type invariant.
RunTypeOK ==
  /\ stage \in Calls \cup {"route", "search", "decline", "validate", "answered", "failed"}
  /\ question \in BOOLEAN /\ decider \in BOOLEAN /\ evidence \in 0..2
  /\ draft \in Drafts \cup {"none"} /\ rereads \in 0..RereadLimit
  /\ vetted \in {"no", "decider", "reviewer", "rejected"}
  /\ delivered \in {"nothing", "decline", "draft", "rules", "refusal"}
  /\ spent \in Nat /\ runFaults \in 0..MaxRunFaults
  /\ trace \in Seq(1..spent) /\ superseded \subseteq 1..spent /\ unlisted \subseteq 1..spent
  /\ call \in [cand : 1..Candidates, rate : 0..RateRetries, fault : 0..FaultRetries,
               costs : Seq(1..spent), chain : Seq(1..spent), body : BOOLEAN]

\* No attempt is on the trail twice, and the trail is in the order they happened,
\* through retries, fallbacks and abandoned calls.  When an answer is delivered, every
\* vendor attempt of the run is in its trace, those of the calls it did without
\* included; the two gaps are attempts that failed before their call succeeded and
\* those the refusal of a later candidate dropped.
TraceTellsTheRun ==
  /\ \A i, j \in DOMAIN trace : i < j => trace[i] < trace[j]
  /\ stage = "answered" => (1..spent) \ Ids(trace) = superseded \cup unlisted

\* Text that asserts something reaches the reader only if it is the text that was
\* validated against the context, and reviewed: by the reviewer, by a decider that
\* supported every citation, or beside the refusal sentence with grounded citations.
AssertionsAreVetted ==
  /\ delivered = "rules" => \/ draft \in {"cited", "bare"} /\ vetted = "reviewer"
                            \/ draft = "cited" /\ vetted = "decider"
                            \/ draft = "hybrid"
  /\ delivered = "draft" => draft = "refusal"

\* run.ts: a failed vendor attempt that reached the vendor may never vanish from the
\* cost trail of a failed run.
FailedTraceIsComplete ==
  stage = "failed" => (1..spent) \ Ids(trace) \subseteq superseded \cup unlisted

\* provider-factory.ts: the error a caller sees lists every attempt that reached a vendor.
ErrorListsItsAttempts == unlisted = {}
=============================================================================
