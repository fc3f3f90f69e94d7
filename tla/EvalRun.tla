------------------------------ MODULE EvalRun ------------------------------
(***************************************************************************)
(* One run of the evaluation client against a deployed API (packages/eval):*)
(* the release gate over a whole Golden Set ("full"), or the smoke of a    *)
(* deploy over a sample of it, behind the readiness gate ("smoke").        *)
(*                                                                         *)
(*   results   the run's results in the order of its questions             *)
(*   ledger    the rows of eval_results, in the order of their inserts     *)
(*   runRow    the row of eval_runs: none, pending or final                *)
(*                                                                         *)
(* A label stands for the one passage that carries it.  A reply is what    *)
(* the server made of a question, and which of its frames arrived.         *)
(***************************************************************************)
EXTENDS Integers, Sequences, FiniteSets, SequencesExt

CONSTANTS Labels, TypeOf,
          IdentityOf,    \* the signed identity of a label; its own, if it has none
          Fixtures,      \* Golden Sets: sequences of questions
          HeldOuts,      \* sets of positions the caller holds out
          RequiredTags,  \* in the caller's order
          Sizes,         \* sample sizes (5)
          RetryBudget,   \* CHAT_RETRY_BUDGET (3)
          CostCap        \* EVAL_BUDGET_MICRO_USD; 0: no cap

\* What the contract asks of a question.  It may require no citation, and name no type.
WellFormed(x) ==
  /\ x.behavior \in {"answer", "refuse"} /\ x.language \in {"en", "id"}
  /\ x.required \subseteq Labels /\ x.alternatives \subseteq Labels
  /\ x.types \subseteq {TypeOf[l] : l \in Labels}
  /\ x.alternatives # {} => Cardinality(x.required) = 1 /\ ~(x.required \subseteq x.alternatives)

ASSUME EvalAssumption ==
  /\ \A f \in Fixtures : f \in Seq(ToSet(f)) /\ \A i \in DOMAIN f : WellFormed(f[i])
  /\ RequiredTags \in Seq(ToSet(RequiredTags))
  /\ Sizes \subseteq Nat \ {0} /\ RetryBudget \in Nat /\ CostCap \in Nat

Replies == [cites : SUBSET Labels, hits : SUBSET Labels, refused : BOOLEAN,
            frame : BOOLEAN, meta : BOOLEAN]

VARIABLES plan, sample, step, results, ledger, outcome, runRow,
          billed,       \* Budget.total
          retried, unready, capped,
          earned,       \* history: positions whose reply was what the question asks for
          unbilled      \* history: a retried request had been answered and paid for

evalVars == <<plan, sample, step, results, ledger, outcome, runRow,
              billed, retried, unready, capped, earned, unbilled>>

-----------------------------------------------------------------------------
(* selectSmokeSubset. *)
TagClass(f, t) == {i \in DOMAIN f : t \in f[i].tags}

Coverage(f) ==
  <<{i \in DOMAIN f : f[i].behavior = "refuse"}>>
  \o [n \in DOMAIN RequiredTags |-> TagClass(f, RequiredTags[n])]
  \o <<{i \in DOMAIN f : f[i].language = "en"},
       {i \in DOMAIN f : f[i].language = "id" /\ f[i].behavior = "answer"}>>

Available(f, held) == DOMAIN f \ held

\* The turns of the selection: the classes, then the fixture's own order.
Turns(f) == Coverage(f) \o [i \in DOMAIN f |-> {i}]
Eligible(f, held, n) == Turns(f)[n] \cap Available(f, held)

\* Each turn takes its first available question, unless an earlier turn did.
Pick(f, held, n) == Min(Eligible(f, held, n))
Picking(f, held) ==
  {n \in DOMAIN Turns(f) :
     /\ Eligible(f, held, n) # {}
     /\ \A m \in 1..(n - 1) : Eligible(f, held, m) # {} => Pick(f, held, m) # Pick(f, held, n)}

\* The turns before the sample is full, of the classes and of all.
Rank(P, n) == Cardinality({m \in P : m < n})

ByClass(f, held, size) ==
  {Pick(f, held, n) :
     n \in {m \in Picking(f, held) \cap DOMAIN Coverage(f) : Rank(Picking(f, held), m) < size}}

Filled(f, held, size) ==
  LET P == Picking(f, held)
  IN  [k \in 1..Min({size, Cardinality(P)}) |->
         Pick(f, held, CHOOSE n \in P : Rank(P, n) = k - 1)]

Covers(picked, f, held) ==
  \A n \in DOMAIN Coverage(f) :
    LET class == Coverage(f)[n] \cap Available(f, held)
    IN  class # {} => class \cap picked # {}

\* A sample that silently lost a class would be a weaker gate: it throws instead.
Selectable(f, held, size) ==
  /\ held \subseteq DOMAIN f
  /\ \A n \in DOMAIN RequiredTags : TagClass(f, RequiredTags[n]) \ held # {}
  /\ Covers(ByClass(f, held, size), f, held)
  /\ Filled(f, held, size) # <<>>

-----------------------------------------------------------------------------
(* scoreQuestion.  `seen`: the trace was found, through the id of the meta frame. *)
Attested(r) == r.cites \cap r.hits

\* citationEvidenceLabels: the citations frame, else the grounded list of the review.
HasEvidence(r, seen) == r.frame \/ (seen /\ ~r.refused)

\* Only citation validity falls back to the labels in the answer's text.
Present(r, seen) == IF HasEvidence(r, seen) THEN Attested(r) ELSE r.cites

Grounded_ByText(r, seen) == Present(r, seen) # {}

Grounded(r, seen) == HasEvidence(r, seen) /\ Attested(r) # {}

Retrieved(r, seen) == IF seen THEN r.hits ELSE {}

CitationsValid(x, r, seen) ==
  \A l \in x.required :
    \E p \in Present(r, seen) :
      p = l \/ p \in x.alternatives \/ IdentityOf[p] = IdentityOf[l]

TypesRecalled(x, r, seen) == x.types \subseteq {TypeOf[l] : l \in Retrieved(r, seen)}

AddressesRecalled(x, r, seen) ==
  \A l \in x.required : ({l} \cup x.alternatives) \cap Retrieved(r, seen) # {}

BehaviorAccepted(x, r, seen) ==
  IF x.behavior = "answer" THEN ~r.refused ELSE r.refused \/ Grounded(r, seen)

\* verdict: only the deployed smoke leaves the addresses out.
Passes(x, r, seen) ==
  /\ BehaviorAccepted(x, r, seen) /\ CitationsValid(x, r, seen) /\ TypesRecalled(x, r, seen)
  /\ plan.kind = "full" => AddressesRecalled(x, r, seen)

-----------------------------------------------------------------------------
Here == Len(results) + 1
Question == plan.paper[sample[Here]]

WouldExceed(total) == CostCap > 0 /\ total > CostCap

NoOutcome == [at |-> 0, passed |-> FALSE, skipped |-> FALSE]
Skipped == [at |-> Here, passed |-> FALSE, skipped |-> TRUE]

ClientFrame == <<plan, sample, results, ledger, runRow>>
GateFrame == <<retried, unready, unbilled>>

To(s) == step' = s

\* A sample is chosen for the smoke only; the release gate asks every question.
SelectSample ==
  /\ step = "select"
  /\ LET f == plan.paper
     IN  \/ /\ plan.kind = "full"
            /\ sample' = [i \in DOMAIN f |-> i] /\ To("create")
         \/ /\ plan.kind = "smoke"
            /\ IF Selectable(f, plan.held, plan.size)
                 THEN sample' = Filled(f, plan.held, plan.size) /\ To("health")
                 ELSE UNCHANGED sample /\ To("red")
  /\ UNCHANGED <<plan, results, ledger, outcome, runRow, billed, capped, earned, GateFrame>>

\* waitForReadiness: the target answers within the budget, or nothing is asked.
AwaitHealth ==
  /\ step = "health"
  /\ \E s \in {"create", "red"} : To(s)
  /\ UNCHANGED <<ClientFrame, outcome, billed, capped, earned, GateFrame>>

\* A store call that fails may have taken effect; this one ends the run.
CreateRun ==
  /\ step = "create"
  /\ \/ runRow' = "pending" /\ To("ask")
     \/ runRow' \in {"none", "pending"} /\ To("red")
  /\ UNCHANGED <<plan, sample, results, ledger, outcome, billed, capped, earned, GateFrame>>

StopAsking ==
  /\ step = "ask"
  /\ \/ Here > Len(sample) /\ UNCHANGED capped
     \/ Here <= Len(sample) /\ WouldExceed(billed) /\ capped' = TRUE
  /\ To("report")
  /\ UNCHANGED <<ClientFrame, outcome, billed, earned, GateFrame>>

MayAsk == step = "ask" /\ Here <= Len(sample) /\ ~WouldExceed(billed)

Skip == outcome' = Skipped /\ To("save")

\* The request got a response: it broke afterwards, or is no edge rejection.
BreakOff ==
  /\ MayAsk /\ ~unready
  /\ Skip
  /\ UNCHANGED <<ClientFrame, billed, capped, earned, GateFrame>>

\* isReadinessClassError: no headers, or a 502, 503 or 504.  A proxy that gave up on
\* the pipeline sends one too, so the turn may have been run and `paid`.
Reject(paid) ==
  /\ MayAsk /\ ~unready
  /\ IF plan.kind = "smoke" /\ retried < RetryBudget
       THEN /\ retried' = retried + 1 /\ unbilled' = (unbilled \/ paid)
            /\ UNCHANGED <<unready, outcome, step>>
       ELSE /\ unready' = (plan.kind = "smoke") /\ Skip
            /\ UNCHANGED <<retried, unbilled>>
  /\ UNCHANGED <<ClientFrame, billed, capped, earned>>

\* Once the retries of the run are spent, every later question fails fast.
FailFast ==
  /\ MayAsk /\ unready
  /\ Skip
  /\ UNCHANGED <<ClientFrame, billed, capped, earned, GateFrame>>

\* A question that names source types is answered from what was retrieved; the text of
\* the answer is all that backs a citation of one that names none, or of a refusal.
Basis(x, r) == IF x.types # {} /\ ~r.refused THEN Attested(r) ELSE r.cites

\* What a question asks for: one that requires no citation asks for none.
Deserves(x, r) ==
  /\ IF x.behavior = "answer" THEN ~r.refused ELSE r.refused \/ Attested(r) # {}
  /\ x.types \subseteq {TypeOf[l] : l \in r.hits}
  /\ \A l \in x.required :
       \E p \in Basis(x, r) : p = l \/ p \in x.alternatives \/ IdentityOf[p] = IdentityOf[l]

\* What scoring makes of a reply to a question, and what it deserves.
Scores(x) ==
  {[passed |-> Passes(x, r, r.meta), deserved |-> Deserves(x, r), seen |-> r.meta] :
     r \in Replies}

\* The answer is read, its trace, when it was found, is billed, and the whole scored.
Score(s, cost) ==
  /\ MayAsk /\ ~unready
  /\ billed' = billed + cost /\ ~WouldExceed(billed')
  /\ outcome' = [at |-> Here, skipped |-> FALSE, passed |-> s.passed]
  /\ To("save")
  /\ earned' = IF s.deserved THEN earned \cup {Here} ELSE earned
  /\ UNCHANGED <<ClientFrame, capped, GateFrame>>

\* The trace cannot be read, or the labels of its passages, when it is billed already.
LoseTrace(cost) ==
  /\ MayAsk /\ ~unready
  /\ billed' \in {billed, billed + cost} /\ ~WouldExceed(billed')
  /\ Skip
  /\ UNCHANGED <<ClientFrame, capped, earned, GateFrame>>

\* budget.check after the trace: the question stays without a result.
StopAtCap(cost) ==
  /\ MayAsk /\ ~unready
  /\ billed' = billed + cost /\ WouldExceed(billed')
  /\ capped' = TRUE /\ To("report")
  /\ UNCHANGED <<ClientFrame, outcome, earned, GateFrame>>

\* A result of the run: the outcome, and whether its row could not be stored.
Result(o, noted) ==
  [at |-> o.at, passed |-> o.passed, skipped |-> o.skipped, noted |-> noted]

SaveResult ==
  /\ step = "save"
  /\ ledger' = Append(ledger, outcome)
  /\ results' = Append(results, Result(outcome, FALSE))
  /\ outcome' = NoOutcome /\ To("ask")
  /\ UNCHANGED <<plan, sample, runRow, billed, capped, earned, GateFrame>>

FailSave_KeepsVerdict ==
  /\ step = "save"
  /\ ledger' \in {ledger, Append(ledger, outcome)}
  /\ results' = Append(results, Result(outcome, TRUE))
  /\ outcome' = NoOutcome /\ To("ask")
  /\ UNCHANGED <<plan, sample, runRow, billed, capped, earned, GateFrame>>

\* The question fails, since its evidence was not stored, or cannot be known to be.
FailSave ==
  /\ step = "save"
  /\ ledger' \in {ledger, Append(ledger, outcome)}
  /\ results' = Append(results, Result([outcome EXCEPT !.passed = FALSE], TRUE))
  /\ outcome' = NoOutcome /\ To("ask")
  /\ UNCHANGED <<plan, sample, runRow, billed, capped, earned, GateFrame>>

RefreshRun ==
  /\ step = "report"
  /\ \/ runRow' = "final" /\ To("exit")
     \/ runRow' \in {"pending", "final"} /\ To("red")
  /\ UNCHANGED <<plan, sample, results, ledger, outcome, billed, capped, earned, GateFrame>>

\* exitPolicy, after the readiness failure of a smoke; the release gate reads its
\* report back first, and that may fail.
Exit ==
  /\ step = "exit"
  /\ LET fine == /\ \A i \in DOMAIN results : results[i].passed /\ ~results[i].skipped
                 /\ Len(results) = Len(sample)
                 /\ ~unready
     IN  \/ To(IF fine THEN "green" ELSE "red")
         \/ plan.kind = "full" /\ To("red")
  /\ UNCHANGED <<ClientFrame, outcome, billed, capped, earned, GateFrame>>

EvalInit ==
  /\ plan \in [kind : {"smoke"}, paper : Fixtures, held : HeldOuts, size : Sizes]
            \cup [kind : {"full"}, paper : Fixtures, held : {{}}, size : {0}]
  /\ sample = <<>> /\ step = "select"
  /\ results = <<>> /\ ledger = <<>> /\ outcome = NoOutcome /\ runRow = "none"
  /\ billed = 0 /\ retried = 0 /\ unready = FALSE /\ capped = FALSE
  /\ earned = {} /\ unbilled = FALSE

Costs == 0..1

EvalNext ==
  \/ SelectSample \/ AwaitHealth \/ CreateRun \/ StopAsking \/ BreakOff \/ FailFast
  \/ \E paid \in BOOLEAN : Reject(paid)
  \/ \E cost \in Costs : LoseTrace(cost) \/ StopAtCap(cost)
  \/ MayAsk /\ \E s \in Scores(Question) :
                   \E cost \in IF s.seen THEN Costs ELSE {0} : Score(s, cost)
  \/ SaveResult \/ FailSave \/ RefreshRun \/ Exit

EvalSpec == EvalInit /\ [][EvalNext]_evalVars

-----------------------------------------------------------------------------
(* Type correctness of the client. *)
EvalTypeOK ==
  /\ step \in {"select", "health", "create", "ask", "save", "report", "exit", "green", "red"}
  /\ sample \in Seq(DOMAIN plan.paper)
  /\ ledger \in Seq([at : Nat \ {0}, passed : BOOLEAN, skipped : BOOLEAN])
  /\ results \in Seq([at : Nat \ {0}, passed : BOOLEAN, skipped : BOOLEAN, noted : BOOLEAN])
  /\ outcome \in [at : Nat, passed : BOOLEAN, skipped : BOOLEAN]
  /\ runRow \in {"none", "pending", "final"} /\ billed \in Nat /\ retried \in 0..RetryBudget
  /\ {unready, capped, unbilled} \subseteq BOOLEAN /\ earned \subseteq Nat

(* A green run was earned: every question of its sample got a reply that is what   *)
(* the question asks for; each is in the ledger once, as passed; what was billed   *)
(* is within the cap; and the sample has a question of every class that was        *)
(* available.  A trap that is not refused is then cited from what was retrieved,   *)
(* and so is every citation that a question with source types requires; an answer  *)
(* to a question that requires none (gs-v0-018) may be green without any citation. *)
GreenIsEarned ==
  step = "green" =>
    /\ Len(ledger) = Len(sample) /\ runRow = "final" /\ ~WouldExceed(billed)
    /\ \A i \in DOMAIN sample :
         i \in earned /\ ledger[i] = [at |-> i, passed |-> TRUE, skipped |-> FALSE]
    /\ plan.kind = "smoke" => Covers(ToSet(sample), plan.paper, plan.held)

(* Report and ledger account for the same run: every question has one result and   *)
(* at most one row, in order; a result without a note is exactly its row, and one  *)
(* with a note claims nothing the ledger may lack; only the cap leaves a question  *)
(* without a result; and a question is skipped for readiness only when the retries *)
(* of the run are spent.                                                           *)
LedgerAgreesWithReport ==
  /\ \A i \in DOMAIN results :
       /\ results[i].at = i
       /\ results[i].noted => ~results[i].passed
       /\ ~results[i].noted => \E n \in DOMAIN ledger :
            ledger[n] = [at |-> i, passed |-> results[i].passed, skipped |-> results[i].skipped]
  /\ \A n \in DOMAIN ledger :
       /\ ledger[n].at \in DOMAIN results
       /\ \A m \in 1..(n - 1) : ledger[m].at # ledger[n].at
  /\ runRow = "final" /\ Len(results) < Len(sample) => WouldExceed(billed)
  /\ unready => retried = RetryBudget /\ plan.kind = "smoke"

(* readiness.mjs says of a rejected request that no answer exists to judge and     *)
(* nothing was spent.                                                              *)
NothingSpentOnRetry == ~unbilled
=============================================================================
