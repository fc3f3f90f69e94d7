----------------------------- MODULE MCApiProcess -----------------------------
(* The API process around the chat's store for TLC, and the evaluation client that  *)
(* asks it.  Its admin surface, its limiter, its boot, a run of the pipeline, a      *)
(* retrieval, the gate and the client share no variable, so each is explored on its *)
(* own; the searches of a retrieval and the reads after them, which share the hits only, are *)
(* two sides.                                                                       *)
EXTENDS AdminAccess, RateLimiter, ModelMirror, AnswerRun, Retrieval, CitationGate,
        MCEvalRun, TLC

CONSTANTS c1, c2, c3, x1, x2, p1, p2, p3, m1, m2, y1, y2, l1, l2,
          d1, d2, d3, d4

\* Two clients share a digest, and there are more counters than the Map may hold.
MCDigestOf == c1 :> x1 @@ c2 :> x1 @@ c3 :> x2
MCLimit == [s \in Surfaces |-> IF s = "ip" THEN 2 ELSE 1]

\* A price changes, a model is added, and the first one is removed.
MCConfigOf == p1 :> {[model |-> m1, price |-> y1]}
           @@ p2 :> {[model |-> m1, price |-> y2], [model |-> m2, price |-> y1]}
           @@ p3 :> {[model |-> m2, price |-> y1]}

\* Two surahs fit the budget of two, one does not; two rows are hadiths.
MCAyahCount == <<3, 2, 1>>
MCChainsOf == (<<9, 0>> :> 2) @@ (<<9, 1>> :> 1)
MCStored == {r \in (1..3) \X (0..2) : r[2] < MCAyahCount[r[1]]} \cup DOMAIN MCChainsOf
MCLabelRows == l1 :> <<<<1, 1>>, <<9, 0>>>> @@ l2 :> <<<<2, 0>>>>

\* A surah of three verses and three hadiths, two children each: a blank text, and an
\* edition that moves every record to the child before.
Verse(n) == [source |-> "verse", part |-> 1, number |-> n]
Hadith(n) == [source |-> "hadith", part |-> 0, number |-> n]
VRow(n) == [label |-> Verse(n), arabic |-> TRUE, weak |-> FALSE, chains |-> <<>>]
HRow(n, weak, chains) == [label |-> Hadith(n), arabic |-> TRUE, weak |-> weak, chains |-> chains]
MCVersions == d1 :> <<VRow(1), [VRow(1) EXCEPT !.arabic = FALSE]>>
           @@ d2 :> <<VRow(2), VRow(3)>>
           @@ d3 :> <<HRow(7, FALSE, <<TRUE>>), HRow(8, TRUE, <<>>)>>
           @@ d4 :> <<HRow(8, TRUE, <<FALSE, TRUE>>), HRow(9, FALSE, <<FALSE, TRUE>>)>>
MCContexts == {<<d1, d2>>, <<d2, d3>>, <<d3, d4>>, <<d4, d3>>}
Cite(at, tails, spaced) == [at |-> at, tails |-> tails, spaced |-> spaced]
One(at) == Cite(at, <<>>, FALSE)
MCTexts ==
  {{}, {One(Verse(1))}, {Cite(Verse(1), <<2>>, FALSE)}, {Cite(Verse(3), <<1>>, TRUE)},
   {Cite(Verse(2), <<4>>, TRUE)}, {One([Verse(2) EXCEPT !.part = 0])},
   {One(Verse(2))}, {One(Hadith(8)), One(Hadith(9))}, {One(Hadith(7)), One(Hadith(8))},
   {One(Verse(2)), One(Hadith(7))},
   {Cite(Hadith(7), <<8>>, FALSE)}, {Cite(Hadith(7), <<8>>, TRUE)},
   {One(Hadith(7)), One([source |-> "kitab", part |-> 1, number |-> 1])}}
MCVerses == <<3>>

VARIABLE side

apiVars == <<vars, rateVars, mirrorVars, runVars, retrievalVars, gateVars, evalVars, side>>

ApiInit ==
  /\ Init /\ RateInit /\ MirrorInit /\ RunInit /\ RetrievalInit /\ GateInit
  /\ EvalInit
  /\ side \in {"admin", "rate", "boot", "run", "search", "context", "gate", "eval"}
  /\ side # "run" => question /\ decider
  /\ side # "search" => intended = {}
  /\ side # "context" => asked = [surah |-> 0, from |-> 0, labels |-> <<>>]
  /\ asked.labels \in {<<>>, <<l1, l2>>}
  /\ side # "eval" => plan = [kind |-> "smoke", paper |-> CHOOSE f \in Fixtures : TRUE,
                              held |-> {}, size |-> 2]

RetrievalSide ==
  /\ RetrievalNext
  /\ side = "search" => phase \in {"search", "probe"}
  /\ Cardinality(found') <= 2

\* One failed write to the ledger; the history of retries is for a run of its own.
EvalSide ==
  /\ EvalNext
  /\ Len(SelectSeq(results', LAMBDA x : x.noted)) <= 1 /\ ~unbilled'

ApiNext ==
  /\ \/ side = "admin" /\ Next
        /\ UNCHANGED <<rateVars, mirrorVars, runVars, retrievalVars, gateVars, evalVars>>
     \/ side = "rate" /\ RateNext
        /\ UNCHANGED <<vars, mirrorVars, runVars, retrievalVars, gateVars, evalVars>>
     \/ side = "boot" /\ MirrorNext
        /\ UNCHANGED <<vars, rateVars, runVars, retrievalVars, gateVars, evalVars>>
     \/ side = "run" /\ RunNext
        /\ UNCHANGED <<vars, rateVars, mirrorVars, retrievalVars, gateVars, evalVars>>
     \/ /\ side \in {"search", "context"} /\ RetrievalSide
        /\ UNCHANGED <<vars, rateVars, mirrorVars, runVars, gateVars, evalVars>>
     \/ side = "gate" /\ GateNext
        /\ UNCHANGED <<vars, rateVars, mirrorVars, runVars, retrievalVars, evalVars>>
     \/ side = "eval" /\ EvalSide
        /\ UNCHANGED <<vars, rateVars, mirrorVars, runVars, retrievalVars, gateVars>>
  /\ UNCHANGED side

\* The fairness of AdminAccess and of ModelMirror, each on its side.
ApiFairness ==
  /\ WF_vars(side = "admin" /\ JobStep)
  /\ \A p \in Boots : WF_mirrorVars(side = "boot" /\ Expire(p))
                   /\ WF_mirrorVars(side = "boot" /\ Bind(p))

ApiSpec == ApiInit /\ [][ApiNext]_apiVars /\ ApiFairness

\* The type invariants of the parts.
ApiTypeOK == TypeOK /\ RateTypeOK /\ MirrorTypeOK /\ RunTypeOK /\ RetrievalTypeOK
             /\ GateTypeOK /\ EvalTypeOK
=============================================================================
