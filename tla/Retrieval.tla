------------------------------ MODULE Retrieval ------------------------------
(* One retrieval of createKajianQRetriever: the searches of every sub-query on two *)
(* tracks with the relaxation of the router's filters, then the bounded reads that *)
(* add rows beside the fused hits, each of which tells in the trace whether its    *)
(* budget cut anything off.  A store call that fails ends the run: that is         *)
(* AnswerRun's.  Scores are data: the fused hits come in any order.                *)
EXTENDS Integers, Sequences, FiniteSets, SequencesExt, FiniteSetsExt

CONSTANTS AyahCount,     \* SURAH_AYAH_COUNTS
          Stored,        \* the corpus: <<parent, ordinal>>; a surah is a parent
          SubQueries,    \* how many there are
          CallerQuery,   \* which one is the caller's own text; 0: none
          HitLimit,      \* rows a search returns at most
          LabelRows,     \* for a citation label, the rows the store finds for it
          ChainsOf,      \* for a hadith, how many chains the store holds
          ScopeCap, LabelCap, NeighbourCap, Radius, ChildCap, ChainCap, CallerK

ASSUME RetrievalAssumption ==
  /\ ScopeCap \in Nat /\ LabelCap \in Nat /\ NeighbourCap \in Nat /\ Radius \in Nat
  /\ ChildCap \in Nat /\ ChainCap \in Nat /\ CallerK \in Nat /\ SubQueries \in Nat \ {0}
  /\ AyahCount \in Seq(Nat \ {0})
  /\ IsFiniteSet(Stored) /\ Stored \subseteq {r[1] : r \in Stored} \X Nat
  /\ \A r \in Stored : r[1] \in DOMAIN AyahCount => r[2] < AyahCount[r[1]]
  /\ IsFiniteSet(DOMAIN LabelRows)
  /\ \A l \in DOMAIN LabelRows : LabelRows[l] \in Seq(Stored)
  /\ \A r \in DOMAIN ChainsOf : ChainsOf[r] \in Nat

VARIABLES phase,
          intended,   \* the dimensions the filters of the router name
          live, tried, settled, searched,
          found, callerHits,
          events,     \* the relaxations and searches, with the record each ran with
          asked,      \* what the question itself names, a surah and verse or labels
          context, reads, pending,
          chainEvidence, unread   \* hadiths consulted for their chains, and the others

searchVars == <<intended, live, tried, settled, searched, found, callerHits, events>>
retrievalVars == <<phase, searchVars, asked, context, reads, pending, chainEvidence, unread>>

-----------------------------------------------------------------------------
(* The searches. *)

RelaxationOrder == <<"grade", "chainGrade", "narratorId", "sourceType">>
Dimensions == ToSet(RelaxationOrder)

\* An approximate index under a filter may return fewer rows than match, or none.
HitSets == {h \in SUBSET Stored : Cardinality(h) <= HitLimit}
OfCaller == searched \div 2 + 1 = CallerQuery

Searched(record) == [kind |-> "search", ran |-> record]
Relaxed(drop, hits) == [kind |-> "relaxed", ran |-> live \ drop, dropped |-> drop,
                        adopted |-> hits # {}]

\* Whatever a search concluded settles the diagnosis of the run.
Conclude(hits, record) ==
  /\ live' = record /\ settled' = TRUE
  /\ found' = found \cup hits
  /\ callerHits' = IF OfCaller THEN callerHits \cup hits ELSE callerHits
  /\ searched' = searched + 1
  /\ phase' = IF searched' = 2 * SubQueries THEN "fuse" ELSE "search"

SearchFrame == UNCHANGED <<intended, asked, context, reads, pending, chainEvidence, unread>>

SearchTrack ==
  /\ phase = "search"
  /\ \E hits \in HitSets :
       \/ /\ hits # {} \/ settled
          /\ Conclude(hits, live)
          /\ events' = Append(events, Searched(live))
       \/ /\ hits = {} /\ ~settled
          /\ phase' = "probe"
          /\ UNCHANGED <<live, settled, searched, found, callerHits, events>>
  /\ UNCHANGED tried /\ SearchFrame

NextUntried ==
  RelaxationOrder[Min({k \in DOMAIN RelaxationOrder : RelaxationOrder[k] \in live \ tried})]

\* What the next probe gives up: one untried dimension, and when none is left the
\* whole record, unless a probe or the search itself ran that already.
Dropped_LoneAgain == IF live \subseteq tried THEN live ELSE {NextUntried}

Dropped ==
  IF ~(live \subseteq tried) THEN {NextUntried}
  ELSE IF Cardinality(live) > 1 THEN live ELSE {}

LastResort == live \subseteq tried

Probe ==
  /\ phase = "probe" /\ Dropped # {}
  /\ tried' = tried \cup Dropped
  /\ \E hits \in HitSets :
       \/ /\ hits # {}
          /\ Conclude(hits, live \ Dropped)
          /\ events' = events \o <<Relaxed(Dropped, hits), Searched(live \ Dropped)>>
       \/ /\ hits = {} /\ LastResort
          /\ Conclude({}, live)
          /\ events' = events \o <<Relaxed(Dropped, {}), Searched(live)>>
       \/ /\ hits = {} /\ ~LastResort
          /\ events' = Append(events, Relaxed(Dropped, {}))
          /\ UNCHANGED <<phase, live, settled, searched, found, callerHits>>
  /\ SearchFrame

GiveUpProbing ==
  /\ phase = "probe" /\ Dropped = {}
  /\ Conclude({}, live)
  /\ events' = Append(events, Searched(live))
  /\ UNCHANGED tried /\ SearchFrame

-----------------------------------------------------------------------------
(* The reads around the hits. *)

Leading(n, s) == SubSeq(s, 1, IF n < Len(s) THEN n ELSE Len(s))

\* ORDER BY: the entries of a set, each after those before it.
OrderedBy(S, before) ==
  [k \in 1..Cardinality(S) |->
     CHOOSE x \in S : Cardinality({y \in S : <<y, x>> \in before}) = k - 1]

FirstAt(s, x) == Min({i \in DOMAIN s : s[i] = x})

\* The entries of a sequence that are in a set, each once, where it comes first.
Among(S, s) ==
  LET kept == S \cap ToSet(s)
  IN  OrderedBy(kept, {p \in kept \X kept : FirstAt(s, p[1]) < FirstAt(s, p[2])})

InContext == {context[i].row : i \in DOMAIN context}
Unheld(rows) == Among(Stored \ InContext, rows)
AddedBy(origin) == Cardinality({i \in DOMAIN context : context[i].origin = origin})
Chunks(rows, origin) == [i \in DOMAIN rows |-> [row |-> rows[i], origin |-> origin]]
RowsOfContext == [i \in DOMAIN context |-> context[i].row]

IsVerse(row) == row[1] \in DOMAIN AyahCount
Near(row, anchor) ==
  row[1] = anchor[1] /\ row[2] - anchor[2] \in -Radius..Radius

\* The stored rows of one parent between two ordinals, in their order.
Children(parent, first, last) ==
  LET rows == {r \in Stored : r[1] = parent /\ r[2] \in first..last}
  IN  OrderedBy(rows, {p \in rows \X rows : p[1][2] < p[2][2]})

ReadOf(kind, of, cut) == {[kind |-> kind, of |-> of, truncated |-> cut]}

ContextTo(p) == phase' = p /\ UNCHANGED <<searchVars, asked>>
NoEvidence == UNCHANGED <<chainEvidence, unread>>

\* rrfFuse.
Fuse ==
  /\ phase = "fuse"
  /\ \E s \in SetToSeqs(found) : context' = Chunks(s, "fused")
  /\ ContextTo("scope") /\ NoEvidence
  /\ UNCHANGED <<reads, pending>>

\* The surahs of the fused verses that fit the budget, once each.
CompletionTargets ==
  Among({s \in DOMAIN AyahCount : AyahCount[s] <= ScopeCap},
        [i \in DOMAIN context |-> context[i].row[1]])

\* The read of the surah the question names, one row past the budget.
ExpandNamed ==
  /\ phase = "scope"
  /\ LET s == asked.surah
         rows == Leading(ScopeCap + 1, Children(s, asked.from, AyahCount[s] - 1))
     IN IF s = 0 \/ ScopeCap = 0 THEN UNCHANGED <<context, reads>>
        ELSE /\ context' = context \o Chunks(Unheld(Leading(ScopeCap, rows)), "scope")
             /\ reads' = reads \cup ReadOf("named", s, Len(rows) > ScopeCap)
  /\ pending' = CompletionTargets
  /\ ContextTo("complete") /\ NoEvidence

\* The completion of one retrieved surah, out of what the reads before left.
CompleteSurah ==
  /\ phase = "complete" /\ pending # <<>>
  /\ LET s == Head(pending)
         left == ScopeCap - AddedBy("scope")
         unheld == Unheld(Children(s, 0, AyahCount[s] - 1))
     IN IF left <= 0
        THEN reads' = reads \cup ReadOf("skipped", s, TRUE) /\ UNCHANGED context
        ELSE /\ context' = context \o Chunks(Leading(left, unheld), "scope")
             /\ reads' = reads \cup ReadOf("completed", s, Len(unheld) > left)
  /\ pending' = Tail(pending)
  /\ ContextTo("complete") /\ NoEvidence

EndScopes ==
  /\ phase = "complete" /\ pending = <<>>
  /\ pending' = IF LabelCap = 0 THEN <<>> ELSE asked.labels
  /\ ContextTo("labels") /\ NoEvidence
  /\ UNCHANGED <<context, reads>>

\* The rows one citation label of the question addresses; all labels share a budget.
LookUpLabel ==
  /\ phase = "labels" /\ pending # <<>>
  /\ LET rows == Leading(LabelCap + 1, LabelRows[Head(pending)])
         unheld == Unheld(rows)
         left == LabelCap - AddedBy("label")
     IN /\ context' = context \o Chunks(Leading(left, unheld), "label")
        /\ reads' = reads \cup ReadOf("label", Head(pending),
                                      Len(rows) > LabelCap \/ Len(unheld) > left)
  /\ pending' = Tail(pending)
  /\ ContextTo("labels") /\ NoEvidence

\* What the read of the neighbours asks for: the budget, a slot for every row the
\* caller may have to drop, and one that proves there is more.
NeighbourLimit_NoSlots == NeighbourCap + 1

NeighbourLimit == NeighbourCap + Cardinality(InContext) + 1

\* The windows of the anchors, in their order; a row of several is the first one's.
Around(anchors) ==
  LET window(i) == {r \in Stored : Near(r, anchors[i]) /\ r # anchors[i]}
      rows == UNION {window(i) : i \in DOMAIN anchors}
      anchorPos(r) == Min({i \in DOMAIN anchors : r \in window(i)})
  IN  OrderedBy(rows, {p \in rows \X rows :
                         \/ anchorPos(p[1]) < anchorPos(p[2])
                         \/ anchorPos(p[1]) = anchorPos(p[2]) /\ p[1][2] < p[2][2]})

ReadNeighbours ==
  /\ phase = "labels" /\ pending = <<>>
  /\ LET anchors == Among({r \in Stored : IsVerse(r)}, RowsOfContext)
         unheld == Unheld(Leading(NeighbourLimit, Around(anchors)))
     IN IF anchors = <<>> \/ Radius = 0 \/ NeighbourCap = 0
        THEN UNCHANGED <<context, reads>>
        ELSE /\ context' = context \o Chunks(Leading(NeighbourCap, unheld), "neighbour")
             /\ reads' = reads \cup ReadOf("neighbours", 0, Len(unheld) > NeighbourCap)
  /\ ContextTo("chains") /\ NoEvidence
  /\ UNCHANGED pending

\* The chains of the first hadiths in context, one row past what is carried.
ReadChains ==
  /\ phase = "chains"
  /\ LET bearing == Among(DOMAIN ChainsOf, RowsOfContext)
         consulted == IF ChainCap = 0 THEN {} ELSE ToSet(Leading(ChildCap, bearing))
     IN /\ chainEvidence' = {[row |-> r, moreMayExist |-> ChainsOf[r] > ChainCap,
                         carried |-> IF ChainsOf[r] > ChainCap THEN ChainCap
                                     ELSE ChainsOf[r]] : r \in consulted}
        /\ unread' = ToSet(bearing) \ consulted
  /\ ContextTo("caller")
  /\ UNCHANGED <<context, reads, pending>>

\* The caller's leading hits move to the front; only a plain hit gets their label.
Promoted(chunk) ==
  IF chunk.origin = "fused" THEN [chunk EXCEPT !.origin = "caller"] ELSE chunk

Prioritise ==
  /\ phase = "caller"
  /\ \E s \in SetToSeqs(callerHits) :
       LET front == Leading(CallerK, s)
           held == [i \in DOMAIN front |->
                      Promoted(CHOOSE c \in ToSet(context) : c.row = front[i])]
           rest == {c \in ToSet(context) : c.row \notin ToSet(front)}
       IN context' = held \o Among(rest, context)
  /\ ContextTo("done") /\ NoEvidence
  /\ UNCHANGED <<reads, pending>>

-----------------------------------------------------------------------------
RetrievalInit ==
  /\ phase = "search"
  /\ intended \in SUBSET Dimensions /\ live = intended
  /\ tried = {} /\ settled = FALSE /\ searched = 0
  /\ found = {} /\ callerHits = {} /\ events = <<>>
  /\ asked \in [surah : {0} \cup DOMAIN AyahCount, from : 0..1,
                labels : {<<>>} \cup {<<l>> : l \in DOMAIN LabelRows}
                           \cup SetToSeqs(DOMAIN LabelRows)]
  /\ asked.surah = 0 => asked.from = 0
  /\ context = <<>> /\ reads = {} /\ pending = <<>> /\ chainEvidence = {} /\ unread = {}

RetrievalNext ==
  \/ SearchTrack \/ Probe \/ GiveUpProbing
  \/ Fuse \/ ExpandNamed \/ CompleteSurah \/ EndScopes \/ LookUpLabel
  \/ ReadNeighbours \/ ReadChains \/ Prioritise

RetrievalSpec == RetrievalInit /\ [][RetrievalNext]_retrievalVars

-----------------------------------------------------------------------------
RetrievalTypeOK ==
  /\ phase \in {"search", "probe", "fuse", "scope", "complete", "labels",
               "chains", "caller", "done"}
  /\ live \subseteq intended /\ tried \subseteq intended /\ settled \in BOOLEAN
  /\ searched \in 0..(2 * SubQueries)
  /\ callerHits \subseteq found /\ found \subseteq Stored
  /\ InContext \subseteq Stored

RelaxedBefore(i) == {e \in {events[j] : j \in 1..(i - 1)} : e.kind = "relaxed"}
AdoptedBefore(i) == UNION {e.dropped : e \in {f \in RelaxedBefore(i) : f.adopted}}

\* "A reader reconstructs the record any search ran with as intended - every ADOPTED
\* drop", probes included; no probe repeats a search, and the probing is one
\* diagnosis of the run, so all of it precedes the first search's own event
\* (chat-filter-relaxation.ts, trace-events.ts).
SearchesAreReconstructible ==
  \A i \in DOMAIN events :
    LET e == events[i]
        record == intended \ AdoptedBefore(i)
    IN /\ e.kind = "search" => e.ran = record
       /\ e.kind = "relaxed" =>
            /\ e.ran = record \ e.dropped /\ e.dropped # {} /\ e.dropped \subseteq record
            /\ \A f \in RelaxedBefore(i) : f.ran # e.ran
            /\ \A j \in 1..(i - 1) : events[j].kind = "relaxed"

Anchors == {c.row : c \in {d \in ToSet(context) : d.origin # "neighbour" /\ IsVerse(d.row)}}
PassageOf(s, from) == {r \in Stored : r[1] = s /\ r[2] >= from}
BeforeLabels == {c.row : c \in {d \in ToSet(context) : d.origin \in {"fused", "caller", "scope"}}}

\* What the read's own event says of its cut is true of the whole corpus.
CutIsTold(e) ==
  CASE e.kind = "named" ->
         ~e.truncated => PassageOf(e.of, asked.from) \subseteq InContext
    [] e.kind = "completed" ->
         e.truncated <=> ~(PassageOf(e.of, 0) \subseteq BeforeLabels)
    [] e.kind = "skipped" -> AddedBy("scope") = ScopeCap
    [] e.kind = "label" ->
         ~e.truncated => ToSet(LabelRows[e.of]) \subseteq InContext
    [] e.kind = "neighbours" ->
         e.truncated <=>
           \E a \in Anchors : \E r \in Stored : Near(r, a) /\ r \notin InContext

\* A hadith without evidence is recorded unread, and a prefix of its chains as one.
EvidenceIsTold ==
  \A r \in InContext \cap DOMAIN ChainsOf :
    \/ r \in unread
    \/ \E e \in chainEvidence : e.row = r /\ (e.moreMayExist <=> e.carried # ChainsOf[r])

\* The context a retrieval returns holds every hit and no row twice, the caller's
\* leading hits come first, no read exceeds its budget, and whenever rows of a named
\* passage, a short surah, a label, a neighbourhood or a hadith's chains are missing,
\* the read's event says that it was cut (expandSurahScope,
\* expandRetrievedSurahScope, lookupCitationLabels, expandVerseNeighbours,
\* readChainEvidence, guaranteeCallerPriority).
ContextTellsItsCuts ==
  phase = "done" =>
    /\ Cardinality(InContext) = Len(context) /\ found \subseteq InContext
    /\ AddedBy("scope") <= ScopeCap /\ AddedBy("label") <= LabelCap
    /\ AddedBy("neighbour") <= NeighbourCap
    /\ \A i \in 1..CallerK : i <= Cardinality(callerHits) => context[i].row \in callerHits
    /\ \A e \in reads : CutIsTold(e)
    /\ EvidenceIsTold
=============================================================================
