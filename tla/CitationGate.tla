----------------------------- MODULE CitationGate -----------------------------
(***************************************************************************)
(* What becomes of the citations of one answer: the deterministic gate     *)
(* over the draft (validateCitations, refusalDraftDecision), the weak      *)
(* warning of the product rules, and the citations frame derived from the  *)
(* trace, live and at every later rehydration of the transcript.           *)
(*                                                                         *)
(*   corpus[i]   the stored row of child i; an absent i was deleted        *)
(*   carried     the run's chunks, in retrieval order: the trace's refs    *)
(*   held[i]     what the retrieval read of carried child i                *)
(*   recorded    the chain_evidence of the trace, by child; the hadiths    *)
(*               the read did not consult are in passed                    *)
(*   shipped     the delivered text: its citations and its weak warning    *)
(*   frame       the last frame derived, with the rows it was joined to    *)
(*                                                                         *)
(* A citation is its comparison form: marker spellings, footnotes and      *)
(* grades reduce to the address (chat-citation-normalize.ts), and a number *)
(* with a glued letter is another number.  The answer's other words are    *)
(* whether it carries the refusal sentence, alone or beside a text of its  *)
(* own, and the product's warning, which a model may write by itself.      *)
(***************************************************************************)
EXTENDS Integers, FiniteSets, Sequences, SequencesExt, FiniteSetsExt, Functions

CONSTANTS Versions,       \* for each child, the rows stored under its id, the first at the start
          VersesOf,       \* ayahs per surah, by number
          Contexts,       \* what a retrieval may return, in order
          Texts,          \* what a draft may cite
          ReadBound, RowBound,   \* children and rows the evidence read covers
          MaxRowWrites    \* bound: rows written or deleted

RowIds == DOMAIN Versions
Address == [source : {"verse", "hadith", "kitab"}, part : Nat, number : Nat]
Spelling == [at : Address, tails : Seq(Nat), spaced : BOOLEAN]

ASSUME GateAssumption ==
  /\ \A i \in RowIds : 1 \in DOMAIN Versions[i]
  /\ \A i \in RowIds : \A r \in ToSet(Versions[i]) :
       /\ r.label \in Address /\ r.label.source # "kitab" /\ r.arabic \in BOOLEAN
       /\ r.weak \in BOOLEAN /\ r.chains \in Seq(BOOLEAN)
       /\ r.label.source = "verse" => ~r.weak /\ r.chains = <<>>
  /\ VersesOf \in Seq(Nat \ {0}) /\ VersesOf # <<>>
  /\ Contexts \subseteq Seq(RowIds) /\ \A c \in Contexts : IsInjective(c)
  /\ \A t \in Texts : t \subseteq Spelling
  /\ {ReadBound, MaxRowWrites} \subseteq Nat /\ RowBound \in Nat \ {0}

VARIABLES gateAt, corpus, carried, held, recorded, passed, cited, refusedBy, shipped,
          frame, rowWrites,
          storedChains   \* history: the chains each carried hadith had at the read

gateVars == <<gateAt, corpus, carried, held, recorded, passed, cited, refusedBy, shipped,
              frame, rowWrites, storedChains>>

-----------------------------------------------------------------------------
(* The grammar. *)

\* The scan reads a hadith with a spaced joiner as its head.
Scanned(s) == IF s.at.source = "hadith" /\ s.spaced THEN [s EXCEPT !.tails = <<>>] ELSE s

CitationsIn(text) == {Scanned(s) : s \in text}

\* The bound of a surah written by name (0) is the longest one; no such surah, no bound.
AyahBound(surah) ==
  IF surah = 0 THEN Max(ToSet(VersesOf))
  ELSE IF surah \in DOMAIN VersesOf THEN VersesOf[surah] ELSE 0

Written(s) == {s.at.number} \cup ToSet(s.tails)

Span(s) == {[s.at EXCEPT !.number = n] : n \in Min(Written(s))..Max(Written(s))}

RangeAddresses_Endpoints(s) ==
  IF Min(Written(s)) < 1 \/ Max(Written(s)) > AyahBound(s.at.part) THEN {}
  ELSE {[s.at EXCEPT !.number = n] : n \in Written(s)}

\* quranRangeAddresses; {} is a range that cannot be enumerated.
RangeAddresses(s) ==
  IF Min(Written(s)) < 1 \/ Max(Written(s)) > AyahBound(s.at.part) THEN {} ELSE Span(s)

\* groundingLabelsFor: the known labels that ground a citation, {} when it is refused.  A
\* dash-joined hadith is one opaque label, and no row carries one.
GroundingLabels(s, known) ==
  IF s.tails = <<>> THEN {s.at} \cap known
  ELSE IF s.at.source = "verse" /\ RangeAddresses(s) \subseteq known
    THEN RangeAddresses(s) ELSE {}

-----------------------------------------------------------------------------
(* The run up to the draft. *)

Known == {held[i].label : i \in ToSet(carried)}
\* validateCitations; what the text holds of a label literally adds to the grounded ones
\* only where a citation is ungrounded.
GroundedIn(text) == UNION {GroundingLabels(s, Known) : s \in CitationsIn(text)}
UngroundedIn(text) == {s \in CitationsIn(text) : GroundingLabels(s, Known) = {}}

GateTo(p) == gateAt' = p
Chunk == <<carried, held, recorded, passed, storedChains>>

Retrieve ==
  /\ gateAt = "retrieve"
  /\ \E c \in Contexts :
       /\ ToSet(c) \subseteq DOMAIN corpus
       /\ carried' = c /\ held' = Restrict(corpus, ToSet(c))
  /\ GateTo("chains")
  /\ UNCHANGED <<corpus, recorded, passed, storedChains, cited, refusedBy, shipped, frame,
                 rowWrites>>

First(n, s) == SubSeq(s, 1, Min({n, Len(s)}))
ChainsNow(i) == IF i \in DOMAIN corpus THEN corpus[i].chains ELSE <<>>

Bearing == {k \in DOMAIN carried : held[carried[k]].label.source = "hadith"}
At(positions) == {carried[k] : k \in positions}

\* readChainEvidence: the first hadiths of the context are consulted, and a child without a
\* row is recorded nowhere.
ConsultChains ==
  /\ gateAt = "chains"
  /\ LET read == At({k \in Bearing : Cardinality({j \in Bearing : j < k}) < ReadBound})
     IN /\ recorded' = [i \in {j \in read : ChainsNow(j) # <<>>} |->
                          [chains |-> First(RowBound, ChainsNow(i)),
                           more |-> Len(ChainsNow(i)) > RowBound]]
        /\ passed' = At(Bearing) \ read
        /\ storedChains' = [i \in At(Bearing) |-> ChainsNow(i)]
  /\ GateTo("draft")
  /\ UNCHANGED <<corpus, carried, held, cited, refusedBy, shipped, frame, rowWrites>>

\* A refusal with nothing else in it holds no citation and no warning.
DraftTexts ==
  {d \in [text : Texts, sentence : {"absent", "alone", "beside"}, warning : {"none", "passage"}] :
     d.sentence = "alone" => d.text = {} /\ d.warning = "none"}

-----------------------------------------------------------------------------
(* The gate, the reviewer and the rules. *)

NoText == [text |-> {}, warning |-> "none", ruled |-> FALSE]

\* The rows of refusalDraftDecision, the ungrounded one first; "none" of them is left to
\* the reviewer.
RefusalRow(d) ==
  IF UngroundedIn(d.text) # {} THEN "ungrounded"
  ELSE IF d.sentence = "absent" THEN "none"
  ELSE IF d.sentence = "alone" THEN "pure"
  ELSE IF GroundedIn(d.text) # {} THEN "hybrid" ELSE "asserting"

CitedChunks(text) == {i \in ToSet(carried) : held[i].label \in GroundedIn(text)}

HasWeakChain(i) == i \in DOMAIN recorded /\ TRUE \in ToSet(recorded[i].chains)

\* citedWeakGradeScope: a passage graded weak outranks a weak row of its transmission.
WeakScope(text) ==
  IF \E i \in CitedChunks(text) : held[i].weak THEN "passage"
  ELSE IF \E i \in CitedChunks(text) : HasWeakChain(i) THEN "chain" ELSE "none"

\* applyProductRules: a warning the draft carries already is left as written.
WithRules(d) ==
  [text |-> d.text, ruled |-> d.warning = "none" /\ WeakScope(d.text) # "none",
   warning |-> IF d.warning # "none" THEN d.warning ELSE WeakScope(d.text)]

AsDrafted(d) == [NoText EXCEPT !.text = d.text, !.warning = d.warning]

Delivery(d) == [ungrounded |-> NoText, pure |-> AsDrafted(d), hybrid |-> WithRules(d),
                asserting |-> NoText]

ScreenDraft ==
  /\ gateAt = "draft"
  /\ \E d \in DraftTexts :
       /\ cited' = d /\ refusedBy' = RefusalRow(d)
       /\ IF RefusalRow(d) = "none"
            THEN GateTo("review") /\ UNCHANGED shipped
            ELSE GateTo("shipped") /\ shipped' = Delivery(d)[RefusalRow(d)]
  /\ UNCHANGED <<corpus, Chunk, frame, rowWrites>>

\* The reviewer passes, or the pre-gate clears every citation of a draft that has one.
PassDraft ==
  /\ gateAt = "review"
  /\ shipped' = WithRules(cited)
  /\ GateTo("shipped")
  /\ UNCHANGED <<corpus, Chunk, cited, refusedBy, frame, rowWrites>>

FailDraft ==
  /\ gateAt = "review"
  /\ shipped' = NoText /\ refusedBy' = "reviewer"
  /\ GateTo("shipped")
  /\ UNCHANGED <<corpus, Chunk, cited, frame, rowWrites>>

-----------------------------------------------------------------------------
(* The citations frame. *)

NoFrame == [rows |-> <<>>, chips |-> {}, refusal |-> FALSE, weak |-> FALSE]

\* The positions of the children a label is displayed from, the first in retrieval order
\* wins; a child without Arabic text backs no citation.
Backing(rows, label) ==
  {k \in DOMAIN carried : /\ carried[k] \in DOMAIN rows
                          /\ rows[carried[k]].arabic /\ rows[carried[k]].label = label}
Displayed(rows) == {rows[i].label : i \in {j \in DOMAIN rows : rows[j].arabic}}

\* citationEvidenceFor.
EvidenceOf(i) ==
  IF i \in DOMAIN recorded THEN IF recorded[i].more THEN "prefix" ELSE "chains"
  ELSE IF i \in passed THEN "unread" ELSE "none"

\* The address a citation is displayed from: for a range, its head verse.
HeadLabel(labels) == CHOOSE l \in labels : \A k \in labels : l.number <= k.number

Chip(s, rows) ==
  LET i == carried[Min(Backing(rows, HeadLabel(GroundingLabels(s, Displayed(rows)))))]
  IN [span |-> s, row |-> i, evidence |-> EvidenceOf(i)]

Chips(rows) ==
  {Chip(s, rows) : s \in {c \in CitationsIn(shipped.text) :
                            GroundingLabels(c, Displayed(rows)) # {}}}

\* deriveCitationsFrame, over the rows a store read returned; a read that failed is
\* joined to none.
FrameOf(rows) == [rows |-> rows, chips |-> Chips(rows), refusal |-> refusedBy # "none",
                  weak |-> shipped.warning # "none"]
RowsRead == {<<>>, Restrict(corpus, ToSet(carried) \cap DOMAIN corpus)}

SendFrames ==
  /\ gateAt = "shipped"
  /\ \E rows \in RowsRead : frame' = FrameOf(rows)
  /\ GateTo("shown")
  /\ UNCHANGED <<corpus, Chunk, cited, refusedBy, shipped, rowWrites>>

\* A transcript whose trace cannot be read is plain text.
Rehydrate ==
  /\ gateAt = "shown"
  /\ frame' \in {NoFrame} \cup {FrameOf(rows) : rows \in RowsRead}
  /\ UNCHANGED <<gateAt, corpus, Chunk, cited, refusedBy, shipped, rowWrites>>

-----------------------------------------------------------------------------
(* The corpus under it. *)

\* An upsert over (parent_id, ordinal) keeps the id and replaces what is stored under it:
\* a later edition may store another hadith there.  The pilot deletes children, and a child
\* stored again gets another id.
WriteRow ==
  /\ rowWrites < MaxRowWrites /\ rowWrites' = rowWrites + 1
  /\ \E i \in DOMAIN corpus :
       \/ \E r \in ToSet(Versions[i]) : corpus' = [corpus EXCEPT ![i] = r]
       \/ corpus' = Restrict(corpus, DOMAIN corpus \ {i})
  /\ corpus' # corpus
  /\ UNCHANGED <<gateAt, Chunk, cited, refusedBy, shipped, frame>>

GateInit ==
  /\ gateAt = "retrieve"
  /\ corpus = [i \in RowIds |-> Versions[i][1]]
  /\ carried = <<>> /\ held = <<>> /\ recorded = <<>> /\ passed = {} /\ storedChains = <<>>
  /\ cited = [text |-> {}, sentence |-> "absent", warning |-> "none"]
  /\ refusedBy = "none" /\ shipped = NoText /\ frame = NoFrame /\ rowWrites = 0

GateNext ==
  \/ Retrieve \/ ConsultChains \/ ScreenDraft \/ PassDraft \/ FailDraft
  \/ SendFrames \/ Rehydrate \/ WriteRow

GateSpec == GateInit /\ [][GateNext]_gateVars

-----------------------------------------------------------------------------
(* Type correctness.                                                                *)
GateTypeOK ==
  /\ gateAt \in {"retrieve", "chains", "draft", "review", "shipped", "shown"}
  /\ DOMAIN corpus \subseteq RowIds /\ \A i \in DOMAIN corpus : corpus[i] \in ToSet(Versions[i])
  /\ carried \in Contexts \cup {<<>>} /\ DOMAIN held = ToSet(carried)
  /\ DOMAIN recorded \cup passed \subseteq ToSet(carried)
  /\ shipped.text \in Texts \cup {{}} /\ shipped.warning \in {"none", "passage", "chain"}
  /\ refusedBy \in {"none", "ungrounded", "pure", "hybrid", "asserting", "reviewer"}
  /\ DOMAIN frame.rows \subseteq ToSet(carried) /\ rowWrites \in 0..MaxRowWrites

\* The addresses a reader takes a citation for: everything between two verses, both
\* hadiths of a pair.  A hadith after a spaced joiner is the one recorded exclusion of
\* the gate (ADR-0049).
ReadAs(s) ==
  IF s.at.source = "verse" THEN Span(s)
  ELSE {[s.at EXCEPT !.number = n] : n \in Written(Scanned(s))}

CitedRows == {i \in ToSet(carried) : \E s \in shipped.text : held[i].label \in ReadAs(s)}

\* A delivered text names no address that the run's context did not hold.
SpansAreGrounded == \A s \in shipped.text : ReadAs(s) \subseteq Known

\* The warning is there exactly when the rules had to write it: for a cited hadith graded
\* weak, in the words for the passage, and otherwise for a weak chain that was read.
WeakIsFlagged ==
  shipped.text # {} =>
    /\ (\E i \in CitedRows : held[i].weak \/ HasWeakChain(i)) => shipped.warning # "none"
    /\ shipped.ruled => (shipped.warning = "passage" <=> \E i \in CitedRows : held[i].weak)
    /\ shipped.ruled => \E i \in CitedRows : held[i].weak \/ HasWeakChain(i)

\* The chains of a carried hadith that the trace does not hold.
Unseen(i) ==
  IF i \in DOMAIN storedChains
    THEN {n \in DOMAIN storedChains[i] :
            i \in DOMAIN recorded => n > Len(recorded[i].chains)}
    ELSE {}

\* A chip cites what the text cites, from a child of the run's own trace that is stored
\* with Arabic text under an address of the citation, all of whose addresses are; it
\* tells when chains of its child were not read; and while the rows are the ones the run
\* saw, no citation goes without its chip.
ChipsAreBacked ==
  /\ \A c \in frame.chips :
       /\ \E s \in shipped.text : Scanned(s) = c.span
       /\ c.row \in DOMAIN frame.rows /\ frame.rows[c.row].arabic
       /\ frame.rows[c.row].label \in ReadAs(c.span)
       /\ ReadAs(c.span) \subseteq Displayed(frame.rows)
       /\ Unseen(c.row) # {} => c.evidence \in {"unread", "prefix"}
       /\ c.evidence = "prefix" => Unseen(c.row) # {}
  /\ gateAt = "shown" /\ frame.rows = held /\ (\A i \in DOMAIN held : held[i].arabic) =>
       \A s \in shipped.text : \E c \in frame.chips : c.span = Scanned(s)

(* A citation the reader sees can be trusted (validateCitations: "an answer carrying a *)
(* citation that no retrieved chunk grounds is refused", chat-reviewer.ts; "a citation  *)
(* may never reach the UI without a matching chunk in the persisted answer trace",      *)
(* chat-citations.ts; "Always" of the weak grade, chat-postprocess.ts), whatever was    *)
(* written to the corpus while the run or its transcript was read.                      *)
CitationsAreHonest == SpansAreGrounded /\ WeakIsFlagged /\ ChipsAreBacked
=============================================================================
