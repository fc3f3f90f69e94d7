--------------------------- MODULE EvidenceProofs ---------------------------
(***************************************************************************)
(* Evidence: what a reader is shown of the passages behind an answer, what *)
(* the trace tells of the searches that found them, and what a green run   *)
(* of the evaluation client proves.                                        *)
(***************************************************************************)
EXTENDS CitationGate, Retrieval, EvalRun, FiniteSetTheorems, WellFoundedInduction,
        NaturalsInduction, SequenceTheorems, TLAPS

-----------------------------------------------------------------------------
(* Numbers. *)

\* The least of a set of positions or verse numbers is one of them.
LEMMA MinOfNats ==
  ASSUME NEW T \in SUBSET Nat, T # {}
  PROVE  Min(T) \in T /\ \A n \in T : Min(T) <= n
<1>1. IsWellFoundedOn(OpToRel(<, Nat), Nat)
  BY NatLessThanWellFounded
<1>2. PICK m \in T : \A n \in T : ~(<<n, m>> \in OpToRel(<, Nat))
  BY <1>1, WFMin, Zenon
<1>3. \A n \in T : <<n, m>> \in OpToRel(<, Nat) <=> n < m
  BY DEF OpToRel
<1>4. \A n \in T : ~(n < m)
  BY <1>2, <1>3
<1>5. \A n \in T : m <= n
  BY <1>4
<1> QED BY <1>5 DEF Min

\* The numbers written in a citation are bounded: its tails are a sequence.
LEMMA TailsBounded ==
  ASSUME NEW t \in Seq(Nat)
  PROVE  \E b \in Nat : \A k \in DOMAIN t : t[k] <= b
<1> DEFINE Bounded(n) == \E b \in Nat : \A k \in DOMAIN t : k <= n => t[k] <= b
           Bad == {n \in Nat : ~Bounded(n)}
<1>1. DOMAIN t = 1..Len(t) /\ Len(t) \in Nat /\ \A k \in DOMAIN t : t[k] \in Nat
  OBVIOUS
<1>2. Bad = {}
  <2> SUFFICES ASSUME Bad # {} PROVE FALSE
    OBVIOUS
  <2>0. PICK m \in Bad : \A n \in Bad : m <= n
    BY MinOfNats
  <2>1. m \in Nat /\ ~Bounded(m) /\ \A n \in Nat : n < m => Bounded(n)
    <3>1. \A n \in Nat : n < m => n \notin Bad
      <4> HIDE DEF Bad
      <4>1. m \in Nat
        BY DEF Bad
      <4> QED BY <2>0, <4>1
    <3> QED BY <3>1
  <2>2. m # 0
    <3>1. Bounded(0)
      BY <1>1
    <3> QED BY <3>1, <2>1
  <2>3. m - 1 \in Nat /\ m - 1 < m
    BY <2>1, <2>2
  <2>4. PICK b \in Nat : \A k \in DOMAIN t : k <= m - 1 => t[k] <= b
    BY <2>1, <2>3
  <2>5. CASE m \in DOMAIN t
    <3>0. t[m] \in Nat /\ b \in Nat
      BY <1>1, <2>5
    <3>1. PICK c \in Nat : b <= c /\ t[m] <= c
      <4> HIDE DEF Bounded
      <4>1. b <= b + t[m] /\ t[m] <= b + t[m] /\ b + t[m] \in Nat
        BY <3>0
      <4> QED BY <4>1
    <3>2. \A k \in DOMAIN t : k <= m => t[k] <= c
      <4> TAKE k \in DOMAIN t
      <4> HAVE k <= m
      <4>1. CASE k = m
        BY <4>1, <3>1
      <4>2. CASE k # m
        <5>1. k <= m - 1
          BY <4>2, <2>1, <1>1
        <5>2. t[k] <= b /\ t[k] \in Nat
          BY <5>1, <2>4, <1>1
        <5> HIDE DEF Bounded
        <5> QED BY <5>2, <3>1
      <4> QED BY <4>1, <4>2
    <3> QED BY <3>1, <3>2, <2>1
  <2>6. CASE m \notin DOMAIN t
    <3>1. \A k \in DOMAIN t : k <= m => t[k] <= b
      BY <2>4, <2>6, <2>1, <1>1
    <3> QED BY <3>1, <2>1
  <2> QED BY <2>5, <2>6
<1>3. Bounded(Len(t))
  BY <1>1, <1>2
<1> QED BY <1>1, <1>3

\* So the written numbers have a least and a greatest.
LEMMA WrittenBounds ==
  ASSUME NEW s \in Spelling
  PROVE  /\ Written(s) \subseteq Nat /\ s.at.number \in Written(s)
         /\ Min(Written(s)) \in Written(s) /\ \A n \in Written(s) : Min(Written(s)) <= n
         /\ Max(Written(s)) \in Written(s) /\ \A n \in Written(s) : n <= Max(Written(s))
<1>1. s.at.number \in Nat /\ s.tails \in Seq(Nat)
  BY DEF Spelling, Address
<1>2. Written(s) \subseteq Nat /\ s.at.number \in Written(s)
  BY <1>1 DEF Written, ToSet
<1>3. PICK b \in Nat : \A k \in DOMAIN s.tails : s.tails[k] <= b
  BY <1>1, TailsBounded
<1> DEFINE Above == {c \in Nat : \A n \in Written(s) : n <= c}
<1>4. Above # {}
  <2> DEFINE c == IF b <= s.at.number THEN s.at.number ELSE b
  <2>1. c \in Nat /\ b <= c /\ s.at.number <= c
    BY <1>1
  <2>2. \A k \in DOMAIN s.tails : s.tails[k] \in Nat /\ s.tails[k] <= c
    BY <1>1, <1>3, <2>1
  <2>3. \A n \in Written(s) : n <= c
    BY <2>1, <2>2 DEF Written, ToSet
  <2> QED BY <2>1, <2>3
<1> DEFINE m == Min(Above)
<1>5. m \in Above /\ \A c \in Above : m <= c
  BY <1>4, MinOfNats
<1> HIDE DEF m
<1>6. m \in Written(s)
  <2> SUFFICES ASSUME m \notin Written(s) PROVE FALSE
    OBVIOUS
  <2>1. \A n \in Written(s) : n <= m /\ n # m
    BY <1>5
  <2>2. m # 0
    BY <2>1, <1>2, <1>5
  <2>3. m - 1 \in Above
    BY <2>1, <2>2, <1>2, <1>5
  <2> QED BY <2>3, <1>5
<1>7. Max(Written(s)) \in Written(s) /\ \A n \in Written(s) : n <= Max(Written(s))
  BY <1>2, <1>5, <1>6 DEF Max
<1> QED BY <1>2, <1>7, MinOfNats

-----------------------------------------------------------------------------
(* Citations and the addresses they are read as. *)

\* The scan only drops tails, and scanning twice is scanning once.
LEMMA ScannedIs ==
  ASSUME NEW s \in Spelling
  PROVE  Scanned(s) \in Spelling /\ Scanned(s).at = s.at /\ Scanned(Scanned(s)) = Scanned(s)
<1> DEFINE e == [s EXCEPT !.tails = <<>>]
<1>0. s \in [at : Address, tails : Seq(Nat), spaced : BOOLEAN] /\ <<>> \in Seq(Nat)
  BY DEF Spelling
<1>1. e \in Spelling /\ e.at = s.at /\ e.tails = <<>>
  BY <1>0 DEF Spelling
<1>2. [e EXCEPT !.tails = <<>>] = e
  BY <1>0
<1>3. Scanned(s) \in {s, e}
  BY DEF Scanned
<1>4. Scanned(e) = e
  BY <1>2 DEF Scanned
<1> QED BY <1>1, <1>3, <1>4 DEF Scanned

\* A citation is read as addresses, the first of them the one it is displayed from.
LEMMA ReadAsAddresses ==
  ASSUME NEW s \in Spelling
  PROVE  /\ ReadAs(s) \subseteq Address /\ Scanned(s) \in Spelling
         /\ Scanned(Scanned(s)) = Scanned(s) /\ ReadAs(Scanned(s)) = ReadAs(s)
<1>1. s.at \in Address /\ \A n \in Nat : [s.at EXCEPT !.number = n] \in Address
  BY DEF Spelling, Address
<1>2. Scanned(s) \in Spelling /\ Scanned(s).at = s.at /\ Scanned(Scanned(s)) = Scanned(s)
  BY ScannedIs
<1>3. Written(s) \subseteq Nat /\ Written(Scanned(s)) \subseteq Nat
  BY <1>2, WrittenBounds
<1>4. \A n \in Min(Written(s))..Max(Written(s)) : n \in Nat
  BY WrittenBounds
<1>5. ReadAs(s) \subseteq Address
  BY <1>1, <1>3, <1>4 DEF ReadAs, Span
<1>6. ReadAs(Scanned(s)) = ReadAs(s)
  <2>1. CASE s.at.source = "verse"
    BY <2>1 DEF Scanned
  <2>2. CASE s.at.source # "verse"
    BY <2>2, <1>2 DEF ReadAs
  <2> QED BY <2>1, <2>2
<1> QED BY <1>2, <1>5, <1>6

\* What grounds a citation is exactly what the reader takes it for: a range is grounded by
\* every verse of it, and a citation the grammar cannot split by its own address only.
LEMMA GroundedAsRead ==
  ASSUME NEW s \in Spelling, NEW known, GroundingLabels(Scanned(s), known) # {}
  PROVE  GroundingLabels(Scanned(s), known) = ReadAs(s) /\ ReadAs(s) \subseteq known
<1> DEFINE c == Scanned(s)
<1>1. c \in Spelling /\ c.at = s.at /\ c.at \in Address /\ c.at.number \in Nat
  BY ScannedIs DEF Spelling, Address
<1>2. c.at.source = "verse" => c = s
  BY DEF Scanned
<1>3. CASE c.tails = <<>>
  <2>1. Written(c) = {c.at.number}
    BY <1>3 DEF Written, ToSet
  <2>2. Min(Written(c)) = c.at.number /\ Max(Written(c)) = c.at.number
    BY <1>1, <2>1, WrittenBounds
  <2>3. [c.at EXCEPT !.number = c.at.number] = c.at
    BY <1>1 DEF Address
  <2>4. c.at.number..c.at.number = {c.at.number}
    BY <1>1
  <2>5. Span(c) = {c.at}
    BY <2>2, <2>3, <2>4 DEF Span
  <2>6. ReadAs(s) = {c.at}
    BY <1>1, <1>2, <2>1, <2>3, <2>5 DEF ReadAs
  <2> QED BY <2>6, <1>3 DEF GroundingLabels
<1>4. CASE c.tails # <<>>
  <2>1. c.at.source = "verse" /\ RangeAddresses(c) \subseteq known /\ RangeAddresses(c) # {}
        /\ GroundingLabels(c, known) = RangeAddresses(c)
    BY <1>4 DEF GroundingLabels
  <2>2. RangeAddresses(c) = Span(c)
    BY <2>1 DEF RangeAddresses
  <2>3. ReadAs(s) = Span(c)
    BY <1>1, <1>2, <2>1 DEF ReadAs
  <2> QED BY <2>1, <2>2, <2>3
<1> QED BY <1>3, <1>4

\* The address a chip is displayed from is one of the citation's.
LEMMA HeadLabelIn ==
  ASSUME NEW L \in SUBSET Address, L # {}
  PROVE  HeadLabel(L) \in L
<1> DEFINE N == {l.number : l \in L}
<1>1. N \subseteq Nat /\ N # {}
  BY DEF Address
<1>2. Min(N) \in N /\ \A n \in N : Min(N) <= n
  BY <1>1, MinOfNats
<1>3. PICK l \in L : l.number = Min(N)
  BY <1>2
<1>4. \A k \in L : l.number <= k.number
  BY <1>2, <1>3
<1> QED BY <1>4 DEF HeadLabel
-----------------------------------------------------------------------------
(* The gate's inductive invariant. *)

\* The retrieval read each carried row from the corpus, once.
CarriedHeld ==
  /\ carried \in Seq(RowIds)
  /\ gateAt = "retrieve" => carried = <<>>

\* The trace accounts for every carried hadith: its chains are recorded, up to the bound,
\* or it was passed over, or it had none.
EvidenceKept ==
  /\ DOMAIN storedChains \subseteq ToSet(carried)
  /\ DOMAIN recorded \cup passed \subseteq DOMAIN storedChains
  /\ gateAt \in {"retrieve", "chains"} => DOMAIN storedChains = {}
  /\ \A i \in DOMAIN storedChains :
       /\ storedChains[i] \in Seq(BOOLEAN)
       /\ i \notin DOMAIN recorded \cup passed => storedChains[i] = <<>>
  /\ \A i \in DOMAIN recorded :
       /\ recorded[i].chains = First(RowBound, storedChains[i])
       /\ recorded[i].more = (Len(storedChains[i]) > RowBound)

\* Nothing is delivered before its time, and a draft under review passed the gate.
InOrder ==
  /\ gateAt \notin {"shipped", "shown"} => shipped = NoText
  /\ gateAt # "shown" => frame = NoFrame
  /\ gateAt = "review" => /\ cited \in DraftTexts /\ refusedBy = "none"
                         /\ UngroundedIn(cited.text) = {}

\* Every frame is derived from rows of children the run carried.
FrameDerived ==
  /\ DOMAIN frame.rows \subseteq ToSet(carried)
  /\ frame = NoFrame \/ frame = FrameOf(frame.rows)

GateInv ==
  /\ GateTypeOK /\ CarriedHeld /\ EvidenceKept /\ InOrder
  /\ UngroundedIn(shipped.text) = {} /\ WeakIsFlagged /\ FrameDerived

\* The children a text cites, as its reader takes it, and the duty to warn of them.
CitedBy(text) == {i \in ToSet(carried) : \E s \in text : held[i].label \in ReadAs(s)}
Flagged(sh) ==
  sh.text # {} =>
    /\ (\E i \in CitedBy(sh.text) : held[i].weak \/ HasWeakChain(i)) => sh.warning # "none"
    /\ sh.ruled => (sh.warning = "passage" <=> \E i \in CitedBy(sh.text) : held[i].weak)
    /\ sh.ruled => \E i \in CitedBy(sh.text) : held[i].weak \/ HasWeakChain(i)
Grounds(text) == \A s \in text : ReadAs(s) \subseteq Known

LEMMA DeliveryIs ==
  /\ SpansAreGrounded <=> Grounds(shipped.text)
  /\ WeakIsFlagged <=> Flagged(shipped)
BY DEF SpansAreGrounded, WeakIsFlagged, Grounds, Flagged, CitedBy, CitedRows

\* A text the gate leaves nothing against is grounded as its reader takes it, and the rules
\* look at the children its reader takes it to cite.
LEMMA GateGrounds ==
  ASSUME NEW text \in SUBSET Spelling, UngroundedIn(text) = {}
  PROVE  /\ \A s \in text : GroundingLabels(Scanned(s), Known) = ReadAs(s)
         /\ Grounds(text) /\ CitedChunks(text) = CitedBy(text)
<1>1. ASSUME NEW s \in text
      PROVE  GroundingLabels(Scanned(s), Known) = ReadAs(s) /\ ReadAs(s) \subseteq Known
  <2>1. GroundingLabels(Scanned(s), Known) # {}
    BY DEF UngroundedIn, CitationsIn
  <2> QED BY <2>1, GroundedAsRead
<1>2. GroundedIn(text) = UNION {ReadAs(s) : s \in text}
  BY <1>1 DEF GroundedIn, CitationsIn
<1>3. CitedChunks(text) = CitedBy(text)
  BY <1>2 DEF CitedChunks, CitedBy
<1> QED BY <1>1, <1>3 DEF Grounds

\* A draft delivered under the rules carries the warning its cited rows call for.
LEMMA RulesFlag ==
  ASSUME NEW d \in DraftTexts, UngroundedIn(d.text) = {}
  PROVE  Grounds(WithRules(d).text) /\ Flagged(WithRules(d))
<1>1. d.text \in SUBSET Spelling /\ d.warning \in {"none", "passage"}
  BY GateAssumption DEF DraftTexts
<1>2. Grounds(d.text) /\ CitedChunks(d.text) = CitedBy(d.text)
  BY <1>1, GateGrounds
<1> DEFINE w == WithRules(d)
<1>3. /\ w.text = d.text
      /\ w.warning = IF d.warning # "none" THEN d.warning ELSE WeakScope(d.text)
      /\ w.ruled = (d.warning = "none" /\ WeakScope(d.text) # "none")
  BY DEF WithRules
<1> HIDE DEF w
<1>4. /\ (\E i \in CitedBy(d.text) : held[i].weak) <=> WeakScope(d.text) = "passage"
      /\ (\E i \in CitedBy(d.text) : held[i].weak \/ HasWeakChain(i))
           <=> WeakScope(d.text) # "none"
  BY <1>2 DEF WeakScope
<1>5. (\E i \in CitedBy(d.text) : held[i].weak \/ HasWeakChain(i)) => w.warning # "none"
  BY <1>1, <1>3, <1>4
<1>6. w.ruled => (w.warning = "passage" <=> \E i \in CitedBy(d.text) : held[i].weak)
  BY <1>3, <1>4, Zenon
<1>7. w.ruled => \E i \in CitedBy(d.text) : held[i].weak \/ HasWeakChain(i)
  BY <1>3, <1>4, Zenon
<1> QED BY <1>2, <1>3, <1>5, <1>6, <1>7 DEF Flagged, w

\* A text without citations needs no ground and no warning.
LEMMA NothingCited ==
  ASSUME NEW sh, sh.text = {}
  PROVE  Grounds(sh.text) /\ Flagged(sh)
BY DEF Grounds, Flagged

-----------------------------------------------------------------------------
(* The chips. *)

\* First takes a prefix.
LEMMA FirstIs ==
  ASSUME NEW s \in Seq(BOOLEAN), NEW n \in Nat
  PROVE  Len(First(n, s)) = IF n < Len(s) THEN n ELSE Len(s)
<1> DEFINE m == Min({n, Len(s)})
<1>1. m = IF n < Len(s) THEN n ELSE Len(s)
  BY DEF Min
<1> HIDE DEF m
<1>2. m \in Nat /\ m <= Len(s) /\ \A i \in 1..m : s[i] \in BOOLEAN
  BY <1>1
<1>3. Len(SubSeq(s, 1, m)) = IF 1 <= m THEN m - 1 + 1 ELSE 0
  BY <1>2, SubSeqProperties
<1>4. Len(First(n, s)) = m
  BY <1>2, <1>3 DEF First, m
<1> QED BY <1>1, <1>4

\* A chip is backed by a stored row with Arabic text under an address of its citation,
\* and all of those are displayed.
LEMMA ChipBacked ==
  ASSUME NEW s \in Spelling, NEW rows, DOMAIN rows \subseteq ToSet(carried), CarriedHeld,
         GroundingLabels(Scanned(s), Displayed(rows)) # {}
  PROVE  LET c == Chip(Scanned(s), rows)
         IN  /\ c.span = Scanned(s) /\ c.evidence = EvidenceOf(c.row)
             /\ c.row \in DOMAIN rows /\ rows[c.row].arabic
             /\ rows[c.row].label \in ReadAs(Scanned(s))
             /\ ReadAs(Scanned(s)) \subseteq Displayed(rows)
<1> DEFINE L == GroundingLabels(Scanned(s), Displayed(rows))
           l == HeadLabel(L)
           B == Backing(rows, l)
<1>1. L = ReadAs(s) /\ L \subseteq Displayed(rows)
  BY GroundedAsRead
<1>2. L \subseteq Address /\ ReadAs(Scanned(s)) = ReadAs(s)
  BY <1>1, ReadAsAddresses
<1>3. l \in L
  BY <1>2, HeadLabelIn
<1>4. PICK j \in DOMAIN rows : rows[j].arabic /\ rows[j].label = l
  <2> HIDE DEF L, l
  <2> QED BY <1>1, <1>3 DEF Displayed
<1>5. DOMAIN carried \subseteq Nat
  BY DEF CarriedHeld
<1>6. PICK k \in DOMAIN carried : carried[k] = j
  BY <1>4 DEF ToSet
<1>7. B \in SUBSET Nat /\ B # {}
  <2> HIDE DEF l
  <2> QED BY <1>4, <1>5, <1>6 DEF Backing
<1>8. Min(B) \in B
  <2> HIDE DEF B
  <2> QED BY <1>7, MinOfNats
<1>9. carried[Min(B)] \in DOMAIN rows /\ rows[carried[Min(B)]].arabic
      /\ rows[carried[Min(B)]].label = l
  <2> HIDE DEF l
  <2>1. \A k2 \in B : carried[k2] \in DOMAIN rows /\ rows[carried[k2]].arabic
                      /\ rows[carried[k2]].label = l
    BY DEF Backing
  <2> HIDE DEF B
  <2> QED BY <1>8, <2>1
<1>10. Chip(Scanned(s), rows) =
         [span |-> Scanned(s), row |-> carried[Min(B)], evidence |-> EvidenceOf(carried[Min(B)])]
  BY DEF Chip
<1> HIDE DEF B, l, L
<1> QED BY <1>1, <1>2, <1>3, <1>9, <1>10

\* What a chip says of its child's chains is what the trace holds of them.
LEMMA EvidenceTells ==
  ASSUME EvidenceKept, NEW i
  PROVE  /\ Unseen(i) # {} => EvidenceOf(i) \in {"unread", "prefix"}
         /\ EvidenceOf(i) = "prefix" => Unseen(i) # {}
<1>0. RowBound \in Nat \ {0}
  BY GateAssumption
<1>1. CASE i \in DOMAIN recorded
  <2>1. i \in DOMAIN storedChains /\ storedChains[i] \in Seq(BOOLEAN)
    BY <1>1 DEF EvidenceKept
  <2> DEFINE s == storedChains[i]
  <2>2. Len(recorded[i].chains) = IF RowBound < Len(s) THEN RowBound ELSE Len(s)
    BY <1>0, <1>1, <2>1, FirstIs DEF EvidenceKept
  <2>3. recorded[i].more = (Len(s) > RowBound)
    BY <1>1 DEF EvidenceKept
  <2>4. Unseen(i) = {n \in DOMAIN s : n > Len(recorded[i].chains)}
    BY <1>1, <2>1 DEF Unseen
  <2>5. Unseen(i) # {} <=> Len(s) > RowBound
    <3> HIDE DEF s
    <3>0. s \in Seq(BOOLEAN)
      BY <2>1 DEF s
    <3>1. DOMAIN s = 1..Len(s) /\ Len(s) \in Nat
      BY <3>0
    <3>2. ASSUME Len(s) > RowBound PROVE Len(s) \in Unseen(i)
      BY <3>1, <3>2, <2>2, <2>4, <1>0
    <3>3. ASSUME Unseen(i) # {} PROVE Len(s) > RowBound
      BY <3>1, <3>3, <2>2, <2>4, <1>0
    <3> QED BY <3>2, <3>3
  <2>6. EvidenceOf(i) = IF recorded[i].more THEN "prefix" ELSE "chains"
    BY <1>1 DEF EvidenceOf
  <2>7. EvidenceOf(i) = "prefix" <=> Len(s) > RowBound
    <3> HIDE DEF s
    <3> QED BY <2>3, <2>6
  <2> QED BY <2>5, <2>7
<1>2. CASE i \notin DOMAIN recorded /\ i \in passed
  <2>1. EvidenceOf(i) = "unread"
    BY <1>2 DEF EvidenceOf
  <2> QED BY <2>1
<1>3. CASE i \notin DOMAIN recorded /\ i \notin passed
  <2>1. EvidenceOf(i) = "none"
    BY <1>3 DEF EvidenceOf
  <2>2. i \in DOMAIN storedChains => storedChains[i] = <<>>
    BY <1>3 DEF EvidenceKept
  <2>3. Unseen(i) = {}
    BY <2>2 DEF Unseen
  <2> QED BY <2>1, <2>3
<1> QED BY <1>1, <1>2, <1>3

\* So the frame a reader sees is backed.
LEMMA FrameBacked ==
  ASSUME GateInv
  PROVE  ChipsAreBacked
<1>1. shipped.text \in SUBSET Spelling
  BY GateAssumption DEF GateInv, GateTypeOK
<1>2. ASSUME NEW c \in frame.chips
      PROVE  /\ \E s \in shipped.text : Scanned(s) = c.span
             /\ c.row \in DOMAIN frame.rows /\ frame.rows[c.row].arabic
             /\ frame.rows[c.row].label \in ReadAs(c.span)
             /\ ReadAs(c.span) \subseteq Displayed(frame.rows)
             /\ Unseen(c.row) # {} => c.evidence \in {"unread", "prefix"}
             /\ c.evidence = "prefix" => Unseen(c.row) # {}
  <2>1. frame # NoFrame
    BY <1>2 DEF NoFrame
  <2>2. c \in Chips(frame.rows)
    <3>1. frame = FrameOf(frame.rows)
      BY <2>1 DEF GateInv, FrameDerived
    <3>2. FrameOf(frame.rows).chips = Chips(frame.rows)
      BY DEF FrameOf
    <3> QED BY <1>2, <3>1, <3>2
  <2>3. PICK s \in shipped.text : /\ c = Chip(Scanned(s), frame.rows)
                                  /\ GroundingLabels(Scanned(s), Displayed(frame.rows)) # {}
    BY <2>2 DEF Chips, CitationsIn
  <2>4. s \in Spelling
    BY <1>1
  <2>5. /\ c.span = Scanned(s) /\ c.evidence = EvidenceOf(c.row)
        /\ c.row \in DOMAIN frame.rows /\ frame.rows[c.row].arabic
        /\ frame.rows[c.row].label \in ReadAs(Scanned(s))
        /\ ReadAs(Scanned(s)) \subseteq Displayed(frame.rows)
    BY <2>3, <2>4, ChipBacked DEF GateInv, FrameDerived
  <2>6. /\ Unseen(c.row) # {} => c.evidence \in {"unread", "prefix"}
        /\ c.evidence = "prefix" => Unseen(c.row) # {}
    BY <2>5, EvidenceTells DEF GateInv
  <2> QED BY <2>5, <2>6
<1>3. ASSUME gateAt = "shown", frame.rows = held, \A i \in DOMAIN held : held[i].arabic,
             NEW s \in shipped.text
      PROVE  \E c \in frame.chips : c.span = Scanned(s)
  <2>1. s \in Spelling /\ GroundingLabels(Scanned(s), Known) # {}
    BY <1>1 DEF GateInv, UngroundedIn, CitationsIn
  <2>2. Displayed(held) = Known
    <3>1. \A i \in DOMAIN held : held[i].arabic
      BY <1>3
    <3>2. DOMAIN held = ToSet(carried)
      BY DEF GateInv, GateTypeOK
    <3> QED BY <3>1, <3>2 DEF Displayed, Known
  <2>3. CASE frame = NoFrame
    <3>1. held = <<>>
      BY <1>3, <2>3 DEF NoFrame
    <3>2. Known = {}
      <4>1. ToSet(carried) = {}
        BY <3>1 DEF GateInv, GateTypeOK
      <4> QED BY <4>1 DEF Known
    <3> QED BY <2>1, <3>2, GroundedAsRead
  <2>4. CASE frame = FrameOf(held)
    <3> DEFINE c == Chip(Scanned(s), held)
    <3>1. c \in Chips(held)
      BY <2>1, <2>2 DEF Chips, CitationsIn
    <3>2. frame.chips = Chips(held)
      BY <2>4 DEF FrameOf
    <3>3. c.span = Scanned(s)
      BY DEF Chip
    <3> QED BY <3>1, <3>2, <3>3
  <2> QED BY <1>3, <2>3, <2>4 DEF GateInv, FrameDerived
<1> QED BY <1>2, <1>3 DEF ChipsAreBacked

-----------------------------------------------------------------------------
(* Every step keeps the invariant. *)

LEMMA GateInvInit == GateInit => GateInv
<1> SUFFICES ASSUME GateInit PROVE GateInv
  OBVIOUS
<1> USE DEF GateInit
<1>1. \A i \in RowIds : Versions[i][1] \in ToSet(Versions[i])
  BY GateAssumption DEF ToSet
<1>2. ToSet(carried) = {} /\ DOMAIN held = {} /\ DOMAIN recorded = {} /\ DOMAIN storedChains = {}
      /\ DOMAIN frame.rows = {}
  BY DEF ToSet, NoFrame
<1>3. GateTypeOK
  BY <1>1, <1>2, GateAssumption DEF GateTypeOK, NoText
<1>4. CarriedHeld /\ EvidenceKept
  BY <1>2 DEF CarriedHeld, EvidenceKept
<1>5. InOrder /\ FrameDerived
  BY <1>2 DEF InOrder, FrameDerived
<1>6. shipped.text = {}
  BY DEF NoText
<1>7. UngroundedIn(shipped.text) = {}
  BY <1>6 DEF UngroundedIn, CitationsIn
<1>8. WeakIsFlagged
  BY <1>6, NothingCited, DeliveryIs
<1> QED BY <1>3, <1>4, <1>5, <1>7, <1>8 DEF GateInv

\* What the text and its citations depend on.
LEMMA DeliveryKept ==
  ASSUME GateInv, UNCHANGED <<carried, held, recorded, passed, storedChains, shipped>>
  PROVE  /\ UngroundedIn(shipped.text)' = {} /\ WeakIsFlagged'
         /\ \A rows : FrameOf(rows)' = FrameOf(rows) \/ refusedBy' # refusedBy
<1>1. Known' = Known
  BY DEF Known
<1>2. UngroundedIn(shipped.text)' = UngroundedIn(shipped.text)
  BY <1>1 DEF UngroundedIn
<1>3. CitedRows' = CitedRows /\ \A i : HasWeakChain(i)' <=> HasWeakChain(i)
  BY DEF CitedRows, HasWeakChain
<1>4. WeakIsFlagged' <=> WeakIsFlagged
  BY <1>3 DEF WeakIsFlagged
<1>5. ASSUME NEW rows, refusedBy' = refusedBy
      PROVE  FrameOf(rows)' = FrameOf(rows)
  BY <1>5 DEF FrameOf, Chips, Chip, Backing, EvidenceOf
<1> QED BY <1>2, <1>4, <1>5 DEF GateInv

LEMMA RetrieveKeeps ==
  ASSUME GateInv, Retrieve
  PROVE  GateInv'
<1> USE DEF GateInv
<1>1. PICK c \in Contexts : /\ ToSet(c) \subseteq DOMAIN corpus /\ carried' = c
                            /\ held' = Restrict(corpus, ToSet(c))
  BY DEF Retrieve
<1>2. /\ gateAt = "retrieve" /\ gateAt' = "chains"
      /\ UNCHANGED <<corpus, recorded, passed, storedChains, cited, refusedBy, shipped, frame,
                     rowWrites>>
  BY DEF Retrieve, GateTo
<1>3. shipped = NoText /\ frame = NoFrame /\ DOMAIN storedChains = {}
  BY <1>2 DEF InOrder, EvidenceKept
<1>4. ToSet(carried)' = ToSet(c) /\ DOMAIN held' = ToSet(c)
  BY <1>1 DEF Restrict
<1>5. DOMAIN recorded = {} /\ passed = {} /\ DOMAIN frame.rows = {}
  <2>1. DOMAIN recorded \cup passed \subseteq {}
    BY <1>3 DEF EvidenceKept
  <2>2. DOMAIN frame.rows = {}
    BY <1>3 DEF NoFrame
  <2> QED BY <2>1, <2>2
<1>6. GateTypeOK'
  BY <1>1, <1>2, <1>4, <1>5 DEF GateTypeOK
<1>7. CarriedHeld' /\ EvidenceKept'
  BY <1>1, <1>2, <1>3, <1>5, GateAssumption DEF CarriedHeld, EvidenceKept
<1>8. InOrder' /\ FrameDerived'
  BY <1>2, <1>3, <1>5 DEF InOrder, FrameDerived
<1>9. shipped'.text = {}
  BY <1>2, <1>3 DEF NoText
<1>10. UngroundedIn(shipped.text)' = {}
  BY <1>9 DEF UngroundedIn, CitationsIn
<1>11. WeakIsFlagged'
  BY <1>9 DEF WeakIsFlagged
<1> QED BY <1>6, <1>7, <1>8, <1>10, <1>11

LEMMA ConsultKeeps ==
  ASSUME GateInv, ConsultChains
  PROVE  GateInv'
<1> USE DEF GateInv
<1> DEFINE read == At({k \in Bearing : Cardinality({j \in Bearing : j < k}) < ReadBound})
<1>1. /\ recorded' = [i \in {j \in read : ChainsNow(j) # <<>>} |->
                          [chains |-> First(RowBound, ChainsNow(i)),
                           more |-> Len(ChainsNow(i)) > RowBound]]
      /\ passed' = At(Bearing) \ read
      /\ storedChains' = [i \in At(Bearing) |-> ChainsNow(i)]
  BY DEF ConsultChains
<1>2. /\ gateAt = "chains" /\ gateAt' = "draft"
      /\ UNCHANGED <<corpus, carried, held, cited, refusedBy, shipped, frame, rowWrites>>
  BY DEF ConsultChains, GateTo
<1>3. read \subseteq At(Bearing) /\ At(Bearing) \subseteq ToSet(carried)
  BY DEF At, Bearing, ToSet
<1> HIDE DEF read
<1>4. shipped = NoText /\ frame = NoFrame /\ DOMAIN frame.rows = {}
  BY <1>2 DEF InOrder, NoFrame
<1>5. \A i : ChainsNow(i) \in Seq(BOOLEAN)
  <2>1. <<>> \in Seq(BOOLEAN)
    OBVIOUS
  <2>2. ASSUME NEW i \in DOMAIN corpus PROVE corpus[i].chains \in Seq(BOOLEAN)
    <3>1. i \in RowIds /\ corpus[i] \in ToSet(Versions[i])
      BY DEF GateTypeOK
    <3> QED BY <3>1, GateAssumption
  <2> QED BY <2>1, <2>2 DEF ChainsNow
<1>6. GateTypeOK'
  <2>1. DOMAIN recorded' \cup passed' \subseteq ToSet(carried)
    BY <1>1, <1>3
  <2> QED BY <1>2, <2>1 DEF GateTypeOK
<1>7. CarriedHeld'
  BY <1>2 DEF CarriedHeld
<1>8. EvidenceKept'
  <2>1. /\ DOMAIN storedChains' = At(Bearing)
        /\ DOMAIN recorded' = {j \in read : ChainsNow(j) # <<>>}
    BY <1>1
  <2>2. \A i \in DOMAIN storedChains' : storedChains'[i] = ChainsNow(i)
    BY <1>1
  <2>3. \A i \in DOMAIN recorded' : /\ recorded'[i].chains = First(RowBound, ChainsNow(i))
                                    /\ recorded'[i].more = (Len(ChainsNow(i)) > RowBound)
    BY <1>1
  <2>4. \A i \in DOMAIN storedChains' : i \notin DOMAIN recorded' \cup passed' => ChainsNow(i) = <<>>
    BY <1>1, <2>1
  <2> QED BY <1>1, <1>2, <1>3, <1>5, <2>1, <2>2, <2>3, <2>4 DEF EvidenceKept
<1>9. InOrder' /\ FrameDerived'
  BY <1>2, <1>4 DEF InOrder, FrameDerived
<1>10. shipped'.text = {}
  BY <1>2, <1>4 DEF NoText
<1>11. UngroundedIn(shipped.text)' = {}
  BY <1>10 DEF UngroundedIn, CitationsIn
<1>12. WeakIsFlagged'
  BY <1>10 DEF WeakIsFlagged
<1> QED BY <1>6, <1>7, <1>8, <1>9, <1>11, <1>12

\* What the gate and the rules deliver of a draft.
LEMMA Delivers ==
  ASSUME GateInv, NEW d \in DraftTexts,
         UNCHANGED <<carried, held, recorded, passed, storedChains>>,
         \/ shipped' = NoText
         \/ shipped' = WithRules(d) /\ UngroundedIn(d.text) = {}
         \/ shipped' = AsDrafted(d) /\ d.text = {}
  PROVE  /\ UngroundedIn(shipped.text)' = {} /\ WeakIsFlagged'
         /\ shipped'.text \in Texts \cup {{}} /\ shipped'.warning \in {"none", "passage", "chain"}
<1>1. d.text \in Texts /\ d.warning \in {"none", "passage"}
  BY DEF DraftTexts
<1>2. Known' = Known
  BY DEF Known
<1>3. Flagged(shipped') => WeakIsFlagged'
  <2>1. CitedRows' = CitedBy(shipped'.text)
    BY DEF CitedRows, CitedBy
  <2>2. \A i : HasWeakChain(i)' <=> HasWeakChain(i)
    BY DEF HasWeakChain
  <2> QED BY <2>1, <2>2 DEF WeakIsFlagged, Flagged
<1>4. UngroundedIn(shipped.text)' = UngroundedIn(shipped'.text)
  BY <1>2 DEF UngroundedIn
<1>5. \A sh : sh.text = {} => UngroundedIn(sh.text) = {}
  BY DEF UngroundedIn, CitationsIn
<1>6. CASE shipped' = NoText
  <2>1. shipped'.text = {} /\ shipped'.warning = "none"
    BY <1>6 DEF NoText
  <2> QED BY <2>1, <1>3, <1>4, <1>5, NothingCited
<1>7. CASE shipped' = AsDrafted(d) /\ d.text = {}
  <2>1. shipped'.text = {} /\ shipped'.warning = d.warning
    BY <1>7 DEF NoText, AsDrafted
  <2> QED BY <2>1, <1>1, <1>3, <1>4, <1>5, NothingCited
<1>8. CASE shipped' = WithRules(d) /\ UngroundedIn(d.text) = {}
  <2>1. shipped'.text = d.text /\ shipped'.warning \in {d.warning, WeakScope(d.text)}
    BY <1>8 DEF WithRules
  <2>2. WeakScope(d.text) \in {"none", "passage", "chain"}
    BY DEF WeakScope
  <2>3. Flagged(shipped')
    BY <1>8, RulesFlag
  <2> QED BY <1>1, <1>3, <1>4, <1>8, <2>1, <2>2, <2>3
<1> QED BY <1>6, <1>7, <1>8

LEMMA ScreenKeeps ==
  ASSUME GateInv, ScreenDraft
  PROVE  GateInv'
<1> USE DEF GateInv
<1>1. PICK d \in DraftTexts :
        /\ cited' = d /\ refusedBy' = RefusalRow(d)
        /\ IF RefusalRow(d) = "none"
             THEN gateAt' = "review" /\ UNCHANGED shipped
             ELSE gateAt' = "shipped" /\ shipped' = Delivery(d)[RefusalRow(d)]
  BY DEF ScreenDraft, GateTo
<1>2. gateAt = "draft" /\ UNCHANGED <<corpus, carried, held, recorded, passed, storedChains, frame,
                                     rowWrites>>
  BY DEF ScreenDraft, Chunk
<1>3. shipped = NoText /\ frame = NoFrame
  BY <1>2 DEF InOrder
<1>4. RefusalRow(d) \in {"none", "ungrounded", "pure", "hybrid", "asserting"}
  BY DEF RefusalRow
<1>5. RefusalRow(d) # "ungrounded" => UngroundedIn(d.text) = {}
  BY DEF RefusalRow
<1>6. RefusalRow(d) = "pure" => d.text = {}
  BY DEF RefusalRow, DraftTexts
<1>7. \/ shipped' = NoText
      \/ shipped' = WithRules(d) /\ UngroundedIn(d.text) = {}
      \/ shipped' = AsDrafted(d) /\ d.text = {}
  <2>1. CASE RefusalRow(d) = "none"
    BY <1>1, <1>3, <2>1
  <2>2. CASE RefusalRow(d) \in {"ungrounded", "asserting"}
    BY <1>1, <2>2 DEF Delivery
  <2>3. CASE RefusalRow(d) = "pure"
    BY <1>1, <1>6, <2>3 DEF Delivery
  <2>4. CASE RefusalRow(d) = "hybrid"
    BY <1>1, <1>5, <2>4 DEF Delivery
  <2> QED BY <1>4, <2>1, <2>2, <2>3, <2>4
<1>8. /\ UngroundedIn(shipped.text)' = {} /\ WeakIsFlagged'
      /\ shipped'.text \in Texts \cup {{}} /\ shipped'.warning \in {"none", "passage", "chain"}
  BY <1>2, <1>7, Delivers
<1>9. GateTypeOK'
  BY <1>1, <1>2, <1>4, <1>8 DEF GateTypeOK
<1>10. CarriedHeld' /\ EvidenceKept'
  BY <1>1, <1>2 DEF CarriedHeld, EvidenceKept
<1>11. gateAt' = "review" => UngroundedIn(cited.text)' = {}
  <2>1. UngroundedIn(cited.text)' = UngroundedIn(d.text)
    BY <1>1, <1>2 DEF UngroundedIn, Known
  <2> QED BY <1>1, <1>5, <2>1
<1>12. DraftTexts' = DraftTexts
  BY DEF DraftTexts
<1>13. InOrder'
  BY <1>1, <1>2, <1>3, <1>11, <1>12 DEF InOrder
<1>14. FrameDerived'
  BY <1>2, <1>3 DEF FrameDerived
<1> QED BY <1>8, <1>9, <1>10, <1>13, <1>14

LEMMA VerdictKeeps ==
  ASSUME GateInv, PassDraft \/ FailDraft
  PROVE  GateInv'
<1> USE DEF GateInv
<1>1. /\ gateAt = "review" /\ gateAt' = "shipped"
      /\ UNCHANGED <<corpus, carried, held, recorded, passed, storedChains, cited, frame, rowWrites>>
      /\ shipped' = WithRules(cited) \/ shipped' = NoText
      /\ refusedBy' \in {refusedBy, "reviewer"}
  BY DEF PassDraft, FailDraft, GateTo, Chunk
<1>2. frame = NoFrame /\ cited \in DraftTexts /\ UngroundedIn(cited.text) = {}
  BY <1>1 DEF InOrder
<1>3. /\ UngroundedIn(shipped.text)' = {} /\ WeakIsFlagged'
      /\ shipped'.text \in Texts \cup {{}} /\ shipped'.warning \in {"none", "passage", "chain"}
  BY <1>1, <1>2, Delivers
<1>4. GateTypeOK'
  BY <1>1, <1>3 DEF GateTypeOK
<1>5. CarriedHeld' /\ EvidenceKept'
  BY <1>1 DEF CarriedHeld, EvidenceKept
<1>6. InOrder' /\ FrameDerived'
  BY <1>1, <1>2 DEF InOrder, FrameDerived
<1> QED BY <1>3, <1>4, <1>5, <1>6

\* A derived frame is joined to rows of carried children only.
LEMMA FrameKeeps ==
  ASSUME GateInv, SendFrames \/ Rehydrate
  PROVE  GateInv'
<1> USE DEF GateInv
<1>1. /\ gateAt \in {"shipped", "shown"} /\ gateAt' = "shown"
      /\ UNCHANGED <<corpus, carried, held, recorded, passed, storedChains, cited, refusedBy,
                     shipped, rowWrites>>
      /\ frame' = NoFrame \/ \E rows \in RowsRead : frame' = FrameOf(rows)
  BY DEF SendFrames, Rehydrate, GateTo, Chunk
<1>2. /\ UngroundedIn(shipped.text)' = {} /\ WeakIsFlagged'
      /\ \A rows : FrameOf(rows)' = FrameOf(rows)
  BY <1>1, DeliveryKept
<1>3. DOMAIN frame'.rows \subseteq ToSet(carried)
      /\ (frame' = NoFrame \/ frame' = FrameOf(frame'.rows))
  <2>1. CASE frame' = NoFrame
    BY <2>1 DEF NoFrame
  <2>2. ASSUME NEW rows \in RowsRead, frame' = FrameOf(rows)
        PROVE  DOMAIN frame'.rows \subseteq ToSet(carried) /\ frame' = FrameOf(frame'.rows)
    <3>1. frame'.rows = rows
      BY <2>2 DEF FrameOf
    <3>2. DOMAIN rows \subseteq ToSet(carried)
      BY DEF RowsRead, Restrict
    <3> QED BY <2>2, <3>1, <3>2
  <2> QED BY <1>1, <2>1, <2>2
<1>4. FrameDerived'
  <2>1. FrameOf(frame.rows)' = FrameOf(frame'.rows)
    BY <1>1 DEF FrameOf, Chips, Chip, Backing, EvidenceOf
  <2> QED BY <1>1, <1>3, <2>1 DEF FrameDerived
<1>5. GateTypeOK'
  BY <1>1, <1>3 DEF GateTypeOK
<1>6. CarriedHeld' /\ EvidenceKept'
  BY <1>1 DEF CarriedHeld, EvidenceKept
<1>7. InOrder'
  BY <1>1 DEF InOrder
<1> QED BY <1>2, <1>4, <1>5, <1>6, <1>7

\* The corpus is written under it all, and nothing a run holds changes with it.
LEMMA WriteKeeps ==
  ASSUME GateInv, WriteRow
  PROVE  GateInv'
<1> USE DEF GateInv
<1>1. /\ UNCHANGED <<gateAt, carried, held, recorded, passed, storedChains, cited, refusedBy,
                     shipped, frame>>
      /\ rowWrites < MaxRowWrites /\ rowWrites' = rowWrites + 1
  BY DEF WriteRow, Chunk
<1>2. PICK i \in DOMAIN corpus :
        \/ \E r \in ToSet(Versions[i]) : corpus' = [corpus EXCEPT ![i] = r]
        \/ corpus' = Restrict(corpus, DOMAIN corpus \ {i})
  BY DEF WriteRow
<1>3. DOMAIN corpus' \subseteq RowIds /\ \A j \in DOMAIN corpus' : corpus'[j] \in ToSet(Versions[j])
  BY <1>2 DEF Restrict, GateTypeOK
<1>4. GateTypeOK'
  BY <1>1, <1>3, GateAssumption DEF GateTypeOK
<1>5. CarriedHeld' /\ EvidenceKept'
  BY <1>1 DEF CarriedHeld, EvidenceKept
<1>6. /\ UngroundedIn(shipped.text)' = {} /\ WeakIsFlagged'
      /\ FrameOf(frame.rows)' = FrameOf(frame.rows)
  BY <1>1, DeliveryKept
<1>7. InOrder' /\ FrameDerived'
  <2>1. UngroundedIn(cited.text)' = UngroundedIn(cited.text) /\ DraftTexts' = DraftTexts
    BY <1>1 DEF UngroundedIn, Known, DraftTexts
  <2> QED BY <1>1, <1>6, <2>1 DEF InOrder, FrameDerived
<1> QED BY <1>4, <1>5, <1>6, <1>7

LEMMA GateInvNext == GateInv /\ [GateNext]_gateVars => GateInv'
<1> SUFFICES ASSUME GateInv, [GateNext]_gateVars PROVE GateInv'
  OBVIOUS
<1>1. CASE UNCHANGED gateVars
  <2>1. UNCHANGED <<gateAt, corpus, carried, held, recorded, passed, cited, refusedBy, shipped,
                    frame, rowWrites, storedChains>>
    BY <1>1 DEF gateVars
  <2>2. /\ UngroundedIn(shipped.text)' = {} /\ WeakIsFlagged'
        /\ FrameOf(frame.rows)' = FrameOf(frame.rows)
    BY <2>1, DeliveryKept
  <2>3. UngroundedIn(cited.text)' = UngroundedIn(cited.text) /\ DraftTexts' = DraftTexts
    BY <2>1 DEF UngroundedIn, Known, DraftTexts
  <2>4. GateTypeOK' /\ CarriedHeld' /\ EvidenceKept'
    BY <2>1 DEF GateInv, GateTypeOK, CarriedHeld, EvidenceKept
  <2>5. InOrder' /\ FrameDerived'
    BY <2>1, <2>2, <2>3 DEF GateInv, InOrder, FrameDerived
  <2> QED BY <2>2, <2>4, <2>5 DEF GateInv
<1>2. CASE GateNext
  BY <1>2, RetrieveKeeps, ConsultKeeps, ScreenKeeps, VerdictKeeps, FrameKeeps, WriteKeeps
     DEF GateNext
<1> QED BY <1>1, <1>2

\* The gate's state has its types, whatever a draft cites and whatever is written to the
\* corpus meanwhile.
THEOREM GateTypeCorrect == GateSpec => []GateTypeOK
<1>1. GateInv => GateTypeOK
  BY DEF GateInv
<1> QED BY <1>1, GateInvInit, GateInvNext, PTL DEF GateSpec

\* A delivered citation was held by the run, the weak warning is there when its rows call
\* for it, and every chip is backed by a stored row of the trace (validateCitations,
\* applyProductRules, deriveCitationsFrame), for every corpus, draft and order of writes.
THEOREM CitationsHonest == GateSpec => []CitationsAreHonest
<1>1. GateInv => CitationsAreHonest
  <2> SUFFICES ASSUME GateInv PROVE CitationsAreHonest
    OBVIOUS
  <2>1. shipped.text \in SUBSET Spelling
    BY GateAssumption DEF GateInv, GateTypeOK
  <2>2. SpansAreGrounded
    BY <2>1, GateGrounds, DeliveryIs DEF GateInv
  <2> QED BY <2>2, FrameBacked DEF GateInv, CitationsAreHonest
<1> QED BY <1>1, GateInvInit, GateInvNext, PTL DEF GateSpec

-----------------------------------------------------------------------------
(* The searches of a retrieval. *)

Event == [kind : {"search"}, ran : SUBSET Dimensions]
         \cup [kind : {"relaxed"}, ran : SUBSET Dimensions, dropped : SUBSET Dimensions,
               adopted : BOOLEAN]

\* What a trace of events tells, by itself.
RelaxedIn(s, i) == {e \in {s[j] : j \in 1..(i - 1)} : e.kind = "relaxed"}
AdoptedIn(s, i) == UNION {e.dropped : e \in {f \in RelaxedIn(s, i) : f.adopted}}
Fits(s, i) ==
  LET e == s[i]
      told == intended \ AdoptedIn(s, i)
  IN /\ e.kind = "search" => e.ran = told
     /\ e.kind = "relaxed" =>
          /\ e.ran = told \ e.dropped /\ e.dropped # {} /\ e.dropped \subseteq told
          /\ \A f \in RelaxedIn(s, i) : f.ran # e.ran
          /\ \A j \in 1..(i - 1) : s[j].kind = "relaxed"
Adopted(s) == AdoptedIn(s, Len(s) + 1)

LEMMA ReconstructibleIs ==
  SearchesAreReconstructible <=> \A i \in DOMAIN events : Fits(events, i)
<1>1. \A i : RelaxedBefore(i) = RelaxedIn(events, i)
  BY DEF RelaxedBefore, RelaxedIn
<1>2. \A i : AdoptedBefore(i) = AdoptedIn(events, i)
  BY <1>1 DEF AdoptedBefore, AdoptedIn
<1> QED BY <1>1, <1>2 DEF SearchesAreReconstructible, Fits

\* One more event leaves what the earlier ones tell, and adds what it adopts.
LEMMA AppendTells ==
  ASSUME NEW s \in Seq(Event), NEW e \in Event
  PROVE  LET t == Append(s, e)
             n == Len(s) + 1
         IN  /\ t \in Seq(Event) /\ DOMAIN t = 1..n /\ t[n] = e
             /\ \A i \in 1..n : /\ RelaxedIn(t, i) = RelaxedIn(s, i)
                               /\ AdoptedIn(t, i) = AdoptedIn(s, i)
             /\ \A i \in DOMAIN s : t[i] = s[i] /\ (Fits(t, i) <=> Fits(s, i))
             /\ e.kind = "search" => Adopted(t) = Adopted(s)
             /\ e.kind = "relaxed" =>
                  Adopted(t) = IF e.adopted THEN Adopted(s) \cup e.dropped ELSE Adopted(s)
<1> DEFINE t == Append(s, e)
           n == Len(s) + 1
<1>1. /\ t \in Seq(Event) /\ DOMAIN t = 1..n /\ t[n] = e /\ n \in Nat /\ Len(t) = n
      /\ DOMAIN s = 1..Len(s) /\ \A i \in DOMAIN s : t[i] = s[i]
  OBVIOUS
<1> HIDE DEF t
<1>2. \A i \in 1..n : {t[j] : j \in 1..(i - 1)} = {s[j] : j \in 1..(i - 1)}
  BY <1>1
<1>3. \A i \in 1..n : RelaxedIn(t, i) = RelaxedIn(s, i)
  BY <1>2 DEF RelaxedIn
<1>4. \A i \in 1..n : AdoptedIn(t, i) = AdoptedIn(s, i)
  BY <1>3 DEF AdoptedIn
<1>5. \A i \in DOMAIN s : Fits(t, i) <=> Fits(s, i)
  <2> TAKE i \in DOMAIN s
  <2>1. i \in 1..n /\ t[i] = s[i] /\ \A j \in 1..(i - 1) : t[j] = s[j]
    BY <1>1
  <2> QED BY <2>1, <1>3, <1>4 DEF Fits
<1>6. {t[j] : j \in 1..n} = {s[j] : j \in 1..(n - 1)} \cup {e}
  <2>1. 1..n = 1..(n - 1) \cup {n} /\ n - 1 = Len(s)
    BY <1>1
  <2> QED BY <1>1, <2>1
<1>7. RelaxedIn(t, n + 1) = IF e.kind = "relaxed" THEN RelaxedIn(s, n) \cup {e} ELSE RelaxedIn(s, n)
  <2>1. n + 1 - 1 = n
    BY <1>1
  <2>2. RelaxedIn(t, n + 1) = {f \in {t[j] : j \in 1..n} : f.kind = "relaxed"}
    BY <2>1 DEF RelaxedIn
  <2>3. RelaxedIn(s, n) = {f \in {s[j] : j \in 1..(n - 1)} : f.kind = "relaxed"}
    BY DEF RelaxedIn
  <2> DEFINE A == {s[j] : j \in 1..(n - 1)}
  <2>4. {t[j] : j \in 1..n} = A \cup {e}
    BY <1>6
  <2> HIDE DEF A
  <2>5. RelaxedIn(t, n + 1) = {f \in A \cup {e} : f.kind = "relaxed"}
    BY <2>2, <2>4
  <2>6. RelaxedIn(s, n) = {f \in A : f.kind = "relaxed"}
    BY <2>3 DEF A
  <2>7. CASE e.kind = "relaxed"
    BY <2>5, <2>6, <2>7
  <2>8. CASE e.kind # "relaxed"
    <3>1. {f \in A \cup {e} : f.kind = "relaxed"} = {f \in A : f.kind = "relaxed"}
      BY <2>8
    <3>2. RelaxedIn(t, n + 1) = RelaxedIn(s, n)
      BY <2>5, <2>6, <3>1
    <3> QED BY <2>8, <3>2
  <2> QED BY <2>7, <2>8
<1>8. e.kind = "search" => AdoptedIn(t, n + 1) = AdoptedIn(s, n)
  BY <1>7 DEF AdoptedIn
<1>9. ASSUME e.kind = "relaxed"
      PROVE  AdoptedIn(t, n + 1) = IF e.adopted THEN AdoptedIn(s, n) \cup e.dropped
                                   ELSE AdoptedIn(s, n)
  <2>1. RelaxedIn(t, n + 1) = RelaxedIn(s, n) \cup {e}
    BY <1>7, <1>9
  <2> QED BY <2>1 DEF AdoptedIn
<1> QED BY <1>1, <1>3, <1>4, <1>5, <1>8, <1>9 DEF Adopted, t

\* Until the run is settled, a probe has only ever given up one dimension, each another one,
\* and found nothing; from then on the record is what the trace adopted, and there are no
\* probes.
Unsettled ==
  /\ live = intended /\ phase \in {"search", "probe"}
  /\ \A i \in DOMAIN events :
       /\ events[i].kind = "relaxed" /\ ~events[i].adopted
       /\ \E d \in tried : d \in intended /\ events[i].ran = intended \ {d}

SearchInv ==
  /\ intended \subseteq Dimensions /\ live \subseteq intended
  /\ events \in Seq(Event) /\ settled \in BOOLEAN
  /\ live = intended \ Adopted(events)
  /\ ~settled => Unsettled
  /\ phase = "probe" => ~settled
  /\ \A i \in DOMAIN events : Fits(events, i)

\* The dimension a probe gives up is one of the record that no probe gave up before.
LEMMA NextUntriedIn ==
  ASSUME live \subseteq Dimensions, ~(live \subseteq tried)
  PROVE  NextUntried \in live \ tried
<1> DEFINE K == {k \in DOMAIN RelaxationOrder : RelaxationOrder[k] \in live \ tried}
<1>1. DOMAIN RelaxationOrder = 1..4
  BY DEF RelaxationOrder
<1>2. K \in SUBSET Nat
  BY <1>1
<1>3. K # {}
  BY DEF Dimensions, ToSet
<1>4. Min(K) \in K
  <2> HIDE DEF K
  <2> QED BY <1>2, <1>3, MinOfNats
<1> QED BY <1>4 DEF NextUntried

LEMMA UnsettledAdoptsNothing ==
  ASSUME SearchInv, ~settled
  PROVE  Adopted(events) = {}
<1>1. \A e \in RelaxedIn(events, Len(events) + 1) : ~e.adopted
  <2> SUFFICES ASSUME NEW j \in 1..(Len(events) + 1 - 1) PROVE ~events[j].adopted
    BY DEF RelaxedIn
  <2>1. j \in DOMAIN events
    BY DEF SearchInv
  <2> QED BY <2>1 DEF SearchInv, Unsettled
<1> QED BY <1>1 DEF Adopted, AdoptedIn

\* A search whose record is the one the trace tells.
LEMMA SearchFits ==
  ASSUME NEW s \in Seq(Event), \A i \in DOMAIN s : Fits(s, i),
         NEW record, record = intended \ Adopted(s), record \subseteq Dimensions
  PROVE  LET t == Append(s, Searched(record))
         IN  /\ t \in Seq(Event) /\ \A i \in DOMAIN t : Fits(t, i)
             /\ Adopted(t) = Adopted(s)
<1> DEFINE e == Searched(record)
           t == Append(s, e)
           n == Len(s) + 1
<1>1. e \in Event /\ e.kind = "search" /\ e.ran = record
  BY DEF Searched, Event
<1> HIDE DEF e
<1>2. /\ t \in Seq(Event) /\ DOMAIN t = 1..n /\ t[n] = e
      /\ AdoptedIn(t, n) = AdoptedIn(s, n)
      /\ \A i \in DOMAIN s : Fits(t, i)
      /\ Adopted(t) = Adopted(s)
  <2>1. n \in 1..n
    OBVIOUS
  <2> QED BY <1>1, <2>1, AppendTells
<1>3. Fits(t, n)
  <2> HIDE DEF t, n
  <2>1. AdoptedIn(t, n) = Adopted(s)
    BY <1>2 DEF Adopted, n
  <2> QED BY <1>1, <1>2, <2>1 DEF Fits
<1>4. \A i \in DOMAIN t : i \in DOMAIN s \/ i = n
  BY <1>2
<1> HIDE DEF t, n
<1>5. \A i \in DOMAIN t : Fits(t, i)
  BY <1>2, <1>3, <1>4
<1> QED BY <1>2, <1>5 DEF t, e

\* A probe of an unsettled run gives up what none gave up before.
LEMMA RelaxedFits ==
  ASSUME SearchInv, phase = "probe", Dropped # {}, NEW hits
  PROVE  LET e == Relaxed(Dropped, hits)
             t == Append(events, e)
         IN  /\ Dropped \subseteq live /\ e.ran = live \ Dropped
             /\ e.kind = "relaxed" /\ e.adopted = (hits # {})
             /\ t \in Seq(Event) /\ \A i \in DOMAIN t : Fits(t, i)
             /\ Adopted(t) = IF hits # {} THEN Dropped ELSE {}
             /\ ~LastResort => \E d \in live \ tried : Dropped = {d}
<1> USE DEF SearchInv
<1> DEFINE e == Relaxed(Dropped, hits)
           t == Append(events, e)
           n == Len(events) + 1
<1>1. ~settled /\ live = intended /\ Adopted(events) = {} /\ live \subseteq Dimensions
  BY UnsettledAdoptsNothing DEF Unsettled
<1>2. ~LastResort => \E d \in live \ tried : Dropped = {d}
  BY <1>1, NextUntriedIn DEF Dropped, LastResort
<1>3. LastResort => Dropped = live /\ Cardinality(live) > 1
  BY DEF Dropped, LastResort
<1>4. Dropped \subseteq live
  BY <1>2, <1>3
<1>5. /\ e.kind = "relaxed" /\ e.ran = live \ Dropped /\ e.dropped = Dropped
      /\ e.adopted = (hits # {})
  BY DEF Relaxed
<1>6. e \in Event
  <2>1. live \ Dropped \subseteq Dimensions /\ Dropped \subseteq Dimensions
    BY <1>1, <1>4
  <2>2. (hits # {}) \in BOOLEAN
    OBVIOUS
  <2> QED BY <2>1, <2>2 DEF Relaxed, Event
<1> HIDE DEF e
<1>7. /\ t \in Seq(Event) /\ DOMAIN t = 1..n /\ t[n] = e
      /\ RelaxedIn(t, n) = RelaxedIn(events, n) /\ AdoptedIn(t, n) = AdoptedIn(events, n)
      /\ \A i \in DOMAIN events : t[i] = events[i] /\ Fits(t, i)
      /\ Adopted(t) = IF e.adopted THEN Adopted(events) \cup e.dropped ELSE Adopted(events)
  <2>1. n \in 1..n
    OBVIOUS
  <2> QED BY <1>5, <1>6, <2>1, AppendTells
<1>8. \A f \in RelaxedIn(events, n) :
        \E d \in tried : d \in intended /\ f.ran = intended \ {d}
  <2> SUFFICES ASSUME NEW j \in 1..(n - 1)
               PROVE  \E d \in tried : d \in intended /\ events[j].ran = intended \ {d}
    BY DEF RelaxedIn
  <2>1. j \in DOMAIN events
    OBVIOUS
  <2> QED BY <1>1, <2>1 DEF Unsettled
<1>9. \A f \in RelaxedIn(events, n) : f.ran # e.ran
  <2> SUFFICES ASSUME NEW f \in RelaxedIn(events, n), f.ran = e.ran PROVE FALSE
    OBVIOUS
  <2>1. PICK d \in tried : d \in intended /\ f.ran = intended \ {d}
    BY <1>8
  <2>2. CASE ~LastResort
    BY <1>1, <1>2, <1>5, <2>1, <2>2
  <2>3. CASE LastResort
    <3>1. live = {d}
      BY <1>1, <1>3, <1>5, <2>1, <2>3
    <3>2. Cardinality({d}) = 1
      BY FS_Singleton
    <3>3. Cardinality(live) > 1
      BY <1>3, <2>3
    <3>4. Cardinality(live) = 1
      BY <3>1, <3>2
    <3>5. ~(1 > 1)
      OBVIOUS
    <3> QED BY <3>3, <3>4, <3>5
  <2> QED BY <2>2, <2>3
<1>10. \A j \in 1..(n - 1) : t[j].kind = "relaxed"
  <2> TAKE j \in 1..(n - 1)
  <2>1. j \in DOMAIN events
    OBVIOUS
  <2> QED BY <1>1, <1>7, <2>1 DEF Unsettled
<1>11. Fits(t, n)
  <2>1. intended \ AdoptedIn(t, n) = live
    BY <1>1, <1>7 DEF Adopted
  <2> HIDE DEF t, n
  <2> QED BY <1>4, <1>5, <1>7, <1>9, <1>10, <2>1 DEF Fits
<1>12. \A i \in DOMAIN t : i \in DOMAIN events \/ i = n
  BY <1>7
<1>13. \A i \in DOMAIN t : Fits(t, i)
  <2> HIDE DEF t, n
  <2> QED BY <1>7, <1>11, <1>12
<1>14. Adopted(t) = IF hits # {} THEN Dropped ELSE {}
  <2> HIDE DEF t, n
  <2> QED BY <1>1, <1>5, <1>7
<1> HIDE DEF t, n
<1> QED BY <1>2, <1>4, <1>5, <1>7, <1>13, <1>14 DEF t, e

LEMMA SearchInvInit == RetrievalInit => SearchInv
<1> SUFFICES ASSUME RetrievalInit PROVE SearchInv
  OBVIOUS
<1>1. events = <<>> /\ intended \in SUBSET Dimensions /\ live = intended /\ phase = "search"
      /\ settled = FALSE
  BY DEF RetrievalInit
<1>2. Adopted(events) = {}
  BY <1>1 DEF Adopted, AdoptedIn, RelaxedIn
<1>3. events \in Seq(Event) /\ DOMAIN events = {}
  BY <1>1
<1>4. settled \in BOOLEAN /\ live \subseteq intended
  BY <1>1
<1>5. \A i \in DOMAIN events : Fits(events, i)
  BY <1>3
<1>6. Unsettled
  BY <1>1, <1>3 DEF Unsettled
<1> QED BY <1>1, <1>2, <1>3, <1>4, <1>5, <1>6 DEF SearchInv

LEMMA SearchInvNext == SearchInv /\ [RetrievalNext]_retrievalVars => SearchInv'
<1> SUFFICES ASSUME SearchInv, [RetrievalNext]_retrievalVars PROVE SearchInv'
  OBVIOUS
<1> USE DEF SearchInv
\* It is enough to look at the trace and the record after a step.
<1>0. ASSUME intended' = intended, NEW t \in Seq(Event), events' = t,
             \A i \in DOMAIN t : Fits(t, i),
             live' = intended \ Adopted(t), settled' \in BOOLEAN,
             ~settled' => Unsettled', phase' = "probe" => ~settled'
      PROVE  SearchInv'
  <2>1. Adopted(events)' = Adopted(t)
    BY <1>0 DEF Adopted, AdoptedIn, RelaxedIn
  <2>2. \A i \in DOMAIN events' : Fits(events, i)'
    <3>1. \A i : Fits(events, i)' <=> Fits(t, i)
      BY <1>0 DEF Fits, AdoptedIn, RelaxedIn
    <3> QED BY <1>0, <3>1
  <2>3. Event' = Event
    BY DEF Event
  <2> QED BY <1>0, <2>1, <2>2, <2>3
<1>1. CASE UNCHANGED searchVars /\ phase' # "probe" /\ phase # "search" /\ phase # "probe"
  <2>1. settled
    BY <1>1 DEF Unsettled
  <2> QED BY <1>0, <1>1, <2>1 DEF searchVars
<1>2. CASE UNCHANGED retrievalVars
  <2>1. UNCHANGED <<intended, live, events, settled, tried, phase>>
    BY <1>2 DEF retrievalVars, searchVars
  <2>2. ~settled' => Unsettled'
    BY <2>1 DEF Unsettled
  <2> QED BY <1>0, <2>1, <2>2
<1>3. CASE SearchTrack
  <2>1. phase = "search" /\ intended' = intended /\ tried' = tried
    BY <1>3 DEF SearchTrack, SearchFrame
  <2>2. PICK hits \in HitSets :
       \/ /\ hits # {} \/ settled
          /\ Conclude(hits, live)
          /\ events' = Append(events, Searched(live))
       \/ /\ hits = {} /\ ~settled
          /\ phase' = "probe"
          /\ UNCHANGED <<live, settled, searched, found, callerHits, events>>
    BY <1>3 DEF SearchTrack
  <2>3. CASE hits = {} /\ ~settled /\ phase' = "probe" /\ UNCHANGED <<live, settled, events>>
    <3>1. Unsettled'
      BY <2>1, <2>3 DEF Unsettled
    <3> QED BY <1>0, <2>1, <2>3, <3>1
  <2>4. CASE Conclude(hits, live) /\ events' = Append(events, Searched(live))
    <3> DEFINE t == Append(events, Searched(live))
    <3>1. live' = live /\ settled' = TRUE /\ phase' # "probe"
      BY <2>4 DEF Conclude
    <3>2. t \in Seq(Event) /\ (\A i \in DOMAIN t : Fits(t, i)) /\ Adopted(t) = Adopted(events)
      BY SearchFits
    <3> HIDE DEF t
    <3> QED BY <1>0, <2>1, <2>4, <3>1, <3>2 DEF t
  <2> QED BY <2>2, <2>3, <2>4
<1>4. CASE Probe
  <2>1. phase = "probe" /\ Dropped # {} /\ tried' = tried \cup Dropped /\ intended' = intended
    BY <1>4 DEF Probe, SearchFrame
  <2>2. PICK hits \in HitSets :
       \/ /\ hits # {}
          /\ Conclude(hits, live \ Dropped)
          /\ events' = events \o <<Relaxed(Dropped, hits), Searched(live \ Dropped)>>
       \/ /\ hits = {} /\ LastResort
          /\ Conclude({}, live)
          /\ events' = events \o <<Relaxed(Dropped, {}), Searched(live)>>
       \/ /\ hits = {} /\ ~LastResort
          /\ events' = Append(events, Relaxed(Dropped, {}))
          /\ UNCHANGED <<phase, live, settled, searched, found, callerHits>>
    BY <1>4 DEF Probe
  <2> DEFINE e == Relaxed(Dropped, hits)
             t == Append(events, e)
  <2>3. /\ Dropped \subseteq live /\ e.ran = live \ Dropped
        /\ e.kind = "relaxed" /\ e.adopted = (hits # {})
        /\ t \in Seq(Event) /\ \A i \in DOMAIN t : Fits(t, i)
        /\ Adopted(t) = IF hits # {} THEN Dropped ELSE {}
        /\ ~LastResort => \E d \in live \ tried : Dropped = {d}
    BY <2>1, RelaxedFits
  <2>4. ~settled /\ live = intended /\ Unsettled /\ live \subseteq Dimensions
    BY <2>1 DEF Unsettled
  \* A concluding probe: what it ran with next is what the trace tells.
  <2>5. ASSUME NEW record, record = intended \ Adopted(t), live' = record, settled' = TRUE,
               phase' # "probe", events' = Append(t, Searched(record))
        PROVE  SearchInv'
    <3> DEFINE u == Append(t, Searched(record))
    <3> HIDE DEF t
    <3>1. record \subseteq Dimensions
      BY <2>5
    <3>2. u \in Seq(Event) /\ (\A i \in DOMAIN u : Fits(u, i)) /\ Adopted(u) = Adopted(t)
      BY <2>3, <2>5, <3>1, SearchFits
    <3> HIDE DEF u
    <3> QED BY <1>0, <2>1, <2>5, <3>2 DEF u
  <2>6. \A a : events \o <<e, a>> = Append(t, a)
    OBVIOUS
  <2>7. CASE hits # {} /\ Conclude(hits, live \ Dropped)
             /\ events' = events \o <<Relaxed(Dropped, hits), Searched(live \ Dropped)>>
    <3>1. live' = live \ Dropped /\ settled' = TRUE /\ phase' # "probe"
      BY <2>7 DEF Conclude
    <3>2. events' = Append(t, Searched(live \ Dropped))
      BY <2>6, <2>7
    <3>3. live \ Dropped = intended \ Adopted(t)
      <4> HIDE DEF t
      <4> QED BY <2>3, <2>4, <2>7
    <3> HIDE DEF t
    <3> QED BY <2>5, <3>1, <3>2, <3>3
  <2>8. CASE hits = {} /\ LastResort /\ Conclude({}, live)
             /\ events' = events \o <<Relaxed(Dropped, {}), Searched(live)>>
    <3>1. live' = live /\ settled' = TRUE /\ phase' # "probe"
      BY <2>8 DEF Conclude
    <3>2. events' = Append(t, Searched(live))
      BY <2>6, <2>8
    <3>3. live = intended \ Adopted(t)
      <4> HIDE DEF t
      <4> QED BY <2>3, <2>4, <2>8
    <3> HIDE DEF t
    <3> QED BY <2>5, <3>1, <3>2, <3>3
  <2>9. CASE hits = {} /\ ~LastResort /\ events' = Append(events, Relaxed(Dropped, {}))
             /\ UNCHANGED <<phase, live, settled>>
    <3>1. events' = t
      BY <2>9
    <3>2. PICK d \in live \ tried : Dropped = {d}
      BY <2>3, <2>9
    <3>3. /\ DOMAIN t = 1..(Len(events) + 1) /\ t[Len(events) + 1] = e
          /\ DOMAIN events = 1..Len(events) /\ \A i \in DOMAIN events : t[i] = events[i]
      OBVIOUS
    <3> HIDE DEF t
    <3>4. e.kind = "relaxed" /\ ~e.adopted /\ e.ran = intended \ {d}
      <4>1. e.adopted = FALSE
        BY <2>3, <2>9
      <4> HIDE DEF e
      <4> QED BY <2>3, <2>4, <3>2, <4>1
    <3> HIDE DEF e
    <3>5. ASSUME NEW i \in DOMAIN t
          PROVE  /\ t[i].kind = "relaxed" /\ ~t[i].adopted
                 /\ \E x \in tried' : x \in intended /\ t[i].ran = intended \ {x}
      <4>1. CASE i = Len(events) + 1
        <5>1. d \in tried' /\ d \in intended
          BY <2>1, <2>4, <3>2
        <5> QED BY <3>3, <3>4, <4>1, <5>1
      <4>2. CASE i \in DOMAIN events
        <5>1. /\ events[i].kind = "relaxed" /\ ~events[i].adopted
              /\ \E x \in tried : x \in intended /\ events[i].ran = intended \ {x}
          BY <2>4, <4>2 DEF Unsettled
        <5> QED BY <2>1, <3>3, <4>2, <5>1
      <4> QED BY <3>3, <4>1, <4>2
    <3>6. Unsettled'
      BY <2>1, <2>4, <2>9, <3>1, <3>5 DEF Unsettled
    <3>7. live' = intended \ Adopted(t)
      BY <2>3, <2>4, <2>9
    <3> QED BY <1>0, <2>1, <2>3, <2>4, <2>9, <3>1, <3>6, <3>7
  <2> QED BY <2>2, <2>7, <2>8, <2>9
<1>5. CASE GiveUpProbing
  <2> DEFINE t == Append(events, Searched(live))
  <2>1. live' = live /\ settled' = TRUE /\ phase' # "probe" /\ intended' = intended /\ events' = t
    BY <1>5 DEF GiveUpProbing, Conclude, SearchFrame
  <2>2. t \in Seq(Event) /\ (\A i \in DOMAIN t : Fits(t, i)) /\ Adopted(t) = Adopted(events)
    BY SearchFits
  <2> HIDE DEF t
  <2> QED BY <1>0, <2>1, <2>2
<1>6. CASE Fuse \/ ExpandNamed \/ CompleteSurah \/ EndScopes
  BY <1>1, <1>6 DEF Fuse, ExpandNamed, CompleteSurah, EndScopes, ContextTo
<1>7. CASE LookUpLabel \/ ReadNeighbours \/ ReadChains \/ Prioritise
  BY <1>1, <1>7 DEF LookUpLabel, ReadNeighbours, ReadChains, Prioritise, ContextTo
<1> QED BY <1>2, <1>3, <1>4, <1>5, <1>6, <1>7 DEF RetrievalNext

\* Whatever the searches of a run find, a reader of its trace reconstructs the record each
\* of them ran with, and no probe repeats one (chat-filter-relaxation.ts).
THEOREM SearchesReconstructible == RetrievalSpec => []SearchesAreReconstructible
<1>1. SearchInv => SearchesAreReconstructible
  BY ReconstructibleIs DEF SearchInv
<1> QED BY <1>1, SearchInvInit, SearchInvNext, PTL DEF RetrievalSpec

-----------------------------------------------------------------------------
(* Rows in an order. *)

\* What a query with an ORDER BY returns: all of a set, each entry once.
Lists(s, S) == s \in Seq(S) /\ ToSet(s) = S /\ IsInjective(s) /\ Len(s) = Cardinality(S)

\* Each entry has its place among the others, for the order is total.
LEMMA OrderedByLists ==
  ASSUME NEW S, IsFiniteSet(S), NEW before,
         \A x \in S : <<x, x>> \notin before,
         \A x, y \in S : x # y => <<x, y>> \in before \/ <<y, x>> \in before,
         \A x, y, z \in S : <<x, y>> \in before /\ <<y, z>> \in before => <<x, z>> \in before
  PROVE  Lists(OrderedBy(S, before), S)
<1> DEFINE n == Cardinality(S)
           below(x) == {y \in S : <<y, x>> \in before}
           rank == [x \in S |-> Cardinality(below(x)) + 1]
           pick(k) == CHOOSE x \in S : Cardinality(below(x)) = k - 1
           f == [k \in 1..n |-> pick(k)]
<1>1. n \in Nat /\ IsFiniteSet(1..n) /\ Cardinality(1..n) = n
  <2>1. n \in Nat
    BY FS_CardinalityType
  <2> HIDE DEF n
  <2> QED BY <2>1, FS_Interval
<1>2. \A x \in S : IsFiniteSet(below(x)) /\ Cardinality(below(x)) \in Nat
  BY FS_Subset, FS_CardinalityType
<1>3. ASSUME NEW x \in S, NEW S2 \in SUBSET S, IsFiniteSet(S2), below(x) \cup {x} \subseteq S2
      PROVE  Cardinality(below(x)) + 1 <= Cardinality(S2)
  <2>1. x \notin below(x)
    OBVIOUS
  <2>2. /\ IsFiniteSet(below(x) \cup {x})
        /\ Cardinality(below(x) \cup {x}) = Cardinality(below(x)) + 1
    <3> HIDE DEF below
    <3> QED BY <1>2, <2>1, FS_AddElement
  <2>3. Cardinality(below(x) \cup {x}) <= Cardinality(S2)
    BY <1>3, FS_Subset
  <2> QED BY <2>2, <2>3
<1>4. \A x \in S : rank[x] \in 1..n
  <2> SUFFICES ASSUME NEW x \in S PROVE rank[x] \in 1..n
    OBVIOUS
  <2>1. Cardinality(below(x)) + 1 <= n
    BY <1>3
  <2>2. rank[x] = Cardinality(below(x)) + 1 /\ Cardinality(below(x)) \in Nat
    BY <1>2
  <2> HIDE DEF rank, below, n
  <2> QED BY <1>1, <2>1, <2>2
<1>5. ASSUME NEW x \in S, NEW y \in S, <<x, y>> \in before
      PROVE  Cardinality(below(x)) # Cardinality(below(y))
  <2>1. below(x) \cup {x} \subseteq below(y)
    BY <1>5
  <2>2. Cardinality(below(x)) + 1 <= Cardinality(below(y))
    BY <1>2, <1>3, <2>1
  <2> HIDE DEF below
  <2> QED BY <1>2, <2>2
<1>6. \A x, y \in S : Cardinality(below(x)) = Cardinality(below(y)) => x = y
  <2> SUFFICES ASSUME NEW x \in S, NEW y \in S, x # y
               PROVE  Cardinality(below(x)) # Cardinality(below(y))
    OBVIOUS
  <2>1. CASE <<x, y>> \in before
    BY <2>1, <1>5
  <2>2. CASE <<y, x>> \in before
    BY <2>2, <1>5
  <2> QED BY <2>1, <2>2
<1>7. rank \in Injection(S, 1..n)
  <2>1. \A x, y \in S : rank[x] = rank[y] => x = y
    <3> SUFFICES ASSUME NEW x \in S, NEW y \in S, rank[x] = rank[y] PROVE x = y
      OBVIOUS
    <3>1. Cardinality(below(x)) = Cardinality(below(y))
      <4>1. Cardinality(below(x)) + 1 = Cardinality(below(y)) + 1
        OBVIOUS
      <4>2. Cardinality(below(x)) \in Nat /\ Cardinality(below(y)) \in Nat
        BY <1>2
      <4> HIDE DEF rank, below
      <4> QED BY <4>1, <4>2
    <3> QED BY <1>6, <3>1
  <2>2. rank \in [S -> 1..n]
    BY <1>4
  <2> HIDE DEF rank
  <2> QED BY <2>1, <2>2 DEF Injection, IsInjective
<1>8. rank \in Surjection(S, 1..n)
  BY <1>1, <1>7, FS_Injection
<1>9. \A k \in 1..n : pick(k) \in S /\ Cardinality(below(pick(k))) = k - 1
  <2> SUFFICES ASSUME NEW k \in 1..n
               PROVE  \E x \in S : Cardinality(below(x)) = k - 1
    BY Zenon
  <2>1. PICK x \in S : rank[x] = k
    <3> HIDE DEF rank
    <3> QED BY <1>8 DEF Surjection
  <2>2. Cardinality(below(x)) + 1 = k
    BY <2>1
  <2> HIDE DEF below
  <2> QED BY <1>1, <1>2, <2>2
<1>10. \A x \in S : \E k \in 1..n : pick(k) = x
  <2> SUFFICES ASSUME NEW x \in S PROVE pick(rank[x]) = x
    BY <1>4
  <2>1. rank[x] \in 1..n /\ rank[x] - 1 = Cardinality(below(x))
    <3>1. rank[x] = Cardinality(below(x)) + 1
      OBVIOUS
    <3> HIDE DEF rank, below
    <3> QED BY <1>2, <1>4, <3>1
  <2> DEFINE y == pick(rank[x])
  <2> HIDE DEF rank
  <2>2. y \in S /\ Cardinality(below(y)) = Cardinality(below(x))
    BY <1>9, <2>1
  <2> HIDE DEF y, below, pick
  <2>3. y = x
    BY <1>6, <2>2
  <2> QED BY <2>3 DEF y
<1>11. \A k, m \in 1..n : pick(k) = pick(m) => k = m
  <2> SUFFICES ASSUME NEW k \in 1..n, NEW m \in 1..n, pick(k) = pick(m) PROVE k = m
    OBVIOUS
  <2>1. k - 1 = m - 1
    BY <1>9
  <2> HIDE DEF n
  <2> QED BY <1>1, <2>1
<1>12. f = OrderedBy(S, before)
  BY DEF OrderedBy
<1>13. \A k \in 1..n : pick(k) \in S
  <2> HIDE DEF below
  <2> QED BY <1>9, Zenon
<1> HIDE DEF pick, n
<1>14. f \in Seq(S) /\ Len(f) = n
  <2>1. f \in [1..n -> S]
    BY <1>13
  <2> HIDE DEF f
  <2> QED BY <1>1, <2>1
<1>15. ToSet(f) = S
  <2>1. DOMAIN f = 1..n /\ \A k \in 1..n : f[k] = pick(k)
    OBVIOUS
  <2> HIDE DEF f
  <2>2. \A k \in DOMAIN f : f[k] \in S
    BY <1>13, <2>1
  <2>3. \A x \in S : \E k \in DOMAIN f : f[k] = x
    BY <1>10, <2>1
  <2> QED BY <2>2, <2>3 DEF ToSet
<1>16. IsInjective(f)
  BY <1>11 DEF IsInjective
<1> QED BY <1>12, <1>14, <1>15, <1>16 DEF Lists, n

\* The entries of a sequence are finite in number, and as many as its places when distinct.
LEMMA EntriesCounted ==
  ASSUME NEW X, NEW s \in Seq(X)
  PROVE  /\ IsFiniteSet(ToSet(s)) /\ ToSet(s) \subseteq X /\ Cardinality(ToSet(s)) \in Nat
         /\ IsInjective(s) => Cardinality(ToSet(s)) = Len(s)
<1>1. Len(s) \in Nat /\ DOMAIN s = 1..Len(s) /\ \A i \in 1..Len(s) : s[i] \in X
  OBVIOUS
<1>2. IsFiniteSet(1..Len(s)) /\ Cardinality(1..Len(s)) = Len(s)
  <2> DEFINE n == Len(s)
  <2>1. n \in Nat
    BY <1>1
  <2> HIDE DEF n
  <2>2. IsFiniteSet(1..n) /\ Cardinality(1..n) = n
    BY <2>1, FS_Interval
  <2> QED BY <2>2 DEF n
<1>3. s \in Surjection(1..Len(s), ToSet(s))
  <2>1. s \in [1..Len(s) -> ToSet(s)]
    BY <1>1 DEF ToSet
  <2>2. \A x \in ToSet(s) : \E i \in 1..Len(s) : s[i] = x
    BY <1>1 DEF ToSet
  <2> QED BY <2>1, <2>2 DEF Surjection
<1>4. /\ IsFiniteSet(ToSet(s))
      /\ Cardinality(ToSet(s)) = Cardinality(1..Len(s)) <=> s \in Injection(1..Len(s), ToSet(s))
  BY <1>2, <1>3, FS_Surjection
<1>5. IsInjective(s) => s \in Injection(1..Len(s), ToSet(s))
  BY <1>3 DEF Injection, Surjection
<1>6. ToSet(s) \subseteq X
  BY <1>1 DEF ToSet
<1> QED BY <1>2, <1>4, <1>5, <1>6, FS_CardinalityType

\* A selection of a sequence lists what it selects.
LEMMA AmongLists ==
  ASSUME NEW X, NEW s \in Seq(X), NEW S
  PROVE  Lists(Among(S, s), S \cap ToSet(s)) /\ IsFiniteSet(S \cap ToSet(s))
<1> DEFINE kept == S \cap ToSet(s)
           before == {p \in kept \X kept : FirstAt(s, p[1]) < FirstAt(s, p[2])}
<1>1. IsFiniteSet(kept)
  BY EntriesCounted, FS_Intersection
<1>2. \A x \in kept : FirstAt(s, x) \in Nat /\ s[FirstAt(s, x)] = x
  <2> SUFFICES ASSUME NEW x \in kept PROVE FirstAt(s, x) \in Nat /\ s[FirstAt(s, x)] = x
    OBVIOUS
  <2> DEFINE at == {i \in DOMAIN s : s[i] = x}
  <2>1. at \in SUBSET Nat /\ at # {}
    BY DEF ToSet
  <2>2. Min(at) \in at
    BY <2>1, MinOfNats
  <2> QED BY <2>1, <2>2 DEF FirstAt
<1>3. \A x, y \in kept : <<x, y>> \in before <=> FirstAt(s, x) < FirstAt(s, y)
  OBVIOUS
<1> HIDE DEF kept, before
<1>4. \A x \in kept : <<x, x>> \notin before
  BY <1>2, <1>3
<1>5. \A x, y \in kept : x # y => <<x, y>> \in before \/ <<y, x>> \in before
  BY <1>2, <1>3
<1>6. \A x, y, z \in kept : <<x, y>> \in before /\ <<y, z>> \in before => <<x, z>> \in before
  BY <1>2, <1>3
<1>7. Lists(OrderedBy(kept, before), kept)
  BY <1>1, <1>4, <1>5, <1>6, OrderedByLists
<1> QED BY <1>1, <1>7 DEF Among, kept, before

\* The first entries of a sequence, at most so many.
LEMMA LeadingIs ==
  ASSUME NEW X, NEW s \in Seq(X), NEW n \in Nat
  PROVE  /\ Leading(n, s) \in Seq(X) /\ ToSet(Leading(n, s)) \subseteq ToSet(s)
         /\ Len(Leading(n, s)) = IF n < Len(s) THEN n ELSE Len(s)
         /\ IsInjective(s) => IsInjective(Leading(n, s))
         /\ Len(s) <= n => Leading(n, s) = s
<1> DEFINE m == IF n < Len(s) THEN n ELSE Len(s)
           t == SubSeq(s, 1, m)
<1>1. m \in Nat /\ m <= Len(s) /\ Len(s) \in Nat /\ DOMAIN s = 1..Len(s)
  OBVIOUS
<1>2. t = Leading(n, s)
  BY DEF Leading
<1>3. \A i \in 1..m : s[i] \in X
  BY <1>1
<1> HIDE DEF m
<1>4. t \in Seq(X) /\ Len(t) = m /\ \A i \in 1..m : t[i] = s[i]
  <2>1. t \in Seq(X) /\ Len(t) = (IF 1 <= m THEN m - 1 + 1 ELSE 0)
        /\ \A i \in 1..(m - 1 + 1) : t[i] = s[1 + i - 1]
    BY <1>1, <1>3, SubSeqProperties
  <2> HIDE DEF t
  <2> QED BY <1>1, <2>1
<1> HIDE DEF t
<1>5. DOMAIN t = 1..m
  BY <1>4
<1>6. ToSet(t) \subseteq ToSet(s)
  BY <1>1, <1>4, <1>5 DEF ToSet
<1>7. IsInjective(s) => IsInjective(t)
  BY <1>1, <1>4, <1>5 DEF IsInjective
<1>8. Len(s) <= n => t = s
  <2> SUFFICES ASSUME Len(s) <= n PROVE t = s
    OBVIOUS
  <2>1. Len(s) \in Nat
    OBVIOUS
  <2>2. m = Len(s)
    BY <2>1 DEF m
  <2> QED BY <2>2, SubSeqFull DEF t
<1> QED BY <1>2, <1>4, <1>6, <1>7, <1>8 DEF m

\* The corpus is finite, and its rows are pairs of a parent and an ordinal.
LEMMA StoredFinite == IsFiniteSet(Stored)
BY RetrievalAssumption

LEMMA StoredRows ==
  /\ IsFiniteSet(Stored)
  /\ \A r \in Stored : r[2] \in Nat /\ r = <<r[1], r[2]>>
<1>1. \A r \in {q[1] : q \in Stored} \X Nat : r[2] \in Nat /\ r = <<r[1], r[2]>>
  OBVIOUS
<1> QED BY <1>1, RetrievalAssumption

\* The rows of one parent in a window, in the order of their ordinals.
LEMMA ChildrenLists ==
  ASSUME NEW parent, NEW first \in Int, NEW last \in Int
  PROVE  Lists(Children(parent, first, last),
               {r \in Stored : r[1] = parent /\ r[2] \in first..last})
<1> DEFINE rows == {r \in Stored : r[1] = parent /\ r[2] \in first..last}
           before == {p \in rows \X rows : p[1][2] < p[2][2]}
<1>1. IsFiniteSet(rows)
  BY StoredRows, FS_Subset
<1>2. \A x, y \in rows : <<x, y>> \in before <=> x[2] < y[2]
  OBVIOUS
<1>3. \A x, y \in rows : x[2] \in Nat /\ (x[2] = y[2] => x = y)
  BY StoredRows
<1> HIDE DEF rows, before
<1>4. \A x \in rows : <<x, x>> \notin before
  BY <1>2, <1>3
<1>5. \A x, y \in rows : x # y => <<x, y>> \in before \/ <<y, x>> \in before
  BY <1>2, <1>3
<1>6. \A x, y, z \in rows : <<x, y>> \in before /\ <<y, z>> \in before => <<x, z>> \in before
  BY <1>2, <1>3
<1> QED BY <1>1, <1>4, <1>5, <1>6, OrderedByLists DEF Children, rows, before

\* The rows near some anchor, but for the anchor itself.
NearSome(anchors) ==
  {r \in Stored : \E i \in DOMAIN anchors : Near(r, anchors[i]) /\ r # anchors[i]}

LEMMA AroundLists ==
  ASSUME NEW anchors \in Seq(Stored)
  PROVE  Lists(Around(anchors), NearSome(anchors)) /\ IsFiniteSet(NearSome(anchors))
<1> DEFINE window(i) == {r \in Stored : Near(r, anchors[i]) /\ r # anchors[i]}
           rows == UNION {window(i) : i \in DOMAIN anchors}
           places(r) == {i \in DOMAIN anchors : r \in window(i)}
           anchorPos(r) == Min({i \in DOMAIN anchors : r \in window(i)})
           before == {p \in rows \X rows :
                         \/ anchorPos(p[1]) < anchorPos(p[2])
                         \/ anchorPos(p[1]) = anchorPos(p[2]) /\ p[1][2] < p[2][2]}
<1>1. rows = NearSome(anchors) /\ rows \subseteq Stored
  BY DEF NearSome
<1>2. IsFiniteSet(rows)
  <2> HIDE DEF rows
  <2>1. rows \in SUBSET Stored
    BY <1>1
  <2>2. IsFiniteSet(Stored)
    BY StoredFinite
  <2> QED BY <2>1, <2>2, FS_Subset
<1>3. \A r \in rows : anchorPos(r) \in Nat /\ r[1] = anchors[anchorPos(r)][1]
  <2> SUFFICES ASSUME NEW r \in rows PROVE anchorPos(r) \in Nat /\ r[1] = anchors[anchorPos(r)][1]
    OBVIOUS
  <2>1. places(r) \in SUBSET Nat /\ places(r) # {}
    OBVIOUS
  <2>2. anchorPos(r) \in places(r)
    <3>1. Min(places(r)) \in places(r)
      <4> HIDE DEF places
      <4> QED BY <2>1, MinOfNats
    <3> QED BY <3>1
  <2>3. anchorPos(r) \in Nat /\ Near(r, anchors[anchorPos(r)])
    <3> HIDE DEF anchorPos
    <3> QED BY <2>1, <2>2
  <2> QED BY <2>3 DEF Near
<1>4. \A x, y \in rows : <<x, y>> \in before <=>
         \/ anchorPos(x) < anchorPos(y)
         \/ anchorPos(x) = anchorPos(y) /\ x[2] < y[2]
  <2> HIDE DEF rows, anchorPos
  <2> QED OBVIOUS
<1>5. \A x, y \in rows : x[2] \in Nat /\ (anchorPos(x) = anchorPos(y) /\ x[2] = y[2] => x = y)
  <2> HIDE DEF rows, anchorPos
  <2> SUFFICES ASSUME NEW x \in rows, NEW y \in rows
               PROVE  x[2] \in Nat /\ (anchorPos(x) = anchorPos(y) /\ x[2] = y[2] => x = y)
    OBVIOUS
  <2>1. x[2] \in Nat /\ x = <<x[1], x[2]>> /\ y = <<y[1], y[2]>>
    BY <1>1, StoredRows
  <2>2. anchorPos(x) = anchorPos(y) => x[1] = y[1]
    BY <1>3
  <2> QED BY <2>1, <2>2
<1>6. Around(anchors) = OrderedBy(rows, before)
  BY DEF Around
<1> HIDE DEF rows, before, anchorPos
<1>7. \A x \in rows : <<x, x>> \notin before
  BY <1>3, <1>4, <1>5
<1>8. \A x, y \in rows : x # y => <<x, y>> \in before \/ <<y, x>> \in before
  BY <1>3, <1>4, <1>5
<1>9. \A x, y, z \in rows : <<x, y>> \in before /\ <<y, z>> \in before => <<x, z>> \in before
  BY <1>3, <1>4, <1>5
<1> QED BY <1>1, <1>2, <1>6, <1>7, <1>8, <1>9, OrderedByLists

-----------------------------------------------------------------------------
(* The context. *)

Origins == {"fused", "scope", "label", "neighbour", "caller"}
ContextRow == [row : Stored, origin : Origins]
\* A row is in the context once; its rows by the read that brought them.
Shaped(c) ==
  /\ c \in Seq(ContextRow)
  /\ \A i, j \in DOMAIN c : c[i].row = c[j].row => i = j
RowsIn(c, origin) == {c[i].row : i \in {j \in DOMAIN c : c[j].origin = origin}}

ContextShape == Shaped(context)
RowsBy(origin) == RowsIn(context, origin)

LEMMA ShapeCounted ==
  ASSUME NEW c, Shaped(c), NEW o
  PROVE  /\ IsFiniteSet(RowsIn(c, o))
         /\ Cardinality({i \in DOMAIN c : c[i].origin = o}) = Cardinality(RowsIn(c, o))
         /\ Cardinality(RowsIn(c, o)) \in Nat
<1> DEFINE P == {i \in DOMAIN c : c[i].origin = o}
           f == [i \in P |-> c[i].row]
<1>1. IsFiniteSet(P)
  <2>1. DOMAIN c = 1..Len(c) /\ Len(c) \in Nat
    BY DEF Shaped
  <2>2. IsFiniteSet(1..Len(c))
    <3>1. Len(c) \in Nat
      BY <2>1
    <3> QED BY <3>1, FS_Interval
  <2> QED BY <2>1, <2>2, FS_Subset
<1>2. f \in [P -> RowsIn(c, o)] /\ \A r \in RowsIn(c, o) : \E i \in P : f[i] = r
  BY DEF RowsIn
<1>3. f \in Surjection(P, RowsIn(c, o)) /\ f \in Injection(P, RowsIn(c, o))
  <2>1. \A i, j \in P : f[i] = f[j] => i = j
    BY DEF Shaped
  <2>2. DOMAIN f = P
    OBVIOUS
  <2> HIDE DEF f
  <2> QED BY <1>2, <2>1, <2>2 DEF Surjection, Injection, IsInjective
<1> HIDE DEF f, P
<1>4. IsFiniteSet(RowsIn(c, o)) /\ Cardinality(RowsIn(c, o)) = Cardinality(P)
  BY <1>1, <1>3, FS_Surjection
<1> QED BY <1>1, <1>4, FS_CardinalityType DEF P

LEMMA ContextCounted ==
  /\ ContextShape => \A o : /\ IsFiniteSet(RowsBy(o)) /\ AddedBy(o) = Cardinality(RowsBy(o))
                            /\ AddedBy(o) \in Nat
  /\ ContextShape' => \A o : /\ IsFiniteSet(RowsBy(o)') /\ AddedBy(o)' = Cardinality(RowsBy(o)')
                             /\ AddedBy(o)' \in Nat
BY ShapeCounted DEF ContextShape, RowsBy, AddedBy

LEMMA ContextRows ==
  ASSUME ContextShape
  PROVE  /\ IsFiniteSet(InContext) /\ Cardinality(InContext) = Len(context)
         /\ Len(context) \in Nat /\ DOMAIN context = 1..Len(context)
         /\ InContext = UNION {RowsBy(o) : o \in Origins} /\ InContext \subseteq Stored
         /\ \A o, p \in Origins : o # p => RowsBy(o) \cap RowsBy(p) = {}
         /\ Lists(RowsOfContext, InContext) /\ RowsOfContext \in Seq(Stored)
<1>1. Len(context) \in Nat /\ DOMAIN context = 1..Len(context)
  BY DEF ContextShape, Shaped
<1>2. \A i \in DOMAIN context : context[i].row \in Stored /\ context[i].origin \in Origins
  <2>1. \A i \in DOMAIN context : context[i] \in ContextRow
    BY DEF ContextShape, Shaped
  <2>2. \A c \in ContextRow : c.row \in Stored /\ c.origin \in Origins
    BY DEF ContextRow
  <2> QED BY <2>1, <2>2
<1>3. InContext \subseteq Stored /\ InContext = UNION {RowsBy(o) : o \in Origins}
  BY <1>2 DEF InContext, RowsBy, RowsIn
<1>4. \A o, p \in Origins : o # p => RowsBy(o) \cap RowsBy(p) = {}
  BY DEF RowsBy, RowsIn, ContextShape, Shaped
<1>5. /\ DOMAIN RowsOfContext = 1..Len(context)
      /\ \A i \in 1..Len(context) : RowsOfContext[i] = context[i].row
  BY <1>1 DEF RowsOfContext
<1>6. RowsOfContext \in Seq(Stored) /\ Len(RowsOfContext) = Len(context)
  <2>1. RowsOfContext \in [1..Len(context) -> Stored]
    BY <1>1, <1>2 DEF RowsOfContext
  <2> QED BY <1>1, <2>1
<1>7. ToSet(RowsOfContext) = InContext
  BY <1>1, <1>5 DEF ToSet, InContext
<1>8. IsInjective(RowsOfContext)
  BY <1>1, <1>5 DEF IsInjective, ContextShape, Shaped
<1>9. IsFiniteSet(InContext) /\ Cardinality(InContext) = Len(context)
  BY <1>6, <1>7, <1>8, EntriesCounted
<1>10. Lists(RowsOfContext, InContext)
  <2>1. RowsOfContext \in Seq(InContext)
    <3>1. \A i \in 1..Len(context) : RowsOfContext[i] \in InContext
      BY <1>1, <1>5 DEF InContext
    <3>2. RowsOfContext \in [1..Len(context) -> InContext]
      BY <1>1, <3>1, <1>5 DEF RowsOfContext
    <3> QED BY <1>1, <3>2
  <2> QED BY <1>6, <1>7, <1>8, <1>9, <2>1 DEF Lists
<1> QED BY <1>1, <1>3, <1>4, <1>6, <1>9, <1>10

\* Two sets without a row in common count together.
LEMMA CountsAdd ==
  ASSUME NEW S, NEW T, IsFiniteSet(S), IsFiniteSet(T), S \cap T = {}
  PROVE  /\ IsFiniteSet(S \cup T) /\ Cardinality(S \cup T) = Cardinality(S) + Cardinality(T)
         /\ Cardinality(S) \in Nat /\ Cardinality(T) \in Nat
<1>1. Cardinality(S) \in Nat /\ Cardinality(T) \in Nat /\ Cardinality({}) = 0
  BY FS_CardinalityType, FS_EmptySet
<1>2. /\ IsFiniteSet(S \cup T)
      /\ Cardinality(S \cup T) = Cardinality(S) + Cardinality(T) - Cardinality({})
  BY FS_Union
<1> QED BY <1>1, <1>2

\* A read appends rows the context does not hold, under its own name.
LEMMA ContextGrows ==
  ASSUME ContextShape, NEW rows \in Seq(Stored), IsInjective(rows),
         ToSet(rows) \cap InContext = {}, NEW o \in Origins,
         context' = context \o Chunks(rows, o)
  PROVE  /\ ContextShape' /\ InContext' = InContext \cup ToSet(rows)
         /\ RowsBy(o)' = RowsBy(o) \cup ToSet(rows)
         /\ AddedBy(o)' = AddedBy(o) + Len(rows)
         /\ \A p \in Origins \ {o} : RowsBy(p)' = RowsBy(p) /\ AddedBy(p)' = AddedBy(p)
<1> DEFINE new == Chunks(rows, o)
           n == Len(context)
<1>1. /\ n \in Nat /\ DOMAIN context = 1..n /\ Len(rows) \in Nat /\ DOMAIN rows = 1..Len(rows)
      /\ \A i \in 1..n : context[i] \in ContextRow
      /\ \A i \in 1..Len(rows) : rows[i] \in Stored
  BY DEF ContextShape, Shaped
<1>2. /\ new \in Seq(ContextRow) /\ Len(new) = Len(rows)
      /\ \A i \in 1..Len(rows) : new[i] = [row |-> rows[i], origin |-> o]
  <2>1. DOMAIN new = 1..Len(rows) /\ \A i \in 1..Len(rows) : new[i] = [row |-> rows[i], origin |-> o]
    BY <1>1 DEF Chunks
  <2>2. \A i \in 1..Len(rows) : new[i] \in ContextRow
    BY <1>1, <2>1 DEF ContextRow
  <2>3. new \in [1..Len(rows) -> ContextRow]
    BY <1>1, <2>2 DEF Chunks
  <2> QED BY <1>1, <2>1, <2>3
<1> HIDE DEF new
<1>3. /\ context' \in Seq(ContextRow) /\ Len(context') = n + Len(rows)
      /\ DOMAIN context' = 1..(n + Len(rows))
      /\ \A i \in 1..(n + Len(rows)) :
           context'[i] = IF i <= n THEN context[i] ELSE new[i - n]
  <2>1. context \in Seq(ContextRow)
    BY DEF ContextShape, Shaped
  <2>2. context' = context \o new
    BY DEF new
  <2>3. /\ context' \in Seq(ContextRow) /\ Len(context') = n + Len(rows)
        /\ \A i \in 1..(n + Len(rows)) :
             context'[i] = IF i <= n THEN context[i] ELSE new[i - n]
    BY <1>2, <2>1, <2>2, ConcatProperties
  <2> QED BY <2>3
<1>4. \A i \in 1..n : context'[i] = context[i] /\ i \in DOMAIN context'
  BY <1>1, <1>3
<1>5. \A i \in 1..Len(rows) : /\ context'[n + i] = [row |-> rows[i], origin |-> o]
                             /\ n + i \in DOMAIN context'
  <2> SUFFICES ASSUME NEW i \in 1..Len(rows)
               PROVE  context'[n + i] = [row |-> rows[i], origin |-> o] /\ n + i \in DOMAIN context'
    OBVIOUS
  <2>1. n + i \in 1..(n + Len(rows)) /\ ~(n + i <= n) /\ (n + i) - n = i
    BY <1>1
  <2> QED BY <1>2, <1>3, <2>1
<1>51. \A i \in 1..Len(rows) : context'[n + i].row = rows[i] /\ context'[n + i].origin = o
  <2> SUFFICES ASSUME NEW i \in 1..Len(rows)
               PROVE  context'[n + i].row = rows[i] /\ context'[n + i].origin = o
    OBVIOUS
  <2>1. context'[n + i] = [row |-> rows[i], origin |-> o]
    BY <1>5
  <2> QED BY <2>1
<1> HIDE DEF n
<1>6. \A k \in DOMAIN context' : k \in 1..n \/ \E i \in 1..Len(rows) : k = n + i
  <2> SUFFICES ASSUME NEW k \in DOMAIN context', k \notin 1..n
               PROVE  \E i \in 1..Len(rows) : k = n + i
    OBVIOUS
  <2>1. k - n \in 1..Len(rows) /\ k = n + (k - n)
    BY <1>1, <1>3
  <2> QED BY <2>1
<1>7. ToSet(rows) = {rows[i] : i \in 1..Len(rows)} /\ InContext = {context[i].row : i \in 1..n}
  BY <1>1 DEF ToSet, InContext
<1>8. InContext' = InContext \cup ToSet(rows)
  <2>1. InContext' = {context'[k].row : k \in DOMAIN context'}
    BY DEF InContext
  <2>2. ASSUME NEW k \in DOMAIN context'
        PROVE  context'[k].row \in InContext \cup ToSet(rows)
    <3>1. CASE k \in 1..n
      BY <1>4, <1>7, <3>1
    <3>2. CASE \E i \in 1..Len(rows) : k = n + i
      BY <1>51, <1>7, <3>2
    <3> QED BY <1>6, <3>1, <3>2
  <2>3. \A r \in InContext : \E k \in DOMAIN context' : context'[k].row = r
    BY <1>4, <1>7
  <2>4. \A r \in ToSet(rows) : \E k \in DOMAIN context' : context'[k].row = r
    <3> SUFFICES ASSUME NEW i \in 1..Len(rows)
                 PROVE  \E k \in DOMAIN context' : context'[k].row = rows[i]
      BY <1>7
    <3>1. n + i \in DOMAIN context' /\ context'[n + i].row = rows[i]
      BY <1>5, <1>51
    <3> QED BY <3>1
  <2> QED BY <2>1, <2>2, <2>3, <2>4
<1>9. ContextShape'
  <2> SUFFICES ASSUME NEW k \in DOMAIN context', NEW m \in DOMAIN context',
                      context'[k].row = context'[m].row
               PROVE  k = m
    BY <1>3 DEF ContextShape, Shaped
  <2>1. CASE k \in 1..n /\ m \in 1..n
    BY <1>1, <1>4, <2>1 DEF ContextShape, Shaped
  <2>2. CASE (k \in 1..n) # (m \in 1..n)
    <3>1. \A i \in 1..n, j \in 1..Len(rows) : context[i].row # rows[j]
      BY <1>7
    <3>2. ASSUME NEW i \in 1..n, NEW j \in DOMAIN context', j \notin 1..n
          PROVE  context'[i].row # context'[j].row
      <4>1. PICK q \in 1..Len(rows) : j = n + q
        BY <1>6, <3>2
      <4>2. context'[j].row = rows[q]
        BY <1>51, <4>1
      <4>3. context'[i].row = context[i].row
        BY <1>4
      <4> QED BY <3>1, <4>2, <4>3
    <3> QED BY <2>2, <3>2
  <2>3. CASE k \notin 1..n /\ m \notin 1..n
    <3>1. PICK i \in 1..Len(rows) : k = n + i
      BY <1>6, <2>3
    <3>2. PICK j \in 1..Len(rows) : m = n + j
      BY <1>6, <2>3
    <3>3. rows[i] = rows[j]
      BY <1>51, <3>1, <3>2
    <3> QED BY <1>1, <3>1, <3>2, <3>3 DEF IsInjective
  <2> QED BY <2>1, <2>2, <2>3
<1>10. \A p : /\ RowsBy(p) = {context[i].row : i \in {j \in DOMAIN context : context[j].origin = p}}
              /\ RowsBy(p)' = {context'[i].row : i \in {j \in DOMAIN context' : context'[j].origin = p}}
  BY DEF RowsBy, RowsIn
<1>11. ASSUME NEW p PROVE RowsBy(p) \subseteq RowsBy(p)'
  BY <1>1, <1>4, <1>10
<1>12. ASSUME NEW p PROVE RowsBy(p)' \subseteq RowsBy(p) \cup (IF p = o THEN ToSet(rows) ELSE {})
  <2> SUFFICES ASSUME NEW k \in DOMAIN context', context'[k].origin = p
               PROVE  context'[k].row \in RowsBy(p) \cup (IF p = o THEN ToSet(rows) ELSE {})
    BY <1>10
  <2>1. CASE k \in 1..n
    BY <1>1, <1>4, <1>10, <2>1
  <2>2. CASE \E i \in 1..Len(rows) : k = n + i
    BY <1>51, <1>7, <2>2
  <2> QED BY <1>6, <2>1, <2>2
<1>13. ToSet(rows) \subseteq RowsBy(o)'
  BY <1>5, <1>51, <1>7, <1>10
<1>14. RowsBy(o)' = RowsBy(o) \cup ToSet(rows)
  BY <1>11, <1>12, <1>13
<1>15. \A p \in Origins \ {o} : RowsBy(p)' = RowsBy(p)
  <2> SUFFICES ASSUME NEW p \in Origins \ {o} PROVE RowsBy(p)' = RowsBy(p)
    OBVIOUS
  <2>1. RowsBy(p) \subseteq RowsBy(p)'
    BY <1>11
  <2>2. RowsBy(p)' \subseteq RowsBy(p) \cup (IF p = o THEN ToSet(rows) ELSE {})
    BY <1>12
  <2> QED BY <2>1, <2>2
<1>16. /\ \A p : IsFiniteSet(RowsBy(p)) /\ AddedBy(p) = Cardinality(RowsBy(p))
       /\ \A p : AddedBy(p)' = Cardinality(RowsBy(p)')
  BY <1>9, ContextCounted
<1>17. AddedBy(o)' = AddedBy(o) + Len(rows)
  <2>1. IsFiniteSet(ToSet(rows)) /\ Cardinality(ToSet(rows)) = Len(rows)
    BY EntriesCounted
  <2>2. RowsBy(o) \cap ToSet(rows) = {}
    BY <1>7, <1>10, <1>1
  <2>3. Cardinality(RowsBy(o) \cup ToSet(rows)) = Cardinality(RowsBy(o)) + Len(rows)
    BY <1>16, <2>1, <2>2, CountsAdd
  <2> QED BY <1>14, <1>16, <2>3
<1> QED BY <1>8, <1>9, <1>14, <1>15, <1>16, <1>17

-----------------------------------------------------------------------------
(* What holds of the context at each phase. *)

Searching == {"search", "probe", "fuse"}
AfterReads == {"chains", "caller", "done"}
ReadKinds == {"named", "completed", "skipped", "label", "neighbours"}

\* The reads come one after the other, and tell of themselves.
InTurn ==
  /\ phase \in Searching \cup {"scope", "complete", "labels"} \cup AfterReads
  /\ phase \in Searching => context = <<>>
  /\ phase \in Searching \cup {"scope"} => reads = {} /\ RowsBy("scope") = {}
  /\ phase \in {"scope", "complete"} => RowsBy("label") = {}
  /\ phase \in {"scope", "complete", "labels"} => RowsBy("neighbour") = {}
  /\ phase # "done" => RowsBy("caller") = {}
  /\ \A e \in reads : /\ e.kind \in ReadKinds
                      /\ e.kind = "label" => phase \notin {"scope", "complete"}
                      /\ e.kind = "neighbours" => phase \in AfterReads

\* What the question names and what is left to read are in the corpus.
ToReadHolds ==
  /\ asked \in [surah : {0} \cup DOMAIN AyahCount, from : 0..1, labels : Seq(DOMAIN LabelRows)]
  /\ phase = "complete" => pending \in Seq(DOMAIN AyahCount)
  /\ phase = "labels" => pending \in Seq(DOMAIN LabelRows)

HitsHold ==
  /\ callerHits \subseteq found /\ found \subseteq Stored
  /\ phase \notin Searching => found \subseteq InContext

WithinBudgets ==
  /\ AddedBy("scope") <= ScopeCap /\ AddedBy("label") <= LabelCap
  /\ AddedBy("neighbour") <= NeighbourCap

\* A completion that was cut has used up the budget, so that none comes after it.
CutsHold ==
  \A e \in reads :
    /\ CutIsTold(e)
    /\ e.kind = "completed" /\ e.truncated => AddedBy("scope") = ScopeCap

\* What only the last phases may tell.
EndHolds ==
  /\ phase \in {"caller", "done"} => EvidenceIsTold
  /\ phase = "done" =>
       \A i \in 1..CallerK : i <= Cardinality(callerHits) => context[i].row \in callerHits

ContextInv ==
  /\ ContextShape /\ InTurn /\ ToReadHolds /\ HitsHold /\ WithinBudgets /\ CutsHold /\ EndHolds

\* The rows that the statements about cuts speak of, by the read that brought them.
LEMMA RowsNamed ==
  /\ BeforeLabels = RowsBy("fused") \cup RowsBy("caller") \cup RowsBy("scope")
  /\ BeforeLabels' = RowsBy("fused")' \cup RowsBy("caller")' \cup RowsBy("scope")'
  /\ ContextShape => Anchors = {r \in InContext \ RowsBy("neighbour") : IsVerse(r)}
  /\ ContextShape' => Anchors' = {r \in InContext' \ RowsBy("neighbour")' : IsVerse(r)}
<1> DEFINE before(c) == {d.row : d \in {e \in ToSet(c) : e.origin \in {"fused", "caller", "scope"}}}
           anchors(c) == {d.row : d \in {e \in ToSet(c) : e.origin # "neighbour" /\ IsVerse(e.row)}}
<1>1. \A c : before(c) = RowsIn(c, "fused") \cup RowsIn(c, "caller") \cup RowsIn(c, "scope")
  BY DEF RowsIn, ToSet
<1>2. \A c : Shaped(c) =>
        anchors(c) = {r \in {c[i].row : i \in DOMAIN c} \ RowsIn(c, "neighbour") : IsVerse(r)}
  BY DEF RowsIn, ToSet, Shaped
<1>3. /\ BeforeLabels = before(context) /\ BeforeLabels' = before(context')
      /\ Anchors = anchors(context) /\ Anchors' = anchors(context')
  BY DEF BeforeLabels, Anchors
<1> HIDE DEF before, anchors
<1> QED BY <1>1, <1>2, <1>3 DEF RowsBy, InContext, ContextShape

\* What an event told stays true while the context grows by later reads.
LEMMA CutStays ==
  ASSUME NEW e, CutIsTold(e), e.kind \in ReadKinds, asked' = asked, InContext \subseteq InContext',
         e.kind = "completed" => /\ BeforeLabels \subseteq BeforeLabels'
                                 /\ e.truncated => BeforeLabels' = BeforeLabels,
         e.kind = "skipped" => AddedBy("scope")' = AddedBy("scope"),
         e.kind = "neighbours" => InContext' = InContext /\ Anchors' = Anchors
  PROVE  CutIsTold(e)'
<1>1. CASE e.kind = "named"
  BY <1>1 DEF CutIsTold, PassageOf
<1>2. CASE e.kind = "completed"
  BY <1>2 DEF CutIsTold, PassageOf
<1>3. CASE e.kind = "skipped"
  BY <1>3 DEF CutIsTold
<1>4. CASE e.kind = "label"
  BY <1>4 DEF CutIsTold
<1>5. CASE e.kind = "neighbours"
  BY <1>5 DEF CutIsTold
<1> QED BY <1>1, <1>2, <1>3, <1>4, <1>5 DEF ReadKinds

\* Rows the context does not hold, of those a read returned.
LEMMA UnheldLists ==
  ASSUME ContextShape, NEW rows \in Seq(Stored)
  PROVE  /\ Lists(Unheld(rows), ToSet(rows) \ InContext) /\ Unheld(rows) \in Seq(Stored)
         /\ IsFiniteSet(ToSet(rows))
<1>1. ToSet(rows) \subseteq Stored /\ IsFiniteSet(ToSet(rows))
  BY EntriesCounted
<1>2. (Stored \ InContext) \cap ToSet(rows) = ToSet(rows) \ InContext
  BY <1>1
<1>3. Lists(Unheld(rows), ToSet(rows) \ InContext)
  BY <1>2, AmongLists DEF Unheld
<1>4. Unheld(rows) \in Seq(ToSet(rows) \ InContext)
  BY <1>3 DEF Lists
<1>5. Unheld(rows) \in Seq(Stored)
  <2>1. ToSet(rows) \ InContext \subseteq Stored
    BY <1>1
  <2> QED BY <1>4, <2>1, SeqMonotonic
<1> QED BY <1>1, <1>3, <1>5

\* What a read within its budget leaves out is there to be found.
LEMMA LeadingTakes ==
  ASSUME NEW S, NEW s, Lists(s, S), IsFiniteSet(S), NEW n \in Nat
  PROVE  /\ ToSet(Leading(n, s)) \subseteq S /\ IsInjective(Leading(n, s))
         /\ Leading(n, s) \in Seq(S) /\ Len(Leading(n, s)) \in Nat /\ Len(Leading(n, s)) <= n
         /\ Len(s) \in Nat /\ Len(s) = Cardinality(S)
         /\ Len(s) <= n => Leading(n, s) = s /\ ToSet(Leading(n, s)) = S
         /\ Len(s) > n => Len(Leading(n, s)) = n /\ \E r \in S : r \notin ToSet(Leading(n, s))
<1>1. s \in Seq(S) /\ ToSet(s) = S /\ IsInjective(s) /\ Len(s) = Cardinality(S) /\ Len(s) \in Nat
  BY DEF Lists
<1> DEFINE t == Leading(n, s)
<1>2. /\ t \in Seq(S) /\ ToSet(t) \subseteq S /\ IsInjective(t)
      /\ Len(t) = IF n < Len(s) THEN n ELSE Len(s)
      /\ Len(s) <= n => t = s
  BY <1>1, LeadingIs
<1> HIDE DEF t
<1>3. Cardinality(ToSet(t)) = Len(t)
  BY <1>2, EntriesCounted
<1>4. Len(t) \in Nat /\ Len(t) <= n /\ (Len(s) > n => Len(t) = n)
  BY <1>1, <1>2
<1>5. ASSUME Len(s) > n PROVE \E r \in S : r \notin ToSet(t)
  <2> SUFFICES ASSUME ToSet(t) = S PROVE FALSE
    BY <1>2
  <2> QED BY <1>1, <1>3, <1>4, <1>5
<1> QED BY <1>1, <1>2, <1>4, <1>5 DEF t

\* An order of a set, as the model picks one.
LEMMA SetToSeqsLists ==
  ASSUME NEW S, IsFiniteSet(S), NEW s \in SetToSeqs(S)
  PROVE  Lists(s, S)
<1> DEFINE n == Cardinality(S)
<1>1. n \in Nat
  BY FS_CardinalityType
<1> HIDE DEF n
<1>2. s \in [1..n -> S] /\ \A i, j \in 1..n : i # j => s[i] # s[j]
  BY DEF SetToSeqs, n
<1>3. IsInjective(s) /\ s \in Seq(S) /\ Len(s) = n /\ DOMAIN s = 1..n
  BY <1>1, <1>2 DEF IsInjective
<1>4. Cardinality(1..n) = n /\ IsFiniteSet(1..n)
  BY <1>1, FS_Interval
<1>5. s \in Injection(1..n, S)
  BY <1>2, <1>3 DEF Injection
<1>6. s \in Surjection(1..n, S)
  BY <1>4, <1>5, FS_Injection DEF n
<1>7. ToSet(s) = S
  BY <1>3, <1>6 DEF ToSet, Surjection
<1> QED BY <1>3, <1>7 DEF Lists, n


\* The searches bring no row yet.
LEMMA SearchKeepsContext ==
  ASSUME ContextInv, SearchTrack \/ Probe \/ GiveUpProbing
  PROVE  ContextInv'
<1>1. /\ phase \in {"search", "probe"} /\ phase' \in Searching
      /\ asked' = asked /\ context' = context /\ reads' = reads
  BY DEF SearchTrack, Probe, GiveUpProbing, Conclude, SearchFrame, Searching
<1>2. \/ found' = found /\ callerHits' = callerHits
      \/ \E hits \in SUBSET Stored :
           found' = found \cup hits /\ callerHits' \subseteq callerHits \cup hits
  <2>1. ASSUME NEW hits \in SUBSET Stored, NEW record, Conclude(hits, record)
        PROVE  found' = found \cup hits /\ callerHits' \subseteq callerHits \cup hits
    BY <2>1 DEF Conclude
  <2>2. HitSets \subseteq SUBSET Stored /\ {} \in SUBSET Stored
    BY DEF HitSets
  <2>3. CASE SearchTrack
    <3>1. PICK hits \in HitSets : \/ Conclude(hits, live)
                                  \/ found' = found /\ callerHits' = callerHits
      BY <2>3 DEF SearchTrack
    <3> QED BY <2>1, <2>2, <3>1
  <2>4. CASE Probe
    <3>1. PICK hits \in HitSets : \/ Conclude(hits, live \ Dropped)
                                  \/ Conclude({}, live)
                                  \/ found' = found /\ callerHits' = callerHits
      BY <2>4 DEF Probe
    <3> QED BY <2>1, <2>2, <3>1
  <2>5. CASE GiveUpProbing
    <3>1. Conclude({}, live)
      BY <2>5 DEF GiveUpProbing
    <3> QED BY <2>1, <2>2, <3>1
  <2> QED BY <2>3, <2>4, <2>5
<1>3. context = <<>> /\ reads = {}
  BY <1>1 DEF ContextInv, InTurn, Searching
<1>4. ContextShape' /\ \A o : RowsBy(o)' = RowsBy(o) /\ AddedBy(o)' = AddedBy(o)
  BY <1>1 DEF ContextInv, ContextShape, RowsBy, AddedBy
<1>5. InTurn'
  BY <1>1, <1>3, <1>4 DEF ContextInv, InTurn, Searching, AfterReads
<1>6. ToReadHolds'
  BY <1>1 DEF ContextInv, ToReadHolds, Searching
<1>7. HitsHold'
  BY <1>1, <1>2 DEF ContextInv, HitsHold
<1>8. WithinBudgets' /\ CutsHold'
  BY <1>1, <1>3, <1>4 DEF ContextInv, WithinBudgets, CutsHold
<1>9. EndHolds'
  BY <1>1 DEF EndHolds, Searching
<1> QED BY <1>4, <1>5, <1>6, <1>7, <1>8, <1>9 DEF ContextInv

\* The fused hits, in any order.
LEMMA FuseKeepsContext ==
  ASSUME ContextInv, Fuse
  PROVE  ContextInv'
<1>1. /\ phase = "fuse" /\ phase' = "scope" /\ asked' = asked /\ found' = found
      /\ callerHits' = callerHits /\ reads' = reads /\ context = <<>> /\ reads = {}
  BY DEF Fuse, ContextTo, searchVars, ContextInv, InTurn, Searching
<1>2. PICK s \in SetToSeqs(found) : context' = Chunks(s, "fused")
  BY DEF Fuse
<1>3. found \subseteq Stored /\ IsFiniteSet(found)
  BY StoredRows, FS_Subset DEF ContextInv, HitsHold
<1>4. s \in Seq(found) /\ ToSet(s) = found /\ IsInjective(s)
  BY <1>2, <1>3, SetToSeqsLists DEF Lists
<1>5. s \in Seq(Stored)
  BY <1>3, <1>4, SeqMonotonic
<1>6. context' = context \o Chunks(s, "fused")
  <2>1. DOMAIN s = 1..Len(s) /\ Len(s) \in Nat
    BY <1>5
  <2>2. Chunks(s, "fused") \in Seq([row : Stored, origin : {"fused"}])
    <3>1. \A i \in 1..Len(s) : s[i] \in Stored
      BY <1>5
    <3>2. Chunks(s, "fused") \in [1..Len(s) -> [row : Stored, origin : {"fused"}]]
      BY <2>1, <3>1 DEF Chunks
    <3>3. \A X : \A n \in Nat : \A t \in [1..n -> X] : t \in Seq(X)
      OBVIOUS
    <3> QED BY <2>1, <3>2, <3>3
  <2> QED BY <1>1, <1>2, <2>2, ConcatEmptySeq
<1>7. InContext = {} /\ \A o : RowsBy(o) = {} /\ AddedBy(o) = 0
  <2>1. DOMAIN context = {}
    BY <1>1
  <2>2. InContext = {} /\ \A o : RowsBy(o) = {}
    BY <2>1 DEF InContext, RowsBy, RowsIn
  <2> QED BY <2>2, ContextCounted, FS_EmptySet DEF ContextInv
<1>8. /\ ContextShape' /\ InContext' = InContext \cup found
      /\ \A p \in Origins \ {"fused"} : RowsBy(p)' = {} /\ AddedBy(p)' = 0
  <2>1. ContextShape /\ ToSet(s) \cap InContext = {} /\ "fused" \in Origins
    BY <1>7 DEF ContextInv, Origins
  <2> QED BY <1>4, <1>5, <1>6, <1>7, <2>1, ContextGrows
<1>9. InTurn'
  BY <1>1, <1>8 DEF InTurn, Searching, AfterReads, Origins
<1>10. ToReadHolds'
  BY <1>1 DEF ContextInv, ToReadHolds
<1>11. HitsHold'
  BY <1>1, <1>8 DEF ContextInv, HitsHold
<1>12. WithinBudgets' /\ CutsHold'
  <2>1. AddedBy("scope")' = 0 /\ AddedBy("label")' = 0 /\ AddedBy("neighbour")' = 0
    BY <1>8 DEF Origins
  <2>2. WithinBudgets'
    BY <2>1, RetrievalAssumption DEF WithinBudgets
  <2>3. CutsHold'
    BY <1>1 DEF CutsHold
  <2> QED BY <2>2, <2>3
<1>13. EndHolds'
  BY <1>1 DEF EndHolds
<1> QED BY <1>8, <1>9, <1>10, <1>11, <1>12, <1>13 DEF ContextInv

\* A read that adds nothing, and tells nothing.
LEMMA ContextSame ==
  ASSUME context' = context
  PROVE  /\ ContextShape' = ContextShape /\ InContext' = InContext /\ Anchors' = Anchors
         /\ BeforeLabels' = BeforeLabels
         /\ \A o : RowsBy(o)' = RowsBy(o) /\ AddedBy(o)' = AddedBy(o)
BY DEF ContextShape, InContext, Anchors, BeforeLabels, RowsBy, AddedBy

\* The surahs to complete are surahs.
LEMMA TargetsAreSurahs ==
  ASSUME ContextShape
  PROVE  CompletionTargets \in Seq(DOMAIN AyahCount)
<1> DEFINE surahs == [i \in DOMAIN context |-> context[i].row[1]]
           short == {s \in DOMAIN AyahCount : AyahCount[s] <= ScopeCap}
           X == {context[i].row[1] : i \in DOMAIN context}
<1>1. surahs \in Seq(X)
  <2>1. DOMAIN context = 1..Len(context) /\ Len(context) \in Nat
    BY DEF ContextShape, Shaped
  <2>2. surahs \in [1..Len(context) -> X]
    BY <2>1
  <2> QED BY <2>1, <2>2
<1> HIDE DEF surahs, X
<1>2. CompletionTargets \in Seq(short \cap ToSet(surahs))
  BY <1>1, AmongLists DEF Lists, CompletionTargets, surahs
<1>3. short \cap ToSet(surahs) \subseteq DOMAIN AyahCount
  OBVIOUS
<1> QED BY <1>2, <1>3, SeqMonotonic

\* The surah the question names, read one row past the budget.
LEMMA NamedKeepsContext ==
  ASSUME ContextInv, ExpandNamed
  PROVE  ContextInv'
<1> DEFINE s == asked.surah
           all == Children(s, asked.from, AyahCount[s] - 1)
           rows == Leading(ScopeCap + 1, all)
           top == Leading(ScopeCap, rows)
           event == [kind |-> "named", of |-> s, truncated |-> Len(rows) > ScopeCap]
<1>1. /\ phase = "scope" /\ phase' = "complete" /\ asked' = asked /\ found' = found
      /\ callerHits' = callerHits /\ reads = {} /\ pending' = CompletionTargets
      /\ \A o \in {"scope", "label", "neighbour", "caller"} : RowsBy(o) = {}
  BY DEF ExpandNamed, ContextTo, searchVars, ContextInv, InTurn, Searching
<1>2. ContextShape /\ found \subseteq InContext
  BY <1>1 DEF ContextInv, HitsHold, Searching
<1>3. pending' \in Seq(DOMAIN AyahCount)
  BY <1>1, <1>2, TargetsAreSurahs
<1>4. \A o \in {"scope", "label", "neighbour", "caller"} : AddedBy(o) = 0
  BY <1>1, <1>2, ContextCounted, FS_EmptySet
<1>5. CASE s = 0 \/ ScopeCap = 0
  <2>1. context' = context /\ reads' = reads
    BY <1>5 DEF ExpandNamed
  <2>2. ContextShape' /\ HitsHold'
    BY <1>1, <1>2, <2>1, ContextSame DEF ContextInv, HitsHold
  <2>3. InTurn'
    BY <1>1, <2>1, ContextSame DEF InTurn, Searching, AfterReads
  <2>4. ToReadHolds' /\ EndHolds'
    BY <1>1, <1>3 DEF ContextInv, ToReadHolds, EndHolds
  <2>5. WithinBudgets' /\ CutsHold'
    BY <1>1, <2>1, ContextSame DEF ContextInv, WithinBudgets, CutsHold
  <2> QED BY <2>2, <2>3, <2>4, <2>5 DEF ContextInv
<1>6. CASE ~(s = 0 \/ ScopeCap = 0)
  <2>1. /\ context' = context \o Chunks(Unheld(top), "scope")
        /\ reads' = {event}
    BY <1>1, <1>6 DEF ExpandNamed, ReadOf
  <2>2. /\ s \in DOMAIN AyahCount /\ asked.from \in Nat /\ AyahCount[s] \in Nat
        /\ ScopeCap \in Nat /\ ScopeCap + 1 \in Nat
    BY <1>6, RetrievalAssumption DEF ContextInv, ToReadHolds
  <2>3. Lists(all, PassageOf(s, asked.from)) /\ IsFiniteSet(PassageOf(s, asked.from))
    <3>1. {r \in Stored : r[1] = s /\ r[2] \in asked.from..(AyahCount[s] - 1)}
             = PassageOf(s, asked.from)
      <4>1. \A r \in Stored : r[1] = s => r[2] \in Nat /\ r[2] < AyahCount[s]
        BY <2>2, StoredRows, RetrievalAssumption
      <4>2. \A r \in Stored : r[1] = s =>
               (r[2] \in asked.from..(AyahCount[s] - 1) <=> r[2] >= asked.from)
        BY <2>2, <4>1
      <4> QED BY <4>2 DEF PassageOf
    <3>2. AyahCount[s] - 1 \in Int /\ asked.from \in Int
      BY <2>2
    <3> QED BY <3>1, <3>2, ChildrenLists, StoredRows, FS_Subset DEF PassageOf
  <2> HIDE DEF all
  <2>4. /\ rows \in Seq(PassageOf(s, asked.from)) /\ IsInjective(rows) /\ Len(rows) \in Nat
        /\ Len(rows) <= ScopeCap \/ Len(rows) > ScopeCap
        /\ Len(rows) <= ScopeCap => Len(all) <= ScopeCap /\ ToSet(rows) = PassageOf(s, asked.from)
    <3>1. Len(all) \in Nat /\ Len(rows) \in Nat /\ Len(all) <= ScopeCap + 1 => rows = all
      BY <2>2, <2>3, LeadingTakes
    <3>2. Len(all) > ScopeCap + 1 => Len(rows) = ScopeCap + 1
      BY <2>2, <2>3, LeadingTakes
    <3>3. Len(rows) <= ScopeCap => Len(all) <= ScopeCap /\ rows = all
      <4> HIDE DEF rows
      <4> QED BY <2>2, <3>1, <3>2
    <3>4. rows \in Seq(PassageOf(s, asked.from)) /\ IsInjective(rows)
      BY <2>2, <2>3, LeadingTakes
    <3>5. ToSet(all) = PassageOf(s, asked.from)
      BY <2>3 DEF Lists
    <3> HIDE DEF rows
    <3> QED BY <2>2, <3>1, <3>3, <3>4, <3>5
  <2> HIDE DEF rows
  <2>5. /\ top \in Seq(PassageOf(s, asked.from)) /\ IsInjective(top) /\ Len(top) <= ScopeCap
        /\ Len(rows) <= ScopeCap => top = rows
    <3>1. /\ top \in Seq(PassageOf(s, asked.from)) /\ IsInjective(top)
          /\ Len(top) = IF ScopeCap < Len(rows) THEN ScopeCap ELSE Len(rows)
          /\ Len(rows) <= ScopeCap => top = rows
      <4>1. rows \in Seq(PassageOf(s, asked.from)) /\ ScopeCap \in Nat /\ IsInjective(rows)
        BY <2>2, <2>4
      <4> QED BY <4>1, LeadingIs
    <3> HIDE DEF top
    <3> QED BY <2>2, <2>4, <3>1
  <2>6. top \in Seq(Stored)
    <3>1. PassageOf(s, asked.from) \subseteq Stored
      BY DEF PassageOf
    <3> QED BY <2>5, <3>1, SeqMonotonic
  <2> HIDE DEF top
  <2>7. /\ Unheld(top) \in Seq(Stored) /\ IsInjective(Unheld(top))
        /\ ToSet(Unheld(top)) = ToSet(top) \ InContext
        /\ Len(Unheld(top)) = Cardinality(ToSet(top) \ InContext)
    BY <1>2, <2>6, UnheldLists DEF Lists
  <2>8. Len(Unheld(top)) \in Nat /\ Len(Unheld(top)) <= ScopeCap
    <3>1. IsFiniteSet(ToSet(top)) /\ Cardinality(ToSet(top)) = Len(top)
      BY <2>5, EntriesCounted
    <3>2. Cardinality(ToSet(top) \ InContext) <= Len(top)
      BY <3>1, FS_Subset
    <3>3. Len(Unheld(top)) \in Nat /\ Len(top) \in Nat
      BY <2>6, <2>7
    <3> QED BY <2>2, <2>5, <2>7, <3>2, <3>3
  <2>9. /\ ContextShape' /\ InContext' = InContext \cup ToSet(top)
        /\ AddedBy("scope")' = AddedBy("scope") + Len(Unheld(top))
        /\ \A p \in Origins \ {"scope"} : RowsBy(p)' = RowsBy(p) /\ AddedBy(p)' = AddedBy(p)
    <3>1. ToSet(Unheld(top)) \cap InContext = {} /\ "scope" \in Origins
      BY <2>7 DEF Origins
    <3>2. InContext \cup ToSet(Unheld(top)) = InContext \cup ToSet(top)
      BY <2>7
    <3> QED BY <1>2, <2>1, <2>7, <3>1, <3>2, ContextGrows
  <2>10. event.kind = "named" /\ event.of = s /\ event.truncated = (Len(rows) > ScopeCap)
    OBVIOUS
  <2> HIDE DEF event
  <2>11. InTurn'
    BY <1>1, <2>1, <2>9, <2>10 DEF InTurn, Searching, AfterReads, ReadKinds, Origins
  <2>12. ToReadHolds' /\ EndHolds'
    BY <1>1, <1>3 DEF ContextInv, ToReadHolds, EndHolds
  <2>13. HitsHold'
    BY <1>1, <1>2, <2>9 DEF ContextInv, HitsHold
  <2>14. WithinBudgets'
    <3>1. /\ AddedBy("scope")' = AddedBy("scope") + Len(Unheld(top)) /\ AddedBy("scope") = 0
          /\ AddedBy("label")' = AddedBy("label") /\ AddedBy("neighbour")' = AddedBy("neighbour")
      BY <1>4, <2>9 DEF Origins
    <3> QED BY <2>8, <3>1 DEF ContextInv, WithinBudgets
  <2>15. ~event.truncated => PassageOf(s, asked.from) \subseteq InContext'
    <3> SUFFICES ASSUME ~event.truncated PROVE PassageOf(s, asked.from) \subseteq InContext'
      OBVIOUS
    <3>1. ToSet(top) = PassageOf(s, asked.from)
      BY <2>4, <2>5, <2>10
    <3> QED BY <2>9, <3>1
  <2>16. CutsHold'
    BY <1>1, <2>1, <2>10, <2>15 DEF CutsHold, CutIsTold, PassageOf
  <2> QED BY <2>9, <2>11, <2>12, <2>13, <2>14, <2>16 DEF ContextInv
<1> QED BY <1>5, <1>6

\* The completion of one retrieved surah, within what is left of the budget.
LEMMA CompletionKeepsContext ==
  ASSUME ContextInv, CompleteSurah
  PROVE  ContextInv'
<1> DEFINE s == Head(pending)
           left == ScopeCap - AddedBy("scope")
           all == Children(s, 0, AyahCount[s] - 1)
           new == Leading(left, Unheld(all))
           cut == Len(Unheld(all)) > left
           skip == [kind |-> "skipped", of |-> s, truncated |-> TRUE]
           done == [kind |-> "completed", of |-> s, truncated |-> cut]
<1>1. /\ phase = "complete" /\ phase' = "complete" /\ asked' = asked /\ found' = found
      /\ callerHits' = callerHits /\ pending # <<>> /\ pending' = Tail(pending)
  BY DEF CompleteSurah, ContextTo, searchVars
<1>2. /\ ContextShape /\ found \subseteq InContext /\ pending \in Seq(DOMAIN AyahCount)
      /\ \A o \in {"label", "neighbour", "caller"} : RowsBy(o) = {}
      /\ \A e \in reads : e.kind \in {"named", "completed", "skipped"}
      /\ \A e \in reads : CutIsTold(e)
      /\ \A e \in reads : e.kind = "completed" /\ e.truncated => AddedBy("scope") = ScopeCap
  BY <1>1 DEF ContextInv, HitsHold, Searching, ToReadHolds, InTurn, ReadKinds, CutsHold, AfterReads
<1>3. pending' \in Seq(DOMAIN AyahCount) /\ s \in DOMAIN AyahCount
  BY <1>1, <1>2, HeadTailProperties
<1>4. /\ ScopeCap \in Nat /\ AddedBy("scope") \in Nat /\ AddedBy("scope") <= ScopeCap
      /\ left \in Nat /\ AyahCount[s] \in Nat
  <2>1. ScopeCap \in Nat /\ AddedBy("scope") \in Nat /\ AddedBy("scope") <= ScopeCap
    BY <1>2, ContextCounted, RetrievalAssumption DEF ContextInv, WithinBudgets
  <2>2. AyahCount[s] \in Nat
    BY <1>3, RetrievalAssumption
  <2> QED BY <2>1, <2>2
<1>5. CASE left <= 0
  <2>1. context' = context /\ reads' = reads \cup {skip}
    BY <1>5 DEF CompleteSurah, ReadOf
  <2>2. AddedBy("scope")' = ScopeCap
    BY <1>4, <1>5, <2>1, ContextSame
  <2>3. skip.kind = "skipped" /\ skip.of = s
    OBVIOUS
  <2> HIDE DEF skip
  <2>4. ContextShape' /\ HitsHold'
    BY <1>1, <1>2, <2>1, ContextSame DEF ContextInv, HitsHold
  <2>5. InTurn'
    BY <1>1, <1>2, <2>1, <2>3, ContextSame DEF InTurn, Searching, AfterReads, ReadKinds
  <2>6. ToReadHolds' /\ EndHolds'
    BY <1>1, <1>3 DEF ContextInv, ToReadHolds, EndHolds
  <2>7. WithinBudgets'
    BY <2>1, ContextSame DEF ContextInv, WithinBudgets
  <2>8. CutsHold'
    <3>1. ASSUME NEW e \in reads PROVE CutIsTold(e)'
      <4>1. e.kind \in {"named", "completed", "skipped"} /\ CutIsTold(e)
        BY <1>2
      <4> QED BY <1>1, <2>1, <4>1, CutStays, ContextSame DEF ReadKinds
    <3>2. ASSUME NEW e, e = skip PROVE CutIsTold(e)'
      BY <2>2, <2>3, <3>2 DEF CutIsTold
    <3>3. \A e \in reads' : e \in reads \/ e = skip
      BY <2>1
    <3> QED BY <2>2, <3>1, <3>2, <3>3 DEF CutsHold
  <2> QED BY <2>4, <2>5, <2>6, <2>7, <2>8 DEF ContextInv
<1>6. CASE ~(left <= 0)
  <2>1. context' = context \o Chunks(new, "scope") /\ reads' = reads \cup {done}
    BY <1>6 DEF CompleteSurah, ReadOf
  <2>2. Lists(all, PassageOf(s, 0)) /\ PassageOf(s, 0) \subseteq Stored
    <3>1. {r \in Stored : r[1] = s /\ r[2] \in 0..(AyahCount[s] - 1)} = PassageOf(s, 0)
      <4>1. \A r \in Stored : r[1] = s => r[2] \in Nat /\ r[2] < AyahCount[s]
        BY <1>3, StoredRows, RetrievalAssumption
      <4>2. \A r \in Stored : r[1] = s => (r[2] \in 0..(AyahCount[s] - 1) /\ r[2] >= 0)
        BY <1>4, <4>1
      <4> QED BY <4>2 DEF PassageOf
    <3>2. AyahCount[s] - 1 \in Int
      BY <1>4
    <3> QED BY <3>1, <3>2, ChildrenLists DEF PassageOf
  <2> HIDE DEF all
  <2>3. /\ Lists(Unheld(all), PassageOf(s, 0) \ InContext)
        /\ IsFiniteSet(PassageOf(s, 0) \ InContext)
    <3>1. all \in Seq(Stored) /\ ToSet(all) = PassageOf(s, 0)
      BY <2>2, SeqMonotonic DEF Lists
    <3> QED BY <1>2, <3>1, UnheldLists, FS_Difference
  <2>4. /\ ToSet(new) \subseteq PassageOf(s, 0) \ InContext /\ IsInjective(new)
        /\ new \in Seq(PassageOf(s, 0) \ InContext) /\ Len(new) \in Nat /\ Len(new) <= left
        /\ ~cut => ToSet(new) = PassageOf(s, 0) \ InContext
        /\ cut => /\ Len(new) = left
                  /\ \E r \in PassageOf(s, 0) \ InContext : r \notin ToSet(new)
    <3> DEFINE u == Unheld(all)
               S == PassageOf(s, 0) \ InContext
    <3>1. Lists(u, S) /\ IsFiniteSet(S) /\ left \in Nat
      BY <1>4, <2>3
    <3>2. new = Leading(left, u) /\ (cut <=> Len(u) > left)
      OBVIOUS
    <3> HIDE DEF u, S, left, new, cut
    <3>3. /\ ToSet(new) \subseteq S /\ IsInjective(new)
          /\ new \in Seq(S) /\ Len(new) \in Nat /\ Len(new) <= left /\ Len(u) \in Nat
          /\ Len(u) <= left => ToSet(new) = S
          /\ Len(u) > left => Len(new) = left /\ \E r \in S : r \notin ToSet(new)
      BY <3>1, <3>2, LeadingTakes
    <3>4. cut \/ Len(u) <= left
      BY <3>1, <3>2, <3>3
    <3> QED BY <3>2, <3>3, <3>4 DEF S
  <2>5. new \in Seq(Stored)
    <3>1. PassageOf(s, 0) \ InContext \subseteq Stored
      BY <2>2
    <3> QED BY <2>4, <3>1, SeqMonotonic
  <2>6. done.kind = "completed" /\ done.of = s /\ done.truncated = cut
    OBVIOUS
  <2> HIDE DEF new, cut, done
  <2>7. /\ ContextShape' /\ InContext' = InContext \cup ToSet(new)
        /\ RowsBy("scope")' = RowsBy("scope") \cup ToSet(new)
        /\ AddedBy("scope")' = AddedBy("scope") + Len(new)
        /\ \A p \in Origins \ {"scope"} : RowsBy(p)' = RowsBy(p) /\ AddedBy(p)' = AddedBy(p)
    <3>1. ToSet(new) \cap InContext = {} /\ "scope" \in Origins
      BY <2>4 DEF Origins
    <3> QED BY <1>2, <2>1, <2>4, <2>5, <3>1, ContextGrows
  <2>8. /\ BeforeLabels = InContext /\ BeforeLabels' = InContext'
        /\ \A o \in {"label", "neighbour", "caller"} : RowsBy(o)' = {}
    <3>1. \A o \in {"label", "neighbour", "caller"} : RowsBy(o)' = {}
      BY <1>2, <2>7 DEF Origins
    <3>2. /\ InContext = UNION {RowsBy(o) : o \in Origins}
          /\ InContext = RowsBy("fused") \cup RowsBy("caller") \cup RowsBy("scope")
      <4>1. InContext = UNION {RowsBy(o) : o \in Origins}
        BY <1>2, ContextRows
      <4> QED BY <1>2, <4>1 DEF Origins
    <3>3. InContext' = RowsBy("fused")' \cup RowsBy("caller")' \cup RowsBy("scope")'
      BY <2>7, <3>2 DEF Origins
    <3> QED BY <3>1, <3>2, <3>3, RowsNamed
  <2>9. AddedBy("scope") < ScopeCap
    BY <1>4, <1>6
  <2>10. InTurn'
    BY <1>1, <1>2, <2>1, <2>6, <2>8 DEF InTurn, Searching, AfterReads, ReadKinds
  <2>11. ToReadHolds' /\ EndHolds'
    BY <1>1, <1>3 DEF ContextInv, ToReadHolds, EndHolds
  <2>12. HitsHold'
    BY <1>1, <1>2, <2>7 DEF ContextInv, HitsHold
  <2>13. AddedBy("scope")' <= ScopeCap /\ (cut => AddedBy("scope")' = ScopeCap)
    <3>1. ScopeCap = AddedBy("scope") + left
      BY <1>4
    <3> HIDE DEF left
    <3> QED BY <1>4, <2>4, <2>7, <3>1
  <2>14. WithinBudgets'
    <3>1. AddedBy("label")' = AddedBy("label") /\ AddedBy("neighbour")' = AddedBy("neighbour")
      BY <2>7 DEF Origins
    <3> QED BY <2>13, <3>1 DEF ContextInv, WithinBudgets
  <2>15. CutsHold'
    <3>1. ASSUME NEW e \in reads PROVE CutIsTold(e)' /\ ~(e.kind = "completed" /\ e.truncated)
      <4>1. e.kind \in {"named", "completed", "skipped"} /\ CutIsTold(e)
        BY <1>2
      <4>2. ~(e.kind = "completed" /\ e.truncated) /\ e.kind # "skipped"
        <5>1. AddedBy("scope") # ScopeCap
          BY <1>4, <2>9
        <5> QED BY <1>2, <4>1, <5>1 DEF CutIsTold
      <4>3. InContext \subseteq InContext' /\ BeforeLabels \subseteq BeforeLabels'
        BY <2>7, <2>8
      <4> QED BY <1>1, <4>1, <4>2, <4>3, CutStays DEF ReadKinds
    <3>2. cut <=> ~(PassageOf(s, 0) \subseteq InContext')
      BY <2>4, <2>7
    <3>3. ASSUME NEW e, e = done PROVE CutIsTold(e)'
      BY <2>6, <2>8, <3>2, <3>3 DEF CutIsTold, PassageOf
    <3>4. done.truncated => AddedBy("scope")' = ScopeCap
      BY <2>6, <2>13
    <3>5. \A e \in reads' : e \in reads \/ e = done
      BY <2>1
    <3> QED BY <3>1, <3>3, <3>4, <3>5 DEF CutsHold
  <2> QED BY <2>7, <2>10, <2>11, <2>12, <2>14, <2>15 DEF ContextInv
<1> QED BY <1>5, <1>6

\* The labels the question names come after the surahs.
LEMMA ScopesEndKeepsContext ==
  ASSUME ContextInv, EndScopes
  PROVE  ContextInv'
<1>1. /\ phase = "complete" /\ phase' = "labels" /\ asked' = asked /\ found' = found
      /\ callerHits' = callerHits /\ context' = context /\ reads' = reads
      /\ pending' \in {<<>>, asked.labels}
  BY DEF EndScopes, ContextTo, searchVars
<1>2. pending' \in Seq(DOMAIN LabelRows)
  <2>1. \A q \in [surah : {0} \cup DOMAIN AyahCount, from : 0..1, labels : Seq(DOMAIN LabelRows)] :
          q.labels \in Seq(DOMAIN LabelRows)
    OBVIOUS
  <2>2. <<>> \in Seq(DOMAIN LabelRows)
    OBVIOUS
  <2> QED BY <1>1, <2>1, <2>2 DEF ContextInv, ToReadHolds
<1>3. ContextShape' /\ HitsHold' /\ WithinBudgets'
  BY <1>1, ContextSame DEF ContextInv, HitsHold, WithinBudgets, Searching
<1>4. InTurn'
  BY <1>1, ContextSame DEF ContextInv, InTurn, Searching, AfterReads
<1>5. ToReadHolds' /\ EndHolds'
  BY <1>1, <1>2 DEF ContextInv, ToReadHolds, EndHolds
<1>6. CutsHold'
  <2>1. ASSUME NEW e \in reads PROVE CutIsTold(e)'
    <3>1. CutIsTold(e) /\ e.kind \in ReadKinds
      BY DEF ContextInv, CutsHold, InTurn
    <3> QED BY <1>1, <3>1, CutStays, ContextSame
  <2> QED BY <1>1, <2>1, ContextSame DEF ContextInv, CutsHold
<1> QED BY <1>3, <1>4, <1>5, <1>6 DEF ContextInv

\* A read after the surahs leaves their rows alone.
LEMMA LaterReadKeepsCuts ==
  ASSUME ContextInv, phase = "labels", asked' = asked, InContext \subseteq InContext',
         \A p \in {"fused", "caller", "scope"} : RowsBy(p)' = RowsBy(p),
         AddedBy("scope")' = AddedBy("scope"), NEW e \in reads
  PROVE  CutIsTold(e)' /\ (e.kind = "completed" /\ e.truncated => AddedBy("scope")' = ScopeCap)
<1>1. CutIsTold(e) /\ e.kind \in ReadKinds /\ e.kind # "neighbours"
      /\ (e.kind = "completed" /\ e.truncated => AddedBy("scope") = ScopeCap)
  BY DEF ContextInv, CutsHold, InTurn, AfterReads
<1>2. BeforeLabels' = BeforeLabels
  BY RowsNamed
<1>3. CutIsTold(e)'
  BY <1>1, <1>2, CutStays
<1> QED BY <1>1, <1>3

\* The rows of one label, within what is left of the budget all labels share.
LEMMA LabelKeepsContext ==
  ASSUME ContextInv, LookUpLabel
  PROVE  ContextInv'
<1> DEFINE l == Head(pending)
           all == LabelRows[l]
           rows == Leading(LabelCap + 1, all)
           u == Unheld(rows)
           left == LabelCap - AddedBy("label")
           new == Leading(left, u)
           cut == Len(rows) > LabelCap \/ Len(u) > left
           event == [kind |-> "label", of |-> l, truncated |-> cut]
<1>1. /\ phase = "labels" /\ phase' = "labels" /\ asked' = asked /\ found' = found
      /\ callerHits' = callerHits /\ pending # <<>> /\ pending' = Tail(pending)
  BY DEF LookUpLabel, ContextTo, searchVars
<1>2. context' = context \o Chunks(new, "label") /\ reads' = reads \cup {event}
  BY DEF LookUpLabel, ReadOf
<1>3. /\ ContextShape /\ found \subseteq InContext /\ pending \in Seq(DOMAIN LabelRows)
      /\ \A o \in {"neighbour", "caller"} : RowsBy(o) = {}
      /\ \A e \in reads : e.kind \in ReadKinds \ {"neighbours"}
  BY <1>1 DEF ContextInv, HitsHold, Searching, ToReadHolds, InTurn, ReadKinds, AfterReads
<1>4. pending' \in Seq(DOMAIN LabelRows) /\ l \in DOMAIN LabelRows
  BY <1>1, <1>3, HeadTailProperties
<1>5. /\ LabelCap \in Nat /\ AddedBy("label") \in Nat /\ AddedBy("label") <= LabelCap
      /\ left \in Nat
  <2>1. LabelCap \in Nat /\ AddedBy("label") \in Nat /\ AddedBy("label") <= LabelCap
    BY <1>3, ContextCounted, RetrievalAssumption DEF ContextInv, WithinBudgets
  <2> QED BY <2>1
<1>6. all \in Seq(Stored)
  BY <1>4, RetrievalAssumption
<1>7. /\ rows \in Seq(Stored) /\ (Len(rows) <= LabelCap => rows = all)
      /\ Len(rows) \in Nat
  <2>1. LabelCap + 1 \in Nat
    BY <1>5
  <2>2. /\ rows \in Seq(Stored)
        /\ Len(rows) = IF LabelCap + 1 < Len(all) THEN LabelCap + 1 ELSE Len(all)
        /\ Len(all) <= LabelCap + 1 => rows = all
    BY <1>6, <2>1, LeadingIs
  <2>3. Len(all) \in Nat
    BY <1>6
  <2> HIDE DEF rows, all
  <2> QED BY <1>5, <2>2, <2>3
<1>8. Lists(u, ToSet(rows) \ InContext) /\ IsFiniteSet(ToSet(rows) \ InContext)
      /\ ToSet(rows) \subseteq Stored
  BY <1>3, <1>7, UnheldLists, FS_Difference, EntriesCounted
<1>9. /\ ToSet(new) \subseteq ToSet(rows) \ InContext /\ IsInjective(new)
      /\ new \in Seq(Stored) /\ Len(new) \in Nat /\ Len(new) <= left
      /\ ~cut => InContext \cup ToSet(new) = InContext \cup ToSet(all)
  <2> DEFINE S == ToSet(rows) \ InContext
  <2>1. Lists(u, S) /\ IsFiniteSet(S) /\ new = Leading(left, u) /\ S \subseteq Stored
    BY <1>8
  <2>2. cut <=> Len(rows) > LabelCap \/ Len(u) > left
    OBVIOUS
  <2>3. S = ToSet(rows) \ InContext
    OBVIOUS
  <2> HIDE DEF u, S, left, new, cut, rows, all
  <2>4. /\ ToSet(new) \subseteq S /\ IsInjective(new)
        /\ new \in Seq(S) /\ Len(new) \in Nat /\ Len(new) <= left /\ Len(u) \in Nat
        /\ Len(u) <= left => ToSet(new) = S
    BY <1>5, <2>1, LeadingTakes
  <2>5. new \in Seq(Stored)
    BY <2>1, <2>4, SeqMonotonic
  <2>6. ~cut => Len(rows) <= LabelCap /\ Len(u) <= left
    BY <1>5, <1>7, <2>2, <2>4
  <2> QED BY <1>7, <2>3, <2>4, <2>5, <2>6
<1>10. event.kind = "label" /\ event.of = l /\ (event.truncated <=> cut)
  OBVIOUS
<1> HIDE DEF new, cut, event
<1>11. /\ ContextShape' /\ InContext' = InContext \cup ToSet(new)
       /\ AddedBy("label")' = AddedBy("label") + Len(new)
       /\ \A p \in Origins \ {"label"} : RowsBy(p)' = RowsBy(p) /\ AddedBy(p)' = AddedBy(p)
  <2>1. ToSet(new) \cap InContext = {} /\ "label" \in Origins
    BY <1>9 DEF Origins
  <2> QED BY <1>2, <1>3, <1>9, <2>1, ContextGrows
<1>12. InTurn'
  BY <1>1, <1>2, <1>3, <1>10, <1>11 DEF InTurn, Searching, AfterReads, ReadKinds, Origins
<1>13. ToReadHolds' /\ EndHolds'
  BY <1>1, <1>4 DEF ContextInv, ToReadHolds, EndHolds
<1>14. HitsHold'
  BY <1>1, <1>3, <1>11 DEF ContextInv, HitsHold
<1>15. WithinBudgets'
  <2>1. LabelCap = AddedBy("label") + left
    BY <1>5
  <2> HIDE DEF left
  <2>2. AddedBy("label")' <= LabelCap
    BY <1>5, <1>9, <1>11, <2>1
  <2>3. AddedBy("scope")' = AddedBy("scope") /\ AddedBy("neighbour")' = AddedBy("neighbour")
    BY <1>11 DEF Origins
  <2> QED BY <2>2, <2>3 DEF ContextInv, WithinBudgets
<1>16. CutsHold'
  <2>1. ASSUME NEW e \in reads
        PROVE  CutIsTold(e)' /\ (e.kind = "completed" /\ e.truncated => AddedBy("scope")' = ScopeCap)
    <3>1. /\ InContext \subseteq InContext' /\ AddedBy("scope")' = AddedBy("scope")
          /\ \A p \in {"fused", "caller", "scope"} : RowsBy(p)' = RowsBy(p)
      BY <1>11 DEF Origins
    <3> QED BY <1>1, <3>1, LaterReadKeepsCuts
  <2>2. ASSUME NEW e, e = event PROVE CutIsTold(e)'
    BY <1>9, <1>10, <1>11, <2>2 DEF CutIsTold
  <2>3. \A e \in reads' : e \in reads \/ e = event
    BY <1>2
  <2> QED BY <1>10, <2>1, <2>2, <2>3 DEF CutsHold
<1> QED BY <1>11, <1>12, <1>13, <1>14, <1>15, <1>16 DEF ContextInv

\* The neighbours of the verses in context: what is asked for leaves room for every
\* row of the context among them, so that a neighbourhood left out is told.
LEMMA NeighboursKeepContext ==
  ASSUME ContextInv, ReadNeighbours
  PROVE  ContextInv'
<1> DEFINE anchors == Among({r \in Stored : IsVerse(r)}, RowsOfContext)
           all == Around(anchors)
           top == Leading(NeighbourLimit, all)
           u == Unheld(top)
           new == Leading(NeighbourCap, u)
           cut == Len(u) > NeighbourCap
           event == [kind |-> "neighbours", of |-> 0, truncated |-> cut]
           none == anchors = <<>> \/ Radius = 0 \/ NeighbourCap = 0
<1>1. /\ phase = "labels" /\ phase' = "chains" /\ asked' = asked /\ found' = found
      /\ callerHits' = callerHits
      /\ IF none THEN context' = context /\ reads' = reads
         ELSE context' = context \o Chunks(new, "neighbour") /\ reads' = reads \cup {event}
  BY DEF ReadNeighbours, ContextTo, searchVars, ReadOf
<1>2. /\ ContextShape /\ found \subseteq InContext
      /\ \A o \in {"neighbour", "caller"} : RowsBy(o) = {}
      /\ \A e \in reads : e.kind \in ReadKinds \ {"neighbours"}
  BY <1>1 DEF ContextInv, HitsHold, Searching, InTurn, ReadKinds, AfterReads
<1>3. ToReadHolds' /\ EndHolds'
  BY <1>1 DEF ContextInv, ToReadHolds, EndHolds
<1>4. NeighbourCap \in Nat /\ AddedBy("neighbour") = 0
  BY <1>2, ContextCounted, FS_EmptySet, RetrievalAssumption
<1>5. CASE none
  <2>1. context' = context /\ reads' = reads
    BY <1>1, <1>5
  <2>2. ContextShape' /\ HitsHold' /\ WithinBudgets'
    BY <1>1, <1>2, <2>1, ContextSame DEF ContextInv, HitsHold, WithinBudgets
  <2>3. InTurn'
    BY <1>1, <1>2, <2>1, ContextSame DEF InTurn, Searching, AfterReads, ReadKinds
  <2>4. CutsHold'
    BY <1>1, <2>1, LaterReadKeepsCuts, ContextSame DEF CutsHold
  <2> QED BY <1>3, <2>2, <2>3, <2>4 DEF ContextInv
<1>6. CASE ~none
  <2>1. context' = context \o Chunks(new, "neighbour") /\ reads' = reads \cup {event}
    BY <1>1, <1>6
  <2> HIDE DEF none
  <2>2. /\ ToSet(anchors) = {r \in InContext : IsVerse(r)} /\ anchors \in Seq(Stored)
    <3>1. RowsOfContext \in Seq(Stored) /\ ToSet(RowsOfContext) = InContext
          /\ InContext \subseteq Stored
      BY <1>2, ContextRows DEF Lists
    <3>2. Lists(anchors, {r \in Stored : IsVerse(r)} \cap InContext)
      BY <3>1, AmongLists
    <3>3. {r \in Stored : IsVerse(r)} \cap InContext = {r \in InContext : IsVerse(r)}
      BY <3>1
    <3> HIDE DEF anchors
    <3> QED BY <3>1, <3>2, <3>3, SeqMonotonic DEF Lists
  <2>3. Lists(all, NearSome(anchors)) /\ IsFiniteSet(NearSome(anchors))
        /\ NearSome(anchors) \subseteq Stored
    BY <2>2, AroundLists DEF NearSome
  <2>4. \A r \in Stored \ InContext :
          r \in NearSome(anchors) <=> \E a \in ToSet(anchors) : Near(r, a)
    BY <2>2 DEF NearSome, ToSet
  <2> HIDE DEF all, anchors
  <2>5. /\ IsFiniteSet(InContext) /\ Cardinality(InContext) \in Nat /\ NeighbourLimit \in Nat
        /\ NeighbourLimit = NeighbourCap + Cardinality(InContext) + 1
    BY <1>2, <1>4, ContextRows, FS_CardinalityType DEF NeighbourLimit
  <2>6. /\ top \in Seq(Stored) /\ ToSet(top) \subseteq NearSome(anchors) /\ IsInjective(top)
        /\ Len(all) \in Nat
        /\ Len(all) <= NeighbourLimit => ToSet(top) = NearSome(anchors)
        /\ Len(all) > NeighbourLimit => Len(top) = NeighbourLimit
    <3> DEFINE n == NeighbourLimit
               S == NearSome(anchors)
    <3>1. Lists(all, S) /\ IsFiniteSet(S) /\ n \in Nat /\ top = Leading(n, all) /\ S \subseteq Stored
      BY <2>3, <2>5
    <3> HIDE DEF n, S, top
    <3>2. /\ top \in Seq(S) /\ ToSet(top) \subseteq S /\ IsInjective(top) /\ Len(all) \in Nat
          /\ Len(all) <= n => ToSet(top) = S
          /\ Len(all) > n => Len(top) = n
      BY <3>1, LeadingTakes
    <3>3. top \in Seq(Stored)
      BY <3>1, <3>2, SeqMonotonic
    <3> QED BY <3>2, <3>3 DEF n, S
  <2> HIDE DEF top
  <2>7. /\ Lists(u, ToSet(top) \ InContext) /\ IsFiniteSet(ToSet(top) \ InContext)
        /\ IsFiniteSet(ToSet(top)) /\ Cardinality(ToSet(top)) = Len(top)
        /\ ToSet(top) \subseteq Stored
    BY <1>2, <2>6, UnheldLists, FS_Difference, EntriesCounted
  <2>8. /\ ToSet(new) \subseteq ToSet(top) \ InContext /\ IsInjective(new)
        /\ new \in Seq(Stored) /\ Len(new) \in Nat /\ Len(new) <= NeighbourCap
        /\ ~cut => /\ ToSet(new) = ToSet(top) \ InContext
                   /\ Cardinality(ToSet(top) \ InContext) <= NeighbourCap
        /\ cut => \E r \in ToSet(top) \ InContext : r \notin ToSet(new)
    <3> DEFINE S == ToSet(top) \ InContext
    <3>1. Lists(u, S) /\ IsFiniteSet(S) /\ new = Leading(NeighbourCap, u) /\ S \subseteq Stored
          /\ (cut <=> Len(u) > NeighbourCap)
      BY <2>7
    <3> HIDE DEF u, S, new, cut
    <3>2. /\ ToSet(new) \subseteq S /\ IsInjective(new) /\ new \in Seq(S)
          /\ Len(new) \in Nat /\ Len(new) <= NeighbourCap
          /\ Len(u) \in Nat /\ Len(u) = Cardinality(S)
          /\ Len(u) <= NeighbourCap => ToSet(new) = S
          /\ Len(u) > NeighbourCap => \E r \in S : r \notin ToSet(new)
      BY <1>4, <3>1, LeadingTakes
    <3>3. new \in Seq(Stored)
      BY <3>1, <3>2, SeqMonotonic
    <3>4. cut \/ Len(u) <= NeighbourCap
      BY <1>4, <3>1, <3>2
    <3> QED BY <3>1, <3>2, <3>3, <3>4 DEF S
  <2>9. event.kind = "neighbours" /\ (event.truncated <=> cut)
    OBVIOUS
  <2> HIDE DEF u, new, cut, event
  <2>10. ~cut => ToSet(top) = NearSome(anchors)
    <3> SUFFICES ASSUME ~cut, Len(all) > NeighbourLimit PROVE FALSE
      BY <2>5, <2>6
    <3> DEFINE S == ToSet(top) \ InContext
    <3>1. /\ IsFiniteSet(S \cup InContext)
          /\ Cardinality(S \cup InContext) = Cardinality(S) + Cardinality(InContext)
          /\ Cardinality(S) \in Nat
      BY <2>5, <2>7, CountsAdd
    <3>2. Cardinality(ToSet(top)) <= Cardinality(S \cup InContext)
      BY <3>1, FS_Subset
    <3>3. Cardinality(ToSet(top)) = NeighbourLimit
      BY <2>6, <2>7
    <3>4. Cardinality(S) <= NeighbourCap
      BY <2>8
    <3> HIDE DEF S
    <3> QED BY <1>4, <2>5, <3>1, <3>2, <3>3, <3>4
  <2>11. /\ ContextShape' /\ InContext' = InContext \cup ToSet(new)
         /\ RowsBy("neighbour")' = ToSet(new)
         /\ AddedBy("neighbour")' = Len(new)
         /\ \A p \in Origins \ {"neighbour"} : RowsBy(p)' = RowsBy(p) /\ AddedBy(p)' = AddedBy(p)
    <3>1. ToSet(new) \cap InContext = {} /\ "neighbour" \in Origins
      BY <2>8 DEF Origins
    <3>2. /\ ContextShape' /\ InContext' = InContext \cup ToSet(new)
          /\ RowsBy("neighbour")' = RowsBy("neighbour") \cup ToSet(new)
          /\ AddedBy("neighbour")' = AddedBy("neighbour") + Len(new)
          /\ \A p \in Origins \ {"neighbour"} : RowsBy(p)' = RowsBy(p) /\ AddedBy(p)' = AddedBy(p)
      BY <1>2, <2>1, <2>8, <3>1, ContextGrows
    <3>3. RowsBy("neighbour") = {}
      BY <1>2
    <3>4. RowsBy("neighbour")' = ToSet(new)
      BY <3>2, <3>3
    <3>5. AddedBy("neighbour")' = Len(new)
      <4>1. AddedBy("neighbour")' = 0 + Len(new) /\ Len(new) \in Nat
        BY <1>4, <2>8, <3>2
      <4> QED BY <4>1
    <3> QED BY <3>2, <3>4, <3>5
  <2>12. Anchors' = ToSet(anchors)
    <3>1. Anchors' = {r \in InContext' \ RowsBy("neighbour")' : IsVerse(r)}
      BY <2>11, RowsNamed
    <3>2. InContext' \ RowsBy("neighbour")' = InContext
      BY <2>8, <2>11
    <3> QED BY <2>2, <3>1, <3>2
  <2>13. cut <=> \E a \in Anchors' : \E r \in Stored : Near(r, a) /\ r \notin InContext'
    <3>1. ASSUME cut PROVE \E a \in Anchors' : \E r \in Stored : Near(r, a) /\ r \notin InContext'
      <4>1. PICK r \in ToSet(top) \ InContext : r \notin ToSet(new)
        BY <2>8, <3>1
      <4>2. r \in Stored \ InContext /\ r \in NearSome(anchors)
        BY <2>6, <2>7
      <4> QED BY <2>4, <2>11, <2>12, <4>1, <4>2
    <3>2. ASSUME ~cut, NEW a \in Anchors', NEW r \in Stored, Near(r, a), r \notin InContext'
          PROVE  FALSE
      <4>1. r \in NearSome(anchors) \ InContext
        BY <2>4, <2>11, <2>12, <3>2
      <4>2. ToSet(new) = NearSome(anchors) \ InContext
        BY <2>8, <2>10, <3>2
      <4> QED BY <2>11, <3>2, <4>1, <4>2
    <3> QED BY <3>1, <3>2
  <2>14. InTurn'
    BY <1>1, <1>2, <2>1, <2>9, <2>11 DEF InTurn, Searching, AfterReads, ReadKinds, Origins
  <2>15. HitsHold'
    BY <1>1, <1>2, <2>11 DEF ContextInv, HitsHold
  <2>16. WithinBudgets'
    <3>1. AddedBy("scope")' = AddedBy("scope") /\ AddedBy("label")' = AddedBy("label")
      BY <2>11 DEF Origins
    <3> QED BY <2>8, <2>11, <3>1 DEF ContextInv, WithinBudgets
  <2>17. CutsHold'
    <3>1. ASSUME NEW e \in reads
          PROVE  CutIsTold(e)' /\ (e.kind = "completed" /\ e.truncated => AddedBy("scope")' = ScopeCap)
      <4>1. /\ InContext \subseteq InContext' /\ AddedBy("scope")' = AddedBy("scope")
            /\ \A p \in {"fused", "caller", "scope"} : RowsBy(p)' = RowsBy(p)
        BY <2>11 DEF Origins
      <4> QED BY <1>1, <4>1, LaterReadKeepsCuts
    <3>2. ASSUME NEW e, e = event PROVE CutIsTold(e)'
      BY <2>9, <2>13, <3>2 DEF CutIsTold, Near
    <3>3. \A e \in reads' : e \in reads \/ e = event
      BY <2>1
    <3> QED BY <2>9, <3>1, <3>2, <3>3 DEF CutsHold
  <2> QED BY <1>3, <2>11, <2>14, <2>15, <2>16, <2>17 DEF ContextInv
<1> QED BY <1>5, <1>6

\* The chains are read of the first hadiths in context; the others are told unread.
LEMMA ChainsKeepContext ==
  ASSUME ContextInv, ReadChains
  PROVE  ContextInv'
<1> DEFINE bearing == Among(DOMAIN ChainsOf, RowsOfContext)
           consulted == IF ChainCap = 0 THEN {} ELSE ToSet(Leading(ChildCap, bearing))
           evidence(r) == [row |-> r, moreMayExist |-> ChainsOf[r] > ChainCap,
                           carried |-> IF ChainsOf[r] > ChainCap THEN ChainCap ELSE ChainsOf[r]]
<1>1. /\ phase = "chains" /\ phase' = "caller" /\ asked' = asked /\ found' = found
      /\ callerHits' = callerHits /\ context' = context /\ reads' = reads
      /\ chainEvidence' = {evidence(r) : r \in consulted}
      /\ unread' = ToSet(bearing) \ consulted
  BY DEF ReadChains, ContextTo, searchVars
<1>2. ContextShape' /\ HitsHold' /\ WithinBudgets'
  BY <1>1, ContextSame DEF ContextInv, HitsHold, WithinBudgets, Searching
<1>3. InTurn'
  BY <1>1, ContextSame DEF ContextInv, InTurn, Searching, AfterReads
<1>4. ToReadHolds'
  BY <1>1 DEF ContextInv, ToReadHolds
<1>5. CutsHold'
  <2>1. ASSUME NEW e \in reads PROVE CutIsTold(e)'
    <3>1. CutIsTold(e) /\ e.kind \in ReadKinds
      BY DEF ContextInv, CutsHold, InTurn
    <3> QED BY <1>1, <3>1, CutStays, ContextSame
  <2> QED BY <1>1, <2>1, ContextSame DEF ContextInv, CutsHold
<1>6. EvidenceIsTold'
  <2>1. ToSet(bearing) = DOMAIN ChainsOf \cap InContext
    <3>1. RowsOfContext \in Seq(Stored) /\ ToSet(RowsOfContext) = InContext
      BY ContextRows DEF ContextInv, Lists
    <3> QED BY <3>1, AmongLists DEF Lists
  <2> SUFFICES ASSUME NEW r \in InContext \cap DOMAIN ChainsOf, r \in consulted
               PROVE  \E e \in chainEvidence' :
                        e.row = r /\ (e.moreMayExist <=> e.carried # ChainsOf[r])
    BY <1>1, <2>1, ContextSame DEF EvidenceIsTold
  <2>2. ChainsOf[r] \in Nat /\ ChainCap \in Nat
    BY RetrievalAssumption
  <2>3. evidence(r) \in chainEvidence'
    BY <1>1
  <2>4. /\ evidence(r).row = r
        /\ evidence(r).moreMayExist <=> ChainsOf[r] > ChainCap
        /\ evidence(r).carried = IF ChainsOf[r] > ChainCap THEN ChainCap ELSE ChainsOf[r]
    OBVIOUS
  <2> HIDE DEF evidence
  <2>5. evidence(r).moreMayExist <=> evidence(r).carried # ChainsOf[r]
    BY <2>2, <2>4
  <2> QED BY <2>3, <2>4, <2>5
<1>7. EndHolds'
  BY <1>1, <1>6 DEF EndHolds
<1> QED BY <1>2, <1>3, <1>4, <1>5, <1>7 DEF ContextInv

\* The rows of a context are those of its entries.
LEMMA RowsOfEntries ==
  ASSUME NEW c
  PROVE  /\ {c[i].row : i \in DOMAIN c} = {d.row : d \in ToSet(c)}
         /\ \A o : RowsIn(c, o) = {d.row : d \in {e \in ToSet(c) : e.origin = o}}
BY DEF RowsIn, ToSet

\* The hits of the caller's own query come first, and nothing else changes.
LEMMA CallerFirst ==
  ASSUME ContextInv, Prioritise
  PROVE  /\ ContextShape' /\ InContext' = InContext
         /\ \A o \in {"scope", "label", "neighbour"} : RowsBy(o)' = RowsBy(o)
         /\ RowsBy("fused")' \cup RowsBy("caller")' = RowsBy("fused") \cup RowsBy("caller")
         /\ \A i \in 1..CallerK : i <= Cardinality(callerHits) => context'[i].row \in callerHits
<1>1. /\ ContextShape /\ phase = "caller" /\ RowsBy("caller") = {}
      /\ callerHits \subseteq InContext /\ callerHits \subseteq Stored
      /\ CallerK \in Nat
  BY RetrievalAssumption DEF ContextInv, Prioritise, InTurn, HitsHold, Searching
<1> DEFINE C == ToSet(context)
           of(r) == CHOOSE c \in C : c.row = r
<1>2. /\ context \in Seq(ContextRow) /\ C \subseteq ContextRow
      /\ InContext = {c.row : c \in C}
      /\ \A c, d \in C : c.row = d.row => c = d
      /\ \A o : RowsBy(o) = {d.row : d \in {e \in C : e.origin = o}}
  <2>1. context \in Seq(ContextRow)
    BY <1>1 DEF ContextShape, Shaped
  <2>2. C \subseteq ContextRow
    BY <2>1, EntriesCounted
  <2>3. InContext = {c.row : c \in C} /\ \A o : RowsBy(o) = {d.row : d \in {e \in C : e.origin = o}}
    BY RowsOfEntries DEF InContext, RowsBy
  <2>4. \A c, d \in C : c.row = d.row => c = d
    BY <1>1 DEF ContextShape, Shaped, ToSet
  <2> QED BY <2>1, <2>2, <2>3, <2>4
<1>3. PICK s \in SetToSeqs(callerHits) :
        context' = [i \in DOMAIN Leading(CallerK, s) |-> Promoted(of(Leading(CallerK, s)[i]))]
                     \o Among({c \in C : c.row \notin ToSet(Leading(CallerK, s))}, context)
  BY DEF Prioritise
<1> DEFINE front == Leading(CallerK, s)
           moved == [i \in DOMAIN front |-> Promoted(of(front[i]))]
           rest == {c \in C : c.row \notin ToSet(front)}
           tail == Among(rest, context)
<1>4. context' = moved \o tail
  BY <1>3
<1>5. /\ s \in Seq(callerHits) /\ IsInjective(s) /\ Len(s) = Cardinality(callerHits)
      /\ ToSet(s) = callerHits /\ Len(s) \in Nat
  <2>1. IsFiniteSet(callerHits)
    BY <1>1, StoredRows, FS_Subset
  <2> QED BY <2>1, SetToSeqsLists DEF Lists
<1>6. /\ front \in Seq(callerHits) /\ ToSet(front) \subseteq callerHits /\ IsInjective(front)
      /\ Len(front) = IF CallerK < Len(s) THEN CallerK ELSE Len(s)
  BY <1>1, <1>5, LeadingIs
<1> HIDE DEF front
<1>7. DOMAIN front = 1..Len(front) /\ Len(front) \in Nat
      /\ \A i \in 1..Len(front) : front[i] \in callerHits /\ front[i] \in ToSet(front)
  BY <1>6 DEF ToSet
<1>8. \A r \in InContext : of(r) \in C /\ of(r).row = r
  BY <1>2
<1> HIDE DEF of, C
<1>9. \A c \in ContextRow : /\ Promoted(c) \in ContextRow /\ Promoted(c).row = c.row
                            /\ c.origin = "fused" => Promoted(c).origin = "caller"
                            /\ c.origin # "fused" => Promoted(c) = c
  <2> SUFFICES ASSUME NEW c \in ContextRow
               PROVE  /\ Promoted(c) \in ContextRow /\ Promoted(c).row = c.row
                      /\ c.origin = "fused" => Promoted(c).origin = "caller"
                      /\ c.origin # "fused" => Promoted(c) = c
    OBVIOUS
  <2>1. CASE c.origin = "fused"
    <3>1. Promoted(c) = [c EXCEPT !.origin = "caller"]
      BY <2>1 DEF Promoted
    <3>2. Promoted(c) \in ContextRow /\ Promoted(c).row = c.row /\ Promoted(c).origin = "caller"
      BY <3>1 DEF ContextRow, Origins
    <3> QED BY <2>1, <3>2
  <2>2. CASE c.origin # "fused"
    BY <2>2 DEF Promoted
  <2> QED BY <2>1, <2>2
<1>10. /\ moved \in Seq(ContextRow) /\ Len(moved) = Len(front)
       /\ \A i \in 1..Len(front) : moved[i] = Promoted(of(front[i])) /\ moved[i].row = front[i]
  <2>1. \A i \in 1..Len(front) : moved[i] = Promoted(of(front[i]))
    BY <1>7
  <2>2. \A i \in 1..Len(front) : moved[i] \in ContextRow /\ moved[i].row = front[i]
    <3> HIDE DEF moved
    <3> QED BY <1>1, <1>2, <1>7, <1>8, <1>9, <2>1
  <2>3. moved \in [1..Len(front) -> ContextRow]
    BY <1>7, <2>2
  <2> HIDE DEF moved
  <2> QED BY <1>7, <2>1, <2>2, <2>3
<1> HIDE DEF moved
<1>11. Lists(tail, rest) /\ rest \subseteq ContextRow /\ rest \subseteq C
  <2>1. rest \subseteq C
    OBVIOUS
  <2>2. rest \cap ToSet(context) = rest
    BY <2>1 DEF C
  <2> HIDE DEF rest
  <2> QED BY <1>2, <2>1, <2>2, AmongLists
<1>12. tail \in Seq(ContextRow) /\ IsInjective(tail) /\ ToSet(tail) = rest /\ Len(tail) \in Nat
       /\ DOMAIN tail = 1..Len(tail)
  <2> HIDE DEF rest
  <2>1. tail \in Seq(rest) /\ IsInjective(tail) /\ ToSet(tail) = rest
    BY <1>11 DEF Lists
  <2> HIDE DEF tail
  <2> QED BY <1>11, <2>1, SeqMonotonic
<1> HIDE DEF tail
<1>13. /\ context' \in Seq(ContextRow) /\ DOMAIN context' = 1..(Len(front) + Len(tail))
       /\ \A i \in 1..(Len(front) + Len(tail)) :
            context'[i] = IF i <= Len(front) THEN moved[i] ELSE tail[i - Len(front)]
  <2>1. /\ context' \in Seq(ContextRow) /\ Len(context') = Len(front) + Len(tail)
        /\ \A i \in 1..(Len(front) + Len(tail)) :
             context'[i] = IF i <= Len(front) THEN moved[i] ELSE tail[i - Len(front)]
    <3>1. /\ moved \o tail \in Seq(ContextRow) /\ Len(moved \o tail) = Len(moved) + Len(tail)
          /\ \A i \in 1..(Len(moved) + Len(tail)) :
               (moved \o tail)[i] = IF i <= Len(moved) THEN moved[i] ELSE tail[i - Len(moved)]
      BY <1>10, <1>12, ConcatProperties
    <3>2. Len(moved) = Len(front)
      BY <1>10
    <3> QED BY <1>4, <3>1, <3>2
  <2> QED BY <2>1
<1>14. /\ \A i \in 1..Len(front) : i \in DOMAIN context' /\ context'[i] = moved[i]
       /\ \A i \in 1..Len(tail) : /\ Len(front) + i \in DOMAIN context'
                                  /\ context'[Len(front) + i] = tail[i]
       /\ \A k \in DOMAIN context' :
            k \in 1..Len(front) \/ \E i \in 1..Len(tail) : k = Len(front) + i
  <2>1. \A i \in 1..Len(front) : i \in DOMAIN context' /\ context'[i] = moved[i]
    BY <1>7, <1>12, <1>13
  <2>2. ASSUME NEW i \in 1..Len(tail)
        PROVE  Len(front) + i \in DOMAIN context' /\ context'[Len(front) + i] = tail[i]
    <3>1. Len(front) + i \in 1..(Len(front) + Len(tail)) /\ ~(Len(front) + i <= Len(front))
          /\ (Len(front) + i) - Len(front) = i
      BY <1>7, <1>12
    <3> QED BY <1>13, <3>1
  <2>3. ASSUME NEW k \in DOMAIN context', k \notin 1..Len(front)
        PROVE  \E i \in 1..Len(tail) : k = Len(front) + i
    <3>1. k - Len(front) \in 1..Len(tail) /\ k = Len(front) + (k - Len(front))
      BY <1>7, <1>12, <1>13, <2>3
    <3> QED BY <3>1
  <2> QED BY <2>1, <2>2, <2>3
<1>15. \A i \in 1..Len(tail) : tail[i] \in rest /\ tail[i].row \notin ToSet(front)
  BY <1>12 DEF ToSet
<1>16. ContextShape'
  <2> SUFFICES ASSUME NEW k \in DOMAIN context', NEW m \in DOMAIN context',
                      context'[k].row = context'[m].row
               PROVE  k = m
    BY <1>13 DEF ContextShape, Shaped
  <2>1. CASE k \in 1..Len(front) /\ m \in 1..Len(front)
    <3>1. front[k] = front[m]
      BY <1>10, <1>14, <2>1
    <3> QED BY <1>6, <1>7, <2>1, <3>1 DEF IsInjective
  <2>2. CASE (k \in 1..Len(front)) # (m \in 1..Len(front))
    <3>1. ASSUME NEW i \in 1..Len(front), NEW j \in DOMAIN context', j \notin 1..Len(front)
          PROVE  context'[i].row # context'[j].row
      <4>1. PICK q \in 1..Len(tail) : j = Len(front) + q
        BY <1>14, <3>1
      <4>2. context'[j].row \notin ToSet(front)
        BY <1>14, <1>15, <4>1
      <4>3. context'[i].row \in ToSet(front)
        BY <1>7, <1>10, <1>14
      <4> QED BY <4>2, <4>3
    <3> QED BY <2>2, <3>1
  <2>3. CASE k \notin 1..Len(front) /\ m \notin 1..Len(front)
    <3>1. PICK i \in 1..Len(tail) : k = Len(front) + i
      BY <1>14, <2>3
    <3>2. PICK j \in 1..Len(tail) : m = Len(front) + j
      BY <1>14, <2>3
    <3>3. tail[i].row = tail[j].row
      BY <1>14, <3>1, <3>2
    <3>4. tail[i] = tail[j]
      BY <1>2, <1>11, <1>15, <3>3
    <3>5. i = j
      BY <1>12, <3>4 DEF IsInjective
    <3> QED BY <3>1, <3>2, <3>5
  <2> QED BY <2>1, <2>2, <2>3
<1>17. ToSet(context') = {Promoted(c) : c \in C \ rest} \cup rest
  <2>1. {moved[i] : i \in 1..Len(front)} = {Promoted(c) : c \in C \ rest}
    <3>1. \A i \in 1..Len(front) : of(front[i]) \in C \ rest
      BY <1>1, <1>7, <1>8
    <3>2. \A c \in C \ rest : \E i \in 1..Len(front) : of(front[i]) = c
      <4> SUFFICES ASSUME NEW c \in C \ rest PROVE \E i \in 1..Len(front) : of(front[i]) = c
        OBVIOUS
      <4>1. PICK i \in 1..Len(front) : front[i] = c.row
        BY <1>7 DEF ToSet
      <4>2. c.row \in InContext
        BY <1>2
      <4>3. of(front[i]) = c
        BY <1>2, <1>8, <4>1, <4>2
      <4> QED BY <4>3
    <3> QED BY <1>10, <3>1, <3>2
  <2>2. {tail[i] : i \in 1..Len(tail)} = rest
    BY <1>12 DEF ToSet
  <2>3. ToSet(context') = {moved[i] : i \in 1..Len(front)} \cup {tail[i] : i \in 1..Len(tail)}
    <3> DEFINE HT == {moved[i] : i \in 1..Len(front)} \cup {tail[i] : i \in 1..Len(tail)}
    <3>1. ToSet(context') = {context'[k] : k \in DOMAIN context'}
      BY DEF ToSet
    <3>2. \A k \in DOMAIN context' : context'[k] \in HT
      BY <1>14
    <3>3. \A x \in HT : \E k \in DOMAIN context' : context'[k] = x
      BY <1>14
    <3> QED BY <3>1, <3>2, <3>3
  <2> QED BY <2>1, <2>2, <2>3
<1>18. /\ InContext' = {d.row : d \in ToSet(context')}
       /\ \A o : RowsBy(o)' = {d.row : d \in {e \in ToSet(context') : e.origin = o}}
  BY RowsOfEntries DEF InContext, RowsBy
<1>19. \A c \in C : c \in ContextRow /\ c.origin # "caller" /\ c.origin \in Origins
  <2>1. \A c \in ContextRow : c.origin \in Origins
    BY DEF ContextRow
  <2> QED BY <1>1, <1>2, <2>1
<1>20. InContext' = InContext
  BY <1>2, <1>9, <1>11, <1>17, <1>18
<1>21. \A o \in {"scope", "label", "neighbour"} : RowsBy(o)' = RowsBy(o)
  <2> SUFFICES ASSUME NEW o \in {"scope", "label", "neighbour"} PROVE RowsBy(o)' = RowsBy(o)
    OBVIOUS
  <2>1. {e \in ToSet(context') : e.origin = o} = {e \in C : e.origin = o}
    <3>1. \A c \in C : Promoted(c).origin = o => Promoted(c) = c
      BY <1>9, <1>19
    <3>2. \A c \in C : c.origin = o => Promoted(c) = c
      BY <1>9, <1>19
    <3> QED BY <1>11, <1>17, <3>1, <3>2
  <2> QED BY <1>2, <1>18, <2>1
<1>22. RowsBy("fused")' \cup RowsBy("caller")' = RowsBy("fused") \cup RowsBy("caller")
  <2>1. RowsBy("fused")' \cup RowsBy("caller")'
          = {d.row : d \in {e \in ToSet(context') : e.origin \in {"fused", "caller"}}}
    BY <1>18
  <2>2. RowsBy("fused") \cup RowsBy("caller")
          = {d.row : d \in {e \in C : e.origin \in {"fused", "caller"}}}
    BY <1>2
  <2>3. \A c \in C : /\ Promoted(c).row = c.row
                     /\ Promoted(c).origin \in {"fused", "caller"} <=> c.origin \in {"fused", "caller"}
    BY <1>9, <1>19
  <2>4. \A e \in ToSet(context') : e.origin \in {"fused", "caller"} =>
           \E c \in C : c.origin \in {"fused", "caller"} /\ c.row = e.row
    BY <1>11, <1>17, <2>3
  <2>5. \A c \in C : c.origin \in {"fused", "caller"} =>
           \E e \in ToSet(context') : e.origin \in {"fused", "caller"} /\ c.row = e.row
    BY <1>11, <1>17, <2>3
  <2> QED BY <2>1, <2>2, <2>4, <2>5
<1>23. ASSUME NEW i \in 1..CallerK, i <= Cardinality(callerHits)
       PROVE  context'[i].row \in callerHits
  <2>1. i \in 1..Len(front)
    BY <1>1, <1>5, <1>6, <1>7, <1>23
  <2> QED BY <1>7, <1>10, <1>14, <2>1
<1> QED BY <1>16, <1>20, <1>21, <1>22, <1>23

\* The caller's hits to the front: every read stays as true as it was.
LEMMA PriorityKeepsContext ==
  ASSUME ContextInv, Prioritise
  PROVE  ContextInv'
<1>1. /\ phase = "caller" /\ phase' = "done" /\ asked' = asked /\ found' = found
      /\ callerHits' = callerHits /\ reads' = reads
      /\ chainEvidence' = chainEvidence /\ unread' = unread
  BY DEF Prioritise, ContextTo, searchVars, NoEvidence
<1>2. /\ ContextShape' /\ InContext' = InContext
      /\ \A o \in {"scope", "label", "neighbour"} : RowsBy(o)' = RowsBy(o)
      /\ RowsBy("fused")' \cup RowsBy("caller")' = RowsBy("fused") \cup RowsBy("caller")
      /\ \A i \in 1..CallerK : i <= Cardinality(callerHits) => context'[i].row \in callerHits
  BY CallerFirst
<1>3. \A o \in {"scope", "label", "neighbour"} : AddedBy(o)' = AddedBy(o)
  BY <1>2, ContextCounted DEF ContextInv
<1>4. BeforeLabels' = BeforeLabels /\ Anchors' = Anchors
  <2>1. BeforeLabels' = BeforeLabels
    BY <1>2, RowsNamed
  <2>2. Anchors' = Anchors
    <3>1. Anchors = {r \in InContext \ RowsBy("neighbour") : IsVerse(r)}
      BY RowsNamed DEF ContextInv
    <3>2. Anchors' = {r \in InContext' \ RowsBy("neighbour")' : IsVerse(r)}
      BY <1>2, RowsNamed
    <3> QED BY <1>2, <3>1, <3>2
  <2> QED BY <2>1, <2>2
<1>5. InTurn'
  BY <1>1 DEF ContextInv, InTurn, Searching, AfterReads
<1>6. ToReadHolds'
  BY <1>1 DEF ContextInv, ToReadHolds
<1>7. HitsHold' /\ WithinBudgets'
  BY <1>1, <1>2, <1>3 DEF ContextInv, HitsHold, WithinBudgets, Searching
<1>8. CutsHold'
  <2>1. ASSUME NEW e \in reads PROVE CutIsTold(e)'
    <3>1. CutIsTold(e) /\ e.kind \in ReadKinds
      BY DEF ContextInv, CutsHold, InTurn
    <3> QED BY <1>1, <1>2, <1>3, <1>4, <3>1, CutStays
  <2> QED BY <1>1, <1>3, <2>1 DEF ContextInv, CutsHold
<1>9. EndHolds'
  BY <1>1, <1>2 DEF ContextInv, EndHolds, EvidenceIsTold
<1> QED BY <1>2, <1>5, <1>6, <1>7, <1>8, <1>9 DEF ContextInv

LEMMA ContextInvInit == RetrievalInit => ContextInv
<1> SUFFICES ASSUME RetrievalInit PROVE ContextInv
  OBVIOUS
<1>1. /\ phase = "search" /\ context = <<>> /\ reads = {} /\ found = {} /\ callerHits = {}
  BY DEF RetrievalInit
<1>2. DOMAIN context = {} /\ context \in Seq(ContextRow)
  BY <1>1
<1>3. ContextShape
  BY <1>2 DEF ContextShape, Shaped
<1>4. \A o : RowsBy(o) = {} /\ AddedBy(o) = 0
  <2>1. \A o : RowsBy(o) = {}
    BY <1>2 DEF RowsBy, RowsIn
  <2> QED BY <1>3, <2>1, ContextCounted, FS_EmptySet
<1>5. InTurn
  BY <1>1, <1>4 DEF InTurn, Searching, AfterReads
<1>6. ToReadHolds
  <2> DEFINE L == {<<>>} \cup {<<l>> : l \in DOMAIN LabelRows} \cup SetToSeqs(DOMAIN LabelRows)
  <2>1. asked \in [surah : {0} \cup DOMAIN AyahCount, from : 0..1, labels : L]
    BY DEF RetrievalInit
  <2>2. \A q \in L : q \in Seq(DOMAIN LabelRows)
    <3>1. \A l \in DOMAIN LabelRows : <<l>> \in Seq(DOMAIN LabelRows)
      OBVIOUS
    <3>2. \A q \in SetToSeqs(DOMAIN LabelRows) : q \in Seq(DOMAIN LabelRows)
      BY SetToSeqsLists, RetrievalAssumption DEF Lists
    <3>3. <<>> \in Seq(DOMAIN LabelRows)
      OBVIOUS
    <3> QED BY <3>1, <3>2, <3>3
  <2> HIDE DEF L
  <2>3. asked \in [surah : {0} \cup DOMAIN AyahCount, from : 0..1, labels : Seq(DOMAIN LabelRows)]
    BY <2>1, <2>2
  <2> QED BY <1>1, <2>3 DEF ToReadHolds
<1>7. HitsHold /\ WithinBudgets /\ CutsHold /\ EndHolds
  BY <1>1, <1>4, RetrievalAssumption DEF HitsHold, WithinBudgets, CutsHold, EndHolds, Searching
<1> QED BY <1>3, <1>5, <1>6, <1>7 DEF ContextInv

LEMMA ContextInvNext == ContextInv /\ [RetrievalNext]_retrievalVars => ContextInv'
<1> SUFFICES ASSUME ContextInv, [RetrievalNext]_retrievalVars PROVE ContextInv'
  OBVIOUS
<1>1. CASE SearchTrack \/ Probe \/ GiveUpProbing
  BY <1>1, SearchKeepsContext
<1>2. CASE Fuse
  BY <1>2, FuseKeepsContext
<1>3. CASE ExpandNamed
  BY <1>3, NamedKeepsContext
<1>4. CASE CompleteSurah
  BY <1>4, CompletionKeepsContext
<1>5. CASE EndScopes
  BY <1>5, ScopesEndKeepsContext
<1>6. CASE LookUpLabel
  BY <1>6, LabelKeepsContext
<1>7. CASE ReadNeighbours
  BY <1>7, NeighboursKeepContext
<1>8. CASE ReadChains
  BY <1>8, ChainsKeepContext
<1>9. CASE Prioritise
  BY <1>9, PriorityKeepsContext
<1>10. CASE UNCHANGED retrievalVars
  <2>1. /\ phase' = phase /\ context' = context /\ asked' = asked /\ reads' = reads
        /\ pending' = pending /\ found' = found /\ callerHits' = callerHits
        /\ chainEvidence' = chainEvidence /\ unread' = unread
    BY <1>10 DEF retrievalVars, searchVars
  <2>2. ContextShape' /\ HitsHold' /\ WithinBudgets'
    BY <2>1, ContextSame DEF ContextInv, HitsHold, WithinBudgets
  <2>3. InTurn' /\ ToReadHolds'
    BY <2>1, ContextSame DEF ContextInv, InTurn, ToReadHolds
  <2>4. CutsHold'
    <3>1. ASSUME NEW e \in reads PROVE CutIsTold(e)'
      <4>1. CutIsTold(e) /\ e.kind \in ReadKinds
        BY DEF ContextInv, CutsHold, InTurn
      <4> QED BY <2>1, <4>1, CutStays, ContextSame
    <3> QED BY <2>1, <3>1, ContextSame DEF ContextInv, CutsHold
  <2>5. EndHolds'
    BY <2>1, ContextSame DEF ContextInv, EndHolds, EvidenceIsTold
  <2> QED BY <2>2, <2>3, <2>4, <2>5 DEF ContextInv
<1> QED BY <1>1, <1>2, <1>3, <1>4, <1>5, <1>6, <1>7, <1>8, <1>9, <1>10 DEF RetrievalNext

\* A search is never run twice, and a probe gives up a dimension of the filters.
CountInv ==
  /\ tried \subseteq intended /\ searched \in 0..(2 * SubQueries)
  /\ phase \in {"search", "probe"} => searched < 2 * SubQueries

LEMMA CountInvNext ==
  SearchInv /\ CountInv /\ [RetrievalNext]_retrievalVars => CountInv'
<1> SUFFICES ASSUME SearchInv, CountInv, [RetrievalNext]_retrievalVars PROVE CountInv'
  OBVIOUS
<1>1. SubQueries \in Nat /\ searched \in Nat /\ live \subseteq intended /\ live \subseteq Dimensions
  BY RetrievalAssumption DEF CountInv, SearchInv
<1>2. ASSUME NEW hits, NEW record, Conclude(hits, record), phase \in {"search", "probe"}
      PROVE  /\ searched' \in 0..(2 * SubQueries)
             /\ phase' \in {"search", "probe"} => searched' < 2 * SubQueries
  <2>1. searched' = searched + 1 /\ phase' = IF searched' = 2 * SubQueries THEN "fuse" ELSE "search"
    BY <1>2 DEF Conclude
  <2>2. searched < 2 * SubQueries
    BY <1>2 DEF CountInv
  <2> QED BY <1>1, <2>1, <2>2
<1>3. CASE SearchTrack
  <2>1. tried' = tried /\ intended' = intended /\ phase \in {"search", "probe"}
    BY <1>3 DEF SearchTrack, SearchFrame
  <2>2. (\E hits : Conclude(hits, live)) \/ searched' = searched
    BY <1>3 DEF SearchTrack
  <2> QED BY <1>2, <2>1, <2>2 DEF CountInv
<1>4. CASE Probe
  <2>1. tried' = tried \cup Dropped /\ intended' = intended /\ phase = "probe"
    BY <1>4 DEF Probe, SearchFrame
  <2>2. Dropped \subseteq live
    BY <1>1, NextUntriedIn DEF Dropped
  <2>3. /\ searched' \in 0..(2 * SubQueries)
        /\ phase' \in {"search", "probe"} => searched' < 2 * SubQueries
    <3>1. PICK hits \in HitSets : \/ Conclude(hits, live \ Dropped)
                                  \/ Conclude({}, live)
                                  \/ searched' = searched /\ phase' = phase
      BY <1>4 DEF Probe
    <3> QED BY <1>2, <2>1, <3>1 DEF CountInv
  <2> QED BY <1>1, <1>2, <2>1, <2>2, <2>3 DEF CountInv
<1>5. CASE GiveUpProbing
  <2>1. tried' = tried /\ intended' = intended /\ phase = "probe" /\ Conclude({}, live)
    BY <1>5 DEF GiveUpProbing, SearchFrame
  <2> QED BY <1>2, <2>1 DEF CountInv
<1>6. CASE \/ Fuse \/ ExpandNamed \/ CompleteSurah \/ EndScopes \/ LookUpLabel
           \/ ReadNeighbours \/ ReadChains \/ Prioritise
  <2>1. tried' = tried /\ intended' = intended /\ searched' = searched
    BY <1>6 DEF Fuse, ExpandNamed, CompleteSurah, EndScopes, LookUpLabel, ReadNeighbours,
                ReadChains, Prioritise, ContextTo, searchVars
  <2>2. phase' \notin {"search", "probe"}
    BY <1>6 DEF Fuse, ExpandNamed, CompleteSurah, EndScopes, LookUpLabel, ReadNeighbours,
                ReadChains, Prioritise, ContextTo
  <2> QED BY <2>1, <2>2, Zenon DEF CountInv
<1>7. CASE UNCHANGED retrievalVars
  BY <1>7 DEF retrievalVars, searchVars, CountInv
<1> QED BY <1>3, <1>4, <1>5, <1>6, <1>7 DEF RetrievalNext

\* Every state of a retrieval has the shape the model gives it: searches and probes are
\* counted, the caller's hits are hits, and only rows of the corpus come into the context
\* (createKajianQRetriever).
THEOREM RetrievalTypeCorrect == RetrievalSpec => []RetrievalTypeOK
<1>1. RetrievalInit => CountInv
  <2> SUFFICES ASSUME RetrievalInit PROVE CountInv
    OBVIOUS
  <2>1. SubQueries \in Nat \ {0} /\ searched = 0 /\ tried = {}
    BY RetrievalAssumption DEF RetrievalInit
  <2> QED BY <2>1 DEF CountInv
<1>2. SearchInv /\ ContextInv /\ CountInv => RetrievalTypeOK
  <2> SUFFICES ASSUME SearchInv, ContextInv, CountInv PROVE RetrievalTypeOK
    OBVIOUS
  <2>1. InContext \subseteq Stored
    BY ContextRows DEF ContextInv
  <2>2. phase \in {"search", "probe", "fuse", "scope", "complete", "labels",
                   "chains", "caller", "done"}
    BY DEF ContextInv, InTurn, Searching, AfterReads
  <2> QED BY <2>1, <2>2 DEF SearchInv, ContextInv, HitsHold, CountInv, RetrievalTypeOK
<1> QED BY <1>1, <1>2, SearchInvInit, SearchInvNext, ContextInvInit, ContextInvNext, CountInvNext,
           PTL DEF RetrievalSpec

\* The context a retrieval returns holds every hit and no row twice, the hits of the caller's
\* own query first; no read exceeds its budget, and whatever a read left out is told by its
\* event (expandSurahScope, expandRetrievedSurahScope, lookupCitationLabels,
\* expandVerseNeighbours, readChainEvidence, guaranteeCallerPriority).
THEOREM ContextTellsCuts == RetrievalSpec => []ContextTellsItsCuts
<1>1. ContextInv => ContextTellsItsCuts
  <2> SUFFICES ASSUME ContextInv, phase = "done" PROVE ContextTellsItsCuts
    BY DEF ContextTellsItsCuts
  <2>1. Cardinality(InContext) = Len(context)
    BY ContextRows DEF ContextInv
  <2>2. found \subseteq InContext
    BY DEF ContextInv, HitsHold, Searching
  <2> QED BY <2>1, <2>2 DEF ContextInv, WithinBudgets, CutsHold, EndHolds, ContextTellsItsCuts
<1> QED BY <1>1, ContextInvInit, ContextInvNext, PTL DEF RetrievalSpec

-----------------------------------------------------------------------------
(* The sample of a smoke. *)

\* The rank of a turn among those that pick grows with it.
LEMMA RankGrows ==
  ASSUME NEW P \in SUBSET Nat, IsFiniteSet(P), NEW m \in P, NEW n \in P, m < n
  PROVE  Rank(P, m) \in Nat /\ Rank(P, n) \in Nat /\ Rank(P, m) < Rank(P, n)
<1> DEFINE A == {k \in P : k < m}
           B == {k \in P : k < n}
<1>0. \A k \in P : k \in Nat
  OBVIOUS
<1>1. IsFiniteSet(A) /\ IsFiniteSet(B)
  BY FS_Subset
<1>2. Cardinality(A \cup {m}) = Cardinality(A) + 1 /\ IsFiniteSet(A \cup {m})
  <2>1. m \notin A
    BY <1>0
  <2> QED BY <1>1, <2>1, FS_AddElement
<1>3. A \cup {m} \subseteq B
  <2>1. \A k \in P : k < m => k < n
    BY <1>0
  <2> QED BY <2>1
<1>4. Cardinality(A \cup {m}) <= Cardinality(B)
  BY <1>1, <1>3, FS_Subset
<1>5. Cardinality(A) \in Nat /\ Cardinality(B) \in Nat
  BY <1>1, FS_CardinalityType
<1>6. Cardinality(A) < Cardinality(B)
  <2> HIDE DEF A, B
  <2> QED BY <1>2, <1>4, <1>5
<1> QED BY <1>5, <1>6 DEF Rank

\* Every place of the sample has its turn.
LEMMA RankReached ==
  ASSUME NEW P \in SUBSET Nat, IsFiniteSet(P), NEW k \in Nat, k < Cardinality(P)
  PROVE  \E n \in P : Rank(P, n) = k
<1> DEFINE Bad == {i \in Nat : i < Cardinality(P) /\ \A n \in P : Rank(P, n) # i}
<1>0. Cardinality(P) \in Nat /\ \A n \in P : n \in Nat
  BY FS_CardinalityType
<1>1. Bad = {}
  <2> SUFFICES ASSUME Bad # {} PROVE FALSE
    OBVIOUS
  <2>1. PICK i \in Bad : \A j \in Bad : i <= j
    BY MinOfNats
  <2>2. i \in Nat /\ i < Cardinality(P) /\ \A n \in P : Rank(P, n) # i
    OBVIOUS
  <2>3. CASE i = 0
    <3>1. P # {}
      BY <2>2, <2>3, FS_EmptySet
    <3>2. PICK n \in P : \A m \in P : n <= m
      BY <3>1, MinOfNats
    <3>3. {m \in P : m < n} = {}
      <4>1. \A m \in P : ~(m < n)
        BY <1>0, <3>2
      <4> QED BY <4>1
    <3>4. Rank(P, n) = 0
      BY <3>3, FS_EmptySet DEF Rank
    <3> QED BY <2>2, <2>3, <3>4
  <2>4. CASE i # 0
    <3>1. i - 1 \in Nat /\ i - 1 < Cardinality(P) /\ ~(i <= i - 1)
      BY <1>0, <2>2, <2>4
    <3>2. i - 1 \notin Bad
      BY <2>1, <3>1
    <3>3. PICK n \in P : Rank(P, n) = i - 1
      BY <3>1, <3>2
    <3> DEFINE A == {m \in P : m < n}
               Above == {m \in P : n < m}
    <3>4. IsFiniteSet(A) /\ Cardinality(A) = i - 1
      BY <3>3, FS_Subset DEF Rank
    <3>5. IsFiniteSet(A \cup {n}) /\ Cardinality(A \cup {n}) = i
      <4>1. n \notin A
        OBVIOUS
      <4>2. IsFiniteSet(A \cup {n}) /\ Cardinality(A \cup {n}) = Cardinality(A) + 1
        BY <3>4, <4>1, FS_AddElement
      <4> HIDE DEF A
      <4> QED BY <2>2, <3>4, <4>2
    <3>6. Above # {}
      <4> SUFFICES ASSUME Above = {} PROVE FALSE
        OBVIOUS
      <4>1. P = A \cup {n}
        <5>1. \A m \in P : m < n \/ m = n \/ n < m
          BY <1>0
        <5> QED BY <5>1
      <4>2. Cardinality(P) = i
        BY <3>5, <4>1
      <4> QED BY <2>2, <4>2, <1>0
    <3>7. PICK q \in Above : \A m \in Above : q <= m
      BY <3>6, MinOfNats
    <3>8. {m \in P : m < q} = A \cup {n}
      <4>1. q \in P /\ n < q
        BY <3>7
      <4>2. \A m \in P : n < m => ~(m < q)
        BY <1>0, <3>7
      <4>3. \A m \in P : m < n \/ m = n \/ n < m
        BY <1>0
      <4>4. \A m \in P : m < n => m < q
        BY <1>0, <4>1
      <4> QED BY <4>1, <4>2, <4>3, <4>4
    <3>9. Rank(P, q) = i
      BY <3>5, <3>8 DEF Rank
    <3> QED BY <2>2, <3>7, <3>9
  <2> QED BY <2>3, <2>4
<1> QED BY <1>1

\* The turns of a selection are sets of questions, the classes first.
LEMMA TurnsAre ==
  ASSUME NEW f \in Fixtures
  PROVE  /\ f \in Seq(ToSet(f)) /\ DOMAIN f = 1..Len(f) /\ Len(f) \in Nat
         /\ Turns(f) \in Seq(SUBSET DOMAIN f)
         /\ DOMAIN Coverage(f) \subseteq DOMAIN Turns(f)
         /\ \A n \in DOMAIN Coverage(f) : Turns(f)[n] = Coverage(f)[n]
<1>1. f \in Seq(ToSet(f)) /\ RequiredTags \in Seq(ToSet(RequiredTags))
  BY EvalAssumption
<1>2. DOMAIN f = 1..Len(f) /\ Len(f) \in Nat
  BY <1>1
<1> DEFINE S == SUBSET DOMAIN f
           a == <<{i \in DOMAIN f : f[i].behavior = "refuse"}>>
           b == [n \in DOMAIN RequiredTags |-> TagClass(f, RequiredTags[n])]
           c == <<{i \in DOMAIN f : f[i].language = "en"},
                  {i \in DOMAIN f : f[i].language = "id" /\ f[i].behavior = "answer"}>>
           d == [i \in DOMAIN f |-> {i}]
<1>3. a \in Seq(S) /\ c \in Seq(S)
  <2>1. {i \in DOMAIN f : f[i].behavior = "refuse"} \in S
    OBVIOUS
  <2>2. {i \in DOMAIN f : f[i].language = "en"} \in S
    OBVIOUS
  <2>3. {i \in DOMAIN f : f[i].language = "id" /\ f[i].behavior = "answer"} \in S
    OBVIOUS
  <2> HIDE DEF S
  <2> QED BY <2>1, <2>2, <2>3
<1>4. b \in Seq(S)
  <2>1. DOMAIN RequiredTags = 1..Len(RequiredTags) /\ Len(RequiredTags) \in Nat
    BY <1>1
  <2>2. b \in [1..Len(RequiredTags) -> S]
    BY <2>1 DEF TagClass
  <2> HIDE DEF S, b
  <2> QED BY <2>1, <2>2
<1>5. d \in Seq(S)
  <2>1. d \in [1..Len(f) -> S]
    BY <1>2
  <2> HIDE DEF S, d
  <2> QED BY <1>2, <2>1
<1>6. Coverage(f) = a \o b \o c
  BY DEF Coverage
<1>7. Coverage(f) \in Seq(S)
  <2> HIDE DEF S, a, b, c
  <2>1. a \o b \in Seq(S)
    BY <1>3, <1>4
  <2>2. (a \o b) \o c \in Seq(S)
    BY <1>3, <2>1
  <2> QED BY <1>6, <2>2
<1>8. Turns(f) = Coverage(f) \o d
  BY DEF Turns
<1> HIDE DEF S, d
<1>9. /\ Turns(f) \in Seq(S)
      /\ Len(Turns(f)) = Len(Coverage(f)) + Len(d)
      /\ \A n \in 1..Len(Turns(f)) :
           Turns(f)[n] = IF n <= Len(Coverage(f)) THEN Coverage(f)[n] ELSE d[n - Len(Coverage(f))]
  BY <1>5, <1>7, <1>8, ConcatProperties
<1>10. DOMAIN Coverage(f) = 1..Len(Coverage(f)) /\ DOMAIN Turns(f) = 1..Len(Turns(f))
       /\ Len(Coverage(f)) \in Nat /\ Len(d) \in Nat
  BY <1>5, <1>7, <1>9
<1>11. DOMAIN Coverage(f) \subseteq DOMAIN Turns(f)
       /\ \A n \in DOMAIN Coverage(f) : Turns(f)[n] = Coverage(f)[n]
  BY <1>9, <1>10
<1> QED BY <1>1, <1>2, <1>9, <1>11 DEF S

LEMMA PickingIs ==
  ASSUME NEW f \in Fixtures, NEW held_
  PROVE  LET P == Picking(f, held_)
         IN  /\ P \in SUBSET Nat /\ IsFiniteSet(P)
             /\ \A n \in P : Pick(f, held_, n) \in DOMAIN f \ held_
<1>1. DOMAIN Turns(f) = 1..Len(Turns(f)) /\ Len(Turns(f)) \in Nat
  BY TurnsAre
<1>2. Picking(f, held_) \subseteq 1..Len(Turns(f))
  BY <1>1 DEF Picking
<1>3. IsFiniteSet(Picking(f, held_))
  <2>1. IsFiniteSet(1..Len(Turns(f)))
    BY <1>1, FS_Interval
  <2> QED BY <1>2, <2>1, FS_Subset
<1>4. ASSUME NEW n \in Picking(f, held_)
      PROVE  Pick(f, held_, n) \in DOMAIN f \ held_
  <2>1. Eligible(f, held_, n) # {} /\ Eligible(f, held_, n) \subseteq DOMAIN f \ held_
    BY DEF Picking, Eligible, Available
  <2>2. DOMAIN f \subseteq Nat
    BY TurnsAre
  <2> QED BY <2>1, <2>2, MinOfNats DEF Pick
<1> QED BY <1>1, <1>2, <1>3, <1>4

\* A sample is a sequence of the fixture's questions, and has the picks of the classes.
LEMMA FilledIs ==
  ASSUME NEW f \in Fixtures, NEW held_, NEW size \in Nat
  PROVE  /\ Filled(f, held_, size) \in Seq(DOMAIN f)
         /\ ByClass(f, held_, size) \subseteq ToSet(Filled(f, held_, size))
<1> DEFINE P == Picking(f, held_)
           N == Min({size, Cardinality(P)})
           At_(k) == CHOOSE n \in P : Rank(P, n) = k - 1
<1>1. P \in SUBSET Nat /\ IsFiniteSet(P) /\ \A n \in P : Pick(f, held_, n) \in DOMAIN f
  BY PickingIs
<1> HIDE DEF P
<1>2. Cardinality(P) \in Nat
  BY <1>1, FS_CardinalityType
<1>3. N = IF size <= Cardinality(P) THEN size ELSE Cardinality(P)
  BY <1>2 DEF Min
<1> HIDE DEF N
<1>4. N \in Nat
  BY <1>2, <1>3
<1>5. Filled(f, held_, size) = [k \in 1..N |-> Pick(f, held_, At_(k))]
  BY DEF Filled, N, P
<1>6. \A k \in 1..N : At_(k) \in P /\ Rank(P, At_(k)) = k - 1
  <2> TAKE k \in 1..N
  <2>1. k - 1 \in Nat /\ k - 1 < Cardinality(P)
    BY <1>2, <1>3, <1>4
  <2>2. \E n \in P : Rank(P, n) = k - 1
    BY <1>1, <2>1, RankReached
  <2> QED BY <2>2
<1> HIDE DEF At_
<1>7. Filled(f, held_, size) \in [1..N -> DOMAIN f]
  BY <1>1, <1>5, <1>6
<1>8. Filled(f, held_, size) \in Seq(DOMAIN f)
  BY <1>4, <1>7
<1>9. ASSUME NEW n \in P, Rank(P, n) < size
      PROVE  Pick(f, held_, n) \in ToSet(Filled(f, held_, size))
  <2> DEFINE A == {m \in P : m < n}
  <2>1. IsFiniteSet(A) /\ Cardinality(A) <= Cardinality(P) /\ Cardinality(A) \in Nat
        /\ Rank(P, n) = Cardinality(A)
    BY <1>1, FS_Subset, FS_CardinalityType DEF Rank
  <2>2. Cardinality(A) # Cardinality(P)
    <3>1. n \in P /\ n \notin A /\ A \subseteq P
      BY <1>1
    <3> HIDE DEF A
    <3> QED BY <1>1, <3>1, FS_Subset
  <2> HIDE DEF A
  <2>3. Rank(P, n) + 1 \in 1..N
    BY <1>2, <1>3, <1>9, <2>1, <2>2
  <2> DEFINE k == Rank(P, n) + 1
  <2>4. k \in 1..N /\ k - 1 = Rank(P, n)
    BY <2>1, <2>3
  <2> HIDE DEF k
  <2>5. At_(k) \in P /\ Rank(P, At_(k)) = Rank(P, n)
    BY <1>6, <2>4
  <2>6. At_(k) = n
    <3> DEFINE m == At_(k)
    <3>1. m \in P /\ n \in P /\ Rank(P, m) = Rank(P, n) /\ m \in Nat /\ n \in Nat
      BY <1>1, <2>5
    <3> HIDE DEF m
    <3>2. \A i \in P : \A j \in P : i < j => Rank(P, i) < Rank(P, j) /\ Rank(P, i) \in Nat
      BY <1>1, RankGrows
    <3>3. ~(m < n) /\ ~(n < m)
      BY <3>1, <3>2
    <3>4. m = n
      BY <3>1, <3>3
    <3> QED BY <3>4 DEF m
  <2> QED BY <1>5, <1>7, <2>4, <2>6 DEF ToSet
<1>10. ByClass(f, held_, size) \subseteq ToSet(Filled(f, held_, size))
  BY <1>9 DEF ByClass, P
<1> QED BY <1>8, <1>10

-----------------------------------------------------------------------------
(* The score of a reply. *)

\* What passes deserves to.  A reply that is no refusal, to a question with source types,
\* passes only with its trace, so that its citations are those the passages bear out.
LEMMA PassesDeserves ==
  ASSUME NEW x, WellFormed(x), NEW r \in Replies, Passes(x, r, r.meta)
  PROVE  Deserves(x, r)
<1>1. r.frame \in BOOLEAN /\ r.meta \in BOOLEAN /\ r.refused \in BOOLEAN
  BY DEF Replies
<1>2. IF x.behavior = "answer" THEN ~r.refused ELSE r.refused \/ Attested(r) # {}
  BY DEF Passes, BehaviorAccepted, Grounded
<1>3. Retrieved(r, r.meta) \subseteq r.hits
  BY DEF Retrieved
<1>4. x.types \subseteq {TypeOf[l] : l \in r.hits}
  BY <1>3 DEF Passes, TypesRecalled
<1>5. Present(r, r.meta) \subseteq Basis(x, r)
  <2>1. CASE x.types # {} /\ ~r.refused
    <3>1. r.meta
      <4> SUFFICES ASSUME ~r.meta PROVE FALSE
        OBVIOUS
      <4>1. Retrieved(r, r.meta) = {}
        BY DEF Retrieved
      <4> QED BY <2>1, <4>1 DEF Passes, TypesRecalled
    <3> QED BY <2>1, <3>1 DEF Present, HasEvidence, Basis
  <2>2. CASE ~(x.types # {} /\ ~r.refused)
    BY <2>2 DEF Present, Attested, Basis
  <2> QED BY <2>1, <2>2
<1>6. ASSUME NEW l \in x.required
      PROVE  \E p \in Basis(x, r) : p = l \/ p \in x.alternatives \/ IdentityOf[p] = IdentityOf[l]
  BY <1>5, <1>6 DEF Passes, CitationsValid
<1> QED BY <1>2, <1>4, <1>6 DEF Deserves

-----------------------------------------------------------------------------
(* The client. *)

PlanOK ==
  plan \in [kind : {"smoke"}, paper : Fixtures, held : HeldOuts, size : Sizes]
           \cup [kind : {"full"}, paper : Fixtures, held : {{}}, size : {0}]

\* The outcome about to be saved is the next question's, and a pass was earned.
OutcomeHolds ==
  step = "save" => outcome.at = Here /\ (outcome.passed => Here \in earned)

\* A pass was earned, and as long as every result is one, the ledger is the report.
ResultsHold ==
  /\ \A i \in DOMAIN results : results[i].passed => i \in earned
  /\ (\A i \in DOMAIN results : results[i].passed) =>
       /\ Len(ledger) = Len(results)
       /\ \A i \in DOMAIN results :
            ledger[i] = [at |-> i, passed |-> TRUE, skipped |-> results[i].skipped]

\* Where the cap and the row of the run stand at each step.
CapHolds ==
  WouldExceed(billed) =>
    step \in {"report", "exit", "green", "red"} /\ Len(results) < Len(sample)
AllAnswered == Len(results) < Len(sample) => WouldExceed(billed)
RowHolds ==
  /\ step \in {"report", "exit", "green"} => AllAnswered
  /\ runRow = "final" => AllAnswered /\ step \in {"exit", "green", "red"}
  /\ step \in {"exit", "green"} => runRow = "final"

SampleHolds ==
  step \notin {"select", "red"} /\ plan.kind = "smoke" =>
    Covers(ToSet(sample), plan.paper, plan.held)

ExitHolds ==
  step = "green" =>
    /\ \A i \in DOMAIN results : results[i].passed /\ ~results[i].skipped
    /\ Len(results) = Len(sample)

EvalInv ==
  /\ EvalTypeOK /\ PlanOK /\ LedgerAgreesWithReport /\ OutcomeHolds /\ ResultsHold
  /\ CapHolds /\ RowHolds /\ SampleHolds /\ ExitHolds

OutcomeRow == [at : Nat \ {0}, passed : BOOLEAN, skipped : BOOLEAN]
ResultRow == [at : Nat \ {0}, passed : BOOLEAN, skipped : BOOLEAN, noted : BOOLEAN]

LEMMA EvalInvInit == EvalInit => EvalInv
<1> SUFFICES ASSUME EvalInit PROVE EvalInv
  OBVIOUS
<1> USE DEF EvalInit
<1>1. sample = <<>> /\ results = <<>> /\ ledger = <<>> /\ Len(<<>>) = 0 /\ DOMAIN results = {}
      /\ DOMAIN ledger = {}
  OBVIOUS
<1>2. ~WouldExceed(billed)
  BY EvalAssumption DEF WouldExceed
<1>3. EvalTypeOK
  <2>1. /\ sample \in Seq(DOMAIN plan.paper) /\ results \in Seq(ResultRow)
        /\ ledger \in Seq(OutcomeRow)
    BY <1>1
  <2>2. outcome \in [at : Nat, passed : BOOLEAN, skipped : BOOLEAN]
    BY DEF NoOutcome
  <2>3. retried \in 0..RetryBudget /\ billed \in Nat /\ earned \subseteq Nat
    BY EvalAssumption
  <2>4. {unready, capped, unbilled} \subseteq BOOLEAN
    OBVIOUS
  <2> QED BY <2>1, <2>2, <2>3, <2>4 DEF EvalTypeOK, OutcomeRow, ResultRow
<1>4. PlanOK
  BY DEF PlanOK
<1>5. LedgerAgreesWithReport
  BY <1>1 DEF LedgerAgreesWithReport
<1>6. ResultsHold
  BY <1>1 DEF ResultsHold
<1> QED BY <1>2, <1>3, <1>4, <1>5, <1>6
        DEF EvalInv, OutcomeHolds, CapHolds, RowHolds, SampleHolds, ExitHolds

\* A step that adds no result keeps what the results and the ledger say.
LEMMA NoResultKeeps ==
  ASSUME EvalInv, UNCHANGED <<plan, results, ledger>>, earned \subseteq earned'
  PROVE  /\ ResultsHold' /\ PlanOK'
         /\ \A i \in DOMAIN results' :
              /\ results'[i].at = i
              /\ results'[i].noted => ~results'[i].passed
              /\ ~results'[i].noted => \E n \in DOMAIN ledger' :
                   ledger'[n] = [at |-> i, passed |-> results'[i].passed,
                                 skipped |-> results'[i].skipped]
         /\ \A n \in DOMAIN ledger' :
              /\ ledger'[n].at \in DOMAIN results'
              /\ \A m \in 1..(n - 1) : ledger'[m].at # ledger'[n].at
BY DEF EvalInv, ResultsHold, LedgerAgreesWithReport, PlanOK

\* The sample is chosen, whole for the gate and covering for the smoke.
LEMMA SelectKeeps ==
  ASSUME EvalInv, SelectSample
  PROVE  EvalInv'
<1> USE DEF EvalInv
<1>1. /\ step = "select" /\ UNCHANGED <<plan, results, ledger, outcome, runRow, billed, capped,
                                        earned, retried, unready, unbilled>>
  BY DEF SelectSample, GateFrame
<1>2. \/ /\ plan.kind = "full" /\ sample' = [i \in DOMAIN plan.paper |-> i] /\ step' = "create"
      \/ /\ plan.kind = "smoke" /\ step' = "health"
         /\ Selectable(plan.paper, plan.held, plan.size)
         /\ sample' = Filled(plan.paper, plan.held, plan.size)
      \/ plan.kind = "smoke" /\ step' = "red" /\ UNCHANGED sample
  BY DEF SelectSample, To
<1>3. plan.paper \in Fixtures /\ (plan.kind = "smoke" => plan.size \in Nat)
      /\ plan.kind \in {"smoke", "full"}
  BY EvalAssumption DEF PlanOK
<1>4. ~WouldExceed(billed) /\ runRow # "final"
  BY <1>1 DEF CapHolds, RowHolds
<1>5. sample' \in Seq(DOMAIN plan.paper)
  <2>1. ASSUME sample' = [i \in DOMAIN plan.paper |-> i] PROVE sample' \in Seq(DOMAIN plan.paper)
    <3>1. DOMAIN plan.paper = 1..Len(plan.paper) /\ Len(plan.paper) \in Nat
      BY <1>3, TurnsAre
    <3> QED BY <2>1, <3>1
  <2> QED BY <1>2, <1>3, <2>1, FilledIs DEF EvalTypeOK
<1>6. EvalTypeOK'
  BY <1>1, <1>2, <1>5 DEF EvalTypeOK
<1>7. SampleHolds'
  <2>1. ASSUME Selectable(plan.paper, plan.held, plan.size), plan.kind = "smoke",
               sample' = Filled(plan.paper, plan.held, plan.size)
        PROVE  Covers(ToSet(sample'), plan.paper, plan.held)
    <3>1. Covers(ByClass(plan.paper, plan.held, plan.size), plan.paper, plan.held)
      BY <2>1 DEF Selectable
    <3>2. ByClass(plan.paper, plan.held, plan.size) \subseteq ToSet(sample')
      BY <1>3, <2>1, FilledIs
    <3> QED BY <3>1, <3>2 DEF Covers
  <2>2. plan.kind = "smoke" /\ step' # "red" => Covers(ToSet(sample'), plan.paper, plan.held)
    BY <1>2, <1>3, <2>1
  <2> QED BY <1>1, <2>2 DEF SampleHolds
<1>8. LedgerAgreesWithReport'
  <2>1. WouldExceed(billed)' <=> WouldExceed(billed)
    BY <1>1 DEF WouldExceed
  <2> QED BY <1>1, <1>4, <2>1, NoResultKeeps DEF LedgerAgreesWithReport
<1>9. OutcomeHolds' /\ ResultsHold' /\ PlanOK' /\ ExitHolds'
  BY <1>1, <1>2, NoResultKeeps DEF OutcomeHolds, ExitHolds
<1>10. CapHolds' /\ RowHolds'
  BY <1>1, <1>2, <1>4 DEF CapHolds, RowHolds, WouldExceed, AllAnswered
<1> QED BY <1>6, <1>7, <1>8, <1>9, <1>10

\* What a step before or after the questions does.
LEMMA FrameKeepsEval ==
  ASSUME EvalInv, AwaitHealth \/ CreateRun \/ StopAsking \/ RefreshRun \/ Exit
  PROVE  EvalInv'
<1> USE DEF EvalInv
<1>1. /\ UNCHANGED <<plan, sample, results, ledger, outcome, billed, earned, retried, unready,
                     unbilled>>
      /\ step \notin {"select", "save", "green", "red"} /\ step' \notin {"select", "save"}
      /\ capped' \in {capped, TRUE}
  BY DEF AwaitHealth, CreateRun, StopAsking, RefreshRun, Exit, ClientFrame, GateFrame, To
<1>2. /\ step' \in {"create", "ask", "report", "exit", "green", "red"}
      /\ runRow' \in {"none", "pending", "final"}
  BY <1>1 DEF AwaitHealth, CreateRun, StopAsking, RefreshRun, Exit, ClientFrame, To, EvalTypeOK
<1>3. EvalTypeOK'
  BY <1>1, <1>2 DEF EvalTypeOK
<1>4. (WouldExceed(billed)' <=> WouldExceed(billed)) /\ (AllAnswered' <=> AllAnswered)
  BY <1>1 DEF WouldExceed, AllAnswered
<1>5. RowHolds'
  <2>1. CASE StopAsking
    <3>1. Len(results) \in Nat /\ Len(sample) \in Nat
      BY DEF EvalTypeOK
    <3>2. AllAnswered
      BY <2>1, <3>1 DEF StopAsking, Here, AllAnswered
    <3>3. step = "ask" /\ step' = "report" /\ runRow' = runRow
      BY <2>1 DEF StopAsking, To, ClientFrame
    <3> QED BY <1>4, <3>2, <3>3 DEF RowHolds
  <2>2. CASE AwaitHealth \/ CreateRun
    BY <1>4, <2>2 DEF RowHolds, AwaitHealth, CreateRun, ClientFrame, To
  <2>3. CASE RefreshRun \/ Exit
    BY <1>4, <2>3 DEF RowHolds, RefreshRun, Exit, ClientFrame, To
  <2> QED BY <2>1, <2>2, <2>3
<1>6. CapHolds'
  <2>1. ASSUME WouldExceed(billed)
        PROVE  step' \in {"report", "exit", "green", "red"}
    <3>1. step \in {"report", "exit"}
      BY <1>1, <2>1 DEF CapHolds
    <3> QED BY <3>1 DEF AwaitHealth, CreateRun, StopAsking, RefreshRun, Exit, To
  <2> QED BY <1>1, <1>4, <2>1 DEF CapHolds
<1>7. LedgerAgreesWithReport'
  <2>1. runRow' = "final" => AllAnswered
    BY <1>4, <1>5 DEF RowHolds
  <2> QED BY <1>1, <1>4, <2>1, NoResultKeeps DEF LedgerAgreesWithReport, AllAnswered
<1>8. SampleHolds'
  BY <1>1 DEF SampleHolds
<1>9. ExitHolds'
  <2>1. CASE Exit
    <3>1. step' = "green" => /\ \A i \in DOMAIN results : results[i].passed /\ ~results[i].skipped
                             /\ Len(results) = Len(sample)
      BY <2>1 DEF Exit, To
    <3> QED BY <1>1, <3>1 DEF ExitHolds
  <2>2. CASE ~Exit
    <3>1. step' # "green"
      BY <2>2 DEF AwaitHealth, CreateRun, StopAsking, RefreshRun, To
    <3> QED BY <3>1 DEF ExitHolds
  <2> QED BY <2>1, <2>2
<1>10. OutcomeHolds' /\ ResultsHold' /\ PlanOK'
  BY <1>1, NoResultKeeps DEF OutcomeHolds
<1> QED BY <1>3, <1>5, <1>6, <1>7, <1>8, <1>9, <1>10

\* What a question asked makes of the client before its outcome is saved.
LEMMA AskKeeps ==
  ASSUME EvalInv, MayAsk,
         UNCHANGED <<plan, sample, results, ledger, runRow>>,
         step' \in {"ask", "save", "report"},
         billed' \in Nat, retried' \in 0..RetryBudget, unready' \in BOOLEAN, capped' \in BOOLEAN,
         unbilled' \in BOOLEAN, earned' \in {earned, earned \cup {Here}},
         unready' => retried' = RetryBudget /\ plan.kind = "smoke",
         outcome' \in [at : Nat, passed : BOOLEAN, skipped : BOOLEAN],
         step' = "save" => outcome'.at = Here /\ (outcome'.passed => Here \in earned'),
         step' # "report" => ~WouldExceed(billed'),
         step' = "report" => WouldExceed(billed')
  PROVE  EvalInv'
<1> USE DEF EvalInv
<1>1. step = "ask" /\ Here <= Len(sample) /\ Here = Len(results) + 1 /\ Here' = Here
  BY DEF MayAsk, Here
<1>2. Len(results) \in Nat /\ Len(sample) \in Nat
  BY DEF EvalTypeOK
<1>3. Len(results) < Len(sample)
  BY <1>1, <1>2
<1>4. runRow # "final" /\ runRow' # "final"
  BY <1>1 DEF RowHolds
<1>5. EvalTypeOK'
  <2>1. earned' \subseteq Nat
    BY <1>1, <1>2 DEF EvalTypeOK
  <2> QED BY <2>1 DEF EvalTypeOK
<1>6. WouldExceed(billed)' <=> WouldExceed(billed')
  BY DEF WouldExceed
<1>7. CapHolds' /\ RowHolds'
  BY <1>3, <1>4, <1>6 DEF CapHolds, RowHolds, AllAnswered
<1>8. LedgerAgreesWithReport'
  BY <1>4, NoResultKeeps DEF LedgerAgreesWithReport
<1>9. SampleHolds' /\ ExitHolds'
  BY <1>1 DEF SampleHolds, ExitHolds
<1>10. OutcomeHolds' /\ ResultsHold' /\ PlanOK'
  BY <1>1, NoResultKeeps DEF OutcomeHolds
<1> QED BY <1>5, <1>7, <1>8, <1>9, <1>10

\* The question asked is one of the Golden Set.
LEMMA QuestionWellFormed ==
  ASSUME EvalInv, MayAsk
  PROVE  WellFormed(Question)
<1>1. Here \in DOMAIN sample
  <2>1. Len(results) \in Nat /\ sample \in Seq(DOMAIN plan.paper) /\ Here <= Len(sample)
    BY DEF EvalInv, EvalTypeOK, MayAsk
  <2> QED BY <2>1 DEF Here
<1>2. sample[Here] \in DOMAIN plan.paper /\ plan.paper \in Fixtures
  BY <1>1 DEF EvalInv, EvalTypeOK, PlanOK
<1> QED BY <1>2, EvalAssumption DEF Question

LEMMA ScoreKeeps ==
  ASSUME EvalInv, MayAsk, NEW s \in Scores(Question), NEW cost \in Nat, Score(s, cost)
  PROVE  EvalInv'
<1>1. /\ UNCHANGED <<plan, sample, results, ledger, runRow, capped, retried, unready, unbilled>>
      /\ billed' = billed + cost /\ ~WouldExceed(billed') /\ step' = "save"
      /\ outcome' = [at |-> Here, skipped |-> FALSE, passed |-> s.passed]
      /\ earned' = IF s.deserved THEN earned \cup {Here} ELSE earned
  BY DEF Score, ClientFrame, GateFrame, To
<1>2. PICK r \in Replies :
        s = [passed |-> Passes(Question, r, r.meta), deserved |-> Deserves(Question, r),
             seen |-> r.meta]
  BY DEF Scores
<1>3. Passes(Question, r, r.meta) => Deserves(Question, r)
  BY QuestionWellFormed, PassesDeserves
<1>4. s.passed = Passes(Question, r, r.meta) /\ s.deserved = Deserves(Question, r)
  <2> DEFINE p == Passes(Question, r, r.meta)
             d == Deserves(Question, r)
  <2>1. s = [passed |-> p, deserved |-> d, seen |-> r.meta]
    BY <1>2
  <2> HIDE DEF p, d
  <2>2. s.passed = p /\ s.deserved = d
    BY <2>1
  <2> QED BY <2>2 DEF p, d
<1>5. s.passed \in BOOLEAN
  <2> DEFINE p == Passes(Question, r, r.meta)
  <2>1. p \in BOOLEAN
    BY Zenon DEF Passes
  <2>2. s.passed = p
    BY <1>4
  <2> HIDE DEF p
  <2> QED BY <2>1, <2>2
<1>6. s.passed => s.deserved
  BY <1>3, <1>4, Zenon
<1>7. /\ outcome'.at = Here /\ outcome'.passed = s.passed
      /\ outcome' \in [at : Nat, passed : BOOLEAN, skipped : BOOLEAN]
  <2>1. Here \in Nat
    BY DEF Here, EvalInv, EvalTypeOK
  <2> QED BY <1>1, <1>5, <2>1
<1>8. outcome'.passed => Here \in earned'
  <2>1. s.passed => Here \in earned'
    BY <1>1, <1>6
  <2>2. outcome'.passed = s.passed
    BY <1>7
  <2> QED BY <2>1, <2>2, Zenon
<1>9. /\ billed' \in Nat /\ retried' \in 0..RetryBudget /\ unready' \in BOOLEAN
      /\ capped' \in BOOLEAN /\ unbilled' \in BOOLEAN
      /\ (unready' => retried' = RetryBudget /\ plan.kind = "smoke")
  BY <1>1 DEF EvalInv, EvalTypeOK, LedgerAgreesWithReport
<1>10. earned' \in {earned, earned \cup {Here}}
  BY <1>1
<1> QED BY <1>1, <1>7, <1>8, <1>9, <1>10, AskKeeps

LEMMA UnscoredKeeps ==
  ASSUME EvalInv,
         \/ BreakOff \/ FailFast \/ \E paid \in BOOLEAN : Reject(paid)
         \/ \E cost \in Costs : LoseTrace(cost) \/ StopAtCap(cost)
  PROVE  EvalInv'
<1>0. /\ billed \in Nat /\ retried \in 0..RetryBudget /\ unready \in BOOLEAN
      /\ capped \in BOOLEAN /\ unbilled \in BOOLEAN /\ RetryBudget \in Nat
      /\ (unready => retried = RetryBudget /\ plan.kind = "smoke")
      /\ outcome \in [at : Nat, passed : BOOLEAN, skipped : BOOLEAN]
      /\ plan.kind \in {"smoke", "full"}
  BY EvalAssumption DEF EvalInv, EvalTypeOK, LedgerAgreesWithReport, PlanOK
<1>1. /\ Skipped \in [at : Nat, passed : BOOLEAN, skipped : BOOLEAN]
      /\ Skipped.at = Here /\ ~Skipped.passed
  <2>1. Here \in Nat
    BY DEF Here, EvalInv, EvalTypeOK
  <2> QED BY <2>1 DEF Skipped
<1>2. CASE BreakOff \/ FailFast
  <2>1. /\ MayAsk /\ UNCHANGED <<plan, sample, results, ledger, runRow, billed, capped, earned,
                                retried, unready, unbilled>>
        /\ outcome' = Skipped /\ step' = "save"
    BY <1>2 DEF BreakOff, FailFast, Skip, To, ClientFrame, GateFrame
  <2>2. ~WouldExceed(billed')
    BY <2>1 DEF MayAsk
  <2> QED BY <1>0, <1>1, <2>1, <2>2, AskKeeps
<1>3. ASSUME NEW paid \in BOOLEAN, Reject(paid)
      PROVE  EvalInv'
  <2>1. /\ MayAsk /\ step = "ask"
        /\ UNCHANGED <<plan, sample, results, ledger, runRow, billed, capped, earned>>
        /\ IF plan.kind = "smoke" /\ retried < RetryBudget
             THEN /\ retried' = retried + 1 /\ unbilled' = (unbilled \/ paid)
                  /\ UNCHANGED <<unready, outcome, step>>
             ELSE /\ unready' = (plan.kind = "smoke") /\ outcome' = Skipped /\ step' = "save"
                  /\ UNCHANGED <<retried, unbilled>>
    BY <1>3 DEF Reject, MayAsk, Skip, To, ClientFrame
  <2>2. ~WouldExceed(billed')
    BY <2>1 DEF MayAsk
  <2>3. CASE plan.kind = "smoke" /\ retried < RetryBudget
    <3>1. /\ retried' \in 0..RetryBudget /\ unbilled' \in BOOLEAN /\ unready' = unready
          /\ outcome' = outcome /\ step' = "ask" /\ ~unready
      BY <1>0, <2>1, <2>3
    <3> QED BY <1>0, <2>1, <2>2, <3>1, AskKeeps
  <2>4. CASE ~(plan.kind = "smoke" /\ retried < RetryBudget)
    <3>1. /\ unready' = (plan.kind = "smoke") /\ outcome' = Skipped /\ step' = "save"
          /\ UNCHANGED <<retried, unbilled>>
      BY <2>1, <2>4
    <3>2. unready' \in BOOLEAN
      BY <3>1
    <3>3. unready' => plan.kind = "smoke"
      BY <3>1, Zenon
    <3>4. unready' => retried' = RetryBudget /\ plan.kind = "smoke"
      <4>1. plan.kind = "smoke" => retried = RetryBudget
        BY <1>0, <2>4
      <4> QED BY <3>1, <3>3, <4>1
    <3> QED BY <1>0, <1>1, <2>1, <2>2, <3>1, <3>2, <3>4, AskKeeps
  <2> QED BY <2>3, <2>4
<1>4. ASSUME NEW cost \in Costs, LoseTrace(cost)
      PROVE  EvalInv'
  <2>1. /\ MayAsk /\ UNCHANGED <<plan, sample, results, ledger, runRow, capped, earned,
                                retried, unready, unbilled>>
        /\ outcome' = Skipped /\ step' = "save" /\ ~WouldExceed(billed')
        /\ billed' \in {billed, billed + cost}
    BY <1>4 DEF LoseTrace, Skip, To, ClientFrame, GateFrame
  <2>2. billed' \in Nat
    BY <1>0, <2>1 DEF Costs
  <2> QED BY <1>0, <1>1, <2>1, <2>2, AskKeeps
<1>5. ASSUME NEW cost \in Costs, StopAtCap(cost)
      PROVE  EvalInv'
  <2>1. /\ MayAsk /\ UNCHANGED <<plan, sample, results, ledger, runRow, outcome, earned,
                                retried, unready, unbilled>>
        /\ capped' = TRUE /\ step' = "report" /\ WouldExceed(billed') /\ billed' = billed + cost
    BY <1>5 DEF StopAtCap, To, ClientFrame, GateFrame
  <2>2. billed' \in Nat
    BY <1>0, <2>1 DEF Costs
  <2> QED BY <1>0, <2>1, <2>2, AskKeeps
<1> QED BY <1>2, <1>3, <1>4, <1>5

\* A result and its row: one more of each, or a note that the row may be missing.
LEMMA SaveKeeps ==
  ASSUME EvalInv, SaveResult \/ FailSave
  PROVE  EvalInv'
<1> USE DEF EvalInv
<1>1. /\ step = "save" /\ step' = "ask" /\ outcome' = NoOutcome
      /\ UNCHANGED <<plan, sample, runRow, billed, capped, earned, retried, unready, unbilled>>
      /\ \/ ledger' = Append(ledger, outcome) /\ results' = Append(results, Result(outcome, FALSE))
         \/ /\ ledger' \in {ledger, Append(ledger, outcome)}
            /\ results' = Append(results, Result([outcome EXCEPT !.passed = FALSE], TRUE))
  BY DEF SaveResult, FailSave, To, GateFrame
<1>2. PICK r : /\ results' = Append(results, r)
              /\ \/ r = Result(outcome, FALSE) /\ ledger' = Append(ledger, outcome)
                 \/ /\ r = Result([outcome EXCEPT !.passed = FALSE], TRUE)
                    /\ ledger' \in {ledger, Append(ledger, outcome)}
  BY <1>1
<1> DEFINE n == Len(results) + 1
<1>3. /\ outcome.at = n /\ n \in Nat \ {0} /\ outcome.passed \in BOOLEAN
      /\ outcome.skipped \in BOOLEAN /\ (outcome.passed => n \in earned)
      /\ outcome = [at |-> n, passed |-> outcome.passed, skipped |-> outcome.skipped]
  BY <1>1 DEF OutcomeHolds, Here, EvalTypeOK
<1>4. outcome \in OutcomeRow
  BY <1>3 DEF OutcomeRow
<1>5. /\ r.at = n /\ r.skipped = outcome.skipped /\ r \in ResultRow
      /\ \/ r.noted = FALSE /\ r.passed = outcome.passed /\ ledger' = Append(ledger, outcome)
         \/ /\ r.noted = TRUE /\ r.passed = FALSE
            /\ ledger' \in {ledger, Append(ledger, outcome)}
  <2>1. CASE r = Result(outcome, FALSE) /\ ledger' = Append(ledger, outcome)
    <3>1. r = [at |-> n, passed |-> outcome.passed, skipped |-> outcome.skipped, noted |-> FALSE]
      BY <1>3, <2>1 DEF Result
    <3>2. r \in ResultRow
      BY <1>3, <3>1 DEF ResultRow
    <3>3. r.at = n /\ r.skipped = outcome.skipped /\ r.noted = FALSE
          /\ r.passed = outcome.passed
      BY <3>1
    <3> QED BY <2>1, <3>2, <3>3
  <2>2. CASE /\ r = Result([outcome EXCEPT !.passed = FALSE], TRUE)
             /\ ledger' \in {ledger, Append(ledger, outcome)}
    <3> DEFINE o == [outcome EXCEPT !.passed = FALSE]
    <3>1. o.at = n /\ o.passed = FALSE /\ o.skipped = outcome.skipped
      BY <1>3 DEF EvalTypeOK
    <3> HIDE DEF o
    <3>2. r = [at |-> n, passed |-> FALSE, skipped |-> outcome.skipped, noted |-> TRUE]
      BY <2>2, <3>1 DEF Result, o
    <3>3. r \in ResultRow
      BY <1>3, <3>2 DEF ResultRow
    <3>4. r.at = n /\ r.skipped = outcome.skipped /\ r.noted = TRUE /\ r.passed = FALSE
      BY <3>2
    <3> QED BY <2>2, <3>3, <3>4
  <2> QED BY <1>2, <2>1, <2>2
<1>6. /\ results \in Seq(ResultRow) /\ ledger \in Seq(OutcomeRow)
      /\ runRow # "final" /\ ~WouldExceed(billed)
  BY <1>1 DEF EvalTypeOK, OutcomeRow, ResultRow, RowHolds, CapHolds
<1>7. /\ results' \in Seq(ResultRow) /\ ledger' \in Seq(OutcomeRow)
      /\ DOMAIN results = 1..(n - 1) /\ DOMAIN results' = 1..n /\ Len(results') = n
      /\ results'[n] = r /\ \A i \in 1..(n - 1) : results'[i] = results[i]
  <2>1. r \in ResultRow /\ results' = Append(results, r) /\ results \in Seq(ResultRow)
    BY <1>2, <1>5, <1>6
  <2>2. /\ results' \in Seq(ResultRow)
        /\ DOMAIN results = 1..(n - 1) /\ DOMAIN results' = 1..n /\ Len(results') = n
        /\ results'[n] = r /\ \A i \in 1..(n - 1) : results'[i] = results[i]
    BY <2>1
  <2>3. ledger' \in {ledger, Append(ledger, outcome)}
    BY <1>5
  <2>4. ledger' \in Seq(OutcomeRow)
    <3>1. Append(ledger, outcome) \in Seq(OutcomeRow)
      BY <1>4, <1>6
    <3> QED BY <1>6, <2>3, <3>1
  <2> QED BY <2>2, <2>4
<1> DEFINE l == Len(ledger)
<1>8. /\ l \in Nat /\ DOMAIN ledger = 1..l
      /\ \/ ledger' = ledger
         \/ /\ DOMAIN ledger' = 1..(l + 1) /\ Len(ledger') = l + 1 /\ ledger'[l + 1] = outcome
            /\ \A m \in 1..l : ledger'[m] = ledger[m]
  <2>1. l \in Nat /\ DOMAIN ledger = 1..l
    BY <1>6
  <2>2. CASE ledger' = ledger
    BY <2>1, <2>2
  <2>3. CASE ledger' = Append(ledger, outcome)
    BY <1>4, <1>6, <2>3
  <2>4. ledger' \in {ledger, Append(ledger, outcome)}
    BY <1>5
  <2> QED BY <2>2, <2>3, <2>4
<1>9. EvalTypeOK'
  <2>1. NoOutcome \in [at : Nat, passed : BOOLEAN, skipped : BOOLEAN]
    BY DEF NoOutcome
  <2> QED BY <1>1, <1>7, <2>1 DEF EvalTypeOK, OutcomeRow, ResultRow
<1>10. LedgerAgreesWithReport'
  <2>1. ASSUME NEW i \in DOMAIN results'
        PROVE  /\ results'[i].at = i
               /\ results'[i].noted => ~results'[i].passed
               /\ ~results'[i].noted => \E m \in DOMAIN ledger' :
                    ledger'[m] = [at |-> i, passed |-> results'[i].passed,
                                  skipped |-> results'[i].skipped]
    <3>1. CASE i = n
      <4>1. r.noted => ~r.passed
        BY <1>5
      <4>2. ASSUME ~r.noted
            PROVE  \E m \in DOMAIN ledger' :
                     ledger'[m] = [at |-> n, passed |-> r.passed, skipped |-> r.skipped]
        <5>1. r.passed = outcome.passed /\ ledger' = Append(ledger, outcome)
          BY <1>5, <4>2
        <5>2. l + 1 \in DOMAIN ledger' /\ ledger'[l + 1] = outcome
          BY <1>6, <5>1
        <5> QED BY <1>3, <1>5, <5>1, <5>2
      <4> HIDE DEF n
      <4> QED BY <1>5, <1>7, <3>1, <4>1, <4>2
    <3>2. CASE i # n
      <4>1. i \in DOMAIN results /\ results'[i] = results[i]
        BY <1>3, <1>7, <3>2
      <4>2. /\ results[i].at = i /\ (results[i].noted => ~results[i].passed)
            /\ ~results[i].noted => \E m \in DOMAIN ledger :
                 ledger[m] = [at |-> i, passed |-> results[i].passed,
                              skipped |-> results[i].skipped]
        BY <4>1 DEF LedgerAgreesWithReport
      <4>3. \A m \in DOMAIN ledger : m \in DOMAIN ledger' /\ ledger'[m] = ledger[m]
        BY <1>8
      <4> QED BY <4>1, <4>2, <4>3
    <3> QED BY <3>1, <3>2
  <2>2. ASSUME NEW m \in DOMAIN ledger'
        PROVE  /\ ledger'[m].at \in DOMAIN results'
               /\ \A k \in 1..(m - 1) : ledger'[k].at # ledger'[m].at
    <3>0. \A k \in DOMAIN ledger : ledger[k].at \in 1..(n - 1)
      BY <1>7 DEF LedgerAgreesWithReport
    <3>1. CASE m \in DOMAIN ledger
      <4>1. ledger'[m] = ledger[m] /\ \A k \in 1..(m - 1) : k \in DOMAIN ledger /\ ledger'[k] = ledger[k]
        BY <1>8, <3>1
      <4>2. \A k \in 1..(m - 1) : ledger[k].at # ledger[m].at
        BY <3>1 DEF LedgerAgreesWithReport
      <4>3. ledger[m].at \in 1..n
        BY <1>3, <3>0, <3>1
      <4> QED BY <1>7, <4>1, <4>2, <4>3
    <3>2. CASE m \notin DOMAIN ledger
      <4>1. m = l + 1 /\ ledger'[m] = outcome /\ \A k \in 1..l : ledger'[k] = ledger[k]
        BY <1>8, <3>2
      <4>2. \A k \in 1..(m - 1) : k \in DOMAIN ledger /\ ledger'[k].at = ledger[k].at
        BY <1>8, <4>1
      <4>3. \A k \in 1..(m - 1) : ledger'[k].at # n
        BY <1>3, <3>0, <4>2
      <4>4. n \in DOMAIN results'
        BY <1>3, <1>7
      <4> QED BY <1>3, <4>1, <4>3, <4>4
    <3> QED BY <3>1, <3>2
  <2>3. unready' => retried' = RetryBudget /\ plan'.kind = "smoke"
    BY <1>1 DEF LedgerAgreesWithReport
  <2> QED BY <1>1, <1>6, <2>1, <2>2, <2>3 DEF LedgerAgreesWithReport
<1>11. ResultsHold'
  <2>1. ASSUME NEW i \in DOMAIN results', results'[i].passed
        PROVE  i \in earned'
    <3>1. CASE i = n
      <4>1. r.passed
        BY <1>7, <2>1, <3>1
      <4>2. outcome.passed
        BY <1>5, <4>1
      <4> QED BY <1>1, <1>3, <3>1, <4>2
    <3>2. CASE i # n
      <4>1. i \in DOMAIN results /\ results'[i] = results[i]
        BY <1>3, <1>7, <3>2
      <4> QED BY <1>1, <2>1, <4>1 DEF ResultsHold
    <3> QED BY <3>1, <3>2
  <2>2. ASSUME \A i \in DOMAIN results' : results'[i].passed
        PROVE  /\ Len(ledger') = Len(results')
               /\ \A i \in DOMAIN results' :
                    ledger'[i] = [at |-> i, passed |-> TRUE, skipped |-> results'[i].skipped]
    <3>1. r.passed
      <4>1. n \in DOMAIN results'
        BY <1>3, <1>7
      <4> QED BY <1>7, <2>2, <4>1
    <3>2. outcome.passed = TRUE /\ ledger' = Append(ledger, outcome)
      BY <1>3, <1>5, <3>1
    <3>3. \A i \in DOMAIN results : results[i].passed
      <4>1. \A i \in DOMAIN results : i \in DOMAIN results' /\ results'[i] = results[i]
        BY <1>3, <1>7
      <4> QED BY <2>2, <4>1
    <3>4. /\ l = n - 1
          /\ \A i \in DOMAIN results :
               ledger[i] = [at |-> i, passed |-> TRUE, skipped |-> results[i].skipped]
      BY <1>3, <3>3 DEF ResultsHold
    <3>5. Len(ledger') = n /\ ledger'[n] = outcome /\ \A i \in 1..(n - 1) : ledger'[i] = ledger[i]
      <4>1. Len(ledger') = l + 1 /\ ledger'[l + 1] = outcome /\ \A i \in 1..l : ledger'[i] = ledger[i]
        BY <1>6, <3>2
      <4>2. l + 1 = n
        BY <1>3, <3>4
      <4> HIDE DEF l, n
      <4> QED BY <3>4, <4>1, <4>2
    <3>6. ledger'[n] = [at |-> n, passed |-> TRUE, skipped |-> results'[n].skipped]
      <4>1. results'[n].skipped = outcome.skipped
        BY <1>5, <1>7
      <4> HIDE DEF n
      <4> QED BY <1>3, <3>2, <3>5, <4>1
    <3> HIDE DEF n
    <3>7. ASSUME NEW i \in 1..(n - 1)
          PROVE  ledger'[i] = [at |-> i, passed |-> TRUE, skipped |-> results'[i].skipped]
      BY <1>7, <3>4, <3>5
    <3>8. \A i \in 1..n : i = n \/ i \in 1..(n - 1)
      BY <1>3
    <3> QED BY <1>7, <3>5, <3>6, <3>7, <3>8
  <2> QED BY <2>1, <2>2 DEF ResultsHold
<1>12. CapHolds' /\ RowHolds' /\ SampleHolds' /\ ExitHolds' /\ OutcomeHolds' /\ PlanOK'
  BY <1>1, <1>6 DEF CapHolds, RowHolds, SampleHolds, ExitHolds, OutcomeHolds, PlanOK, WouldExceed
<1> QED BY <1>9, <1>10, <1>11, <1>12

LEMMA EvalInvNext == EvalInv /\ [EvalNext]_evalVars => EvalInv'
<1> SUFFICES ASSUME EvalInv, [EvalNext]_evalVars PROVE EvalInv'
  OBVIOUS
<1>1. CASE UNCHANGED evalVars
  BY <1>1 DEF evalVars, EvalInv, EvalTypeOK, PlanOK, LedgerAgreesWithReport, OutcomeHolds, Here,
       ResultsHold, CapHolds, RowHolds, SampleHolds, ExitHolds, AllAnswered, WouldExceed
<1>2. ASSUME MayAsk, NEW s \in Scores(Question),
             NEW cost \in IF s.seen THEN Costs ELSE {0}, Score(s, cost)
      PROVE  EvalInv'
  <2>1. cost \in Nat
    BY DEF Costs
  <2> QED BY <1>2, <2>1, ScoreKeeps
<1> QED BY <1>1, <1>2, SelectKeeps, FrameKeepsEval, UnscoredKeeps, SaveKeeps DEF EvalNext

\* The evaluation client's state has its types, and a sample is of the fixture's questions.
THEOREM EvalTypeCorrect == EvalSpec => []EvalTypeOK
<1>1. EvalInv => EvalTypeOK
  BY DEF EvalInv
<1> QED BY <1>1, EvalInvInit, EvalInvNext, PTL DEF EvalSpec

\* Report and ledger account for the same run, whatever call of the store fails
\* (runGoldenSet).
THEOREM LedgerAgrees == EvalSpec => []LedgerAgreesWithReport
<1>1. EvalInv => LedgerAgreesWithReport
  BY DEF EvalInv
<1> QED BY <1>1, EvalInvInit, EvalInvNext, PTL DEF EvalSpec

\* A green gate was earned, question by question, on evidence that was retrieved and is in
\* the ledger (exitPolicy, verdict).
THEOREM GreenEarned == EvalSpec => []GreenIsEarned
<1>1. EvalInv => GreenIsEarned
  <2> SUFFICES ASSUME EvalInv, step = "green" PROVE GreenIsEarned
    BY DEF GreenIsEarned
  <2> USE DEF EvalInv
  <2>1. /\ \A i \in DOMAIN results : results[i].passed /\ ~results[i].skipped
        /\ Len(results) = Len(sample)
    BY DEF ExitHolds
  <2>2. Len(ledger) = Len(sample) /\ runRow = "final"
    BY <2>1 DEF ResultsHold, RowHolds
  <2>3. ~WouldExceed(billed)
    <3>1. Len(sample) \in Nat
      BY DEF EvalTypeOK
    <3> QED BY <2>1, <3>1 DEF CapHolds
  <2>4. ASSUME NEW i \in DOMAIN sample
        PROVE  i \in earned /\ ledger[i] = [at |-> i, passed |-> TRUE, skipped |-> FALSE]
    <3>1. i \in DOMAIN results
      BY <2>1 DEF EvalTypeOK
    <3>2. results[i].skipped = FALSE
      BY <2>1, <3>1 DEF EvalTypeOK
    <3> QED BY <2>1, <3>1, <3>2 DEF ResultsHold
  <2>5. plan.kind = "smoke" => Covers(ToSet(sample), plan.paper, plan.held)
    BY DEF SampleHolds
  <2> QED BY <2>2, <2>3, <2>4, <2>5 DEF GreenIsEarned
<1> QED BY <1>1, EvalInvInit, EvalInvNext, PTL DEF EvalSpec
=============================================================================
