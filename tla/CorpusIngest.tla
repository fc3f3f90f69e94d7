----------------------------- MODULE CorpusIngest -----------------------------
(***************************************************************************)
(* The writes of the corpus: an ingestion pass over one book of an edition *)
(* (packages/rag-ingest) and the Sanadset pilot, which attaches chains of  *)
(* transmission to the book's hadiths and adds those it does not hold      *)
(* (kajianq-domain, sanadset-ingest-*.ts).                                 *)
(*                                                                         *)
(*   base[i]     doc_children row at ordinal i of the book's parent        *)
(*   parent      the book's doc_parents row: absent, bare or summarized    *)
(*   pairs       aligned_pairs, by the hadith's address                    *)
(*   extra[i]    doc_children row at ordinal i of the pilot's own parent   *)
(*   chains[r]   narrator_chains row with source_ref r: the child it is on *)
(*               and the text whose narrators it has                       *)
(*                                                                         *)
(* A text stands for itself; an embedding is the text it was computed of.  *)
(* An archive gives its rows, in the order of their numbers, their texts;  *)
(* a later run of the pilot may be given another one.                      *)
(* Every statement commits on its own.  At most one pass and one pilot run *)
(* are under way, and either may stop at any statement.                    *)
(***************************************************************************)
EXTENDS Integers, FiniteSets, Sequences, SequencesExt

CONSTANTS Texts,        \* hadiths, by their raw Arabic text
          Editions,     \* the book's aligned records, in order
          Translated,   \* texts with an Indonesian text
          ArchiveRows, Archives, \* row numbers; archives, functions of some to texts
          FoldOf,       \* texts with one normalized form have one value
          Alike,        \* pairs of texts with a trigram score of 0.90 or more
          Near,         \* pairs of texts the containment evidence accepts
          BatchSize, ChunkSize,
          MaxPasses, MaxPilots, MaxStops,   \* bounds
          NoRow

BaseRow == [raw : Texts, text : Texts, primary : Texts \cup {NoRow},
            fallback : Texts \cup {NoRow}]
ExtraRow == [raw : Texts, text : Texts]

ASSUME IngestAssumption ==
  /\ \A e \in Editions : e \in Seq(Texts) /\ e # <<>> /\ IsInjective(e)
  /\ IsFiniteSet(Texts) /\ IsFiniteSet(ArchiveRows)
  /\ ArchiveRows \subseteq Nat
  /\ \A a \in Archives : DOMAIN a \subseteq ArchiveRows /\ a \in [DOMAIN a -> Texts]
  /\ Translated \subseteq Texts /\ FoldOf \in [Texts -> Texts]
  /\ Alike \subseteq Texts \X Texts /\ Near \subseteq Texts \X Texts
  /\ BatchSize \in Nat \ {0} /\ ChunkSize \in Nat \ {0}
  /\ MaxPilots \in Nat \ {0}
  /\ NoRow \notin Texts \cup BaseRow \cup ExtraRow \cup Nat \cup ({"base", "extra"} \X Nat \X Texts)

VARIABLES base, parent, pairs, extra, chains,
          pass, pilot,
          passes, pilots, stops   \* counters of the bounds

baseVars == <<base, parent, pairs, pass, passes>>
pilotVars == <<extra, chains, pilot, pilots>>
ingestVars == <<base, parent, pairs, extra, chains, pass, pilot, passes, pilots, stops>>

Slots == 0..(Cardinality(Texts) * MaxPilots)
Present(table) == {i \in DOMAIN table : table[i] # NoRow}
Stop == stops < MaxStops /\ stops' = stops + 1

-----------------------------------------------------------------------------
(* An ingestion pass. *)

Resting == [pc |-> "off", edition |-> <<>>, done |-> 0, summarized |-> FALSE]
PassTo(pc) == pass' = [pass EXCEPT !.pc = pc, !.done = 0]

\* Parsing, the check of the parents and the paid summaries write nothing.
StartPass(e, summarized) ==
  /\ pass.pc \in {"off", "done"} /\ passes < MaxPasses
  /\ pass' = [Resting EXCEPT !.pc = "parent", !.edition = e, !.summarized = summarized]
  /\ passes' = passes + 1
  /\ UNCHANGED <<base, parent, pairs, stops, pilotVars>>

WriteParent ==
  /\ pass.pc = "parent"
  /\ parent' = "bare"
  /\ PassTo("children")
  /\ UNCHANGED <<base, pairs, passes, stops, pilotVars>>

Entry(t) == [raw |-> t, text |-> t, primary |-> t,
             fallback |-> IF t \in Translated THEN t ELSE NoRow]

Upserted_KeepsVectors(old, t) ==
  IF old = NoRow THEN Entry(t) ELSE [old EXCEPT !.text = t]

\* ON CONFLICT (parent_id, ordinal) DO UPDATE sets every column but text_raw.
Upserted(old, t) ==
  IF old = NoRow THEN Entry(t) ELSE [Entry(t) EXCEPT !.raw = old.raw]

Window == {i \in Slots : pass.done <= i /\ i < pass.done + BatchSize /\ i < Len(pass.edition)}

\* Both tracks were embedded before the first of these statements.
WriteChildren ==
  /\ pass.pc = "children"
  /\ base' = [i \in Slots |-> IF i \in Window THEN Upserted(base[i], pass.edition[i + 1])
                              ELSE base[i]]
  /\ IF pass.done + BatchSize < Len(pass.edition)
       THEN pass' = [pass EXCEPT !.done = @ + BatchSize] ELSE PassTo("pairs")
  /\ UNCHANGED <<parent, pairs, passes, stops, pilotVars>>

\* The records with an Indonesian text that are still without their pair.
Pairable ==
  {k \in DOMAIN pass.edition : k > pass.done /\ pass.edition[k] \in Translated}

WritePair ==
  /\ pass.pc = "pairs" /\ Pairable # {}
  /\ pairs' = pairs \cup {pass.edition[Min(Pairable)]}
  /\ pass' = [pass EXCEPT !.done = Min(Pairable)]
  /\ UNCHANGED <<base, parent, passes, stops, pilotVars>>

\* The summary reaches the parent last, as a refresh of its metadata.
EndPass ==
  /\ pass.pc = "pairs" /\ Pairable = {}
  /\ parent' = IF pass.summarized THEN "summarized" ELSE parent
  /\ PassTo("done")
  /\ UNCHANGED <<base, pairs, passes, stops, pilotVars>>

\* A provider or a store call fails, or the process dies.
StopPass ==
  /\ pass.pc \notin {"off", "done"}
  /\ Stop /\ pass' = Resting
  /\ UNCHANGED <<base, parent, pairs, passes, pilotVars>>

PassStep ==
  \/ \E e \in Editions, summarized \in BOOLEAN : StartPass(e, summarized)
  \/ WriteParent \/ WriteChildren \/ WritePair \/ EndPass \/ StopPass

-----------------------------------------------------------------------------
(* A run of the pilot. *)

New == <<"new">>
Refused == <<"refused">>
Idle == [pc |-> "off", archive |-> <<>>, group |-> <<>>, target |-> <<>>, created |-> <<>>,
         stored |-> <<>>, linked |-> {}, done |-> 0]
PilotTo(pc) == pilot' = [pilot EXCEPT !.pc = pc, !.done = 0]

\* The rows before r in the group book g, which gives a row the representative of its
\* group: the row that started it.  A quarantined row has none and never enters the book.
Earlier(g, r) == {q \in DOMAIN g : q < r /\ g[q] # NoRow}
Peers(a, g, r) == {q \in Earlier(g, r) : FoldOf[a[q]] = FoldOf[a[r]]}
Proposed(a, g, r) == {g[q] : q \in {p \in Earlier(g, r) : <<a[p], a[r]>> \in Alike}}

\* runMatnCascade, row by row, without an adjudicator: the first row of the same normalized
\* text (equal raw texts have one), else an earlier row the index proposed and the score
\* joins, unless the search lost it; two groups that tie below the score quarantine the row.
Grouped(a, g, r) ==
  IF Peers(a, g, r) # {} THEN g[r] = g[Min(Peers(a, g, r))]
  ELSE \/ g[r] \in {r} \cup Proposed(a, g, r)
       \/ g[r] = NoRow /\ Cardinality({g[q] : q \in Earlier(g, r)}) > 1

Groupings(a) ==
  {g \in [DOMAIN a -> DOMAIN a \cup {NoRow}] : \A r \in DOMAIN a : Grouped(a, g, r)}
Heads(g) == {g[r] : r \in DOMAIN g} \ {NoRow}

Exact(t) == {i \in Present(base) : base[i].raw = t}
Folded(t) == {i \in Present(base) : FoldOf[base[i].raw] = FoldOf[t]}
Candidates(t) == {i \in Present(base) : <<t, base[i].raw>> \in Near}
Bucket(children) ==
  IF Cardinality(children) = 1 THEN {<<"base", i>> : i \in children} ELSE {Refused}

\* match: an equal text decides, then an equal normalized one, two children of either being
\* ambiguous; else the scores may name a child the evidence accepts, or refuse.
Targets(t) ==
  IF Exact(t) # {} THEN Bucket(Exact(t))
  ELSE IF Folded(t) # {} THEN Bucket(Folded(t))
  ELSE {New, Refused} \cup {<<"base", i>> : i \in Candidates(t)}

NewHeads(target) == {q \in DOMAIN target : target[q] = New}

\* The gate, the groups of the archive, the collection's children (never the pilot's own)
\* and the plan: only the representative of a group is matched, and its text is the raw
\* text of the group's child where it has none.
PlanPilot ==
  /\ pilot.pc \in {"off", "done"} /\ pilots < MaxPilots
  /\ \E a \in Archives : \E g \in Groupings(a) :
     \E target \in [Heads(g) -> UNION {Targets(a[q]) : q \in Heads(g)}] :
       /\ \A q \in Heads(g) : target[q] \in Targets(a[q])
       /\ \E created \in SetToSeqs({a[q] : q \in NewHeads(target)}) :
            /\ \A m, n \in NewHeads(target), i, j \in DOMAIN created :
                 created[i] = a[m] /\ created[j] = a[n] /\ i < j => m < n
            /\ pilot' = [Idle EXCEPT !.pc = "read", !.archive = a, !.group = g,
                                     !.target = target, !.created = created]
  /\ pilots' = pilots + 1
  /\ UNCHANGED <<extra, chains, stops, baseVars>>

\* The rows an earlier run of the pilot left.
ReadStored ==
  /\ pilot.pc = "read"
  /\ pilot' = [pilot EXCEPT !.pc = "children", !.stored = extra,
                            !.linked = {r \in ArchiveRows : chains[r] # NoRow}]
  /\ UNCHANGED <<extra, chains, pilots, stops, baseVars>>

Created == ToSet(pilot.created)
Position(t) == CHOOSE k \in DOMAIN pilot.created : pilot.created[k] = t
Keeps(t) == {i \in Present(pilot.stored) : pilot.stored[i].raw = t}
Highest == IF Present(pilot.stored) = {} THEN -1 ELSE Max(Present(pilot.stored))
NewBefore(t) == {u \in Created : Keeps(u) = {} /\ Position(u) < Position(t)}

Ordinal_ByPosition(t) == Position(t) - 1

\* planChildWrites: a text keeps the ordinal it has, a new one goes above them all.
Ordinal(t) ==
  IF Keeps(t) # {} THEN Min(Keeps(t)) ELSE Highest + 1 + Cardinality(NewBefore(t))

Stale_Nothing == {}

Stale == {i \in Present(pilot.stored) : \A t \in Created : Ordinal(t) # i}

Chunk_DropsTheLast ==
  {t \in Created : pilot.done < Position(t) /\ Position(t) < pilot.done + ChunkSize}

Chunk == {t \in Created : pilot.done < Position(t) /\ Position(t) <= pilot.done + ChunkSize}

\* The upsert never updates text_raw here either; nothing is embedded.
WriteExtras ==
  /\ pilot.pc = "children" /\ pilot.done < Len(pilot.created)
  /\ extra' = [i \in Slots |->
       LET ts == {t \in Chunk : Ordinal(t) = i}
       IN  IF ts = {} THEN extra[i]
           ELSE LET t == CHOOSE t \in ts : TRUE
                IN  [raw |-> IF extra[i] = NoRow THEN t ELSE extra[i].raw, text |-> t]]
  /\ pilot' = [pilot EXCEPT !.done = @ + ChunkSize]
  /\ UNCHANGED <<chains, pilots, stops, baseVars>>

AfterChildren_DeletesFirst == "stale"

AfterChildren == "chains"

EndChildren ==
  /\ pilot.pc = "children" /\ pilot.done >= Len(pilot.created)
  /\ PilotTo(AfterChildren)
  /\ UNCHANGED <<extra, chains, pilots, stops, baseVars>>

\* Every row of a group that is not refused has its chain on the group's child.
Planned == {r \in DOMAIN pilot.archive :
              pilot.group[r] # NoRow /\ pilot.target[pilot.group[r]] # Refused}
ChildOf(r) ==
  LET head == pilot.group[r]
      child == IF pilot.target[head] = New THEN <<"extra", Ordinal(pilot.archive[head])>>
               ELSE pilot.target[head]
  IN  <<child[1], child[2], pilot.archive[r]>>

ChainOrder == SetToSeq(Planned)

\* ON CONFLICT (collection, source_ref) moves a chain to its child.
WriteChains ==
  /\ pilot.pc = "chains" /\ pilot.done < Len(ChainOrder)
  /\ LET rows == {ChainOrder[k] : k \in {n \in DOMAIN ChainOrder :
                                 pilot.done < n /\ n <= pilot.done + ChunkSize}}
     IN  chains' = [r \in ArchiveRows |-> IF r \in rows THEN ChildOf(r) ELSE chains[r]]
  /\ pilot' = [pilot EXCEPT !.done = @ + ChunkSize]
  /\ UNCHANGED <<extra, pilots, stops, baseVars>>

EndChains ==
  /\ pilot.pc = "chains" /\ pilot.done >= Len(ChainOrder)
  /\ PilotTo(IF AfterChildren = "chains" THEN "stale" ELSE "done")
  /\ UNCHANGED <<extra, chains, pilots, stops, baseVars>>

\* narrator_chains.child_id ... ON DELETE CASCADE
Cascade(gone, chain) ==
  IF chain # NoRow /\ chain[1] = "extra" /\ chain[2] \in gone THEN NoRow ELSE chain

\* deleteCorpusRows: the chains no row plans, then the stale children; one transaction.
DeleteStale ==
  /\ pilot.pc = "stale"
  /\ extra' = [i \in Slots |-> IF i \in Stale THEN NoRow ELSE extra[i]]
  /\ chains' = [r \in ArchiveRows |-> IF r \in pilot.linked \ Planned THEN NoRow
                                      ELSE Cascade(Stale, chains[r])]
  /\ PilotTo(IF AfterChildren = "chains" THEN "done" ELSE "chains")
  /\ UNCHANGED <<pilots, stops, baseVars>>

StopPilot ==
  /\ pilot.pc \notin {"off", "done"}
  /\ Stop /\ pilot' = Idle
  /\ UNCHANGED <<extra, chains, pilots, baseVars>>

PilotStep ==
  \/ PlanPilot \/ ReadStored \/ WriteExtras \/ EndChildren
  \/ WriteChains \/ EndChains \/ DeleteStale \/ StopPilot

-----------------------------------------------------------------------------
IngestInit ==
  /\ base = [i \in Slots |-> NoRow] /\ extra = [i \in Slots |-> NoRow]
  /\ parent = "none" /\ pairs = {}
  /\ chains = [r \in ArchiveRows |-> NoRow]
  /\ pass = Resting /\ pilot = Idle
  /\ passes = 0 /\ pilots = 0 /\ stops = 0

IngestNext == PassStep \/ PilotStep

IngestSpec == IngestInit /\ [][IngestNext]_ingestVars

-----------------------------------------------------------------------------
Children == ({"base"} \X Present(base)) \cup ({"extra"} \X Present(extra))

(* Type correctness, with the foreign key of narrator_chains: a chain is on a      *)
(* child that is stored, at every statement of every run.                          *)
IngestTypeOK ==
  /\ base \in [Slots -> BaseRow \cup {NoRow}]
  /\ extra \in [Slots -> ExtraRow \cup {NoRow}]
  /\ parent \in {"none", "bare", "summarized"} /\ pairs \subseteq Texts
  /\ chains \in [ArchiveRows -> {<<c[1], c[2], t>> : c \in Children, t \in Texts} \cup {NoRow}]
  /\ pass.pc \in {"off", "parent", "children", "pairs", "done"}
  /\ pilot.pc \in {"off", "read", "children", "chains", "stale", "done"}

(* The report of a pass is about a whole book: every record is stored, found by    *)
(* the embeddings of the text it now has, every pair is written and the summary    *)
(* attached; and no stop, and no edition before it, leaves a row whose embeddings  *)
(* are those of another text.                                                      *)
BookIsSearchable ==
  /\ \A i \in Present(base) :
       /\ base[i].primary = base[i].text
       /\ base[i].fallback = IF base[i].text \in Translated THEN base[i].text ELSE NoRow
  /\ pass.pc = "done" =>
       /\ \A k \in DOMAIN pass.edition :
            base[k - 1] # NoRow /\ base[k - 1].text = pass.edition[k]
       /\ ToSet(pass.edition) \cap Translated \subseteq pairs
       /\ pass.summarized => parent = "summarized"

\* The rows whose group the cascade may have given a row: those it joins, those these join.
Joins(s, t) == FoldOf[s] = FoldOf[t] \/ <<s, t>> \in Alike
Closed(a, K) == \A r \in K, q \in DOMAIN a : q < r /\ Joins(a[q], a[r]) => q \in K
Lineage == [a \in Archives |-> [r \in DOMAIN a |->
  {q \in DOMAIN a : \A K \in SUBSET DOMAIN a : r \in K /\ Closed(a, K) => q \in K}]]

Accepted(t, raw) == FoldOf[t] = FoldOf[raw] \/ <<t, raw>> \in Near
Attributed(r, t, raw) ==
  \E a \in Archives :
    r \in DOMAIN a /\ a[r] = t /\ \E q \in Lineage[a][r] : Accepted(a[q], raw)

(* Narrations are never mixed.  planChildWrites does not pair the immutable raw     *)
(* text of one with the derived fields of another, although groups, representatives *)
(* and archives change between the runs of the pilot and a run stops between two    *)
(* chunks; and a chain stays on a narration that its own row led to: the raw text   *)
(* of its child is one the matcher accepts (a normalized text that is equal, or the *)
(* containment evidence) for a row of the chain's lineage, in the archive that has  *)
(* the text the chain's narrators are of.  It is no more than that: a row's own     *)
(* text is never compared with the child of its group.                              *)
NarrationsStayApart ==
  /\ \A i \in Present(extra) : extra[i].text = extra[i].raw
  /\ \A r \in ArchiveRows : chains[r] # NoRow =>
       LET table == IF chains[r][1] = "base" THEN base ELSE extra
       IN  Attributed(r, chains[r][3], table[chains[r][2]].raw)

(* A rerun leaves the store holding its plan, not the union of every plan that was *)
(* ever run: the pilot's children and chains are the last run's, each with the     *)
(* narrators of its row of that run's archive, whatever earlier runs left or       *)
(* stopped half way.                                                               *)
RerunConverges ==
  pilot.pc = "done" =>
    /\ {extra[i].raw : i \in Present(extra)} = Created
    /\ Cardinality(Present(extra)) = Cardinality(Created)
    /\ \A r \in ArchiveRows : chains[r] = IF r \in Planned THEN ChildOf(r) ELSE NoRow

(* Evidence is never lost on the way: a stored chain goes only when the plan of    *)
(* the run under way refuses its row, never because the child it was on went       *)
(* stale.                                                                          *)
OnlyRefusedChainsGo ==
  [][\A r \in ArchiveRows : chains[r] # NoRow /\ chains'[r] = NoRow => r \notin Planned]_ingestVars

(* text_raw is immutable after insert, so it has to be the text of the record the  *)
(* other columns derive from.                                                      *)
RawIsItsOwn == \A i \in Present(base) : base[i].text = base[i].raw
=============================================================================
