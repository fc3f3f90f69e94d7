-------------------------- MODULE ApiProcessProofs --------------------------
(***************************************************************************)
(* The two pieces of state one API process keeps outside its store, for    *)
(* any number of clients, surfaces and boots: the counters of the rate     *)
(* limiter and the model_config mirror that every boot rewrites.  Then the *)
(* process as a whole, with the answers it gives and the client that       *)
(* evaluates them.                                                         *)
(***************************************************************************)
EXTENDS MCApiProcess, AdminAccessProofs, AnswerRunProofs, EvidenceProofs

-----------------------------------------------------------------------------
(* The limiter.  What a counter stores, a window's start and a count, does not *)
(* say how many checks it let through in the last window's length: a window    *)
(* may close between them.  The invariant is therefore about the admissions    *)
(* themselves, and relates each to the window that counted it.                 *)


\* One counter's window w, the account G of its admissions and the clock c agree.
SoundAccount(L, w, G, c) ==
  /\ w \in [start : 0..c, count : Nat]
  /\ G \subseteq [at : 0..c, start : 0..c, nth : 1..L]
  /\ \A g \in G : /\ g.start <= g.at /\ g.at - g.start < RateWindow /\ c - g.at < RateWindow
                  /\ g.nth = 1 => g.at = g.start
  /\ \A g, h \in G : g.start = h.start /\ g.nth = h.nth => g = h
  /\ \A g, h \in G : g.start < h.start => g.start + RateWindow <= h.start
  /\ \A g \in G : \/ w.count > 0 /\ g.start = w.start /\ g.nth <= w.count
                  \/ w.count > 0 /\ g.start + RateWindow <= w.start
                  \/ w.count = 0 /\ g.start + RateWindow <= c
  /\ w.count > 0 /\ c - w.start < RateWindow =>
       \A n \in 1..L : n <= w.count => \E g \in G : g.start = w.start /\ g.nth = n

\* A sound account holds at most twice the limit less one, and exactly the limit
\* of the window that refuses.
LEMMA SoundIsBounded ==
  ASSUME NEW L \in Nat \ {0}, NEW w, NEW G, NEW c \in Nat, SoundAccount(L, w, G, c)
  PROVE  /\ IsFiniteSet(G) /\ Cardinality(G) <= 2 * L - 1
         /\ w.count > L /\ c - w.start < RateWindow =>
              Cardinality({g \in G : g.start = w.start}) = L
<1> USE RateAssumption
<1> DEFINE Current(g) == w.count > 0 /\ g.start = w.start
           Precedence == [g \in G |-> IF Current(g) THEN g.nth ELSE L + g.nth - 1]
<1>1. /\ w.start \in Nat /\ w.count \in Nat
      /\ \A g \in G : g.at \in Nat /\ g.start \in Nat /\ g.nth \in 1..L
  BY DEF SoundAccount
<1>2. ASSUME NEW g \in G, ~Current(g)
      PROVE  g.start + RateWindow <= c /\ g.nth >= 2
  <2>1. g.start + RateWindow <= c
    BY <1>1, <1>2 DEF SoundAccount
  <2>2. g.nth # 1
    BY <1>1, <2>1 DEF SoundAccount
  <2> QED BY <1>1, <2>1, <2>2
<1>3. ASSUME NEW g \in G, NEW h \in G, ~Current(g), ~Current(h) PROVE ~(g.start < h.start)
  <2>1. h.start + RateWindow <= c
    BY <1>2, <1>3
  <2>2. g.at - g.start < RateWindow /\ c - g.at < RateWindow
    BY DEF SoundAccount
  <2>3. g.start < h.start => g.start + RateWindow <= h.start
    BY DEF SoundAccount
  <2> QED BY <1>1, <2>1, <2>2, <2>3
<1>4. Precedence \in [G -> 1..(2 * L - 1)]
  BY <1>1, <1>2
<1>5. ASSUME NEW g \in G, NEW h \in G, Precedence[g] = Precedence[h] PROVE g = h
  <2>1. Current(g) <=> Current(h)
    BY <1>1, <1>2, <1>5
  <2>2. g.nth = h.nth
    BY <1>1, <1>5, <2>1
  <2>3. g.start = h.start
    BY <1>1, <1>3, <2>1
  <2> QED BY <2>2, <2>3 DEF SoundAccount
<1>6. Precedence \in Injection(G, 1..(2 * L - 1))
  BY <1>4, <1>5 DEF Injection, IsInjective
<1>7. IsFiniteSet(1..(2 * L - 1)) /\ Cardinality(1..(2 * L - 1)) = 2 * L - 1
  BY FS_Interval
<1>8. IsFiniteSet(G) /\ Cardinality(G) <= 2 * L - 1
  BY <1>6, <1>7, FS_Injection
<1>9. ASSUME w.count > L, c - w.start < RateWindow
      PROVE  Cardinality({g \in G : g.start = w.start}) = L
  <2> DEFINE C == {g \in G : g.start = w.start}
             Nth == [g \in C |-> g.nth]
  <2>1. Nth \in [C -> 1..L]
    BY <1>1
  <2>2. \A g, h \in C : Nth[g] = Nth[h] => g = h
    BY DEF SoundAccount
  <2>3. Nth \in Injection(C, 1..L)
    BY <2>1, <2>2 DEF Injection, IsInjective
  <2>4. ASSUME NEW n \in 1..L PROVE \E g \in C : Nth[g] = n
    <3>1. PICK g \in G : g.start = w.start /\ g.nth = n
      BY <1>1, <1>9 DEF SoundAccount
    <3> QED BY <3>1
  <2>5. Nth \in Surjection(C, 1..L)
    BY <2>1, <2>4 DEF Surjection
  <2>6. IsFiniteSet(1..L) /\ Cardinality(1..L) = L
    BY FS_Interval
  <2> HIDE DEF C, Nth
  <2>7. Cardinality(C) = L
    BY <2>3, <2>5, <2>6, FS_Injection
  <2> QED BY <2>7 DEF C
<1> QED BY <1>8, <1>9

\* Time passes: what is a window old leaves the account.
LEMMA SoundAsTimePasses ==
  ASSUME NEW L \in Nat \ {0}, NEW w, NEW G, NEW c \in Nat, SoundAccount(L, w, G, c)
  PROVE  SoundAccount(L, w, {g \in G : c + 1 - g.at < RateWindow}, c + 1)
<1> USE RateAssumption
<1> DEFINE H == {g \in G : c + 1 - g.at < RateWindow}
<1>1. /\ w.start \in 0..c /\ w.count \in Nat /\ w \in [start : 0..c+1, count : Nat]
      /\ \A g \in G : /\ g.at \in 0..c /\ g.start \in 0..c /\ g.nth \in 1..L
                      /\ g \in [at : 0..c+1, start : 0..c+1, nth : 1..L]
  BY DEF SoundAccount
<1>2. ASSUME w.count > 0, c + 1 - w.start < RateWindow, NEW n \in 1..L, n <= w.count
      PROVE  \E g \in H : g.start = w.start /\ g.nth = n
  <2>1. PICK g \in G : g.start = w.start /\ g.nth = n
    BY <1>1, <1>2 DEF SoundAccount
  <2>2. g.start <= g.at
    BY DEF SoundAccount
  <2> QED BY <1>1, <1>2, <2>1, <2>2
<1>3. \A g \in H : \/ w.count > 0 /\ g.start = w.start /\ g.nth <= w.count
                   \/ w.count > 0 /\ g.start + RateWindow <= w.start
                   \/ w.count = 0 /\ g.start + RateWindow <= c + 1
  BY <1>1 DEF SoundAccount
<1> QED BY <1>1, <1>2, <1>3 DEF SoundAccount

\* The first request of a window, which had lapsed or was not held.
LEMMA SoundAtRestart ==
  ASSUME NEW L \in Nat \ {0}, NEW w, NEW G, NEW c \in Nat, SoundAccount(L, w, G, c),
         w.count = 0 \/ c - w.start >= RateWindow
  PROVE  SoundAccount(L, [start |-> c, count |-> 1],
                      G \cup {[at |-> c, start |-> c, nth |-> 1]}, c)
<1> USE RateAssumption
<1> DEFINE new == [at |-> c, start |-> c, nth |-> 1]
           v == [start |-> c, count |-> 1]
<1>1. /\ w.start \in 0..c /\ w.count \in Nat
      /\ \A g \in G : /\ g.at \in 0..c /\ g.start \in 0..c /\ g.nth \in 1..L
                      /\ g \in [at : 0..c, start : 0..c, nth : 1..L]
  BY DEF SoundAccount
<1>2. \A g \in G : g.start + RateWindow <= c
  BY <1>1 DEF SoundAccount
<1>3. /\ v \in [start : 0..c, count : Nat] /\ v.start = c /\ v.count = 1
      /\ new \in [at : 0..c, start : 0..c, nth : 1..L]
      /\ new.at = c /\ new.start = c /\ new.nth = 1
  OBVIOUS
<1>4. \A g \in G : /\ g.start <= g.at /\ g.at - g.start < RateWindow /\ c - g.at < RateWindow
                   /\ g.nth = 1 => g.at = g.start
  BY DEF SoundAccount
<1>5. /\ \A g, h \in G : g.start = h.start /\ g.nth = h.nth => g = h
      /\ \A g, h \in G : g.start < h.start => g.start + RateWindow <= h.start
  BY DEF SoundAccount
<1> HIDE DEF v, new
<1>6. SoundAccount(L, v, G \cup {new}, c)
  <2>1. G \cup {new} \subseteq [at : 0..c, start : 0..c, nth : 1..L]
    BY <1>1, <1>3
  <2>2. \A n \in 1..L : n <= v.count => \E g \in G \cup {new} : g.start = v.start /\ g.nth = n
    BY <1>3
  <2>3. \A g, h \in G \cup {new} : g.start = h.start /\ g.nth = h.nth => g = h
    BY <1>1, <1>2, <1>3, <1>5
  <2>4. \A g, h \in G \cup {new} : g.start < h.start => g.start + RateWindow <= h.start
    BY <1>1, <1>2, <1>3, <1>5
  <2>5. \A g \in G \cup {new} : \/ g.start = v.start /\ g.nth <= v.count
                               \/ g.start + RateWindow <= v.start
    BY <1>1, <1>2, <1>3
  <2>6. \A g \in G \cup {new} :
          /\ g.start <= g.at /\ g.at - g.start < RateWindow /\ c - g.at < RateWindow
          /\ g.nth = 1 => g.at = g.start
    BY <1>1, <1>3, <1>4
  <2> QED BY <1>3, <2>1, <2>2, <2>3, <2>4, <2>5, <2>6 DEF SoundAccount
<1> QED BY <1>6 DEF v, new

\* A request within a live window, admitted or refused.
LEMMA SoundWithinWindow ==
  ASSUME NEW L \in Nat \ {0}, NEW w, NEW G, NEW c \in Nat, SoundAccount(L, w, G, c),
         w.count > 0, c - w.start < RateWindow
  PROVE  SoundAccount(L, [w EXCEPT !.count = @ + 1],
                      IF w.count + 1 <= L
                      THEN G \cup {[at |-> c, start |-> w.start, nth |-> w.count + 1]}
                      ELSE G, c)
<1> USE RateAssumption
<1> DEFINE new == [at |-> c, start |-> w.start, nth |-> w.count + 1]
           v == [w EXCEPT !.count = @ + 1]
<1>1. /\ w.start \in 0..c /\ w.count \in Nat
      /\ \A g \in G : /\ g.at \in 0..c /\ g.start \in 0..c /\ g.nth \in 1..L
                      /\ g \in [at : 0..c, start : 0..c, nth : 1..L]
  BY DEF SoundAccount
<1>2. v \in [start : 0..c, count : Nat] /\ v.start = w.start /\ v.count = w.count + 1
  BY <1>1 DEF SoundAccount
<1>3. \A g \in G : \/ g.start = w.start /\ g.nth <= w.count
                   \/ g.start + RateWindow <= w.start
  BY <1>1 DEF SoundAccount
<1>4. \A g \in G : /\ g.start <= g.at /\ g.at - g.start < RateWindow /\ c - g.at < RateWindow
                   /\ g.nth = 1 => g.at = g.start
  BY DEF SoundAccount
<1>5. /\ \A g, h \in G : g.start = h.start /\ g.nth = h.nth => g = h
      /\ \A g, h \in G : g.start < h.start => g.start + RateWindow <= h.start
  BY DEF SoundAccount
<1>6. \A n \in 1..L : n <= w.count => \E g \in G : g.start = w.start /\ g.nth = n
  BY DEF SoundAccount
<1>7. CASE w.count + 1 <= L
  <2>1. new \in [at : 0..c, start : 0..c, nth : 1..L]
    BY <1>1, <1>7
  <2>2. \A n \in 1..L : n <= w.count + 1 =>
          \E g \in G \cup {new} : g.start = w.start /\ g.nth = n
    <3>1. new.start = w.start /\ new.nth = w.count + 1
      OBVIOUS
    <3> HIDE DEF new
    <3>2. \A n \in 1..L : n <= w.count + 1 => n <= w.count \/ n = w.count + 1
      BY <1>1
    <3> QED BY <1>6, <3>1, <3>2
  <2> HIDE DEF v
  <2>3. SoundAccount(L, v, G \cup {new}, c)
    BY <1>1, <1>2, <1>3, <1>4, <1>5, <2>1, <2>2 DEF SoundAccount
  <2> QED BY <1>7, <2>3 DEF v
<1>8. CASE ~(w.count + 1 <= L)
  <2> HIDE DEF v
  <2>1. SoundAccount(L, v, G, c)
    BY <1>1, <1>2, <1>3, <1>4, <1>5, <1>6, <1>8 DEF SoundAccount
  <2> QED BY <1>8, <2>1 DEF v
<1> QED BY <1>7, <1>8

\* A counter the Map drops: its window had lapsed, or the account starts anew.
LEMMA SoundWhenDropped ==
  ASSUME NEW L \in Nat \ {0}, NEW w, NEW G, NEW c \in Nat, SoundAccount(L, w, G, c),
         w.count = 0 \/ c - w.start >= RateWindow \/ G = {}
  PROVE  SoundAccount(L, Untracked, G, c)
<1> USE RateAssumption
<1>1. /\ w.start \in 0..c /\ w.count \in Nat
      /\ \A g \in G : g.start \in 0..c /\ g.nth \in 1..L
  BY DEF SoundAccount
<1>2. \A g \in G : g.start + RateWindow <= c
  BY <1>1 DEF SoundAccount
<1>3. Untracked \in [start : 0..c, count : Nat] /\ Untracked.count = 0
  BY DEF Untracked
<1> QED BY <1>2, <1>3 DEF SoundAccount

LEMMA SoundEmpty ==
  ASSUME NEW L \in Nat \ {0}, NEW w, NEW G, NEW c \in Nat, SoundAccount(L, w, G, c)
  PROVE  SoundAccount(L, Untracked, {}, c)
BY DEF SoundAccount, Untracked

-----------------------------------------------------------------------------
(* The limiter. *)

RateInv ==
  /\ clock \in Nat /\ bypassExp \in Nat
  /\ window \in [Keys -> [start : 0..clock, count : Nat]] /\ DOMAIN granted = Keys
  /\ Cardinality(Tracked) <= MaxKeys
  /\ \A k \in Keys : SoundAccount(Limits(k), window[k], granted[k], clock)

LEMMA KeysAreFinite == IsFiniteSet(Keys) /\ \A k \in Keys : Limits(k) \in Nat \ {0}
<1>1. IsFiniteSet(Surfaces)
  <2>1. IsFiniteSet({"ip"}) /\ IsFiniteSet({"admin-login"}) /\ IsFiniteSet({"admin-read"})
    BY FS_Singleton
  <2>2. IsFiniteSet({"ip"} \cup {"admin-login"})
    BY <2>1, FS_Union
  <2>3. IsFiniteSet(({"ip"} \cup {"admin-login"}) \cup {"admin-read"})
    BY <2>1, <2>2, FS_Union
  <2>4. Surfaces = ({"ip"} \cup {"admin-login"}) \cup {"admin-read"}
    BY DEF Surfaces
  <2> QED BY <2>3, <2>4
<1>2. IsFiniteSet(Keys)
  BY <1>1, RateAssumption, FS_Product DEF Keys
<1> QED BY <1>2, RateAssumption DEF Keys, Limits

LEMMA RateInvInit == RateInit => RateInv
<1> SUFFICES ASSUME RateInit PROVE RateInv
  OBVIOUS
<1>1. Tracked = {}
  BY DEF RateInit, Tracked, Untracked
<1>2. Cardinality(Tracked) <= MaxKeys
  BY <1>1, FS_EmptySet, RateAssumption
<1>3. ASSUME NEW k \in Keys PROVE SoundAccount(Limits(k), window[k], granted[k], clock)
  BY <1>3, RateAssumption DEF RateInit, Untracked, SoundAccount
<1> QED BY <1>2, <1>3 DEF RateInit, RateInv, Untracked

\* What the Map keeps when a check may prune it: nothing live is lost but an oldest
\* window of a full Map, and there is room for one more.
LEMMA PruneKeepsLive ==
  ASSUME RateInv, NEW k \in Keys, NEW kept \in Kept(k)
  PROVE  /\ kept \subseteq Tracked
         /\ window[k].count > 0 => kept = Tracked
         /\ window[k].count = 0 => IsFiniteSet(kept) /\ Cardinality(kept) < MaxKeys
         /\ \A j \in Tracked \ kept : IsExpired(j) \/ MayLose(j)
<1> USE RateAssumption DEF RateInv
<1>1. IsFiniteSet(Tracked) /\ Cardinality(Tracked) \in Nat /\ Cardinality(Tracked) <= MaxKeys
  BY KeysAreFinite, FS_Subset, FS_CardinalityType DEF Tracked
<1>2. /\ IsFiniteSet(Surviving) /\ Cardinality(Surviving) \in Nat
      /\ Cardinality(Surviving) <= Cardinality(Tracked) /\ Surviving \subseteq Tracked
  BY <1>1, FS_Subset, FS_CardinalityType DEF Surviving
<1>3. CASE ~(window[k].count = 0 /\ Cardinality(Tracked) >= MaxKeys)
  <2>1. kept = Tracked
    BY <1>3 DEF Kept
  <2>2. window[k].count = 0 => Cardinality(Tracked) < MaxKeys
    BY <1>1, <1>3
  <2> QED BY <1>1, <2>1, <2>2 DEF Tracked
<1>4. CASE window[k].count = 0 /\ Cardinality(Tracked) >= MaxKeys /\ Cardinality(Surviving) < MaxKeys
  <2>1. kept = Surviving
    BY <1>4 DEF Kept, PruneAndEvict
  <2>2. \A j \in Tracked \ Surviving : IsExpired(j)
    BY DEF Surviving
  <2> QED BY <1>2, <1>4, <2>1, <2>2
<1>5. CASE window[k].count = 0 /\ Cardinality(Tracked) >= MaxKeys /\ ~(Cardinality(Surviving) < MaxKeys)
  <2>1. PICK o \in Oldest(Surviving) : kept = Surviving \ {o}
    BY <1>5 DEF Kept, PruneAndEvict
  <2>2. o \in Surviving /\ Cardinality(Surviving) = MaxKeys
    BY <1>1, <1>2, <1>5 DEF Oldest
  <2>3. MayLose(o)
    BY <2>2, <2>1 DEF MayLose
  <2>4. IsFiniteSet(kept) /\ Cardinality(kept) = Cardinality(Surviving) - 1
    BY <1>2, <2>1, <2>2, FS_RemoveElement
  <2> QED BY <1>2, <1>5, <2>1, <2>2, <2>3, <2>4 DEF Surviving
<1> QED BY <1>3, <1>4, <1>5

LEMMA CheckKeepsRateInv == ASSUME RateInv, NEW k \in Keys, Check(k) PROVE RateInv'
<1> USE RateAssumption
<1>1. PICK kept \in Kept(k) :
        /\ window' = [j \in Keys |-> IF j = k THEN TickWindow(k)
                                     ELSE IF j \in kept THEN window[j] ELSE Untracked]
        /\ granted' = [j \in Keys |-> Account(k, kept, j)]
  BY DEF Check
<1>2. clock' = clock /\ bypassExp' = bypassExp /\ clock \in Nat
  BY DEF Check, RateInv
<1>3. window[k].start \in 0..clock /\ window[k].count \in Nat
  BY DEF RateInv
<1>4. TickWindow(k) \in [start : 0..clock, count : Nat] /\ TickWindow(k).count > 0
  BY <1>2, <1>3 DEF TickWindow, RateInv
<1>5. window' \in [Keys -> [start : 0..clock', count : Nat]] /\ DOMAIN granted' = Keys
  BY <1>1, <1>2, <1>4 DEF RateInv, Untracked
<1>6. Cardinality(Tracked') <= MaxKeys
  <2>1. Tracked' = (Tracked \cap kept) \cup {k}
    BY <1>1, <1>4 DEF Tracked, Untracked
  <2>2. IsFiniteSet(Tracked) /\ Cardinality(Tracked) \in Nat /\ Cardinality(Tracked) <= MaxKeys
    BY KeysAreFinite, FS_Subset, FS_CardinalityType DEF Tracked, RateInv
  <2>3. CASE window[k].count > 0
    <3>1. kept = Tracked /\ k \in Tracked
      BY <2>3, PruneKeepsLive DEF Tracked
    <3> QED BY <2>1, <2>2, <3>1
  <2>4. CASE window[k].count = 0
    <3>1. IsFiniteSet(kept) /\ Cardinality(kept) < MaxKeys /\ kept \subseteq Tracked
      BY <2>4, PruneKeepsLive
    <3>2. Tracked' = kept \cup {k}
      BY <2>1, <3>1
    <3>3. Cardinality(kept) \in Nat
      BY <3>1, FS_CardinalityType
    <3>4. Cardinality(kept \cup {k}) \in {Cardinality(kept), Cardinality(kept) + 1}
      BY <3>1, FS_AddElement
    <3> HIDE DEF Tracked
    <3> QED BY <3>1, <3>2, <3>3, <3>4
  <2> QED BY <1>3, <2>3, <2>4
<1>7. ASSUME NEW j \in Keys
      PROVE  SoundAccount(Limits(j), window'[j], granted'[j], clock)
  <2>1. SoundAccount(Limits(j), window[j], granted[j], clock) /\ Limits(j) \in Nat \ {0}
    BY KeysAreFinite DEF RateInv
  <2>2. CASE j = k
    <3>1. window'[k] = TickWindow(k)
      BY <1>1
    <3>2. ~(k \notin kept /\ MayLose(k))
      BY PruneKeepsLive, <1>3 DEF MayLose, Oldest, Surviving, Tracked
    <3>3. granted'[k] = IF IsAllowed(k)
                        THEN granted[k] \cup {[at |-> clock, start |-> TickWindow(k).start,
                                              nth |-> TickWindow(k).count]}
                        ELSE granted[k]
      BY <1>1, <3>2 DEF Account
    <3>4. CASE window[k].count = 0 \/ IsExpired(k)
      <4>1. TickWindow(k) = [start |-> clock, count |-> 1]
        BY <3>4 DEF TickWindow
      <4>2. IsAllowed(k)
        BY <2>1, <2>2, <4>1 DEF IsAllowed
      <4>3. window[k].count = 0 \/ clock - window[k].start >= RateWindow
        BY <3>4 DEF IsExpired
      <4>4. granted'[k] = granted[k] \cup {[at |-> clock, start |-> clock, nth |-> 1]}
        BY <3>3, <4>1, <4>2
      <4> QED BY <1>2, <2>1, <2>2, <3>1, <4>1, <4>3, <4>4, SoundAtRestart
    <3>5. CASE ~(window[k].count = 0 \/ IsExpired(k))
      <4>1. TickWindow(k) = [window[k] EXCEPT !.count = @ + 1]
        BY <3>5 DEF TickWindow
      <4>2. TickWindow(k).start = window[k].start /\ TickWindow(k).count = window[k].count + 1
        BY <4>1 DEF RateInv
      <4>3. window[k].count > 0 /\ clock - window[k].start < RateWindow
        BY <1>2, <1>3, <3>5 DEF IsExpired
      <4>4. granted'[k] = IF window[k].count + 1 <= Limits(k)
                          THEN granted[k] \cup {[at |-> clock, start |-> window[k].start,
                                                nth |-> window[k].count + 1]}
                          ELSE granted[k]
        BY <3>3, <4>2 DEF IsAllowed
      <4>5. SoundAccount(Limits(k), [window[k] EXCEPT !.count = @ + 1],
                         IF window[k].count + 1 <= Limits(k)
                         THEN granted[k] \cup {[at |-> clock, start |-> window[k].start,
                                               nth |-> window[k].count + 1]}
                         ELSE granted[k], clock)
        BY <1>2, <2>1, <2>2, <4>3, SoundWithinWindow
      <4>6. SoundAccount(Limits(k), TickWindow(k), granted'[k], clock)
        BY <4>1, <4>4, <4>5
      <4> QED BY <2>2, <3>1, <4>6
    <3> QED BY <2>2, <3>4, <3>5
  <2>3. CASE j # k /\ j \in kept
    <3>1. window'[j] = window[j] /\ granted'[j] = granted[j]
      BY <1>1, <2>3 DEF Account
    <3> QED BY <2>1, <3>1
  <2>4. CASE j # k /\ j \notin kept
    <3>1. window'[j] = Untracked
      BY <1>1, <2>4
    <3>2. CASE MayLose(j)
      <4>1. granted'[j] = {}
        BY <1>1, <2>4, <3>2 DEF Account
      <4> QED BY <1>2, <2>1, <3>1, <4>1, SoundEmpty
    <3>3. CASE ~MayLose(j)
      <4>1. granted'[j] = granted[j]
        BY <1>1, <2>4, <3>3 DEF Account
      <4>2. window[j].count \in Nat /\ (j \notin Tracked => window[j].count = 0)
        BY DEF RateInv, Tracked
      <4>3. window[j].count = 0 \/ clock - window[j].start >= RateWindow
        BY <2>4, <3>3, <4>2, PruneKeepsLive DEF IsExpired
      <4> QED BY <1>2, <2>1, <3>1, <4>1, <4>3, SoundWhenDropped
    <3> QED BY <3>2, <3>3
  <2> QED BY <2>2, <2>3, <2>4
<1> QED BY <1>2, <1>5, <1>6, <1>7 DEF RateInv, Limits

LEMMA RateInvNext == RateInv /\ [RateNext]_rateVars => RateInv'
<1> SUFFICES ASSUME RateInv, [RateNext]_rateVars PROVE RateInv'
  OBVIOUS
<1>1. CASE MintBypass
  BY <1>1, RateAssumption DEF MintBypass, RateInv, Tracked, Limits
<1>2. CASE PassTime
  <2>1. clock' = clock + 1 /\ clock \in Nat /\ window' = window /\ bypassExp' = bypassExp
    BY <1>2 DEF PassTime, RateInv
  <2>2. ASSUME NEW k \in Keys PROVE SoundAccount(Limits(k), window'[k], granted'[k], clock')
    <3>1. granted'[k] = {g \in granted[k] : clock + 1 - g.at < RateWindow}
      <4>1. granted'[k] = {g \in granted[k] : clock' - g.at < RateWindow}
        BY <1>2 DEF PassTime
      <4>2. \A g \in granted[k] : clock' - g.at < RateWindow <=> clock + 1 - g.at < RateWindow
        BY <2>1 DEF RateInv, SoundAccount
      <4> QED BY <4>1, <4>2, Zenon
    <3>2. SoundAccount(Limits(k), window[k], granted[k], clock) /\ Limits(k) \in Nat \ {0}
      BY KeysAreFinite DEF RateInv
    <3>3. SoundAccount(Limits(k), window[k], granted'[k], clock + 1)
      BY <2>1, <3>1, <3>2, SoundAsTimePasses
    <3> QED BY <2>1, <3>3
  <2>3. window' \in [Keys -> [start : 0..clock', count : Nat]]
    BY <2>1 DEF RateInv
  <2>4. DOMAIN granted' = Keys /\ Tracked' = Tracked
    BY <1>2, <2>1 DEF PassTime, Tracked
  <2> QED BY <2>1, <2>2, <2>3, <2>4 DEF RateInv, Limits
<1>3. ASSUME NEW c \in Clients, NEW s \in Surfaces, NEW shown \in Shows(s), Request(c, s, shown)
      PROVE  RateInv'
  <2>1. <<s, DigestOf[c]>> \in Keys
    BY RateAssumption DEF Keys
  <2> QED BY <1>3, <2>1, CheckKeepsRateInv DEF Request
<1>4. CASE UNCHANGED rateVars
  BY <1>4 DEF rateVars, RateInv, Tracked, Limits
<1> QED BY <1>1, <1>2, <1>3, <1>4 DEF RateNext

\* Type correctness: check() never lets the Map of the in-process limiter grow past
\* MAX_TRACKED_KEYS, whatever keys it is called with.
THEOREM RateTypeCorrect == RateSpec => []RateTypeOK
<1>1. RateInv => RateTypeOK
  BY DEF RateInv, RateTypeOK, SoundAccount, Admissions
<1> QED BY <1>1, RateInvInit, RateInvNext, PTL DEF RateSpec

\* Within any stretch as long as a window a key is let through less than twice its
\* limit, and a check that was refused had been preceded by a full limit's worth of
\* admitted ones in its window: eviction and pruning never reset a live counter, but
\* one of a full Map's oldest.
THEOREM LimitHolds == RateSpec => []LimitIsMeant
<1>1. RateInv => LimitIsMeant
  <2> SUFFICES ASSUME RateInv, NEW k \in Keys
               PROVE  /\ Cardinality(granted[k]) <= 2 * Limits(k) - 1
                      /\ window[k].count > Limits(k) /\ ~IsExpired(k) =>
                           Cardinality({g \in granted[k] : g.start = window[k].start}) = Limits(k)
    BY DEF LimitIsMeant
  <2>1. /\ SoundAccount(Limits(k), window[k], granted[k], clock)
        /\ Limits(k) \in Nat \ {0} /\ clock \in Nat /\ window[k].start \in 0..clock
    BY KeysAreFinite DEF RateInv
  <2>2. ~IsExpired(k) => clock - window[k].start < RateWindow
    BY <2>1, RateAssumption DEF IsExpired
  <2> QED BY <2>1, <2>2, SoundIsBounded
<1> QED BY <1>1, RateInvInit, RateInvNext, PTL DEF RateSpec

-----------------------------------------------------------------------------
(* The mirror.  Two boots may sync at once; a boot's report is about the table *)
(* as it was when the boot listed it, so the invariant follows what each sync  *)
(* has locked and read until another one commits in between (disturbed).       *)


\* The locks a transaction holds cover what it will write: the rows of its own
\* configuration, and those its DELETE found.
LocksCover(p) ==
  sync[p].pc \in {"scan", "delete", "commit"} => Named(ConfigOf[p]) \subseteq sync[p].held

\* Until another sync commits, what the scan saw is what there is.
ScanIsCurrent(p) ==
  p \notin disturbed =>
    /\ sync[p].pc = "delete" => Named(mirror) \subseteq sync[p].held \cup sync[p].doomed
    /\ sync[p].pc = "commit" => Named(mirror) \subseteq sync[p].held
    /\ sync[p].pc = "list" => mirror = ConfigOf[p]

\* A sync reports when it is over, and what MirrorReportsHold says of the report.
ReportHolds(p) ==
  /\ sync[p].report # "none" => sync[p].pc = "done" /\ proc[p] # "off"
  /\ p \in lastSync /\ sync[p].report = "synced" => mirror = ConfigOf[p]
  /\ sync[p].report = "drift" => p \in disturbed

SyncHolds(p) == LocksCover(p) /\ ScanIsCurrent(p) /\ ReportHolds(p)

MirrorInv == MirrorTypeOK /\ \A p \in Boots : SyncHolds(p)

SyncRecord == [pc : SyncPcs, held : SUBSET Models, doomed : SUBSET Models, report : Reports]

\* What the steps of a sync leave of the table.
LEMMA CommitsKeepRows ==
  ASSUME MirrorInv, NEW p \in Boots, Commits(p), sync[p].pc = "commit"
  PROVE  /\ mirror' \subseteq Row /\ KeyIsUnique(mirror')
         /\ lastSync' = {p}
         /\ p \notin disturbed => mirror' = ConfigOf[p] /\ p \notin disturbed'
         /\ disturbed \subseteq disturbed' /\ disturbed' \subseteq Boots
         /\ \A q \in Boots \ {p} : sync[q].pc \in {"delete", "commit", "list"} => q \in disturbed'
<1> USE DEF MirrorInv
<1>1. ConfigOf[p] \subseteq Row /\ KeyIsUnique(ConfigOf[p])
  BY MirrorAssumption
<1>2. mirror' = {r \in mirror : r.model \notin sync[p].held} \cup ConfigOf[p]
  BY DEF Commits, Committed
<1>3. mirror' \subseteq Row
  BY <1>1, <1>2 DEF MirrorTypeOK
<1>4. KeyIsUnique(mirror')
  <2> SUFFICES ASSUME NEW r \in mirror', NEW q \in mirror', r.model = q.model PROVE r = q
    BY DEF KeyIsUnique
  <2>1. \A c \in ConfigOf[p] : c.model \in sync[p].held
    BY DEF SyncHolds, LocksCover, Named
  <2> QED BY <1>1, <1>2, <2>1 DEF MirrorTypeOK, KeyIsUnique
<1>5. ASSUME p \notin disturbed PROVE mirror' = ConfigOf[p]
  <2>1. \A r \in mirror : r.model \in sync[p].held
    BY <1>5 DEF SyncHolds, ScanIsCurrent, Named
  <2> QED BY <1>2, <2>1
<1> QED BY <1>3, <1>4, <1>5 DEF Commits, MirrorTypeOK

LEMMA MirrorInvInit == MirrorInit => MirrorInv
<1> SUFFICES ASSUME MirrorInit PROVE MirrorInv
  OBVIOUS
<1>1. Off \in SyncRecord
  BY DEF Off, SyncRecord, SyncPcs, Reports
<1>2. MirrorTypeOK
  BY <1>1, MirrorAssumption DEF MirrorInit, MirrorTypeOK, SyncRecord, KeyIsUnique
<1>3. ASSUME NEW p \in Boots PROVE SyncHolds(p)
  BY DEF MirrorInit, Off, SyncHolds, LocksCover, ScanIsCurrent, ReportHolds
<1> QED BY <1>2, <1>3 DEF MirrorInv

\* A step of one sync that leaves the table alone is checked at that sync.
LEMMA OneSyncMoves ==
  ASSUME MirrorInv, NEW p \in Boots, TableFrame, NEW rec \in SyncRecord,
         sync' = [sync EXCEPT ![p] = rec], UNCHANGED timedOut, bootFaults' \in Nat,
         proc' \in [Boots -> {"off", "booting", "serving", "killed"}],
         \A q \in Boots \ {p} : proc'[q] = proc[q],
         SyncHolds(p)'
  PROVE  MirrorInv'
<1>1. MirrorTypeOK'
  BY DEF MirrorInv, MirrorTypeOK, TableFrame, SyncRecord
<1>2. ASSUME NEW q \in Boots, q # p PROVE SyncHolds(q)'
  <2>1. sync'[q] = sync[q] /\ proc'[q] = proc[q]
    BY <1>2 DEF MirrorInv, MirrorTypeOK
  <2> QED BY <2>1 DEF MirrorInv, SyncHolds, LocksCover, ScanIsCurrent, ReportHolds, TableFrame
<1> QED BY <1>1, <1>2 DEF MirrorInv

LEMMA SyncKeepsMirrorInv ==
  ASSUME MirrorInv, NEW p \in Boots, SyncStep(p) \/ Reap(p)
  PROVE  MirrorInv'
<1>1. sync[p] \in SyncRecord /\ sync \in [Boots -> SyncRecord] /\ SyncHolds(p)
  BY DEF MirrorInv, MirrorTypeOK, SyncRecord
<1>2. bootFaults' \in Nat /\ UNCHANGED <<timedOut, proc>> /\ proc[p] # "off"
  BY DEF Runs, SyncStep, Upsert, Scan, Delete, Commit, List, FailSync, Reap, ProcFrame, BootFault,
       MirrorInv, MirrorTypeOK
<1>3. proc' \in [Boots -> {"off", "booting", "serving", "killed"}]
  BY <1>2 DEF MirrorInv, MirrorTypeOK
<1>4. Named(ConfigOf[p]) \in SUBSET Models /\ Named(mirror) \in SUBSET Models
  BY MirrorAssumption DEF MirrorInv, MirrorTypeOK, Named, Row
<1>5. CASE Upsert(p) \/ Scan(p) \/ Delete(p)
  <2>1. PICK rec \in SyncRecord :
          /\ sync' = [sync EXCEPT ![p] = rec] /\ rec.report = sync[p].report
          /\ \/ rec.pc = "scan" /\ rec.held = Named(ConfigOf[p])
                /\ sync[p].pc = "upsert"
             \/ /\ rec.pc = "delete" /\ rec.held = sync[p].held
                /\ sync[p].pc = "scan"
                /\ rec.doomed = Named(mirror) \ sync[p].held
             \/ /\ rec.pc = "commit" /\ rec.held = sync[p].held \cup sync[p].doomed
                /\ sync[p].pc = "delete"
    <3>1. CASE Upsert(p)
      <4>1. [sync[p] EXCEPT !.pc = "scan", !.held = Named(ConfigOf[p])] \in SyncRecord
        BY <1>1, <1>4 DEF SyncRecord, SyncPcs
      <4> QED BY <1>1, <3>1, <4>1 DEF Upsert, Runs, SyncRecord
    <3>2. CASE Scan(p)
      <4>1. [sync[p] EXCEPT !.pc = "delete", !.doomed = Named(mirror) \ sync[p].held] \in SyncRecord
        BY <1>1, <1>4 DEF SyncRecord, SyncPcs
      <4> QED BY <1>1, <3>2, <4>1 DEF Scan, Runs, SyncRecord
    <3>3. CASE Delete(p)
      <4>1. [sync[p] EXCEPT !.pc = "commit", !.held = @ \cup sync[p].doomed] \in SyncRecord
        BY <1>1 DEF SyncRecord, SyncPcs
      <4> QED BY <1>1, <3>3, <4>1 DEF Delete, Runs, SyncRecord
    <3> QED BY <1>5, <3>1, <3>2, <3>3
  <2>2. sync'[p] = rec
    BY <1>1, <2>1
  <2>3. TableFrame
    BY <1>5 DEF Upsert, Scan, Delete
  <2>4. SyncHolds(p)'
    BY <1>1, <1>2, <2>1, <2>2, <2>3
       DEF SyncHolds, LocksCover, ScanIsCurrent, ReportHolds, TableFrame
  <2> QED BY <1>2, <1>3, <2>1, <2>3, <2>4, OneSyncMoves
<1>6. ASSUME NEW report \in Reports, Ends(p, report)
      PROVE  /\ [Off EXCEPT !.pc = "done", !.report = report] \in SyncRecord
             /\ sync' = [sync EXCEPT ![p] = [Off EXCEPT !.pc = "done", !.report = report]]
             /\ sync'[p].pc = "done" /\ sync'[p].report = report
  BY <1>1, <1>6 DEF Ends, Off, SyncRecord, SyncPcs
<1>7. CASE List(p)
  <2>1. Ends(p, IF HasDrift(p) THEN "drift" ELSE "synced") /\ TableFrame
    BY <1>7 DEF List
  <2>2. (IF HasDrift(p) THEN "drift" ELSE "synced") \in Reports
    BY DEF Reports
  <2>3. SyncHolds(p)'
    BY <1>1, <1>2, <1>6, <1>7, <2>1, <2>2
       DEF SyncHolds, LocksCover, ScanIsCurrent, ReportHolds, TableFrame, HasDrift, List, Runs
  <2> QED BY <1>2, <1>3, <1>6, <2>1, <2>2, <2>3, OneSyncMoves
<1>8. CASE TableFrame /\ (FailSync(p) \/ Reap(p))
  <2>1. PICK report \in {"failed", "none"} : Ends(p, report)
    BY <1>8 DEF FailSync, Reap
  <2>2. report \in Reports
    BY <2>1 DEF Reports
  <2>3. SyncHolds(p)'
    BY <1>2, <1>6, <2>1, <2>2 DEF SyncHolds, LocksCover, ScanIsCurrent, ReportHolds
  <2> QED BY <1>2, <1>3, <1>6, <1>8, <2>1, <2>2, <2>3, OneSyncMoves
<1>9. CASE sync[p].pc = "commit" /\ Commits(p) /\ (Commit(p) \/ FailSync(p) \/ Reap(p))
  <2>1. PICK rec \in SyncRecord : /\ sync' = [sync EXCEPT ![p] = rec]
                                  /\ rec.pc \in {"list", "done"}
                                  /\ rec.report \in {"none", "failed"}
                                  /\ rec.pc = "list" => rec.report = "none"
    <3>1. CASE Commit(p)
      <4>1. [sync[p] EXCEPT !.pc = "list", !.held = {}, !.doomed = {}] \in SyncRecord
        BY <1>1 DEF SyncRecord, SyncPcs
      <4> QED BY <1>1, <1>9, <3>1, <4>1 DEF Commit, SyncRecord, SyncHolds, ReportHolds
    <3>2. CASE FailSync(p) \/ Reap(p)
      <4>1. PICK report \in {"failed", "none"} : Ends(p, report)
        BY <3>2 DEF FailSync, Reap
      <4>2. [Off EXCEPT !.pc = "done", !.report = report].pc = "done"
        BY DEF Off
      <4>3. [Off EXCEPT !.pc = "done", !.report = report].report = report
        BY DEF Off
      <4> QED BY <1>6, <4>1, <4>2, <4>3 DEF Reports
    <3> QED BY <1>9, <3>1, <3>2
  <2>2. sync' \in [Boots -> SyncRecord] /\ sync'[p] = rec /\ \A q \in Boots \ {p} : sync'[q] = sync[q]
    BY <1>1, <2>1
  <2>3. MirrorTypeOK'
    BY <1>2, <1>3, <1>9, <2>2, CommitsKeepRows DEF MirrorInv, MirrorTypeOK, SyncRecord
  <2>4. SyncHolds(p)'
    BY <1>2, <1>9, <2>1, <2>2, CommitsKeepRows DEF SyncHolds, LocksCover, ScanIsCurrent, ReportHolds
  <2>5. ASSUME NEW q \in Boots \ {p} PROVE SyncHolds(q)'
    <3>1. SyncHolds(q) /\ sync'[q] = sync[q]
      BY <2>2 DEF MirrorInv
    <3> QED BY <1>2, <1>9, <3>1, CommitsKeepRows DEF SyncHolds, LocksCover, ScanIsCurrent, ReportHolds
  <2> QED BY <2>3, <2>4, <2>5 DEF MirrorInv
<1> QED BY <1>5, <1>7, <1>8, <1>9 DEF SyncStep, FailSync, Reap, Commit, Runs

LEMMA MirrorInvNext == MirrorInv /\ [MirrorNext]_mirrorVars => MirrorInv'
<1> SUFFICES ASSUME MirrorInv, [MirrorNext]_mirrorVars PROVE MirrorInv'
  OBVIOUS
<1>1. ASSUME NEW p \in Boots, Start(p) PROVE MirrorInv'
  <2>1. sync[p] \in SyncRecord /\ SyncHolds(p)
    BY DEF MirrorInv, MirrorTypeOK, SyncRecord
  <2>2. /\ proc' \in [Boots -> {"off", "booting", "serving", "killed"}]
        /\ \A q \in Boots \ {p} : proc'[q] = proc[q]
    BY <1>1 DEF Start, MirrorInv, MirrorTypeOK
  <2>3. PICK rec \in SyncRecord : /\ sync' = [sync EXCEPT ![p] = rec]
                                  /\ rec.pc \in {"upsert", "done"}
                                  /\ rec.report \in {sync[p].report, "failed", "skipped"}
                                  /\ rec.pc = "upsert" => rec.report = sync[p].report
    <3>1. CASE SyncTo(p, "upsert")
      <4>1. [sync[p] EXCEPT !.pc = "upsert"] \in SyncRecord
        BY <2>1 DEF SyncRecord, SyncPcs
      <4> QED BY <2>1, <3>1, <4>1 DEF SyncTo, SyncRecord
    <3>2. CASE \E report \in {"failed", "skipped"} : Ends(p, report)
      <4>1. PICK report \in {"failed", "skipped"} : Ends(p, report)
        BY <3>2
      <4>2. [Off EXCEPT !.pc = "done", !.report = report] \in SyncRecord
        BY <4>1 DEF Off, SyncRecord, SyncPcs, Reports
      <4>3. [Off EXCEPT !.pc = "done", !.report = report].pc = "done"
        BY DEF Off
      <4>4. [Off EXCEPT !.pc = "done", !.report = report].report = report
        BY DEF Off
      <4> QED BY <4>1, <4>2, <4>3, <4>4 DEF Ends
    <3> QED BY <1>1, <3>1, <3>2 DEF Start
  <2>4. sync'[p] = rec /\ proc[p] = "off" /\ proc'[p] = "booting"
    BY <1>1, <2>3 DEF Start, MirrorInv, MirrorTypeOK
  <2>5. TableFrame /\ UNCHANGED <<timedOut, bootFaults>> /\ bootFaults' \in Nat
    BY <1>1 DEF Start, MirrorInv, MirrorTypeOK
  <2>6. SyncHolds(p)'
    BY <2>1, <2>3, <2>4, <2>5 DEF SyncHolds, LocksCover, ScanIsCurrent, ReportHolds, TableFrame
  <2> QED BY <2>2, <2>3, <2>5, <2>6, OneSyncMoves
<1>2. ASSUME NEW p \in Boots, Expire(p) \/ Bind(p) \/ Kill(p) PROVE MirrorInv'
  <2>1. MirrorTypeOK'
    BY <1>2 DEF Expire, Bind, Kill, BootFault, MirrorInv, MirrorTypeOK, TableFrame
  <2>2. UNCHANGED <<mirror, lastSync, disturbed, sync>>
    BY <1>2 DEF Expire, Bind, Kill, TableFrame
  <2>3. \A q \in Boots : proc[q] # "off" => proc'[q] # "off"
    BY <1>2 DEF Expire, Bind, Kill, MirrorInv, MirrorTypeOK
  <2> QED BY <2>1, <2>2, <2>3 DEF MirrorInv, SyncHolds, LocksCover, ScanIsCurrent, ReportHolds
<1>3. CASE UNCHANGED mirrorVars
  BY <1>3 DEF mirrorVars, MirrorInv, MirrorTypeOK, SyncHolds, LocksCover, ScanIsCurrent,
       ReportHolds
<1> QED BY <1>1, <1>2, <1>3, SyncKeepsMirrorInv DEF MirrorNext

\* Type correctness, with the primary key of the table: no order of upserts, deletes
\* and commits of concurrent boots leaves two rows of one model.
THEOREM MirrorTypeCorrect == MirrorSpec => []MirrorTypeOK
<1>1. MirrorInv => MirrorTypeOK
  BY DEF MirrorInv
<1> QED BY <1>1, MirrorInvInit, MirrorInvNext, PTL DEF MirrorSpec

\* What a boot logs about its sync is so: the one that synced last left its own
\* configuration and nothing else, and drift is reported only by a boot into whose
\* sync another one committed.
THEOREM BootReportsHold == MirrorSpec => []MirrorReportsHold
<1>1. MirrorInv => MirrorReportsHold
  BY DEF MirrorInv, SyncHolds, ReportHolds, MirrorReportsHold, MirrorTypeOK
<1> QED BY <1>1, MirrorInvInit, MirrorInvNext, PTL DEF MirrorSpec
-----------------------------------------------------------------------------
(* The API process, and the client that evaluates it, as a whole. *)

\* The boots, whatever their fairness.
MirrorSteps == MirrorInit /\ [][MirrorNext]_mirrorVars

LEMMA MirrorStepsTyped == MirrorSteps => []MirrorTypeOK
<1>1. MirrorInv => MirrorTypeOK
  BY DEF MirrorInv
<1> QED BY <1>1, MirrorInvInit, MirrorInvNext, PTL DEF MirrorSteps

\* Each step of the checked specification is one of the limiter, of a boot, of the admin
\* surface, of a run of the pipeline, of its retrieval, of its citations or of the
\* evaluation client, with the others at rest, so what is proved of a part holds of it.
THEOREM ApiImplementsParts ==
  ApiSpec => /\ Spec /\ RateSpec /\ MirrorSteps /\ RunSpec
             /\ RetrievalSpec /\ GateSpec /\ EvalSpec
<1>1. ApiInit => /\ Init /\ RateInit /\ MirrorInit /\ RunInit
                 /\ RetrievalInit /\ GateInit /\ EvalInit
  BY DEF ApiInit
<1>2. [ApiNext]_apiVars =>
        /\ [Next]_vars /\ [RateNext]_rateVars /\ [MirrorNext]_mirrorVars /\ [RunNext]_runVars
        /\ [RetrievalNext]_retrievalVars /\ [GateNext]_gateVars /\ [EvalNext]_evalVars
  BY DEF ApiNext, RetrievalSide, EvalSide, apiVars
<1> QED BY <1>1, <1>2, PTL
        DEF ApiSpec, Spec, RateSpec, MirrorSteps, RunSpec, RetrievalSpec, GateSpec, EvalSpec

\* Every state of every part of the process is well typed, whichever of them takes a step:
\* counters, mirror, admin sessions, run, retrieval, citations and evaluation.
THEOREM ApiTypeCorrect == ApiSpec => []ApiTypeOK
<1>1. TypeOK /\ RateTypeOK /\ MirrorTypeOK /\ RunTypeOK /\ RetrievalTypeOK /\ GateTypeOK
      /\ EvalTypeOK => ApiTypeOK
  BY DEF ApiTypeOK
<1> QED BY <1>1, ApiImplementsParts, AdminTypeCorrect, RateTypeCorrect, MirrorStepsTyped,
           RunTypeCorrect, RetrievalTypeCorrect, GateTypeCorrect, EvalTypeCorrect, PTL
=============================================================================
