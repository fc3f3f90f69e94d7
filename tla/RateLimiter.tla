----------------------------- MODULE RateLimiter -----------------------------
(***************************************************************************)
(* The process-wide fixed-window limiter (packages/rate) and the           *)
(* middleware that keys it.                                                *)
(*                                                                         *)
(*   window[k]   the Map's entry of counter k: the window's start and the  *)
(*               checks in it; a count of 0 is a key the Map does not hold *)
(*                                                                         *)
(* A counter belongs to a surface and to the digest of an address, so two  *)
(* clients whose addresses collide share it.  Time is Date.now in units of *)
(* which a window has RateWindow; it does not step back here.              *)
(***************************************************************************)
EXTENDS Integers, FiniteSets

CONSTANTS Clients, Digests, DigestOf,
          Limit,          \* requests a window admits, per surface
          RateWindow,     \* windowMs
          MaxKeys,        \* maxKeys
          BypassLife,     \* ttlSeconds of a minted token
          MaxClock, MaxOverrun   \* bounds: the clock, refusals counted in a window

Surfaces == {"ip", "admin-login", "admin-read"}
Keys == Surfaces \X Digests

ASSUME RateAssumption ==
  /\ DigestOf \in [Clients -> Digests]
  /\ Limit \in [Surfaces -> Nat \ {0}]
  /\ RateWindow \in Nat \ {0} /\ MaxKeys \in Nat \ {0}
  /\ BypassLife \in Nat /\ MaxClock \in Nat /\ MaxOverrun \in Nat \ {0}
  /\ IsFiniteSet(Digests)

VARIABLES window, clock,
          bypassExp,   \* expiry of the last minted bypass token; 0: none was minted
          granted      \* history: per counter, the admissions less than a window old

rateVars == <<window, clock, bypassExp, granted>>

Untracked == [start |-> 0, count |-> 0]
Tracked == {k \in Keys : window[k].count > 0}
IsExpired(k) == clock - window[k].start >= RateWindow
Limits(k) == Limit[k[1]]

-----------------------------------------------------------------------------
TickWindow_EarlyReset(k) ==
  IF window[k].count = 0 \/ clock - window[k].start >= RateWindow - 1
    THEN [start |-> clock, count |-> 1]
    ELSE [window[k] EXCEPT !.count = @ + 1]

\* tickFixedWindow: an absent or a lapsed window restarts, another one counts.
TickWindow(k) ==
  IF window[k].count = 0 \/ IsExpired(k)
    THEN [start |-> clock, count |-> 1]
    ELSE [window[k] EXCEPT !.count = @ + 1]

IsAllowed(k) == TickWindow(k).count <= Limits(k)

Surviving == {k \in Tracked : ~IsExpired(k)}

Oldest(K) == {k \in K : \A j \in K : window[k].start <= window[j].start}

\* pruneAndEvict: every lapsed window goes, and the oldest of the others when that was
\* not enough.  The Map's order decides between equals.
PruneAndEvict_FirstInserted ==
  {Tracked \ {k} : k \in Tracked}

PruneAndEvict ==
  IF Cardinality(Surviving) < MaxKeys
    THEN {Surviving} ELSE {Surviving \ {k} : k \in Oldest(Surviving)}

Kept_PruneAtNextCheck(k) ==
  IF window[k].count = 0 /\ Cardinality(Tracked) > MaxKeys
    THEN PruneAndEvict ELSE {Tracked}

\* Only a key the Map does not hold can make it prune.
Kept(k) ==
  IF window[k].count = 0 /\ Cardinality(Tracked) >= MaxKeys
    THEN PruneAndEvict ELSE {Tracked}

\* A counter that loses its window to the capacity starts a new account of its
\* admissions, if every counter is live and none is older.
MayLose(j) == Cardinality(Surviving) = MaxKeys /\ j \in Oldest(Surviving)

Account(k, kept, j) ==
  LET old == IF j \notin kept /\ MayLose(j) THEN {} ELSE granted[j]
  IN  IF j = k /\ IsAllowed(k)
        THEN old \cup {[at |-> clock, start |-> TickWindow(k).start,
                        nth |-> TickWindow(k).count]}
        ELSE old

Check(k) ==
  /\ window[k].count < Limits(k) + MaxOverrun
  /\ \E kept \in Kept(k) :
       /\ window' = [j \in Keys |-> IF j = k THEN TickWindow(k)
                                    ELSE IF j \in kept THEN window[j] ELSE Untracked]
       /\ granted' = [j \in Keys |-> Account(k, kept, j)]
  /\ UNCHANGED <<clock, bypassExp>>

\* A bypass token exempts a request until it expires; a forged or an expired one is
\* metered like none, and only the public surface reads it.
Shows(s) == IF s = "ip" THEN BOOLEAN ELSE {FALSE}

Request(c, s, shown) ==
  /\ ~(shown /\ bypassExp > clock)
  /\ Check(<<s, DigestOf[c]>>)

MintBypass ==
  /\ bypassExp' = clock + BypassLife
  /\ UNCHANGED <<window, clock, granted>>

PassTime ==
  /\ clock < MaxClock
  /\ clock' = clock + 1
  /\ granted' = [k \in Keys |-> {g \in granted[k] : clock' - g.at < RateWindow}]
  /\ UNCHANGED <<window, bypassExp>>

RateInit ==
  /\ window = [k \in Keys |-> Untracked]
  /\ clock = 0 /\ bypassExp = 0
  /\ granted = [k \in Keys |-> {}]

RateNext ==
  \/ MintBypass \/ PassTime
  \/ \E c \in Clients, s \in Surfaces : \E shown \in Shows(s) : Request(c, s, shown)

RateSpec == RateInit /\ [][RateNext]_rateVars

-----------------------------------------------------------------------------
(* Type correctness of the limiter's Map: never more than MaxKeys counters, and    *)
(* every window started in the past.                                               *)
Admissions(k) == [at : 0..clock, start : 0..clock, nth : 1..Limits(k)]

RateTypeOK ==
  /\ clock \in Nat /\ bypassExp \in Nat
  /\ window \in [Keys -> [start : 0..clock, count : Nat]]
  /\ \A k \in Keys : granted[k] \subseteq Admissions(k)
  /\ DOMAIN granted = Keys
  /\ Cardinality(Tracked) <= MaxKeys

(* The account of a counter is exact between two of its evictions.  Any span       *)
(* shorter than a window holds at most twice the limit less one of its admissions: *)
(* the burst across a boundary of tickFixedWindow's windows, and never the full    *)
(* double; and while a window refuses, exactly its limit of requests was admitted  *)
(* in it, whichever clients share its digest and whatever else was evicted.  An    *)
(* account ends only when pruneAndEvict had to take a live window and took an      *)
(* oldest one: any other loss would give the client a second budget.               *)
LimitIsMeant ==
  \A k \in Keys :
    /\ Cardinality(granted[k]) <= 2 * Limits(k) - 1
    /\ window[k].count > Limits(k) /\ ~IsExpired(k) =>
         Cardinality({g \in granted[k] : g.start = window[k].start}) = Limits(k)
=============================================================================
