------------------------------ MODULE RateLimit ------------------------------
(***************************************************************************)
(* The in-memory rate limiter of the two routes (web/lib/rateLimit.ts).    *)
(*                                                                         *)
(* A budget is a bucket: a count and the start of its window.  One server  *)
(* runs one thread, and a check never awaits, so each check is a step; the *)
(* routes consume the claim's budget and the global one without an await   *)
(* between them, which is one step too.  Callers without a trusted proxy   *)
(* share an identity that is not limited: for them the check of the client *)
(* is no step.                                                             *)
(***************************************************************************)
EXTENDS Integers, Sequences, FiniteSets, FiniteSetsExt

CONSTANTS
  Clients,        \* keys of clients behind a trusted proxy
  Claims,         \* keys of claims
  Global,         \* the key of the global budget
  max,            \* key to the hits its window admits
  windowMs,       \* the length of a window
  MAX_BUCKETS,    \* the size from which the map is swept
  MaxAdmitted,    \* bound: hits admitted per key and window
  MaxTime         \* bound: the clock

Keys == Clients \cup Claims \cup {Global}

ASSUME BudgetsAssumption ==
  /\ IsFiniteSet(Clients) /\ IsFiniteSet(Claims)
  /\ Global \notin Claims
  /\ max \in [Keys -> Nat \ {0}]
  /\ windowMs \in Nat \ {0}
  /\ MAX_BUCKETS \in Nat /\ MAX_BUCKETS >= 2
  /\ {MaxAdmitted, MaxTime} \subseteq Nat

VARIABLES
  buckets,   \* keys with a bucket to [count, windowStart]
  now,       \* Date.now()
  admitted,  \* history: key to the times of the hits admitted within a window's length
  told,      \* history: key to the time its last refusal said to come back, or 0
  dropped    \* history: keys whose bucket was dropped within its window

vars == <<buckets, now, admitted, told, dropped>>

Bucket == [count: Nat \ {0}, windowStart: Nat]

Init ==
  /\ buckets = [k \in {} |-> 0]
  /\ now = 0
  /\ admitted = [k \in Keys |-> <<>>]
  /\ told = [k \in Keys |-> 0]
  /\ dropped = {}

-----------------------------------------------------------------------------
Restricted(b, keys) == [k \in keys |-> b[k]]

LiveTooLong(b, k) == now - b[k].windowStart <= windowMs                \* mutant
Live(b, k) == now - b[k].windowStart < windowMs

\* The oldest half of the buckets.  The code breaks ties by insertion, here any
\* way of breaking them is possible.
OldestHalves(b) ==
  {half \in kSubset(Cardinality(DOMAIN b) \div 2, DOMAIN b) :
     \A k \in half, l \in DOMAIN b \ half : b[k].windowStart <= b[l].windowStart}

FullAbove(b) == Cardinality(DOMAIN b) > MAX_BUCKETS                    \* mutant
Full(b) == Cardinality(DOMAIN b) >= MAX_BUCKETS

\* The buckets that sweepExpired may leave.
sweepExpired(b) ==
  LET live == {k \in DOMAIN b : Live(b, k)}
      kept == Restricted(b, live)
  IN IF ~Full(b) THEN {b}
     ELSE IF ~Full(kept) THEN {kept}
     ELSE {Restricted(kept, live \ half) : half \in OldestHalves(kept)}

AdmitsOneMore(b, k) ==                                                 \* mutant
  k \in DOMAIN b /\ Live(b, k) => b[k].count <= max[k]
Admits(b, k) ==
  k \in DOMAIN b /\ Live(b, k) => b[k].count < max[k]

\* The buckets after an admitted hit, which found the swept buckets b.
Counted(b, k) ==
  LET fresh == [count |-> 1, windowStart |-> now]
      next == IF k \in DOMAIN b /\ Live(b, k)
              THEN [b[k] EXCEPT !.count = @ + 1] ELSE fresh
  IN [l \in DOMAIN b \cup {k} |-> IF l = k THEN next ELSE b[l]]
hit(b, k) == IF Admits(b, k) THEN Counted(b, k) ELSE b

retryAt(b, k) == b[k].windowStart + windowMs

-----------------------------------------------------------------------------
\* What the histories note of a hit on k that found the buckets b.
Note(b, k) ==
  IF Admits(b, k) THEN /\ admitted' = [admitted EXCEPT ![k] = Append(@, now)]
                       /\ told' = [told EXCEPT ![k] = 0]
  ELSE /\ told' = [told EXCEPT ![k] = retryAt(b, k)]
       /\ UNCHANGED admitted

LostLive(before, after) ==
  {k \in DOMAIN before \ DOMAIN after : Live(before, k)}

checkClientLimit(k) ==
  /\ Len(admitted[k]) < MaxAdmitted
  /\ \E b \in sweepExpired(buckets) :
       /\ buckets' = hit(b, k)
       /\ Note(b, k)
       /\ dropped' = dropped \cup LostLive(buckets, b)
  /\ UNCHANGED now

\* A request that is over the budget of its claim.
refuseByClaim(k) ==
  /\ \E b \in sweepExpired(buckets) :
       /\ ~Admits(b, k)
       /\ buckets' = b
       /\ Note(b, k)
       /\ dropped' = dropped \cup LostLive(buckets, b)
  /\ UNCHANGED now

\* A request within the budget of its claim goes on to the global budget.
consumeBudgets(k) ==
  /\ Len(admitted[k]) < MaxAdmitted
  /\ Len(admitted[Global]) < MaxAdmitted
  /\ \E b \in sweepExpired(buckets) :
       /\ Admits(b, k)
       /\ \E g \in sweepExpired(hit(b, k)) :
            /\ buckets' = hit(g, Global)
            /\ IF Admits(g, Global)
               THEN /\ admitted' = [admitted EXCEPT ![k] = Append(@, now),
                                                    ![Global] = Append(@, now)]
                    /\ told' = [told EXCEPT ![k] = 0, ![Global] = 0]
               ELSE /\ admitted' = [admitted EXCEPT ![k] = Append(@, now)]
                    /\ told' = [told EXCEPT ![k] = 0, ![Global] = retryAt(g, Global)]
            /\ dropped' = dropped \cup LostLive(buckets, b) \cup LostLive(hit(b, k), g)
  /\ UNCHANGED now

\* The hits of s, which is in their order, that lie less than a window before t.
Recent(s, t) ==
  SubSeq(s, 1 + Cardinality({i \in DOMAIN s : t - s[i] >= windowMs}), Len(s))

Tick ==
  /\ now < MaxTime
  /\ now' = now + 1
  /\ admitted' = [k \in Keys |-> Recent(admitted[k], now')]
  /\ UNCHANGED <<buckets, told, dropped>>

Next ==
  \/ \E k \in Clients : checkClientLimit(k)
  \/ \E k \in Claims : refuseByClaim(k) \/ consumeBudgets(k)
  \/ Tick

Spec == Init /\ [][Next]_vars

-----------------------------------------------------------------------------
\* The map never grows beyond MAX_BUCKETS (rateLimit.ts, lines 43-45), through
\* any mix of live and expired buckets.
BucketsBounded == Cardinality(DOMAIN buckets) <= MAX_BUCKETS

\* However the hits of a key fall around the ends of its windows, no interval of
\* a window's length admits 2 * max of them, unless its bucket was dropped live.
BurstBounded ==
  \A k \in Keys \ dropped : Len(admitted[k]) < 2 * max[k]

\* The time a refusal names (retryAfterMs, rateLimit.ts:97) is right to the tick:
\* before it the key stays refused, from then on it is admitted.
RetryIsExact ==
  \A k \in Keys \ dropped : told[k] # 0 => (Admits(buckets, k) <=> now >= told[k])
=============================================================================
