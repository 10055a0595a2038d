--------------------------- MODULE RateLimitProofs ---------------------------
(***************************************************************************)
(* Why the limiter keeps within its memory, bounds bursts and tells the    *)
(* exact time to come back, for any keys, limits, window and capacity.     *)
(*                                                                         *)
(* A sweep leaves room for one more bucket.  A key that was refused keeps  *)
(* its full bucket until the window named in the refusal ends, unless it   *)
(* is among the oldest that a sweep drops.  Of a key's recent hits all but *)
(* a live bucket's are fewer than its budget.                              *)
(***************************************************************************)
EXTENDS RateLimit, FiniteSetTheorems, SequenceTheorems, TLAPS

IsBuckets(b) == DOMAIN b \subseteq Keys /\ b \in [DOMAIN b -> Bucket]

\* No more buckets than n says.
Within(b, n) == IsBuckets(b) /\ Cardinality(DOMAIN b) <= n

\* The time t is the end of the window of a full bucket, or has come.
Exact(b, t, k) ==
  \/ k \notin DOMAIN b /\ now >= t
  \/ k \in DOMAIN b /\ t = retryAt(b, k) /\ b[k].count >= max[k]

ToldExactly == \A k \in Keys \ dropped : told[k] # 0 => Exact(buckets, told[k], k)

IInv ==
  /\ Within(buckets, MAX_BUCKETS)
  /\ now \in Nat /\ told \in [Keys -> Nat]
  /\ ToldExactly
-----------------------------------------------------------------------------
LEMMA KeysFinite == IsFiniteSet(Keys)
<1>1. IsFiniteSet({Global})
  BY FS_Singleton
<1>2. IsFiniteSet(Clients \cup Claims)
  BY FS_Union, BudgetsAssumption
<1> QED BY <1>1, <1>2, FS_Union DEF Keys

LEMMA DomainFinite ==
  ASSUME NEW b, IsBuckets(b)
  PROVE  IsFiniteSet(DOMAIN b) /\ Cardinality(DOMAIN b) \in Nat
<1>1. IsFiniteSet(DOMAIN b)
  BY KeysFinite, FS_Subset DEF IsBuckets
<1> QED BY <1>1, FS_CardinalityType

LEMMA RestrictedIs ==
  ASSUME NEW b, NEW keys
  PROVE  /\ DOMAIN Restricted(b, keys) = keys
         /\ \A k \in keys : Restricted(b, keys)[k] = b[k]
         /\ Restricted(b, keys) = [k \in keys |-> b[k]]
BY DEF Restricted

\* A sweep leaves some of the buckets as they were, and room for one more.
LEMMA SweepMakesRoom ==
  ASSUME NEW b, Within(b, MAX_BUCKETS), NEW after \in sweepExpired(b)
  PROVE  /\ Within(after, MAX_BUCKETS - 1)
         /\ DOMAIN after \subseteq DOMAIN b
         /\ \A k \in DOMAIN after : after[k] = b[k]
<1> DEFINE live == {k \in DOMAIN b : Live(b, k)}
<1> DEFINE kept == Restricted(b, live)
<1>1. IsBuckets(b) /\ Cardinality(DOMAIN b) <= MAX_BUCKETS
  BY DEF Within
<1>2. DOMAIN kept = live /\ \A k \in live : kept[k] = b[k]
  BY RestrictedIs
<1>3. MAX_BUCKETS \in Nat /\ MAX_BUCKETS >= 2
  BY BudgetsAssumption
<1>4. /\ IsFiniteSet(DOMAIN b) /\ Cardinality(DOMAIN b) \in Nat
      /\ IsFiniteSet(live) /\ Cardinality(live) \in Nat /\ Cardinality(live) <= Cardinality(DOMAIN b)
  <2>1. IsFiniteSet(DOMAIN b) /\ Cardinality(DOMAIN b) \in Nat
    BY <1>1, DomainFinite
  <2>2. live \in SUBSET DOMAIN b
    OBVIOUS
  <2>3. IsFiniteSet(live) /\ Cardinality(live) <= Cardinality(DOMAIN b)
    BY <2>1, <2>2, FS_Subset
  <2> QED BY <2>1, <2>3, FS_CardinalityType
<1>5. CASE ~Full(b)
  <2>1. after = b
    BY <1>5 DEF sweepExpired
  <2> QED BY <1>1, <1>3, <1>4, <1>5, <2>1 DEF Within, Full
<1>6. CASE Full(b) /\ ~Full(kept)
  <2>1. after = kept
    BY <1>6 DEF sweepExpired
  <2>2. Cardinality(live) <= MAX_BUCKETS - 1
    BY <1>2, <1>3, <1>4, <1>6 DEF Full
  <2>3. IsBuckets(after)
    BY <1>1, <2>1, RestrictedIs DEF IsBuckets
  <2> QED BY <1>2, <2>1, <2>2, <2>3 DEF Within
<1>7. CASE Full(b) /\ Full(kept)
  <2>1. PICK half \in OldestHalves(kept) : after = Restricted(kept, live \ half)
    BY <1>7 DEF sweepExpired
  <2>2. half \in SUBSET live /\ Cardinality(half) = Cardinality(live) \div 2
    BY <1>2, <2>1 DEF OldestHalves, kSubset
  <2>3. DOMAIN after = live \ half /\ \A k \in live \ half : after[k] = b[k]
    BY <1>2, <2>1, RestrictedIs
  <2>4. IsBuckets(after)
    BY <1>1, <1>2, <2>1, <2>3, RestrictedIs DEF IsBuckets
  <2>5. Cardinality(live \ half) = Cardinality(live) - Cardinality(half)
    <3>1. live \cap half = half
      BY <2>2
    <3> HIDE DEF live
    <3> QED BY <1>4, <3>1, FS_Difference
  <2>6. Cardinality(live) = MAX_BUCKETS
    BY <1>1, <1>2, <1>3, <1>4, <1>7 DEF Full
  <2>7. Cardinality(live \ half) <= MAX_BUCKETS - 1
    <3>1. MAX_BUCKETS \div 2 >= 1
      BY <1>3
    <3>2. MAX_BUCKETS \div 2 \in Int
      BY <1>3
    <3> HIDE DEF live
    <3> QED BY <1>3, <2>2, <2>5, <2>6, <3>1, <3>2
  <2> QED BY <2>3, <2>4, <2>7 DEF Within
<1> QED BY <1>5, <1>6, <1>7

\* A hit adds one bucket at most.
LEMMA HitAddsOne ==
  ASSUME NEW b, NEW n \in Nat, Within(b, n), NEW k \in Keys, now \in Nat
  PROVE  /\ Within(hit(b, k), n + 1)
         /\ \A l \in Keys \ {k} :
              /\ l \in DOMAIN hit(b, k) <=> l \in DOMAIN b
              /\ l \in DOMAIN b => hit(b, k)[l] = b[l]
<1>1. IsBuckets(b) /\ Cardinality(DOMAIN b) <= n
  BY DEF Within
<1>2. IsFiniteSet(DOMAIN b) /\ Cardinality(DOMAIN b) \in Nat
  BY <1>1, DomainFinite
<1>3. CASE ~Admits(b, k)
  BY <1>1, <1>2, <1>3 DEF hit, Within
<1>4. CASE Admits(b, k)
  <2> DEFINE new == IF k \in DOMAIN b /\ Live(b, k)
                    THEN [b[k] EXCEPT !.count = @ + 1] ELSE [count |-> 1, windowStart |-> now]
  <2>1. hit(b, k) = [l \in DOMAIN b \cup {k} |-> IF l = k THEN new ELSE b[l]]
    BY <1>4 DEF hit, Counted
  <2>2. new \in Bucket
    BY <1>1 DEF IsBuckets, Bucket
  <2> HIDE DEF new
  <2>3. IsBuckets(hit(b, k)) /\ DOMAIN hit(b, k) = DOMAIN b \cup {k}
    BY <1>1, <2>1, <2>2 DEF IsBuckets
  <2>4. Cardinality(DOMAIN b \cup {k}) <= n + 1
    BY <1>1, <1>2, FS_AddElement
  <2> QED BY <2>1, <2>3, <2>4 DEF Within
<1> QED BY <1>3, <1>4
-----------------------------------------------------------------------------
\* What a sweep drops was expired, or is noted as lost.
LEMMA SweepExact ==
  ASSUME NEW b, Within(b, MAX_BUCKETS), NEW after \in sweepExpired(b), now \in Nat,
         NEW k, k \notin LostLive(b, after), NEW t, Exact(b, t, k)
  PROVE  Exact(after, t, k)
<1>1. DOMAIN after \subseteq DOMAIN b /\ \A l \in DOMAIN after : after[l] = b[l]
  BY SweepMakesRoom
<1>2. CASE k \notin DOMAIN b
  BY <1>1, <1>2 DEF Exact
<1>3. CASE k \in DOMAIN after
  BY <1>1, <1>3 DEF Exact, retryAt
<1>4. CASE k \in DOMAIN b \ DOMAIN after
  <2>1. ~Live(b, k) /\ t = b[k].windowStart + windowMs
    BY <1>4 DEF LostLive, Exact, retryAt
  <2>2. b[k].windowStart \in Nat /\ windowMs \in Nat
    BY <1>4, BudgetsAssumption DEF Within, IsBuckets, Bucket
  <2> QED BY <1>4, <2>1, <2>2 DEF Live, Exact
<1> QED BY <1>1, <1>2, <1>3, <1>4

\* A hit on a key tells nothing new of the others.
LEMMA HitExact ==
  ASSUME NEW b, NEW n \in Nat, Within(b, n), NEW k \in Keys, now \in Nat,
         NEW l \in Keys \ {k}, NEW t, Exact(b, t, l)
  PROVE  Exact(hit(b, k), t, l)
BY HitAddsOne DEF Exact, retryAt

\* A refusal names the end of the window.
LEMMA RefusalExact ==
  ASSUME NEW b, IsBuckets(b), NEW k \in Keys, ~Admits(b, k)
  PROVE  Exact(b, retryAt(b, k), k) /\ retryAt(b, k) \in Nat /\ hit(b, k) = b
<1>1. k \in DOMAIN b /\ ~(b[k].count < max[k])
  BY DEF Admits
<1>2. b[k].count \in Nat /\ b[k].windowStart \in Nat /\ max[k] \in Nat /\ windowMs \in Nat
  BY <1>1, BudgetsAssumption DEF IsBuckets, Bucket
<1> QED BY <1>1, <1>2 DEF Exact, retryAt, hit
-----------------------------------------------------------------------------
LEMMA InitIInv == Init => IInv
<1> SUFFICES ASSUME Init PROVE IInv
  OBVIOUS
<1>1. DOMAIN buckets = {} /\ Cardinality({}) = 0
  BY FS_EmptySet DEF Init
<1>2. IsBuckets(buckets)
  BY DEF Init, IsBuckets
<1>3. Within(buckets, MAX_BUCKETS)
  BY <1>1, <1>2, BudgetsAssumption DEF Within
<1>4. now \in Nat /\ told \in [Keys -> Nat] /\ ToldExactly
  BY DEF Init, ToldExactly
<1> QED BY <1>3, <1>4 DEF IInv
\* After a step that takes no time, it suffices to look at what it leaves.
LEMMA SameTime ==
  ASSUME now \in Nat, UNCHANGED now, Within(buckets', MAX_BUCKETS), told' \in [Keys -> Nat],
         \A k \in Keys \ dropped' : told'[k] # 0 => Exact(buckets', told'[k], k)
  PROVE  IInv'
<1>1. Within(buckets, MAX_BUCKETS)'
  BY DEF Within, IsBuckets
<1>2. ToldExactly'
  BY DEF ToldExactly, Exact, retryAt
<1> QED BY <1>1, <1>2 DEF IInv

LEMMA ClientKeeps ==
  ASSUME IInv, NEW k \in Clients, checkClientLimit(k)
  PROVE  IInv'
<1>1. PICK b \in sweepExpired(buckets) :
        /\ buckets' = hit(b, k) /\ Note(b, k) /\ dropped' = dropped \cup LostLive(buckets, b)
  BY DEF checkClientLimit
<1>2. now' = now /\ now \in Nat /\ told \in [Keys -> Nat] /\ k \in Keys
  BY DEF checkClientLimit, IInv, Keys
<1>3. MAX_BUCKETS \in Nat /\ MAX_BUCKETS >= 2 /\ MAX_BUCKETS - 1 \in Nat
  BY BudgetsAssumption
<1>4. Within(b, MAX_BUCKETS - 1) /\ IsBuckets(b)
  BY <1>1, SweepMakesRoom DEF IInv, Within
<1>5. Within(buckets', MAX_BUCKETS)
  <2>1. Within(hit(b, k), (MAX_BUCKETS - 1) + 1)
    BY <1>2, <1>3, <1>4, HitAddsOne
  <2>2. (MAX_BUCKETS - 1) + 1 = MAX_BUCKETS
    BY <1>3
  <2> QED BY <1>1, <2>1, <2>2
<1>6. ASSUME NEW l \in Keys \ dropped', told[l] # 0
      PROVE  Exact(b, told[l], l) /\ (l # k => Exact(hit(b, k), told[l], l))
  <2>1. Exact(buckets, told[l], l) /\ l \notin LostLive(buckets, b)
    BY <1>1, <1>6 DEF IInv, ToldExactly
  <2>2. Exact(b, told[l], l)
    BY <1>1, <1>2, <2>1, SweepExact DEF IInv
  <2> QED BY <1>2, <1>3, <1>4, <2>2, HitExact
<1>7. CASE Admits(b, k)
  <2>1. told' = [told EXCEPT ![k] = 0]
    BY <1>1, <1>7 DEF Note
  <2> QED BY <1>1, <1>2, <1>5, <1>6, <2>1, SameTime
<1>8. CASE ~Admits(b, k)
  <2>1. told' = [told EXCEPT ![k] = retryAt(b, k)]
    BY <1>1, <1>8 DEF Note
  <2>2. Exact(b, retryAt(b, k), k) /\ retryAt(b, k) \in Nat /\ hit(b, k) = b
    BY <1>2, <1>4, <1>8, RefusalExact
  <2> QED BY <1>1, <1>2, <1>5, <1>6, <2>1, <2>2, SameTime
<1> QED BY <1>7, <1>8

LEMMA ClaimRefusedKeeps ==
  ASSUME IInv, NEW k \in Claims, refuseByClaim(k)
  PROVE  IInv'
<1>1. PICK b \in sweepExpired(buckets) :
        /\ ~Admits(b, k) /\ buckets' = b /\ Note(b, k)
        /\ dropped' = dropped \cup LostLive(buckets, b)
  BY DEF refuseByClaim
<1>2. now' = now /\ now \in Nat /\ told \in [Keys -> Nat] /\ k \in Keys
  BY DEF refuseByClaim, IInv, Keys
<1>3. Within(b, MAX_BUCKETS - 1) /\ IsBuckets(b)
  BY <1>1, SweepMakesRoom DEF IInv, Within
<1>4. Within(buckets', MAX_BUCKETS)
  <2>1. Cardinality(DOMAIN b) \in Nat /\ MAX_BUCKETS \in Nat
    BY <1>3, DomainFinite, BudgetsAssumption
  <2> QED BY <1>1, <1>3, <2>1 DEF Within
<1>5. told' = [told EXCEPT ![k] = retryAt(b, k)]
  BY <1>1 DEF Note
<1>6. Exact(b, retryAt(b, k), k) /\ retryAt(b, k) \in Nat
  BY <1>1, <1>2, <1>3, RefusalExact
<1>7. ASSUME NEW l \in Keys \ dropped', told[l] # 0 PROVE Exact(b, told[l], l)
  <2>1. Exact(buckets, told[l], l) /\ l \notin LostLive(buckets, b)
    BY <1>1, <1>7 DEF IInv, ToldExactly
  <2> QED BY <1>1, <1>2, <2>1, SweepExact DEF IInv
<1> QED BY <1>1, <1>2, <1>4, <1>5, <1>6, <1>7, SameTime

\* Both budgets, with a sweep before each.
LEMMA ConsumeKeeps ==
  ASSUME IInv, NEW k \in Claims, consumeBudgets(k)
  PROVE  IInv'
<1>0. PICK b \in sweepExpired(buckets) :
        /\ Admits(b, k)
        /\ \E g \in sweepExpired(hit(b, k)) :
             /\ buckets' = hit(g, Global)
             /\ IF Admits(g, Global)
                THEN told' = [told EXCEPT ![k] = 0, ![Global] = 0]
                ELSE told' = [told EXCEPT ![k] = 0, ![Global] = retryAt(g, Global)]
             /\ dropped' = dropped \cup LostLive(buckets, b) \cup LostLive(hit(b, k), g)
  BY DEF consumeBudgets
<1>1. PICK g \in sweepExpired(hit(b, k)) :
        /\ buckets' = hit(g, Global)
        /\ IF Admits(g, Global)
           THEN told' = [told EXCEPT ![k] = 0, ![Global] = 0]
           ELSE told' = [told EXCEPT ![k] = 0, ![Global] = retryAt(g, Global)]
        /\ dropped' = dropped \cup LostLive(buckets, b) \cup LostLive(hit(b, k), g)
  BY <1>0
<1>2. /\ now' = now /\ now \in Nat /\ told \in [Keys -> Nat]
      /\ k \in Keys /\ Global \in Keys /\ k # Global
  BY BudgetsAssumption DEF consumeBudgets, IInv, Keys
<1>3. MAX_BUCKETS \in Nat /\ MAX_BUCKETS - 1 \in Nat /\ (MAX_BUCKETS - 1) + 1 = MAX_BUCKETS
  BY BudgetsAssumption
<1>4. Within(b, MAX_BUCKETS - 1)
  BY <1>1, SweepMakesRoom DEF IInv
<1>5. Within(hit(b, k), MAX_BUCKETS)
  BY <1>2, <1>3, <1>4, HitAddsOne
<1>6. Within(g, MAX_BUCKETS - 1) /\ IsBuckets(g)
  BY <1>1, <1>5, SweepMakesRoom DEF Within
<1>7. Within(buckets', MAX_BUCKETS)
  BY <1>1, <1>2, <1>3, <1>6, HitAddsOne
<1>8. ASSUME NEW l \in Keys \ dropped', l # k, told[l] # 0
      PROVE  Exact(g, told[l], l) /\ (l # Global => Exact(hit(g, Global), told[l], l))
  <2>1. /\ Exact(buckets, told[l], l)
        /\ l \notin LostLive(buckets, b) /\ l \notin LostLive(hit(b, k), g)
    BY <1>1, <1>8 DEF IInv, ToldExactly
  <2>2. Exact(b, told[l], l)
    BY <1>1, <1>2, <2>1, SweepExact DEF IInv
  <2>3. Exact(hit(b, k), told[l], l)
    BY <1>2, <1>3, <1>4, <1>8, <2>2, HitExact
  <2>4. Exact(g, told[l], l)
    BY <1>1, <1>2, <1>5, <2>1, <2>3, SweepExact
  <2> QED BY <1>2, <1>3, <1>6, <2>4, HitExact
<1>9. CASE Admits(g, Global)
  BY <1>1, <1>2, <1>7, <1>8, <1>9, SameTime
<1>10. CASE ~Admits(g, Global)
  <2>1. Exact(g, retryAt(g, Global), Global) /\ retryAt(g, Global) \in Nat /\ hit(g, Global) = g
    BY <1>2, <1>6, <1>10, RefusalExact
  <2> QED BY <1>1, <1>2, <1>7, <1>8, <1>10, <2>1, SameTime
<1> QED BY <1>9, <1>10

LEMMA TickKeeps == IInv /\ Tick => IInv'
<1> SUFFICES ASSUME IInv, Tick PROVE IInv'
  OBVIOUS
<1>1. now' = now + 1 /\ now' \in Nat /\ UNCHANGED <<buckets, told, dropped>>
  BY DEF Tick, IInv
<1>2. ToldExactly'
  <2> SUFFICES ASSUME NEW k \in Keys \ dropped, told[k] # 0 PROVE Exact(buckets, told[k], k)'
    BY <1>1 DEF ToldExactly
  <2>1. Exact(buckets, told[k], k) /\ told[k] \in Nat /\ now \in Nat
    BY DEF IInv, ToldExactly
  <2> QED BY <1>1, <2>1 DEF Exact, retryAt
<1> QED BY <1>1, <1>2 DEF IInv, Within, IsBuckets

LEMMA NextIInv == IInv /\ [Next]_vars => IInv'
<1> SUFFICES ASSUME IInv, [Next]_vars PROVE IInv'
  OBVIOUS
<1>1. CASE \E k \in Clients : checkClientLimit(k)
  BY <1>1, ClientKeeps
<1>2. CASE \E k \in Claims : refuseByClaim(k) \/ consumeBudgets(k)
  BY <1>2, ClaimRefusedKeeps, ConsumeKeeps
<1>3. CASE Tick
  BY <1>3, TickKeeps
<1>4. CASE UNCHANGED vars
  BY <1>4 DEF vars, IInv, Within, IsBuckets, ToldExactly, Exact, retryAt
<1> QED BY <1>1, <1>2, <1>3, <1>4 DEF Next

\* The map never grows beyond MAX_BUCKETS (rateLimit.ts:40-69).
THEOREM BucketsBoundedHolds == Spec => []BucketsBounded
<1>1. IInv => BucketsBounded
  BY DEF IInv, Within, BucketsBounded
<1> QED BY InitIInv, NextIInv, <1>1, PTL DEF Spec

\* Before the time that a refusal names (retryAfterMs) the key stays refused, from
\* then on it is admitted, unless a sweep dropped its bucket (rateLimit.ts:88-133).
THEOREM RetryIsExactHolds == Spec => []RetryIsExact
<1>1. IInv => RetryIsExact
  <2> SUFFICES ASSUME IInv, NEW k \in Keys \ dropped, told[k] # 0
               PROVE  Admits(buckets, k) <=> now >= told[k]
    BY DEF RetryIsExact
  <2>1. Exact(buckets, told[k], k) /\ now \in Nat /\ told[k] \in Nat
    BY DEF IInv, ToldExactly
  <2>2. CASE k \notin DOMAIN buckets
    BY <2>1, <2>2 DEF Exact, Admits
  <2>3. CASE k \in DOMAIN buckets
    <3>1. /\ told[k] = buckets[k].windowStart + windowMs /\ buckets[k].count >= max[k]
      BY <2>1, <2>3 DEF Exact, retryAt
    <3>2. /\ buckets[k].windowStart \in Nat /\ buckets[k].count \in Nat
          /\ windowMs \in Nat /\ max[k] \in Nat
      BY <2>3, BudgetsAssumption DEF IInv, Within, IsBuckets, Bucket
    <3> QED BY <2>1, <2>3, <3>1, <3>2 DEF Admits, Live
  <2> QED BY <2>2, <2>3
<1> QED BY InitIInv, NextIInv, <1>1, PTL DEF Spec

-----------------------------------------------------------------------------
(* Bursts.                                                                 *)

\* The hits s of a key, in order, the last not later than t.
InOrder(s, t) ==
  /\ s \in Seq(Nat)
  /\ \A i \in DOMAIN s : s[i] <= t
  /\ \A i, j \in DOMAIN s : i <= j => s[i] <= s[j]

\* Of m hits that s may get from a window, the last c are those of the window
\* that began at w, and the windows before have left too few to matter.
Counts(s, c, w, m) ==
  /\ c <= m
  /\ c <= Len(s)
  /\ s[Len(s) - c + 1] = w
  /\ Len(s) - c <= m - 1

\* The hits s of k and its bucket: what a live one has counted, and what is left
\* of the windows before.
Shared(b, s, k) ==
  IF k \in DOMAIN b /\ Live(b, k)
  THEN Counts(s, b[k].count, b[k].windowStart, max[k])
  ELSE Len(s) <= max[k] - 1

BurstInv ==
  /\ DOMAIN admitted = Keys
  /\ \A k \in Keys : InOrder(admitted[k], now)
  /\ \A k \in Keys \ dropped : Shared(buckets, admitted[k], k)

\* What a sweep drops was expired, or is noted as lost.
LEMMA SweepShared ==
  ASSUME NEW b, Within(b, MAX_BUCKETS), NEW after \in sweepExpired(b),
         NEW k, k \notin LostLive(b, after), NEW s, Shared(b, s, k)
  PROVE  Shared(after, s, k)
<1>1. DOMAIN after \subseteq DOMAIN b /\ \A l \in DOMAIN after : after[l] = b[l]
  BY SweepMakesRoom
<1>2. CASE k \in DOMAIN after
  BY <1>1, <1>2 DEF Shared, Live
<1>3. CASE k \notin DOMAIN after
  BY <1>1, <1>3 DEF Shared, LostLive
<1> QED BY <1>2, <1>3

\* A hit on another key.
LEMMA HitSharedElsewhere ==
  ASSUME NEW b, NEW n \in Nat, Within(b, n), NEW k \in Keys, now \in Nat,
         NEW l \in Keys \ {k}, NEW s, Shared(b, s, l)
  PROVE  Shared(hit(b, k), s, l)
BY HitAddsOne DEF Shared, Live

\* What the order of hits gives.
LEMMA Ordered ==
  ASSUME NEW s, NEW t, InOrder(s, t)
  PROVE  /\ s \in Seq(Nat) /\ Len(s) \in Nat /\ DOMAIN s = 1..Len(s)
         /\ \A i \in 1..Len(s) : s[i] \in Nat /\ s[i] <= t
         /\ \A i, j \in 1..Len(s) : i <= j => s[i] <= s[j]
<1>1. s \in Seq(Nat) /\ Len(s) \in Nat /\ DOMAIN s = 1..Len(s)
  BY DEF InOrder
<1> QED BY <1>1 DEF InOrder

LEMMA IntervalSize ==
  ASSUME NEW n \in Nat
  PROVE  IsFiniteSet(1..n) /\ Cardinality(1..n) = n
<1>1. IsFiniteSet(1..n) /\ Cardinality(1..n) = IF 1 > n THEN 0 ELSE n - 1 + 1
  BY FS_Interval
<1> QED BY <1>1

LEMMA Appended ==
  ASSUME NEW s \in Seq(Nat), NEW t \in Nat
  PROVE  /\ Append(s, t) \in Seq(Nat)
         /\ Len(Append(s, t)) = Len(s) + 1 /\ Append(s, t)[Len(s) + 1] = t
         /\ \A i \in 1..Len(s) : Append(s, t)[i] = s[i]
OBVIOUS

LEMMA CountsNext ==
  ASSUME NEW s \in Seq(Nat), NEW t \in Nat, NEW c \in Nat, NEW w, NEW m \in Nat,
         Counts(s, c, w, m), c > 0, c < m
  PROVE  Counts(Append(s, t), c + 1, w, m)
<1> DEFINE n == Len(s)
           s1 == Append(s, t)
<1>1. n \in Nat /\ Len(s1) = n + 1 /\ \A i \in 1..n : s1[i] = s[i]
  BY Appended
<1>2. c <= n /\ s[n - c + 1] = w /\ n - c <= m - 1
  BY DEF Counts
<1> HIDE DEF n, s1
<1>3. n - c + 1 \in 1..n /\ (n + 1) - (c + 1) + 1 = n - c + 1
  BY <1>1, <1>2
<1>4. s1[(n + 1) - (c + 1) + 1] = w
  BY <1>1, <1>2, <1>3
<1>5. c + 1 <= m /\ c + 1 <= n + 1 /\ (n + 1) - (c + 1) <= m - 1
  BY <1>1, <1>2
<1>6. Counts(s1, c + 1, w, m)
  BY <1>1, <1>4, <1>5 DEF Counts
<1> QED BY <1>6 DEF s1

LEMMA CountsFirst ==
  ASSUME NEW s \in Seq(Nat), NEW t \in Nat, NEW m \in Nat, m > 0, Len(s) <= m - 1
  PROVE  Counts(Append(s, t), 1, t, m)
<1> DEFINE n == Len(s)
           s1 == Append(s, t)
<1>1. n \in Nat /\ Len(s1) = n + 1 /\ s1[n + 1] = t /\ n <= m - 1
  BY Appended
<1> HIDE DEF n, s1
<1>2. (n + 1) - 1 + 1 = n + 1 /\ 1 <= n + 1 /\ (n + 1) - 1 <= m - 1 /\ 1 <= m
  BY <1>1
<1>3. Counts(s1, 1, t, m)
  BY <1>1, <1>2 DEF Counts
<1> QED BY <1>3 DEF s1

\* An admitted hit joins the window of a live bucket, or begins one.
LEMMA HitShared ==
  ASSUME NEW b, IsBuckets(b), NEW k \in Keys, Admits(b, k), now \in Nat,
         NEW s, InOrder(s, now), Shared(b, s, k)
  PROVE  Shared(hit(b, k), Append(s, now), k)
<1> DEFINE b1 == hit(b, k)
<1>1. s \in Seq(Nat) /\ max[k] \in Nat /\ max[k] > 0 /\ windowMs \in Nat \ {0}
  BY Ordered, BudgetsAssumption
<1>2. CASE k \in DOMAIN b /\ Live(b, k)
  <2>1. b[k].count \in Nat \ {0} /\ b[k] \in Bucket
    BY <1>2 DEF IsBuckets, Bucket
  <2>2. k \in DOMAIN b1 /\ b1[k] = [b[k] EXCEPT !.count = @ + 1]
    BY <1>2 DEF hit, Counted
  <2>3. b1[k].count = b[k].count + 1 /\ b1[k].windowStart = b[k].windowStart
    BY <2>1, <2>2 DEF Bucket
  <2>4. b[k].count < max[k] /\ Live(b1, k)
    BY <1>2, <2>3 DEF Admits, Live
  <2>5. Counts(s, b[k].count, b[k].windowStart, max[k])
    BY <1>2 DEF Shared
  <2>6. Counts(Append(s, now), b[k].count + 1, b[k].windowStart, max[k])
    BY <1>1, <2>1, <2>4, <2>5, CountsNext
  <2> HIDE DEF b1
  <2>7. Shared(b1, Append(s, now), k)
    BY <2>2, <2>3, <2>4, <2>6 DEF Shared
  <2> QED BY <2>7 DEF b1
<1>3. CASE ~(k \in DOMAIN b /\ Live(b, k))
  <2>1. k \in DOMAIN b1 /\ b1[k] = [count |-> 1, windowStart |-> now]
    BY <1>3 DEF hit, Counted
  <2>2. b1[k].count = 1 /\ b1[k].windowStart = now /\ Live(b1, k)
    BY <1>1, <2>1 DEF Live
  <2>3. Len(s) <= max[k] - 1
    BY <1>3 DEF Shared
  <2>4. Counts(Append(s, now), 1, now, max[k])
    BY <1>1, <2>3, CountsFirst
  <2> HIDE DEF b1
  <2>5. Shared(b1, Append(s, now), k)
    BY <2>1, <2>2, <2>4 DEF Shared
  <2> QED BY <2>5 DEF b1
<1> QED BY <1>2, <1>3

LEMMA AppendInOrder ==
  ASSUME NEW s, now \in Nat, InOrder(s, now)
  PROVE  InOrder(Append(s, now), now)
<1> DEFINE n == Len(s)
           s1 == Append(s, now)
<1>1. /\ n \in Nat
      /\ \A i \in 1..n : s[i] \in Nat /\ s[i] <= now
      /\ \A i, j \in 1..n : i <= j => s[i] <= s[j]
      /\ s1 \in Seq(Nat) /\ Len(s1) = n + 1 /\ s1[n + 1] = now
      /\ \A i \in 1..n : s1[i] = s[i]
  BY Ordered, Appended
<1>2. DOMAIN s1 = 1..(n + 1)
  BY <1>1
<1> HIDE DEF n, s1
<1>3. \A i \in 1..(n + 1) : i \in 1..n \/ i = n + 1
  BY <1>1
<1>4. InOrder(s1, now)
  BY <1>1, <1>2, <1>3 DEF InOrder
<1> QED BY <1>4 DEF s1

\* What is no longer recent is a beginning of the hits.
LEMMA RecentIs ==
  ASSUME NEW s, NEW t \in Nat, InOrder(s, t)
  PROVE  \E d \in 0..Len(s) :
           /\ Recent(s, t) = SubSeq(s, d + 1, Len(s))
           /\ \A i \in 1..Len(s) : t - s[i] >= windowMs <=> i <= d
<1> DEFINE n == Len(s)
           old == {i \in DOMAIN s : t - s[i] >= windowMs}
<1>1. /\ n \in Nat /\ DOMAIN s = 1..n
      /\ \A i \in 1..n : s[i] \in Nat
      /\ \A i, j \in 1..n : i <= j => s[i] <= s[j]
      /\ windowMs \in Nat
  BY Ordered, BudgetsAssumption
<1>2. Recent(s, t) = SubSeq(s, 1 + Cardinality(old), n)
  BY DEF Recent
<1>3. /\ old \subseteq 1..n
      /\ \A i \in 1..n : t - s[i] >= windowMs <=> i \in old
  BY <1>1
<1> HIDE DEF n, old
<1>4. \A i, j \in 1..n : i \in old /\ j <= i => j \in old
  BY <1>1, <1>3
<1>5. IsFiniteSet(1..n) /\ Cardinality(1..n) = n
  BY <1>1, IntervalSize
<1>6. IsFiniteSet(old) /\ Cardinality(old) <= n /\ Cardinality(old) \in Nat
  BY <1>3, <1>5, FS_Subset, FS_CardinalityType
<1>7. ASSUME NEW i \in 1..n, i \in old
      PROVE  i <= Cardinality(old)
  <2>1. IsFiniteSet(1..i) /\ Cardinality(1..i) = i
    BY <1>1, IntervalSize
  <2>2. 1..i \subseteq old
    BY <1>1, <1>4, <1>7
  <2> QED BY <1>6, <2>1, <2>2, FS_Subset
<1>8. ASSUME NEW i \in 1..n, i \notin old
      PROVE  Cardinality(old) < i
  <2>1. i - 1 \in Nat /\ i \in Nat
    BY <1>1
  <2>2. IsFiniteSet(1..(i - 1)) /\ Cardinality(1..(i - 1)) = i - 1
    BY <2>1, IntervalSize
  <2>3. old \subseteq 1..(i - 1)
    BY <1>1, <1>3, <1>4, <1>8
  <2>4. Cardinality(old) <= i - 1
    BY <2>2, <2>3, FS_Subset
  <2> QED BY <1>6, <2>1, <2>4
<1>9. 1 + Cardinality(old) = Cardinality(old) + 1 /\ Cardinality(old) \in 0..n
  BY <1>1, <1>6
<1>10. \A i \in 1..n : t - s[i] >= windowMs <=> i <= Cardinality(old)
  BY <1>1, <1>3, <1>6, <1>7, <1>8
<1>11. \E d \in 0..n :
         /\ Recent(s, t) = SubSeq(s, d + 1, n)
         /\ \A i \in 1..n : t - s[i] >= windowMs <=> i <= d
  BY <1>2, <1>9, <1>10
<1> QED BY <1>11 DEF n

LEMMA Suffix ==
  ASSUME NEW s \in Seq(Nat), NEW d \in 0..Len(s)
  PROVE  /\ SubSeq(s, d + 1, Len(s)) \in Seq(Nat)
         /\ Len(SubSeq(s, d + 1, Len(s))) = Len(s) - d
         /\ \A i \in 1..(Len(s) - d) : SubSeq(s, d + 1, Len(s))[i] = s[i + d]
<1> DEFINE n == Len(s)
           r == SubSeq(s, d + 1, n)
<1>1. n \in Nat /\ d \in Nat /\ d <= n /\ \A i \in 1..n : s[i] \in Nat
  OBVIOUS
<1>2. \A i \in (d + 1)..n : s[i] \in Nat
  BY <1>1
<1>3. /\ r \in Seq(Nat)
      /\ Len(r) = IF d + 1 <= n THEN n - (d + 1) + 1 ELSE 0
      /\ \A i \in 1..(n - (d + 1) + 1) : r[i] = s[(d + 1) + i - 1]
  BY <1>1, <1>2, SubSeqProperties
<1> HIDE DEF n, r
<1>4. Len(r) = n - d
  BY <1>1, <1>3
<1>5. n - (d + 1) + 1 = n - d /\ \A i \in 1..(n - d) : (d + 1) + i - 1 = i + d
  BY <1>1
<1>6. \A i \in 1..(n - d) : r[i] = s[i + d]
  BY <1>3, <1>5
<1> QED BY <1>3, <1>4, <1>6 DEF n, r

LEMMA RecentInOrder ==
  ASSUME NEW s, now \in Nat, InOrder(s, now)
  PROVE  InOrder(Recent(s, now + 1), now + 1)
<1> DEFINE n == Len(s)
           r == Recent(s, now + 1)
<1>1. /\ s \in Seq(Nat) /\ n \in Nat /\ DOMAIN s = 1..n
      /\ \A i \in 1..n : s[i] \in Nat /\ s[i] <= now
      /\ \A i, j \in 1..n : i <= j => s[i] <= s[j]
  BY Ordered
<1>2. InOrder(s, now + 1)
  BY <1>1 DEF InOrder
<1>3. PICK d \in 0..n : r = SubSeq(s, d + 1, n)
  BY <1>2, RecentIs
<1>4. r \in Seq(Nat) /\ Len(r) = n - d /\ \A i \in 1..(n - d) : r[i] = s[i + d]
  BY <1>1, <1>3, Suffix
<1>5. DOMAIN r = 1..(n - d)
  BY <1>4
<1> HIDE DEF n, r
<1>6. \A i \in 1..(n - d) : i \in Nat /\ i + d \in 1..n
  BY <1>1, <1>3
<1>7. \A i \in 1..(n - d) : r[i] \in Nat /\ r[i] <= now + 1
  BY <1>1, <1>4, <1>6
<1>8. ASSUME NEW i \in 1..(n - d), NEW j \in 1..(n - d), i <= j PROVE r[i] <= r[j]
  <2>1. i + d <= j + d /\ i + d \in 1..n /\ j + d \in 1..n
    BY <1>3, <1>1, <1>6, <1>8
  <2> QED BY <1>1, <1>4, <2>1
<1>9. InOrder(r, now + 1)
  BY <1>4, <1>5, <1>7, <1>8 DEF InOrder
<1> QED BY <1>9 DEF r

\* A window that goes on keeps its hits; one that ends loses its first at least.
LEMMA TickShared ==
  ASSUME NEW k \in Keys, NEW s, now \in Nat, now' = now + 1, InOrder(s, now),
         IsBuckets(buckets), buckets' = buckets, Shared(buckets, s, k)
  PROVE  IF k \in DOMAIN buckets /\ (now + 1) - buckets[k].windowStart < windowMs
         THEN Counts(Recent(s, now + 1), buckets[k].count, buckets[k].windowStart, max[k])
         ELSE Len(Recent(s, now + 1)) <= max[k] - 1
<1> DEFINE n == Len(s)
           r == Recent(s, now + 1)
           m == max[k]
<1>1. s \in Seq(Nat) /\ n \in Nat /\ DOMAIN s = 1..n /\ \A i \in 1..n : s[i] <= now /\ s[i] \in Nat
  BY Ordered
<1>2. InOrder(s, now + 1) /\ now + 1 \in Nat
  BY <1>1 DEF InOrder
<1>3. PICK d \in 0..n :
         /\ r = SubSeq(s, d + 1, n)
         /\ \A i \in 1..n : (now + 1) - s[i] >= windowMs <=> i <= d
  BY <1>2, RecentIs
<1>4. Len(r) = n - d /\ \A i \in 1..(n - d) : r[i] = s[i + d]
  BY <1>1, <1>3, Suffix
<1>5. m \in Nat \ {0} /\ windowMs \in Nat \ {0}
  BY BudgetsAssumption
<1>6. Shared(buckets, s, k) <=>
        IF k \in DOMAIN buckets /\ Live(buckets, k)
        THEN Counts(s, buckets[k].count, buckets[k].windowStart, m)
        ELSE n <= m - 1
  BY DEF Shared
<1>7. CASE k \in DOMAIN buckets /\ Live(buckets, k)
  <2> DEFINE c == buckets[k].count
             w == buckets[k].windowStart
  <2>1. c \in Nat \ {0} /\ w \in Nat
    BY <1>7 DEF IsBuckets, Bucket
  <2>2. c <= m /\ c <= n /\ s[n - c + 1] = w /\ n - c <= m - 1
    BY <1>6, <1>7 DEF Counts
  <2> HIDE DEF n, r, m, c, w
  <2>3. n - c + 1 \in 1..n
    BY <1>1, <2>1, <2>2
  <2>4. (now + 1) - w >= windowMs <=> n - c + 1 <= d
    BY <1>3, <2>2, <2>3
  <2>5. CASE (now + 1) - w < windowMs
    <3>1. d <= n - c
      BY <1>1, <1>3, <1>5, <2>1, <2>4, <2>5
    <3>2. (n - d) - c + 1 \in 1..(n - d) /\ ((n - d) - c + 1) + d = n - c + 1
      BY <1>1, <1>3, <2>1, <2>2, <3>1
    <3>3. r[(n - d) - c + 1] = w
      BY <1>4, <2>2, <3>2
    <3>4. c <= n - d /\ (n - d) - c <= m - 1
      BY <1>1, <1>3, <1>5, <2>1, <2>2, <3>1
    <3>5. Counts(r, c, w, m)
      BY <1>4, <2>2, <3>3, <3>4 DEF Counts
    <3> QED BY <1>7, <2>5, <3>5 DEF r, c, w, m
  <2>6. CASE ~((now + 1) - w < windowMs)
    <3>1. n - c + 1 <= d
      BY <1>5, <2>1, <2>4, <2>6
    <3>2. n - d <= m - 1
      BY <1>1, <1>3, <1>5, <2>1, <2>2, <3>1
    <3>3. Len(r) <= m - 1
      BY <1>4, <3>2
    <3> QED BY <2>6, <3>3 DEF r, w, m
  <2> QED BY <2>5, <2>6
<1>8. CASE ~(k \in DOMAIN buckets /\ Live(buckets, k))
  <2>1. ~(k \in DOMAIN buckets /\ (now + 1) - buckets[k].windowStart < windowMs)
    BY <1>5, <1>8 DEF Live, IsBuckets, Bucket
  <2>2. n <= m - 1
    BY <1>6, <1>8
  <2> HIDE DEF n, r, m
  <2>3. Len(r) <= m - 1
    BY <1>1, <1>3, <1>4, <1>5, <2>2
  <2> QED BY <2>1, <2>3 DEF r, m
<1> QED BY <1>7, <1>8


LEMMA InitBurstInv == Init => BurstInv
<1> SUFFICES ASSUME Init PROVE BurstInv
  OBVIOUS
<1>1. DOMAIN admitted = Keys /\ now = 0 /\ DOMAIN buckets = {}
  BY DEF Init
<1>2. ASSUME NEW k \in Keys PROVE admitted[k] = <<>> /\ InOrder(admitted[k], now)
  <2>1. admitted[k] = <<>>
    BY DEF Init
  <2> QED BY <2>1 DEF InOrder
<1>3. ASSUME NEW k \in Keys PROVE Shared(buckets, admitted[k], k)
  <2>1. Len(admitted[k]) = 0 /\ max[k] \in Nat \ {0}
    BY <1>2, BudgetsAssumption
  <2>2. Len(admitted[k]) <= max[k] - 1
    BY <2>1
  <2> QED BY <1>1, <2>2 DEF Shared
<1> QED BY <1>1, <1>2, <1>3 DEF BurstInv

\* After a step that takes no time, it suffices to look at what it leaves.
LEMMA SameTimeBurst ==
  ASSUME UNCHANGED now, DOMAIN admitted' = Keys,
         \A k \in Keys : InOrder(admitted'[k], now),
         \A k \in Keys \ dropped' : Shared(buckets', admitted'[k], k)
  PROVE  BurstInv'
BY DEF BurstInv, InOrder, Shared, Live

LEMMA ClientKeepsBurst ==
  ASSUME IInv, BurstInv, NEW k \in Clients, checkClientLimit(k)
  PROVE  BurstInv'
<1>1. PICK b \in sweepExpired(buckets) :
        /\ buckets' = hit(b, k) /\ Note(b, k) /\ dropped' = dropped \cup LostLive(buckets, b)
  BY DEF checkClientLimit
<1>2. now' = now /\ now \in Nat /\ k \in Keys /\ DOMAIN admitted = Keys
  BY DEF checkClientLimit, IInv, BurstInv, Keys
<1>3. Within(b, MAX_BUCKETS - 1) /\ IsBuckets(b) /\ MAX_BUCKETS - 1 \in Nat
  BY <1>1, SweepMakesRoom, BudgetsAssumption DEF IInv, Within
<1>4. \A l \in Keys : InOrder(admitted[l], now)
  BY DEF BurstInv
<1>5. ASSUME NEW l \in Keys \ dropped'
      PROVE  Shared(b, admitted[l], l) /\ (l # k => Shared(hit(b, k), admitted[l], l))
  <2>1. Shared(buckets, admitted[l], l) /\ l \notin LostLive(buckets, b)
    BY <1>1, <1>5 DEF BurstInv
  <2>2. Shared(b, admitted[l], l)
    BY <1>1, <2>1, SweepShared DEF IInv
  <2> QED BY <1>2, <1>3, <2>2, HitSharedElsewhere
<1>6. CASE Admits(b, k)
  <2>1. /\ DOMAIN admitted' = Keys
        /\ admitted'[k] = Append(admitted[k], now)
        /\ \A l \in Keys \ {k} : admitted'[l] = admitted[l]
    BY <1>1, <1>2, <1>6 DEF Note
  <2>2. \A l \in Keys : InOrder(admitted'[l], now)
    BY <1>2, <1>4, <2>1, AppendInOrder
  <2>3. \A l \in Keys \ dropped' : Shared(buckets', admitted'[l], l)
    <3> SUFFICES ASSUME NEW l \in Keys \ dropped' PROVE Shared(buckets', admitted'[l], l)
      OBVIOUS
    <3>1. CASE l = k
      <4>1. InOrder(admitted[k], now) /\ Shared(b, admitted[k], k)
        BY <1>4, <1>5, <3>1
      <4>2. Shared(hit(b, k), Append(admitted[k], now), k)
        BY <1>2, <1>3, <1>6, <4>1, HitShared
      <4> QED BY <1>1, <2>1, <3>1, <4>2
    <3>2. CASE l # k
      BY <1>1, <1>5, <2>1, <3>2
    <3> QED BY <3>1, <3>2
  <2> QED BY <1>2, <2>1, <2>2, <2>3, SameTimeBurst
<1>7. CASE ~Admits(b, k)
  <2>1. admitted' = admitted /\ buckets' = b
    BY <1>1, <1>7 DEF Note, hit
  <2> QED BY <1>2, <1>4, <1>5, <2>1, SameTimeBurst
<1> QED BY <1>6, <1>7

LEMMA ClaimRefusedKeepsBurst ==
  ASSUME IInv, BurstInv, NEW k \in Claims, refuseByClaim(k)
  PROVE  BurstInv'
<1>1. PICK b \in sweepExpired(buckets) :
        /\ ~Admits(b, k) /\ buckets' = b /\ Note(b, k)
        /\ dropped' = dropped \cup LostLive(buckets, b)
  BY DEF refuseByClaim
<1>2. now' = now /\ admitted' = admitted
  BY <1>1 DEF refuseByClaim, Note
<1>3. \A l \in Keys \ dropped' : Shared(b, admitted[l], l)
  <2> SUFFICES ASSUME NEW l \in Keys \ dropped' PROVE Shared(b, admitted[l], l)
    OBVIOUS
  <2>1. Shared(buckets, admitted[l], l) /\ l \notin LostLive(buckets, b)
    BY <1>1 DEF BurstInv
  <2> QED BY <1>1, <2>1, SweepShared DEF IInv
<1> QED BY <1>1, <1>2, <1>3, SameTimeBurst DEF BurstInv

\* Both budgets: the claim's hit is counted before the sweep for the global one.
LEMMA ConsumeKeepsBurst ==
  ASSUME IInv, BurstInv, NEW k \in Claims, consumeBudgets(k)
  PROVE  BurstInv'
<1>0. PICK b \in sweepExpired(buckets) :
        /\ Admits(b, k)
        /\ \E g \in sweepExpired(hit(b, k)) :
             /\ buckets' = hit(g, Global)
             /\ IF Admits(g, Global)
                THEN admitted' = [admitted EXCEPT ![k] = Append(@, now), ![Global] = Append(@, now)]
                ELSE admitted' = [admitted EXCEPT ![k] = Append(@, now)]
             /\ dropped' = dropped \cup LostLive(buckets, b) \cup LostLive(hit(b, k), g)
  BY DEF consumeBudgets
<1>1. PICK g \in sweepExpired(hit(b, k)) :
        /\ buckets' = hit(g, Global)
        /\ IF Admits(g, Global)
           THEN admitted' = [admitted EXCEPT ![k] = Append(@, now), ![Global] = Append(@, now)]
           ELSE admitted' = [admitted EXCEPT ![k] = Append(@, now)]
        /\ dropped' = dropped \cup LostLive(buckets, b) \cup LostLive(hit(b, k), g)
  BY <1>0
<1>2. /\ now' = now /\ now \in Nat /\ DOMAIN admitted = Keys
      /\ k \in Keys /\ Global \in Keys /\ k # Global
  BY BudgetsAssumption DEF consumeBudgets, IInv, BurstInv, Keys
<1>3. MAX_BUCKETS \in Nat /\ MAX_BUCKETS - 1 \in Nat /\ (MAX_BUCKETS - 1) + 1 = MAX_BUCKETS
  BY BudgetsAssumption
<1>4. Within(b, MAX_BUCKETS - 1) /\ IsBuckets(b)
  BY <1>0, SweepMakesRoom DEF IInv, Within
<1>5. Within(hit(b, k), MAX_BUCKETS)
  BY <1>2, <1>3, <1>4, HitAddsOne
<1>6. Within(g, MAX_BUCKETS - 1) /\ IsBuckets(g)
  BY <1>1, <1>5, SweepMakesRoom DEF Within
<1> DEFINE adm1 == [admitted EXCEPT ![k] = Append(@, now)]
<1>7. /\ DOMAIN adm1 = Keys
      /\ adm1[k] = Append(admitted[k], now)
      /\ \A l \in Keys \ {k} : adm1[l] = admitted[l]
  BY <1>2
<1>8. IF Admits(g, Global)
      THEN /\ DOMAIN admitted' = Keys
           /\ admitted'[Global] = Append(adm1[Global], now)
           /\ \A l \in Keys \ {Global} : admitted'[l] = adm1[l]
      ELSE admitted' = adm1
  BY <1>1, <1>2
<1> HIDE DEF adm1
<1>9. \A l \in Keys : InOrder(adm1[l], now)
  BY <1>2, <1>7, AppendInOrder DEF BurstInv
<1>10. ASSUME NEW l \in Keys \ dropped'
       PROVE  Shared(g, adm1[l], l) /\ (l # Global => Shared(hit(g, Global), adm1[l], l))
  <2>1. /\ Shared(buckets, admitted[l], l) /\ InOrder(admitted[l], now)
        /\ l \notin LostLive(buckets, b) /\ l \notin LostLive(hit(b, k), g)
    BY <1>1, <1>10 DEF BurstInv
  <2>2. Shared(b, admitted[l], l)
    BY <1>0, <2>1, SweepShared DEF IInv
  <2>3. Shared(hit(b, k), adm1[l], l)
    <3>1. CASE l = k
      <4>1. Admits(b, k) /\ InOrder(admitted[k], now) /\ Shared(b, admitted[k], k)
        BY <1>0, <2>1, <2>2, <3>1
      <4>2. Shared(hit(b, k), Append(admitted[k], now), k)
        BY <1>2, <1>4, <4>1, HitShared
      <4> QED BY <1>7, <3>1, <4>2
    <3>2. CASE l # k
      BY <1>2, <1>3, <1>4, <1>7, <2>2, <3>2, HitSharedElsewhere
    <3> QED BY <3>1, <3>2
  <2>4. Shared(g, adm1[l], l)
    BY <1>1, <1>5, <2>1, <2>3, SweepShared
  <2> QED BY <1>2, <1>3, <1>6, <2>4, HitSharedElsewhere
<1>11. CASE Admits(g, Global)
  <2>1. \A l \in Keys : InOrder(admitted'[l], now)
    BY <1>2, <1>8, <1>9, <1>11, AppendInOrder
  <2>2. \A l \in Keys \ dropped' : Shared(buckets', admitted'[l], l)
    <3> SUFFICES ASSUME NEW l \in Keys \ dropped' PROVE Shared(buckets', admitted'[l], l)
      OBVIOUS
    <3>1. CASE l = Global
      <4>1. InOrder(adm1[Global], now) /\ Shared(g, adm1[Global], Global)
        BY <1>2, <1>9, <1>10, <3>1
      <4>2. Shared(hit(g, Global), Append(adm1[Global], now), Global)
        BY <1>2, <1>6, <1>11, <4>1, HitShared
      <4> QED BY <1>1, <1>8, <1>11, <3>1, <4>2
    <3>2. CASE l # Global
      BY <1>1, <1>8, <1>10, <1>11, <3>2
    <3> QED BY <3>1, <3>2
  <2> QED BY <1>2, <1>8, <1>11, <2>1, <2>2, SameTimeBurst
<1>12. CASE ~Admits(g, Global)
  <2>1. buckets' = g
    BY <1>1, <1>12 DEF hit
  <2> QED BY <1>2, <1>7, <1>8, <1>9, <1>10, <1>12, <2>1, SameTimeBurst
<1> QED BY <1>11, <1>12

LEMMA TickKeepsBurst == IInv /\ BurstInv /\ Tick => BurstInv'
<1> SUFFICES ASSUME IInv, BurstInv, Tick PROVE BurstInv'
  OBVIOUS
<1>1. /\ now \in Nat /\ now' = now + 1 /\ buckets' = buckets /\ dropped' = dropped
      /\ admitted' = [k \in Keys |-> Recent(admitted[k], now + 1)]
      /\ IsBuckets(buckets)
  BY DEF Tick, IInv, Within
<1>2. \A k \in Keys : InOrder(admitted'[k], now')
  BY <1>1, RecentInOrder DEF BurstInv
<1>3. ASSUME NEW k \in Keys \ dropped'
      PROVE  Shared(buckets, admitted[k], k)'
  <2>1. InOrder(admitted[k], now) /\ Shared(buckets, admitted[k], k)
    BY <1>1 DEF BurstInv
  <2>2. IF k \in DOMAIN buckets /\ (now + 1) - buckets[k].windowStart < windowMs
        THEN Counts(admitted'[k], buckets[k].count, buckets[k].windowStart, max[k])
        ELSE Len(admitted'[k]) <= max[k] - 1
    BY <1>1, <2>1, TickShared
  <2> QED BY <1>1, <2>2 DEF Shared, Live
<1>4. (\A k \in Keys : InOrder(admitted[k], now))'
  BY <1>2 DEF InOrder
<1> QED BY <1>1, <1>3, <1>4 DEF BurstInv

LEMMA NextBurstInv == IInv /\ BurstInv /\ [Next]_vars => BurstInv'
<1> SUFFICES ASSUME IInv, BurstInv, [Next]_vars PROVE BurstInv'
  OBVIOUS
<1>1. CASE \E k \in Clients : checkClientLimit(k)
  BY <1>1, ClientKeepsBurst
<1>2. CASE \E k \in Claims : refuseByClaim(k) \/ consumeBudgets(k)
  BY <1>2, ClaimRefusedKeepsBurst, ConsumeKeepsBurst
<1>3. CASE Tick
  BY <1>3, TickKeepsBurst
<1>4. CASE UNCHANGED vars
  BY <1>4 DEF vars, BurstInv, InOrder, Shared, Live
<1> QED BY <1>1, <1>2, <1>3, <1>4 DEF Next

\* However the hits of a key fall around the ends of its windows, no interval of
\* a window's length admits twice its maximum, unless a sweep dropped its bucket
\* within its window (rateLimit.ts:40-69, 88-133).
THEOREM BurstBoundedHolds == Spec => []BurstBounded
<1>1. IInv /\ BurstInv => BurstBounded
  <2> SUFFICES ASSUME IInv, BurstInv, NEW k \in Keys \ dropped
               PROVE  Len(admitted[k]) < 2 * max[k]
    BY DEF BurstBounded
  <2>1. /\ InOrder(admitted[k], now) /\ Shared(buckets, admitted[k], k)
        /\ max[k] \in Nat \ {0} /\ IsBuckets(buckets)
    BY BudgetsAssumption DEF IInv, BurstInv, Within
  <2>2. Len(admitted[k]) \in Nat
    BY <2>1, Ordered
  <2>3. CASE k \in DOMAIN buckets /\ Live(buckets, k)
    <3>1. buckets[k].count \in Nat
      BY <2>1, <2>3 DEF IsBuckets, Bucket
    <3>2. /\ buckets[k].count <= max[k]
          /\ Len(admitted[k]) - buckets[k].count <= max[k] - 1
      BY <2>1, <2>3 DEF Shared, Counts
    <3> QED BY <2>1, <2>2, <3>1, <3>2
  <2>4. CASE ~(k \in DOMAIN buckets /\ Live(buckets, k))
    BY <2>1, <2>2, <2>4 DEF Shared
  <2> QED BY <2>3, <2>4
<1>2. Init => IInv /\ BurstInv
  BY InitIInv, InitBurstInv
<1>3. IInv /\ BurstInv /\ [Next]_vars => (IInv /\ BurstInv)'
  BY NextIInv, NextBurstInv
<1> QED BY <1>1, <1>2, <1>3, PTL DEF Spec
==============================================================================
