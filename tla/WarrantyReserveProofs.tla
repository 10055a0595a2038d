------------------------ MODULE WarrantyReserveProofs -----------------------
(***************************************************************************)
(* The safety of WarrantyReserve for every set of accounts, decisions and  *)
(* amounts, every depth of nested calls and any number of coverages.       *)
(***************************************************************************)
EXTENDS WarrantyReserveRefinement, FiniteSetTheorems, FunctionTheorems, SequenceTheorems, TLAPS

-----------------------------------------------------------------------------
(***************************************************************************)
(* Sums: a total is a number, it is at least each summand, and changing    *)
(* one summand changes it by as much.                                      *)
(***************************************************************************)

\* The units of one summand.
Column(f, x) == {x} \X (1..f[x])

\* A summand has as many units as its value says.
LEMMA ColumnSize ==
  ASSUME NEW S, NEW f \in [S -> Nat], NEW x \in S
  PROVE  IsFiniteSet(Column(f, x)) /\ Cardinality(Column(f, x)) = f[x]
<1>1. IsFiniteSet({x}) /\ Cardinality({x}) = 1
  BY FS_Singleton
<1>2. f[x] \in Nat
  OBVIOUS
<1>3. IsFiniteSet(1..f[x]) /\ Cardinality(1..f[x]) = f[x]
  <2>1. IsFiniteSet(1..f[x]) /\ Cardinality(1..f[x]) = IF 1 > f[x] THEN 0 ELSE f[x] - 1 + 1
    BY <1>2, FS_Interval
  <2> QED BY <2>1, <1>2
<1>4. /\ IsFiniteSet({x} \X (1..f[x]))
      /\ Cardinality({x} \X (1..f[x])) = Cardinality({x}) * Cardinality(1..f[x])
  BY <1>1, <1>3, FS_Product
<1> QED BY <1>1, <1>2, <1>3, <1>4 DEF Column

\* Finitely many summands have finitely many units.
LEMMA UnitsFinite ==
  ASSUME NEW S, IsFiniteSet(S), NEW f \in [S -> Nat]
  PROVE  IsFiniteSet(Units(f))
<1> DEFINE T == {Column(f, x) : x \in S}
           g == [x \in S |-> Column(f, x)]
<1>1. g \in Surjection(S, T)
  BY DEF Surjection
<1>2. IsFiniteSet(T)
  BY <1>1, FS_Surjection
<1>3. \A C \in T : IsFiniteSet(C)
  BY ColumnSize
<1>4. IsFiniteSet(UNION T)
  BY <1>2, <1>3, FS_UNION
<1>5. Units(f) = UNION T
  BY DEF Units, Column
<1> QED BY <1>4, <1>5

THEOREM TotalType ==
  ASSUME NEW S, IsFiniteSet(S), NEW f \in [S -> Nat]
  PROVE  Total(f) \in Nat
BY UnitsFinite, FS_CardinalityType DEF Total

\* A summand is at most the total.
THEOREM TotalBound ==
  ASSUME NEW S, IsFiniteSet(S), NEW f \in [S -> Nat], NEW x \in S
  PROVE  f[x] <= Total(f)
<1>1. Column(f, x) \subseteq Units(f)
  BY DEF Column, Units
<1>2. Cardinality(Column(f, x)) <= Cardinality(Units(f))
  BY <1>1, UnitsFinite, FS_Subset
<1> QED BY <1>2, ColumnSize DEF Total

\* Replacing one summand.
THEOREM TotalUpdate ==
  ASSUME NEW S, IsFiniteSet(S), NEW f \in [S -> Nat], NEW x \in S, NEW v \in Nat
  PROVE  Total([f EXCEPT ![x] = v]) = Total(f) - f[x] + v
<1> DEFINE g == [f EXCEPT ![x] = v]
           Rest == Units(f) \ Column(f, x)
<1>1. g \in [S -> Nat] /\ g[x] = v
  OBVIOUS
<1>2. Column(f, x) \subseteq Units(f)
  BY DEF Column, Units
<1>3. Units(f) = UNION {Column(f, y) : y \in S} /\ Units(g) = UNION {Column(g, y) : y \in S}
  BY DEF Units, Column
<1>4. \A y \in S : \A u \in Column(f, y) : u[1] = y
  BY DEF Column
<1>5. \A y \in S : \A u \in Column(g, y) : u[1] = y
  BY DEF Column
<1>6. \A y \in S \ {x} : Column(g, y) = Column(f, y)
  BY DEF Column
<1>7. Rest = UNION {Column(f, y) : y \in S \ {x}}
  BY <1>3, <1>4
<1>8. Units(g) = Rest \cup Column(g, x)
  <2>1. S = (S \ {x}) \cup {x}
    OBVIOUS
  <2>2. Rest = UNION {Column(g, y) : y \in S \ {x}}
    BY <1>6, <1>7
  <2>3. Units(g) = (UNION {Column(g, y) : y \in S \ {x}}) \cup Column(g, x)
    <3> HIDE DEF g
    <3> QED BY <1>3, <2>1
  <2> QED BY <2>2, <2>3
<1>9. Rest \cap Column(g, x) = {}
  <2> SUFFICES ASSUME NEW u \in Rest, u \in Column(g, x)
               PROVE  FALSE
    OBVIOUS
  <2>1. PICK y \in S \ {x} : u \in Column(f, y)
    BY <1>7
  <2>2. u[1] = y
    BY <2>1, <1>4
  <2>3. u[1] = x
    <3> HIDE DEF g
    <3> QED BY <1>5
  <2> QED BY <2>2, <2>3
<1>10. /\ IsFiniteSet(Rest)
       /\ Cardinality(Rest) = Total(f) - f[x]
  <2>1. Units(f) \cap Column(f, x) = Column(f, x)
    BY <1>2
  <2>2. Cardinality(Rest) = Cardinality(Units(f)) - Cardinality(Units(f) \cap Column(f, x))
    BY UnitsFinite, FS_Difference
  <2>3. IsFiniteSet(Rest)
    BY UnitsFinite, FS_Difference
  <2> QED BY <2>1, <2>2, <2>3, ColumnSize DEF Total
<1>11. IsFiniteSet(Column(g, x)) /\ Cardinality(Column(g, x)) = v
  BY <1>1, ColumnSize
<1>12. Cardinality(Rest \cup Column(g, x))
         = Cardinality(Rest) + Cardinality(Column(g, x)) - Cardinality(Rest \cap Column(g, x))
  BY <1>10, <1>11, FS_Union
<1>13. Cardinality(Rest \cap Column(g, x)) = 0
  BY <1>9, FS_EmptySet
<1>14. f[x] \in Nat /\ Total(f) \in Nat
  BY TotalType
<1>15. Total(g) = Total(f) - f[x] + v
  <2> HIDE DEF g, Rest
  <2> QED BY <1>8, <1>10, <1>11, <1>12, <1>13, <1>14 DEF Total
<1> QED BY <1>15

\* A sum of zeros.
THEOREM TotalZero ==
  ASSUME NEW S
  PROVE  Total([x \in S |-> 0]) = 0
<1>1. Units([x \in S |-> 0]) = {}
  BY DEF Units
<1> QED BY <1>1, FS_EmptySet DEF Total

-----------------------------------------------------------------------------
(***************************************************************************)
(* The inductive invariant.                                                *)
(***************************************************************************)

\* Ids are handed out in order, and what has an id has real accounts.
IdsInOrder(s) ==
  /\ \A c \in CoverageIds :
       /\ s.coverage[c].status = "None" <=> c > s.coverageCount
       /\ s.coverage[c].status # "None" =>
            s.coverage[c].merchant \in Accounts /\ s.coverage[c].claimant \in Accounts
  /\ \A k \in ClaimIds : s.claim[k].status = "None" <=> k > s.claimCount

\* The inductive invariant holds of the present storage and of all those to
\* which a revert may return.
StorageInv(s) ==
  /\ s \in StorageType
  /\ IdsInOrder(s)
  /\ LocksMatch(s)
  /\ LocksBacked(s)
  /\ BalanceMatches(s)
  /\ ClaimsMatch(s)
  /\ NoncesMatch(s)

IInv ==
  /\ TypeOK
  /\ StorageInv(Storage)
  /\ \A i \in 1..Len(stack) : StorageInv(stack[i].saved)

-----------------------------------------------------------------------------
(***************************************************************************)
(* Types.                                                                  *)
(***************************************************************************)

\* Popping the innermost frame leaves a stack of frames.
LEMMA PopType ==
  ASSUME NEW F, NEW q \in Seq(F), q # <<>>
  PROVE  /\ Len(q) \in Nat \ {0}
         /\ q[Len(q)] \in F
         /\ SubSeq(q, 1, Len(q) - 1) \in Seq(F)
         /\ Len(SubSeq(q, 1, Len(q) - 1)) = Len(q) - 1
         /\ \A i \in 1..(Len(q) - 1) : SubSeq(q, 1, Len(q) - 1)[i] = q[i]
<1>1. Len(q) \in Nat \ {0}
  BY EmptySeq
<1>2. \A i \in 1..Len(q) : q[i] \in F
  BY ElementOfSeq
<1>3. \A i \in 1..(Len(q) - 1) : q[i] \in F
  BY <1>1, <1>2
<1>4. /\ SubSeq(q, 1, Len(q) - 1) \in Seq(F)
      /\ Len(SubSeq(q, 1, Len(q) - 1)) =
           IF 1 <= Len(q) - 1 THEN (Len(q) - 1) - 1 + 1 ELSE 0
      /\ \A i \in 1..((Len(q) - 1) - 1 + 1) : SubSeq(q, 1, Len(q) - 1)[i] = q[1 + i - 1]
  BY <1>1, <1>3, SubSeqProperties
<1>5. \A i \in 1..(Len(q) - 1) : SubSeq(q, 1, Len(q) - 1)[i] = q[i]
  <2>1. (Len(q) - 1) - 1 + 1 = Len(q) - 1 /\ \A i \in 1..(Len(q) - 1) : 1 + i - 1 = i
    BY <1>1
  <2> QED BY <1>4, <2>1
<1>6. Len(SubSeq(q, 1, Len(q) - 1)) = Len(q) - 1
  <2>1. \A n \in Nat \ {0} : (IF 1 <= n - 1 THEN (n - 1) - 1 + 1 ELSE 0) = n - 1
    OBVIOUS
  <2> QED BY <1>1, <1>4, <2>1
<1>7. q[Len(q)] \in F
  BY <1>1, <1>2
<1> QED BY <1>1, <1>4, <1>5, <1>6, <1>7

\* The variables make up a typed storage.
LEMMA StorageTyped ==
  (TypeOK => Storage \in StorageType) /\ (TypeOK' => (Storage \in StorageType)')
BY DEF TypeOK, Storage, StorageType

\* An update that stores a number keeps a balance sheet one.
LEMMA UpdateType ==
  ASSUME NEW S, NEW f \in [S -> Nat], NEW r, NEW v, r \in S => v \in Nat
  PROVE  [f EXCEPT ![r] = v] \in [S -> Nat]
OBVIOUS

\* A verdict and an amount keep a claim one.
LEMMA VerdictType ==
  ASSUME NEW f \in [ClaimIds -> ClaimType], NEW k \in ClaimIds, NEW s \in ClaimStatus,
         NEW v \in Nat
  PROVE  /\ [f EXCEPT ![k].status = s] \in [ClaimIds -> ClaimType]
         /\ [f EXCEPT ![k].status = s, ![k].paidAmount = v] \in [ClaimIds -> ClaimType]
<1>1. ASSUME NEW q \in ClaimType
      PROVE  [q EXCEPT !.status = s] \in ClaimType /\ [q EXCEPT !.paidAmount = v] \in ClaimType
  BY DEF ClaimType
<1>2. \A g \in [ClaimIds -> ClaimType], q \in ClaimType :
        [g EXCEPT ![k] = q] \in [ClaimIds -> ClaimType]
  OBVIOUS
<1>3. [f EXCEPT ![k].status = s] \in [ClaimIds -> ClaimType]
  BY <1>1, <1>2
<1> DEFINE g == [f EXCEPT ![k].status = s]
<1>4. [g EXCEPT ![k].paidAmount = v] \in [ClaimIds -> ClaimType]
  BY <1>1, <1>2, <1>3
<1> QED BY <1>3, <1>4

\* A transfer suspends a well-typed storage.
LEMMA SendValueType ==
  ASSUME TypeOK, NEW kind \in {"withdraw", "payout"}, NEW r \in Address, NEW v \in Nat,
         SendValue(kind, r, v)
  PROVE  /\ stack' \in Seq(Frame)
         /\ native' \in Nat
         /\ wallet' \in [Accounts -> Nat]
<1>1. [kind |-> kind, receiver |-> r, saved |-> Storage] \in Frame
  BY StorageTyped DEF TypeOK, Frame
<1>2. stack' \in Seq(Frame)
  BY <1>1, AppendProperties DEF TypeOK, SendValue
<1>3. native' \in Nat
  BY DEF TypeOK, SendValue
<1>4. wallet' \in [Accounts -> Nat]
  <2>1. r \in Accounts => wallet[r] + v \in Nat
    BY DEF TypeOK
  <2> QED BY <2>1, UpdateType DEF TypeOK, SendValue
<1> QED BY <1>2, <1>3, <1>4

\* Releasing a lock leaves the lock counters natural numbers.
LEMMA ReleaseLockType ==
  ASSUME TypeOK, NEW c \in CoverageIds, ReleaseLock(c)
  PROVE  lockedExposure' \in [Accounts -> Nat]
<1>1. coverage[c].maxPayout \in Nat
  BY DEF TypeOK, CoverageType
<1> DEFINE m == coverage[c].merchant
<1>2. m \in Accounts => lockedExposure[m] - coverage[c].maxPayout \in Nat
  BY <1>1 DEF TypeOK, ReleaseLock
<1> QED BY <1>2, UpdateType DEF TypeOK, ReleaseLock

\* Every step of the contract leaves every variable with its type, provided
\* that open claims name a coverage.
LEMMA TypeStep ==
  ASSUME TypeOK, [Next]_vars,
         \A k \in ClaimIds : claim[k].status = "Open" => claim[k].coverageId \in CoverageIds
  PROVE  TypeOK'
<1> USE DEF TypeOK
<1> USE BoundsAssumption, AccountsAssumption
<1>1. ASSUME NEW m \in Accounts, NEW v \in Amounts, depositReserve(m, v)
      PROVE  TypeOK'
  BY <1>1 DEF depositReserve, coverageVars, claimVars
<1>2. ASSUME NEW m \in Accounts, NEW claimant \in Address, NEW product \in Bytes32,
             NEW receipt \in Bytes32, NEW p \in Amounts, NEW expiry \in 0..MaxTime,
             issueCoverage(m, claimant, product, receipt, p, expiry)
      PROVE  TypeOK'
  <2>1. coverage' \in [CoverageIds -> CoverageType]
    <3>1. [merchant |-> m, claimant |-> claimant, productHash |-> product,
           receiptHash |-> receipt, maxPayout |-> p, expiry |-> expiry,
           status |-> "Active"] \in CoverageType
      BY DEF CoverageType, CoverageStatus, Address
    <3> QED BY <1>2, <3>1 DEF issueCoverage, Available
  <2>2. coverageCount' \in 0..MaxCoverage
    BY <1>2 DEF issueCoverage, Available
  <2>3. lockedExposure' \in [Accounts -> Nat]
    BY <1>2 DEF issueCoverage, Available
  <2> QED BY <1>2, <2>1, <2>2, <2>3 DEF issueCoverage, claimVars, fundVars, Available
<1>3. ASSUME NEW c \in CoverageIds, expireCoverage(c)
      PROVE  TypeOK'
  <2>1. coverage' \in [CoverageIds -> CoverageType]
    BY <1>3 DEF expireCoverage, CoverageType, CoverageStatus, Unclaimed
  <2>2. lockedExposure' \in [Accounts -> Nat]
    BY <1>3, ReleaseLockType DEF expireCoverage, Unclaimed
  <2> QED BY <1>3, <2>1, <2>2 DEF expireCoverage, claimVars, fundVars, Unclaimed
<1>4. ASSUME NEW m \in Accounts, NEW v \in Amounts, withdrawReserve(m, v)
      PROVE  TypeOK'
  <2>1. stack' \in Seq(Frame) /\ native' \in Nat /\ wallet' \in [Accounts -> Nat]
    BY <1>4, SendValueType DEF withdrawReserve, Address, Available, Debit
  <2>2. reserveBalance' \in [Accounts -> Nat]
    BY <1>4 DEF withdrawReserve, Available, Debit
  <2> QED BY <1>4, <2>1, <2>2 DEF withdrawReserve, coverageVars, claimVars, Available, Debit
<1>5. ASSUME NEW a \in Accounts, NEW c \in CoverageIds, NEW h \in Bytes32, openClaim(a, c, h)
      PROVE  TypeOK'
  <2>1. claim' \in [ClaimIds -> ClaimType]
    <3>1. [coverageId |-> c, claimant |-> coverage[c].claimant, evidenceHash |-> h,
           paidAmount |-> 0, status |-> "Open", openedAt |-> now] \in ClaimType
      BY DEF ClaimType, ClaimStatus, CoverageType, CoverageIds
    <3> QED BY <1>5, <3>1 DEF openClaim, Unclaimed
  <2>2. claimCount' \in 0..MaxCoverage
    BY <1>5 DEF openClaim, Unclaimed
  <2>3. claimOfCoverage' \in [CoverageIds -> 0..MaxCoverage]
    BY <1>5, <2>2 DEF openClaim, Unclaimed
  <2> QED BY <1>5, <2>1, <2>2, <2>3 DEF openClaim, reserveVars, coverageVars, fundVars,
       Unclaimed
<1>6. ASSUME NEW d \in Decisions, resolveClaim(d)
      PROVE  TypeOK'
  <2>1. /\ d \in ClaimDecision /\ d.nonce \in Nonces
        /\ d.claimId \in ClaimIds /\ d.coverageId \in CoverageIds
    BY <1>6, DecisionsAssumption DEF Nonces, resolveClaim, BoundToOpenClaim
  <2>2. d.amount \in Nat
    BY <2>1 DEF ClaimDecision
  <2>3. CASE approveClaim(d)
    <3>1. claim[d.claimId].claimant \in Address
      BY <2>1 DEF ClaimType
    <3>2. stack' \in Seq(Frame) /\ native' \in Nat /\ wallet' \in [Accounts -> Nat]
      BY <2>2, <2>3, <3>1, SendValueType DEF approveClaim, Debit, Payee
    <3>3. claim' \in [ClaimIds -> ClaimType]
      BY <2>1, <2>2, <2>3, VerdictType DEF approveClaim, ClaimStatus
    <3>4. reserveBalance' \in [Accounts -> Nat]
      <4> DEFINE m == coverage[d.coverageId].merchant
      <4>1. m \in Accounts => reserveBalance[m] - d.amount \in Nat
        BY SMTT(60), <2>2, <2>3 DEF approveClaim, Debit, Payee
      <4> QED BY <2>3, <4>1, UpdateType DEF approveClaim, Debit, Payee
    <3>5. lockedExposure' \in [Accounts -> Nat]
      BY <2>1, <2>3, ReleaseLockType DEF approveClaim, Debit, Payee
    <3>6. usedNonce' \in SUBSET Nonces
      BY <2>1, <2>3 DEF approveClaim, Debit, Payee
    <3> QED BY <2>3, <3>2, <3>3, <3>4, <3>5, <3>6 DEF approveClaim, coverageVars, Debit,
       Payee
  <2>4. CASE rejectClaim(d)
    <3>1. claim' \in [ClaimIds -> ClaimType]
      BY <2>1, <2>4, VerdictType DEF rejectClaim, ClaimStatus
    <3>2. lockedExposure' \in [Accounts -> Nat]
      BY <2>1, <2>4, ReleaseLockType DEF rejectClaim
    <3>3. usedNonce' \in SUBSET Nonces
      BY <2>1, <2>4 DEF rejectClaim
    <3> QED BY <2>4, <3>1, <3>2, <3>3 DEF rejectClaim, coverageVars, fundVars
  <2> QED BY <1>6, <2>3, <2>4 DEF resolveClaim
<1>7. CASE Accept
  BY <1>7, PopType DEF Accept, InCall, Pop, reserveVars, coverageVars, claimVars, fundVars
<1>8. CASE Refuse
  <2>1. Top \in Frame
    BY <1>8, PopType DEF Refuse, InCall, Top
  <2> QED BY <1>8, <2>1, PopType DEF Refuse, InCall, Pop, Frame, StorageType
<1>9. CASE NextBlock
  BY <1>9 DEF NextBlock, reserveVars, coverageVars, claimVars, fundVars
<1>10. CASE UNCHANGED vars
  BY <1>10 DEF vars, reserveVars, coverageVars, claimVars, fundVars
<1> QED BY <1>1, <1>2, <1>3, <1>4, <1>5, <1>6, <1>7, <1>8, <1>9, <1>10 DEF Next

LEMMA TypeInit == Init => TypeOK
BY AccountsAssumption, BoundsAssumption
   DEF Init, TypeOK, NoCoverage, NoClaim, CoverageType, ClaimType, CoverageStatus, ClaimStatus,
       Address, Bytes32

-----------------------------------------------------------------------------
(***************************************************************************)
(* The lock counters.                                                      *)
(***************************************************************************)

\* Liabilities are finitely many natural numbers.
LEMMA LiabilityType ==
  ASSUME TypeOK, NEW m
  PROVE  IsFiniteSet(CoverageIds) /\ Liability(Storage, m) \in [CoverageIds -> Nat]
<1>1. IsFiniteSet(CoverageIds)
  BY FS_Interval, BoundsAssumption DEF CoverageIds
<1>2. \A c \in CoverageIds : coverage[c].maxPayout \in Nat
  BY DEF TypeOK, CoverageType
<1> QED BY <1>1, <1>2 DEF Liability, Storage

\* A step that neither moves a lock counter nor changes which coverage is
\* live for how much keeps them equal.
LEMMA LocksUnmoved ==
  ASSUME LocksMatch(Storage), lockedExposure' = lockedExposure,
         \A c \in CoverageIds :
           /\ Live(Storage, c)' <=> Live(Storage, c)
           /\ Live(Storage, c) => /\ coverage'[c].merchant = coverage[c].merchant
                                  /\ coverage'[c].maxPayout = coverage[c].maxPayout
  PROVE  LocksMatch(Storage)'
<1>1. \A m \in Accounts : Liability(Storage, m)' = Liability(Storage, m)
  BY DEF Liability, Storage
<1> QED BY <1>1 DEF LocksMatch, Exposure, Storage

\* A coverage that becomes live adds its maximum payout to the lock counter.
LEMMA LocksGrow ==
  ASSUME TypeOK, LocksMatch(Storage), NEW c \in CoverageIds, NEW m \in Accounts, NEW p \in Nat,
         ~Live(Storage, c), Live(Storage, c)',
         coverage'[c].merchant = m, coverage'[c].maxPayout = p,
         lockedExposure' = [lockedExposure EXCEPT ![m] = @ + p],
         \A x \in CoverageIds \ {c} :
           /\ Live(Storage, x)' <=> Live(Storage, x)
           /\ coverage'[x].merchant = coverage[x].merchant
           /\ coverage'[x].maxPayout = coverage[x].maxPayout
  PROVE  LocksMatch(Storage)'
<1>1. Liability(Storage, m)' = [Liability(Storage, m) EXCEPT ![c] = p]
  BY DEF Liability, Storage
<1>2. Liability(Storage, m)[c] = 0
  BY DEF Liability
<1>3. Exposure(Storage, m)' = Exposure(Storage, m) + p
  <2> DEFINE f == Liability(Storage, m)
  <2>1. IsFiniteSet(CoverageIds) /\ f \in [CoverageIds -> Nat]
    BY LiabilityType
  <2>2. f[c] = 0
    BY <1>2
  <2>3. f' = [f EXCEPT ![c] = p]
    BY <1>1
  <2> HIDE DEF f
  <2>4. Total(f) \in Nat
    BY <2>1, TotalType
  <2>5. Total([f EXCEPT ![c] = p]) = Total(f) - f[c] + p
    BY ZenonT(60), <2>1, TotalUpdate
  <2>6. Total(f') = Total(f) + p
    BY <2>2, <2>3, <2>4, <2>5
  <2> QED BY <2>6 DEF Exposure, f
<1>4. \A a \in Accounts \ {m} : Liability(Storage, a)' = Liability(Storage, a)
  BY DEF Liability, Storage
<1>5. \A a \in Accounts \ {m} : Exposure(Storage, a)' = Exposure(Storage, a)
  BY <1>4 DEF Exposure
<1> QED BY <1>3, <1>5 DEF LocksMatch, Storage, TypeOK

\* A coverage that stops being live takes its maximum payout out of the
\* counter, which is large enough for it.
LEMMA LocksShrink ==
  ASSUME TypeOK, LocksMatch(Storage), NEW c \in CoverageIds,
         coverage[c].merchant \in Accounts, ReleaseLock(c),
         Live(Storage, c), ~Live(Storage, c)',
         \A x \in CoverageIds \ {c} : Live(Storage, x)' <=> Live(Storage, x),
         \A x \in CoverageIds : /\ coverage'[x].merchant = coverage[x].merchant
                                /\ coverage'[x].maxPayout = coverage[x].maxPayout
  PROVE  LocksMatch(Storage)'
<1> DEFINE m == coverage[c].merchant
           p == coverage[c].maxPayout
<1>1. Liability(Storage, m)' = [Liability(Storage, m) EXCEPT ![c] = 0]
  BY DEF Liability, Storage
<1>2. Liability(Storage, m)[c] = p
  BY DEF Liability, Storage
<1>3. Exposure(Storage, m)' = Exposure(Storage, m) - p
  <2> DEFINE f == Liability(Storage, m)
  <2>1. IsFiniteSet(CoverageIds) /\ f \in [CoverageIds -> Nat]
    BY LiabilityType
  <2>2. f[c] = p
    BY <1>2
  <2>3. f' = [f EXCEPT ![c] = 0]
    BY <1>1
  <2>4. p \in Nat
    BY DEF TypeOK, CoverageType
  <2> HIDE DEF f, p
  <2> DEFINE z == 0
  <2>5. z \in Nat /\ f' = [f EXCEPT ![c] = z]
    BY <2>3
  <2> HIDE DEF z
  <2>6. Total([f EXCEPT ![c] = z]) = Total(f) - f[c] + z /\ Total(f) \in Nat
    BY <2>1, <2>5, TotalUpdate, TotalType
  <2>7. Total(f') = Total(f) - p
    BY <2>2, <2>4, <2>5, <2>6 DEF z
  <2> QED BY <2>7 DEF Exposure, f
<1>4. \A a \in Accounts \ {m} : Liability(Storage, a)' = Liability(Storage, a)
  BY DEF Liability, Storage
<1>5. \A a \in Accounts \ {m} : Exposure(Storage, a)' = Exposure(Storage, a)
  BY <1>4 DEF Exposure
<1> QED BY <1>3, <1>5 DEF LocksMatch, Storage, TypeOK, ReleaseLock

\* Releasing a lock leaves what remains locked backed.
LEMMA BackedAfterRelease ==
  ASSUME TypeOK, LocksBacked(Storage), NEW c \in CoverageIds, ReleaseLock(c),
         UNCHANGED reserveBalance
  PROVE  LocksBacked(Storage)'
<1>1. coverage[c].maxPayout \in Nat
  BY DEF TypeOK, CoverageType
<1> QED BY <1>1 DEF TypeOK, LocksBacked, ReleaseLock, Storage

\* The lock counter of a merchant covers each of his live coverages.
LEMMA LiveIsLocked ==
  ASSUME TypeOK, LocksMatch(Storage), NEW c \in CoverageIds,
         coverage[c].merchant \in Accounts, Live(Storage, c)
  PROVE  coverage[c].maxPayout <= lockedExposure[coverage[c].merchant]
<1> DEFINE f == Liability(Storage, coverage[c].merchant)
<1>1. f[c] = coverage[c].maxPayout
  BY DEF Liability, Storage
<1>2. IsFiniteSet(CoverageIds) /\ f \in [CoverageIds -> Nat]
  BY LiabilityType
<1>3. f[c] <= Total(f)
  <2> HIDE DEF f
  <2> QED BY <1>2, TotalBound
<1>4. lockedExposure[coverage[c].merchant] = Total(f)
  BY DEF LocksMatch, Exposure, Storage
<1> QED BY <1>1, <1>3, <1>4

-----------------------------------------------------------------------------
(***************************************************************************)
(* The native balance.                                                     *)
(***************************************************************************)

\* A step that changes one reserve and the native balance by the same amount
\* keeps the contract's accounts balanced.
LEMMA BalanceMoves ==
  ASSUME TypeOK, BalanceMatches(Storage), NEW m \in Accounts, NEW w \in Nat,
         reserveBalance' = [reserveBalance EXCEPT ![m] = w],
         native' = native - reserveBalance[m] + w
  PROVE  BalanceMatches(Storage)'
<1>1. IsFiniteSet(Accounts) /\ reserveBalance \in [Accounts -> Nat]
  BY AccountsAssumption DEF TypeOK
<1>2. Total([reserveBalance EXCEPT ![m] = w]) = Total(reserveBalance) - reserveBalance[m] + w
  BY <1>1, TotalUpdate
<1> QED BY <1>2 DEF BalanceMatches, Storage

\* The contract holds at least the reserve of each merchant.
LEMMA ReserveIsHeld ==
  ASSUME TypeOK, BalanceMatches(Storage), NEW m \in Accounts
  PROVE  reserveBalance[m] <= native
<1>1. reserveBalance \in [Accounts -> Nat]
  BY DEF TypeOK
<1> QED BY <1>1, AccountsAssumption, TotalBound DEF BalanceMatches, Storage

-----------------------------------------------------------------------------
(***************************************************************************)
(* Each function keeps the invariant of the storage.                       *)
(***************************************************************************)

\* An open claim is the claim of a live coverage with real accounts.
LEMMA OpenClaimIsLive ==
  ASSUME TypeOK, StorageInv(Storage), NEW k \in ClaimIds, claim[k].status = "Open"
  PROVE  /\ claim[k].coverageId \in CoverageIds
         /\ claimOfCoverage[claim[k].coverageId] = k
         /\ k \in 1..claimCount
         /\ Live(Storage, claim[k].coverageId)
         /\ coverage[claim[k].coverageId].status = "Active"
         /\ coverage[claim[k].coverageId].merchant \in Accounts
         /\ claim[k].claimant \in Accounts
<1>1. k \in 1..claimCount
  <2>1. IdsInOrder(Storage)
    BY DEF StorageInv
  <2>2. ~(k > claimCount)
    BY <2>1 DEF IdsInOrder, Storage
  <2> QED BY <2>2, BoundsAssumption DEF TypeOK, ClaimIds
<1>2. /\ claim[k].coverageId \in 1..coverageCount
      /\ claimOfCoverage[claim[k].coverageId] = k
      /\ Bound(claim[k], coverage[claim[k].coverageId])
  BY <1>1 DEF StorageInv, ClaimsMatch, Storage
<1>3. claim[k].coverageId \in CoverageIds
  BY <1>2, BoundsAssumption DEF TypeOK, CoverageIds
<1> QED BY <1>1, <1>2, <1>3 DEF Bound, Live, StorageInv, IdsInOrder, Storage

\* A step that leaves coverages, claims, nonces and locks alone keeps what is
\* said of them.
LEMMA RecordsUnchanged ==
  ASSUME StorageInv(Storage), UNCHANGED <<lockedExposure, coverageVars, claimVars, usedNonce>>
  PROVE  IdsInOrder(Storage)' /\ LocksMatch(Storage)' /\ ClaimsMatch(Storage)' /\ NoncesMatch(Storage)'
<1> USE DEF coverageVars, claimVars
<1>1. IdsInOrder(Storage)'
  BY DEF StorageInv, IdsInOrder, Storage
<1>2. LocksMatch(Storage)'
  <2>1. \A c \in CoverageIds : Live(Storage, c)' <=> Live(Storage, c)
    BY DEF Live, Storage
  <2> QED BY <2>1, LocksUnmoved DEF StorageInv
<1>3. ClaimsMatch(Storage)'
  BY DEF StorageInv, ClaimsMatch, Storage
<1>4. NoncesMatch(Storage)'
  BY DEF StorageInv, NoncesMatch, SettledClaims, Storage
<1> QED BY <1>1, <1>2, <1>3, <1>4

LEMMA DepositKeeps ==
  ASSUME TypeOK, TypeOK', StorageInv(Storage), NEW m \in Accounts, NEW v \in Amounts,
         depositReserve(m, v)
  PROVE  StorageInv(Storage)'
<1>1. v \in Nat
  BY BoundsAssumption
<1>2. IdsInOrder(Storage)' /\ LocksMatch(Storage)' /\ ClaimsMatch(Storage)' /\ NoncesMatch(Storage)'
  BY RecordsUnchanged DEF depositReserve
<1>3. LocksBacked(Storage)'
  <2>1. \A a \in Accounts : lockedExposure[a] <= reserveBalance[a]
    BY DEF StorageInv, LocksBacked, Storage
  <2>2. \A a \in Accounts : reserveBalance'[a] \in {reserveBalance[a], reserveBalance[a] + v}
    BY DEF depositReserve, TypeOK
  <2>3. \A a \in Accounts : lockedExposure[a] \in Nat /\ reserveBalance[a] \in Nat
    BY DEF TypeOK
  <2>4. \A a \in Accounts : lockedExposure[a] <= reserveBalance'[a]
    BY <1>1, <2>1, <2>2, <2>3
  <2> QED BY <2>4 DEF depositReserve, LocksBacked, Storage
<1>4. BalanceMatches(Storage)'
  <2>1. /\ reserveBalance[m] + v \in Nat
        /\ native + v = native - reserveBalance[m] + (reserveBalance[m] + v)
    <3>1. reserveBalance[m] \in Nat /\ native \in Nat
      BY DEF TypeOK
    <3> QED BY <1>1, <3>1
  <2> QED BY <2>1, BalanceMoves DEF depositReserve, StorageInv
<1> QED BY <1>2, <1>3, <1>4, StorageTyped DEF StorageInv

LEMMA WithdrawKeeps ==
  ASSUME TypeOK, TypeOK', StorageInv(Storage), NEW m \in Accounts, NEW v \in Amounts,
         withdrawReserve(m, v)
  PROVE  StorageInv(Storage)'
<1>1. v \in Nat
  BY BoundsAssumption
<1>2. IdsInOrder(Storage)' /\ LocksMatch(Storage)' /\ ClaimsMatch(Storage)' /\ NoncesMatch(Storage)'
  BY RecordsUnchanged DEF withdrawReserve, Available, Debit
<1>3. LocksBacked(Storage)'
  BY SMTT(60), <1>1 DEF withdrawReserve, Available, StorageInv, LocksBacked, Storage, TypeOK, Debit
<1>4. BalanceMatches(Storage)'
  <2>1. /\ reserveBalance[m] - v \in Nat
        /\ native - v = native - reserveBalance[m] + (reserveBalance[m] - v)
    BY SMTT(60), <1>1 DEF TypeOK, withdrawReserve, Available, Debit
  <2> QED BY <2>1, BalanceMoves DEF withdrawReserve, SendValue, StorageInv, Available, Debit
<1> QED BY <1>2, <1>3, <1>4, StorageTyped DEF StorageInv

\* The next coverage id has never been used.
LEMMA NextCoverageIsNew ==
  ASSUME TypeOK, StorageInv(Storage), coverageCount < MaxCoverage
  PROVE  /\ coverageCount + 1 \in CoverageIds
         /\ coverage[coverageCount + 1].status = "None"
         /\ claimOfCoverage[coverageCount + 1] = 0
<1> DEFINE n == coverageCount + 1
<1>1. n \in CoverageIds /\ n > coverageCount /\ n \notin 1..coverageCount
  BY BoundsAssumption DEF TypeOK, CoverageIds
<1>2. coverage[n].status = "None"
  BY <1>1 DEF StorageInv, IdsInOrder, Storage
<1>3. claimOfCoverage[n] = 0
  <2> SUFFICES ASSUME claimOfCoverage[n] # 0 PROVE FALSE
    OBVIOUS
  <2> DEFINE k == claimOfCoverage[n]
  <2>1. k \in 1..claimCount /\ claim[k].coverageId = n
    BY <1>1 DEF StorageInv, ClaimsMatch, Storage
  <2>2. claim[k].coverageId \in 1..coverageCount
    BY <2>1 DEF StorageInv, ClaimsMatch, Storage
  <2> QED BY <1>1, <2>1, <2>2
<1> QED BY <1>1, <1>2, <1>3

LEMMA IssueKeeps ==
  ASSUME TypeOK, TypeOK', StorageInv(Storage), NEW m \in Accounts, NEW claimant \in Address,
         NEW product, NEW receipt, NEW p \in Amounts, NEW expiry,
         issueCoverage(m, claimant, product, receipt, p, expiry)
  PROVE  StorageInv(Storage)'
<1>0. PICK n \in CoverageIds : n = coverageCount + 1
  BY NextCoverageIsNew DEF issueCoverage, Available
<1>1. p \in Nat
  BY BoundsAssumption
<1>2. coverage[n].status = "None" /\ claimOfCoverage[n] = 0
  BY <1>0, NextCoverageIsNew DEF issueCoverage, Available
<1>3. \A c \in CoverageIds \ {n} : coverage'[c] = coverage[c]
  BY <1>0 DEF issueCoverage, Available
<1>4. /\ coverage'[n].status = "Active" /\ coverage'[n].merchant = m
      /\ coverage'[n].claimant = claimant /\ coverage'[n].maxPayout = p
  BY <1>0 DEF issueCoverage, TypeOK, Available
<1>5. IdsInOrder(Storage)'
  <2>1. \A c \in CoverageIds : c \in Nat /\ coverageCount \in Nat
    BY BoundsAssumption DEF CoverageIds, TypeOK
  <2>2. \A c \in CoverageIds :
          /\ coverage'[c].status = "None" <=> c > n
          /\ coverage'[c].status # "None" =>
               coverage'[c].merchant \in Accounts /\ coverage'[c].claimant \in Accounts
    <3> SUFFICES ASSUME NEW c \in CoverageIds
                 PROVE  /\ coverage'[c].status = "None" <=> c > n
                        /\ coverage'[c].status # "None" =>
                             coverage'[c].merchant \in Accounts /\ coverage'[c].claimant \in Accounts
      OBVIOUS
    <3>1. CASE c = n
      BY <2>1, <3>1, <1>4 DEF issueCoverage, Address, Available
    <3>2. CASE c # n
      <4>1. coverage'[c] = coverage[c]
        BY <3>2, <1>3
      <4>2. c > n <=> c > coverageCount
        BY <1>0, <2>1, <3>2
      <4> QED BY <4>1, <4>2 DEF StorageInv, IdsInOrder, Storage
    <3> QED BY <3>1, <3>2
  <2>3. coverageCount' = n /\ claim' = claim /\ claimCount' = claimCount
    BY <1>0 DEF issueCoverage, claimVars, Available
  <2> QED BY <2>2, <2>3 DEF StorageInv, IdsInOrder, Storage
<1>6. LocksMatch(Storage)'
  <2>1. claim' = claim /\ claimOfCoverage' = claimOfCoverage
    BY DEF issueCoverage, claimVars, Available
  <2>2. ~Live(Storage, n)
    BY <1>2 DEF Live, Storage
  <2>3. Live(Storage, n)'
    BY <1>2, <1>4, <2>1 DEF Live, Storage
  <2>4. \A c \in CoverageIds \ {n} : Live(Storage, c)' <=> Live(Storage, c)
    BY <1>3, <2>1 DEF Live, Storage
  <2>5. lockedExposure' = [lockedExposure EXCEPT ![m] = @ + p]
    BY DEF issueCoverage, Available
  <2> QED BY <1>1, <1>2, <1>3, <1>4, <2>2, <2>3, <2>4, <2>5, LocksGrow DEF StorageInv
<1>7. LocksBacked(Storage)'
  <2>1. /\ lockedExposure' = [lockedExposure EXCEPT ![m] = @ + p]
        /\ reserveBalance' = reserveBalance
        /\ p <= reserveBalance[m] - lockedExposure[m]
    BY DEF issueCoverage, Available
  <2>2. /\ reserveBalance \in [Accounts -> Nat] /\ lockedExposure \in [Accounts -> Nat]
        /\ \A a \in Accounts : lockedExposure[a] <= reserveBalance[a]
    BY DEF TypeOK, StorageInv, LocksBacked, Storage
  <2>3. \A a \in Accounts : lockedExposure'[a] <= reserveBalance'[a]
    BY <1>1, <2>1, <2>2
  <2> QED BY <2>3 DEF LocksBacked, Storage
<1>8. BalanceMatches(Storage)'
  BY DEF issueCoverage, fundVars, StorageInv, BalanceMatches, Storage, Available
<1>9. ClaimsMatch(Storage)'
  <2>1. /\ claim' = claim /\ claimOfCoverage' = claimOfCoverage /\ claimCount' = claimCount
        /\ coverageCount' = n
    BY <1>0 DEF issueCoverage, claimVars, Available
  <2>2. \A k \in 1..claimCount :
          /\ claim[k].coverageId \in 1..coverageCount
          /\ claimOfCoverage[claim[k].coverageId] = k
          /\ Bound(claim[k], coverage[claim[k].coverageId])
    BY DEF StorageInv, ClaimsMatch, Storage
  <2>3. \A i \in 1..coverageCount : i \in 1..n /\ i \in CoverageIds /\ i # n
    BY <1>0, BoundsAssumption DEF TypeOK, CoverageIds
  <2>4. \A k \in 1..claimCount :
          /\ claim[k].coverageId \in 1..n
          /\ claimOfCoverage[claim[k].coverageId] = k
          /\ Bound(claim[k], coverage'[claim[k].coverageId])
    BY <1>3, <2>2, <2>3
  <2> QED BY <2>1, <2>4 DEF StorageInv, ClaimsMatch, Storage, Bound
<1>10. NoncesMatch(Storage)'
  BY DEF issueCoverage, claimVars, StorageInv, NoncesMatch, SettledClaims, Storage,
       Available
<1> QED BY <1>5, <1>6, <1>7, <1>8, <1>9, <1>10, StorageTyped DEF StorageInv

LEMMA ExpireKeeps ==
  ASSUME TypeOK, TypeOK', StorageInv(Storage), NEW c \in CoverageIds, expireCoverage(c)
  PROVE  StorageInv(Storage)'
<1> USE DEF claimVars, fundVars
<1>1. \A x \in CoverageIds : /\ coverage'[x].merchant = coverage[x].merchant
                             /\ coverage'[x].claimant = coverage[x].claimant
                             /\ coverage'[x].maxPayout = coverage[x].maxPayout
  BY DEF expireCoverage, TypeOK, CoverageType, Unclaimed
<1>2. \A x \in CoverageIds \ {c} : coverage'[x] = coverage[x]
  BY DEF expireCoverage, TypeOK, Unclaimed
<1>3. coverage[c].status = "Active" /\ coverage'[c].status = "Expired" /\ claimOfCoverage[c] = 0
  BY DEF expireCoverage, TypeOK, CoverageType, Unclaimed
<1>4. IdsInOrder(Storage)'
  <2>1. \A x \in CoverageIds : coverage'[x].status = "None" <=> coverage[x].status = "None"
    BY <1>2, <1>3
  <2> QED BY <1>1, <2>1 DEF expireCoverage, StorageInv, IdsInOrder, Storage, Unclaimed
<1>5. LocksMatch(Storage)'
  <2>1. claim' = claim /\ claimOfCoverage' = claimOfCoverage /\ ReleaseLock(c)
    BY DEF expireCoverage, Unclaimed
  <2>2. Live(Storage, c) /\ ~Live(Storage, c)'
    BY <1>3, <2>1 DEF Live, Storage
  <2>3. \A x \in CoverageIds \ {c} : Live(Storage, x)' <=> Live(Storage, x)
    BY <1>2, <2>1 DEF Live, Storage
  <2>4. coverage[c].merchant \in Accounts
    BY <1>3 DEF StorageInv, IdsInOrder, Storage
  <2> QED BY <1>1, <2>1, <2>2, <2>3, <2>4, LocksShrink DEF StorageInv
<1>6. LocksBacked(Storage)'
  BY BackedAfterRelease DEF expireCoverage, StorageInv, Unclaimed
<1>7. BalanceMatches(Storage)'
  BY DEF expireCoverage, StorageInv, BalanceMatches, Storage, Unclaimed
<1>8. ClaimsMatch(Storage)'
  <2>1. \A k \in 1..claimCount :
          /\ claim[k].coverageId \in 1..coverageCount
          /\ claimOfCoverage[claim[k].coverageId] = k
          /\ Bound(claim[k], coverage[claim[k].coverageId])
    BY DEF StorageInv, ClaimsMatch, Storage
  <2>2. \A i \in 1..coverageCount : i \in CoverageIds
    BY BoundsAssumption DEF TypeOK, CoverageIds
  <2>3. \A k \in 1..claimCount : claim[k].coverageId \in CoverageIds \ {c}
    BY <2>1, <2>2, <1>3
  <2>4. \A k \in 1..claimCount : Bound(claim[k], coverage'[claim[k].coverageId])
    BY <1>2, <2>1, <2>3
  <2> QED BY <2>1, <2>4 DEF expireCoverage, StorageInv, ClaimsMatch, Storage, Bound,
       Unclaimed
<1>9. NoncesMatch(Storage)'
  BY DEF expireCoverage, StorageInv, NoncesMatch, SettledClaims, Storage, Unclaimed
<1> QED BY <1>4, <1>5, <1>6, <1>7, <1>8, <1>9, StorageTyped DEF StorageInv

\* The next claim id has never been used, and no coverage names it.
LEMMA NextClaimIsNew ==
  ASSUME TypeOK, StorageInv(Storage), claimCount < MaxCoverage
  PROVE  /\ claimCount + 1 \in ClaimIds
         /\ claim[claimCount + 1].status = "None"
         /\ \A c \in CoverageIds : claimOfCoverage[c] # claimCount + 1
<1> DEFINE n == claimCount + 1
<1>1. n \in ClaimIds /\ n > claimCount /\ n \notin 1..claimCount /\ n # 0
  BY BoundsAssumption DEF TypeOK, ClaimIds
<1>2. claim[n].status = "None"
  BY <1>1 DEF StorageInv, IdsInOrder, Storage
<1>3. \A c \in CoverageIds : claimOfCoverage[c] # 0 => claimOfCoverage[c] \in 1..claimCount
  BY DEF StorageInv, ClaimsMatch, Storage
<1> QED BY <1>1, <1>2, <1>3

LEMMA OpenKeeps ==
  ASSUME TypeOK, TypeOK', StorageInv(Storage), NEW a \in Accounts, NEW c \in CoverageIds,
         NEW h, openClaim(a, c, h)
  PROVE  StorageInv(Storage)'
<1> USE DEF reserveVars, coverageVars, fundVars
<1>0. PICK n \in ClaimIds : n = claimCount + 1
  BY NextClaimIsNew DEF openClaim, Unclaimed
<1>1. /\ claim[n].status = "None" /\ \A x \in CoverageIds : claimOfCoverage[x] # n
      /\ n # 0 /\ n \notin 1..claimCount /\ n \in Nat
      /\ claimCount' = n /\ 1..n = (1..claimCount) \cup {n}
  <2>1. claimCount < MaxCoverage /\ claimCount \in Nat /\ claimCount' = n
    BY <1>0 DEF openClaim, TypeOK
  <2>2. /\ claim[n].status = "None"
        /\ \A x \in CoverageIds : claimOfCoverage[x] # n
    BY <1>0, <2>1, NextClaimIsNew
  <2>3. n # 0 /\ n \notin 1..claimCount /\ n \in Nat /\ 1..n = (1..claimCount) \cup {n}
    BY <1>0, <2>1
  <2> QED BY <2>1, <2>2, <2>3
<1>2. \A k \in ClaimIds \ {n} : claim'[k] = claim[k]
  BY <1>0 DEF openClaim, TypeOK, Unclaimed
<1>3. /\ claim'[n].coverageId = c /\ claim'[n].claimant = coverage[c].claimant
      /\ claim'[n].paidAmount = 0 /\ claim'[n].status = "Open" /\ claim'[n].openedAt = now
  BY <1>0 DEF openClaim, TypeOK, Unclaimed
<1>4. /\ \A x \in CoverageIds \ {c} : claimOfCoverage'[x] = claimOfCoverage[x]
      /\ claimOfCoverage'[c] = n /\ claimOfCoverage[c] = 0
  BY <1>0 DEF openClaim, TypeOK, Unclaimed
<1>5. coverage' = coverage /\ coverageCount' = coverageCount /\ coverage[c].status = "Active"
  BY DEF openClaim, Unclaimed
<1>6. IdsInOrder(Storage)'
  <2>1. \A k \in ClaimIds : claim'[k].status = "None" <=> k > n
    <3> SUFFICES ASSUME NEW k \in ClaimIds PROVE claim'[k].status = "None" <=> k > n
      OBVIOUS
    <3>1. k \in Nat /\ claimCount \in Nat
      BY BoundsAssumption DEF TypeOK, ClaimIds
    <3>2. CASE k = n
      BY <3>1, <3>2, <1>3
    <3>3. CASE k # n
      <4>1. k > n <=> k > claimCount
        BY <1>0, <3>1, <3>3
      <4> QED BY <4>1, <3>3, <1>2 DEF StorageInv, IdsInOrder, Storage
    <3> QED BY <3>2, <3>3
  <2> QED BY <2>1, <1>1, <1>5 DEF StorageInv, IdsInOrder, Storage
<1>7. \A x \in CoverageIds \ {c} :
        claimOfCoverage[x] # 0 => /\ claimOfCoverage[x] \in ClaimIds \ {n}
                                  /\ claimOfCoverage[x] \in 1..claimCount
  <2>1. \A x \in CoverageIds : claimOfCoverage[x] # 0 => claimOfCoverage[x] \in 1..claimCount
    BY DEF StorageInv, ClaimsMatch, Storage
  <2>2. \A k \in 1..claimCount : k \in ClaimIds \ {n}
    BY <1>1, BoundsAssumption DEF TypeOK, ClaimIds
  <2> QED BY <2>1, <2>2
<1>8. LocksMatch(Storage)'
  <2>1. Live(Storage, c) /\ Live(Storage, c)'
    BY <1>3, <1>4, <1>5 DEF Live, Storage
  <2>2. \A x \in CoverageIds \ {c} : Live(Storage, x)' <=> Live(Storage, x)
    BY <1>2, <1>4, <1>5, <1>7 DEF Live, Storage
  <2> QED BY <2>1, <2>2, <1>5, LocksUnmoved DEF openClaim, StorageInv, Unclaimed
<1>9. LocksBacked(Storage)' /\ BalanceMatches(Storage)'
  BY DEF openClaim, StorageInv, LocksBacked, BalanceMatches, Storage, Unclaimed
<1>10. ClaimsMatch(Storage)'
  <2>1. \A k \in 1..claimCount :
          /\ claim[k].coverageId \in 1..coverageCount
          /\ claimOfCoverage[claim[k].coverageId] = k
          /\ Bound(claim[k], coverage[claim[k].coverageId])
    BY DEF StorageInv, ClaimsMatch, Storage
  <2>2. \A k \in 1..claimCount :
          /\ claim'[k] = claim[k] /\ k # 0
          /\ claim[k].coverageId \in CoverageIds
    <3>0. claimCount \in 0..MaxCoverage
      BY DEF TypeOK
    <3>1. \A k \in 1..claimCount : k \in ClaimIds \ {n} /\ k # 0
      BY <1>1, <3>0, BoundsAssumption DEF ClaimIds
    <3>2. \A i \in 1..coverageCount : i \in CoverageIds
      BY BoundsAssumption DEF TypeOK, CoverageIds
    <3> QED BY <3>1, <3>2, <1>2, <2>1
  <2>3. \A k \in 1..claimCount : claim[k].coverageId # c
    BY <1>4, <2>1, <2>2
  <2>4. c \in 1..coverageCount
    <3>1. ~(c > coverageCount)
      BY <1>5 DEF StorageInv, IdsInOrder, Storage
    <3> QED BY <3>1, BoundsAssumption DEF CoverageIds, TypeOK
  <2>5. Bound(claim'[n], coverage[c])
    <3>1. now < coverage[c].expiry /\ coverage[c].maxPayout \in Nat
      BY DEF openClaim, TypeOK, CoverageType, Unclaimed
    <3> QED BY <3>1, <1>3, <1>5 DEF Bound
  <2>6. \A k \in 1..n :
          /\ claim'[k].coverageId \in 1..coverageCount
          /\ claimOfCoverage'[claim'[k].coverageId] = k
          /\ Bound(claim'[k], coverage[claim'[k].coverageId])
    BY <1>1, <1>3, <1>4, <2>1, <2>2, <2>3, <2>4, <2>5
  <2>7. \A x \in CoverageIds : claimOfCoverage[x] # 0 => claim[claimOfCoverage[x]].coverageId = x
    BY DEF StorageInv, ClaimsMatch, Storage
  <2>8. \A x \in CoverageIds : claimOfCoverage'[x] # 0 =>
          /\ claimOfCoverage'[x] \in 1..n
          /\ claim'[claimOfCoverage'[x]].coverageId = x
    BY <1>1, <1>2, <1>3, <1>4, <1>7, <2>7
  <2> QED BY <2>6, <2>8, <1>1, <1>5 DEF ClaimsMatch, Storage, Bound
<1>11. NoncesMatch(Storage)'
  <2>1. SettledClaims(Storage)' = SettledClaims(Storage)
    BY <1>1, <1>2, <1>3 DEF SettledClaims, Storage
  <2> QED BY <2>1 DEF openClaim, StorageInv, NoncesMatch, Storage, Unclaimed
<1> QED BY <1>6, <1>8, <1>9, <1>10, <1>11, StorageTyped DEF StorageInv

\* What approving and rejecting have in common: an open claim of a live
\* coverage becomes settled, one fresh nonce is used, the lock is released.
LEMMA SettlementKeeps ==
  ASSUME TypeOK, TypeOK', StorageInv(Storage),
         NEW k \in ClaimIds, NEW c \in CoverageIds, NEW n, NEW verdict \in {"Approved", "Rejected"},
         claim[k].status = "Open", claim[k].coverageId = c, n \notin usedNonce,
         usedNonce' = usedNonce \cup {n}, ReleaseLock(c),
         \A x \in ClaimIds \ {k} : claim'[x] = claim[x],
         claim'[k].status = verdict, claim'[k].coverageId = c,
         claim'[k].claimant = claim[k].claimant, claim'[k].openedAt = claim[k].openedAt,
         claim'[k].paidAmount <= coverage[c].maxPayout,
         claim'[k].paidAmount # 0 <=> verdict = "Approved",
         UNCHANGED <<coverageVars, claimCount, claimOfCoverage>>
  PROVE  IdsInOrder(Storage)' /\ LocksMatch(Storage)' /\ ClaimsMatch(Storage)' /\ NoncesMatch(Storage)'
<1> USE DEF coverageVars
<1>1. /\ claimOfCoverage[c] = k /\ k \in 1..claimCount /\ Live(Storage, c)
      /\ coverage[c].status = "Active" /\ coverage[c].merchant \in Accounts
  BY OpenClaimIsLive
<1>2. IdsInOrder(Storage)'
  <2>1. \A x \in ClaimIds : claim'[x].status = "None" <=> claim[x].status = "None"
    OBVIOUS
  <2> QED BY <2>1 DEF StorageInv, IdsInOrder, Storage
<1>3. \A x \in CoverageIds \ {c} : claimOfCoverage[x] # 0 => claimOfCoverage[x] \in ClaimIds \ {k}
  <2>1. \A x \in CoverageIds : claimOfCoverage[x] # 0 =>
          claimOfCoverage[x] \in 1..claimCount /\ claim[claimOfCoverage[x]].coverageId = x
    BY DEF StorageInv, ClaimsMatch, Storage
  <2>2. \A i \in 1..claimCount : i \in ClaimIds
    BY BoundsAssumption DEF TypeOK, ClaimIds
  <2> QED BY <2>1, <2>2
<1>4. LocksMatch(Storage)'
  <2>1. ~Live(Storage, c)'
    BY <1>1 DEF Live, Storage
  <2>2. \A x \in CoverageIds \ {c} : Live(Storage, x)' <=> Live(Storage, x)
    BY <1>3 DEF Live, Storage
  <2> QED BY <1>1, <2>1, <2>2, LocksShrink DEF StorageInv
<1>5. ClaimsMatch(Storage)'
  <2>1. \A x \in 1..claimCount :
          /\ claim[x].coverageId \in 1..coverageCount
          /\ claimOfCoverage[claim[x].coverageId] = x
          /\ Bound(claim[x], coverage[claim[x].coverageId])
    BY DEF StorageInv, ClaimsMatch, Storage
  <2>2. \A x \in 1..claimCount : x \in ClaimIds
    BY BoundsAssumption DEF TypeOK, ClaimIds
  <2>3. Bound(claim'[k], coverage[c])
    BY <1>1, <2>1 DEF Bound
  <2>4. \A x \in 1..claimCount :
          /\ claim'[x].coverageId \in 1..coverageCount
          /\ claimOfCoverage[claim'[x].coverageId] = x
          /\ Bound(claim'[x], coverage[claim'[x].coverageId])
    BY <1>1, <2>1, <2>2, <2>3
  <2>5. \A x \in CoverageIds : claimOfCoverage[x] # 0 =>
          /\ claimOfCoverage[x] \in 1..claimCount
          /\ claim[claimOfCoverage[x]].coverageId = x
    BY DEF StorageInv, ClaimsMatch, Storage
  <2>6. \A x \in CoverageIds : claimOfCoverage[x] # 0 => claim'[claimOfCoverage[x]].coverageId = x
    BY <1>1, <1>3, <2>5
  <2> QED BY <2>4, <2>5, <2>6 DEF ClaimsMatch, Storage, Bound
<1>6. NoncesMatch(Storage)'
  <2>1. SettledClaims(Storage)' = SettledClaims(Storage) \cup {k} /\ k \notin SettledClaims(Storage)
    BY DEF SettledClaims, Storage
  <2>2. IsFiniteSet(SettledClaims(Storage))
    <3>1. IsFiniteSet(ClaimIds)
      BY FS_Interval, BoundsAssumption DEF ClaimIds
    <3> QED BY <3>1, FS_Subset DEF SettledClaims
  <2>3. IsFiniteSet(usedNonce)
    BY DEF StorageInv, NoncesMatch, Storage
  <2>4. Cardinality(SettledClaims(Storage)') = Cardinality(SettledClaims(Storage)) + 1
    BY <2>1, <2>2, FS_AddElement
  <2>5. Cardinality(usedNonce') = Cardinality(usedNonce) + 1 /\ IsFiniteSet(usedNonce')
    BY <2>3, FS_AddElement
  <2> QED BY <2>4, <2>5 DEF StorageInv, NoncesMatch, Storage
<1> QED BY <1>2, <1>4, <1>5, <1>6

LEMMA ApproveKeeps ==
  ASSUME TypeOK, TypeOK', StorageInv(Storage), NEW d \in Decisions,
         Authorized(d), BoundToOpenClaim(d), approveClaim(d)
  PROVE  StorageInv(Storage)'
<1> DEFINE max == coverage[d.coverageId].maxPayout
<1>1. /\ d.claimId \in ClaimIds /\ claim[d.claimId].status = "Open"
      /\ claim[d.claimId].coverageId = d.coverageId /\ d.nonce \notin usedNonce
  BY DEF Authorized, BoundToOpenClaim
<1>2. d.amount \in Nat
  BY DecisionsAssumption DEF ClaimDecision
<1>3. PICK c \in CoverageIds : c = d.coverageId
  BY <1>1, OpenClaimIsLive
<1>4. PICK m \in Accounts : m = coverage[c].merchant
  BY <1>1, <1>3, OpenClaimIsLive
<1>5. /\ IdsInOrder(Storage)' /\ LocksMatch(Storage)'
      /\ ClaimsMatch(Storage)' /\ NoncesMatch(Storage)'
  <2>1. /\ \A x \in ClaimIds \ {d.claimId} : claim'[x] = claim[x]
        /\ claim'[d.claimId].status = "Approved" /\ claim'[d.claimId].paidAmount = d.amount
        /\ claim'[d.claimId].coverageId = c
        /\ claim'[d.claimId].claimant = claim[d.claimId].claimant
        /\ claim'[d.claimId].openedAt = claim[d.claimId].openedAt
    BY <1>1, <1>3 DEF approveClaim, TypeOK, ClaimType, Debit, Payee
  <2>2. /\ d.amount # 0 /\ d.amount <= coverage[c].maxPayout
        /\ usedNonce' = usedNonce \cup {d.nonce} /\ ReleaseLock(c)
        /\ UNCHANGED <<coverageVars, claimCount, claimOfCoverage>>
    BY <1>3 DEF approveClaim, Debit, Payee
  <2> QED BY <1>1, <1>3, <2>1, <2>2, SettlementKeeps
<1>6. /\ max \in Nat /\ max <= lockedExposure[m] /\ d.amount <= max
      /\ d.amount <= reserveBalance[m]
      /\ reserveBalance' = [reserveBalance EXCEPT ![m] = @ - d.amount]
      /\ lockedExposure' = [lockedExposure EXCEPT ![m] = @ - max]
      /\ native' = native - d.amount
  BY <1>3, <1>4 DEF approveClaim, ReleaseLock, SendValue, TypeOK, CoverageType, Debit, Payee
<1>7. LocksBacked(Storage)'
  <2>1. \A a \in Accounts : lockedExposure[a] <= reserveBalance[a]
    BY DEF StorageInv, LocksBacked, Storage
  <2>2. reserveBalance \in [Accounts -> Nat] /\ lockedExposure \in [Accounts -> Nat]
    BY DEF TypeOK
  <2> HIDE DEF max
  <2>3. \A a \in Accounts : lockedExposure'[a] <= reserveBalance'[a]
    BY <1>2, <1>6, <2>1, <2>2
  <2> QED BY <2>3 DEF LocksBacked, Storage
<1>8. BalanceMatches(Storage)'
  <2>1. /\ reserveBalance[m] - d.amount \in Nat
        /\ native - d.amount = native - reserveBalance[m] + (reserveBalance[m] - d.amount)
    <3>1. reserveBalance[m] \in Nat /\ native \in Nat
      BY DEF TypeOK
    <3> QED BY <1>2, <1>6, <3>1
  <2> QED BY <1>6, <2>1, BalanceMoves DEF StorageInv
<1> QED BY <1>5, <1>7, <1>8, StorageTyped DEF StorageInv

LEMMA RejectKeeps ==
  ASSUME TypeOK, TypeOK', StorageInv(Storage), NEW d \in Decisions,
         Authorized(d), BoundToOpenClaim(d), rejectClaim(d)
  PROVE  StorageInv(Storage)'
<1>1. /\ d.claimId \in ClaimIds /\ claim[d.claimId].status = "Open"
      /\ claim[d.claimId].coverageId = d.coverageId /\ d.nonce \notin usedNonce
  BY DEF Authorized, BoundToOpenClaim
<1>2. PICK c \in CoverageIds : c = d.coverageId
  BY <1>1, OpenClaimIsLive
<1>3. /\ IdsInOrder(Storage)' /\ LocksMatch(Storage)'
      /\ ClaimsMatch(Storage)' /\ NoncesMatch(Storage)'
  <2>1. /\ \A x \in ClaimIds \ {d.claimId} : claim'[x] = claim[x]
        /\ claim'[d.claimId].status = "Rejected"
        /\ claim'[d.claimId].paidAmount = claim[d.claimId].paidAmount
        /\ claim'[d.claimId].coverageId = c
        /\ claim'[d.claimId].claimant = claim[d.claimId].claimant
        /\ claim'[d.claimId].openedAt = claim[d.claimId].openedAt
    BY <1>1, <1>2 DEF rejectClaim, TypeOK, ClaimType
  <2>2. claim[d.claimId].paidAmount = 0
    BY <1>1, OpenClaimIsLive DEF StorageInv, ClaimsMatch, Bound, Storage
  <2>3. coverage[c].maxPayout \in Nat
    BY DEF TypeOK, CoverageType
  <2>4. /\ usedNonce' = usedNonce \cup {d.nonce} /\ ReleaseLock(c)
        /\ UNCHANGED <<coverageVars, claimCount, claimOfCoverage>>
    BY <1>2 DEF rejectClaim
  <2> QED BY <1>1, <1>2, <2>1, <2>2, <2>3, <2>4, SettlementKeeps
<1>4. LocksBacked(Storage)'
  BY <1>2, BackedAfterRelease DEF rejectClaim, StorageInv
<1>5. BalanceMatches(Storage)'
  BY DEF rejectClaim, fundVars, StorageInv, BalanceMatches, Storage
<1> QED BY <1>3, <1>4, <1>5, StorageTyped DEF StorageInv

-----------------------------------------------------------------------------
(***************************************************************************)
(* The invariant of the contract.                                          *)
(***************************************************************************)

\* A step keeps the storage, or returns to the one suspended last.
LEMMA StorageStep ==
  ASSUME IInv, TypeOK', [Next]_vars
  PROVE  StorageInv(Storage)'
<1> USE DEF IInv
<1>1. CASE Refuse
  <2>1. stack \in Seq(Frame) /\ stack # <<>> /\ Top = stack[Len(stack)]
    BY <1>1 DEF TypeOK, Refuse, InCall, Top
  <2>2. Len(stack) \in 1..Len(stack) /\ Top \in Frame
    BY <2>1, PopType
  <2>3. Storage' = Top.saved
    <3>1. Top.saved \in StorageType
      BY <2>2 DEF Frame
    <3> QED BY <1>1, <3>1 DEF Refuse, Storage, StorageType
  <2> QED BY <2>1, <2>2, <2>3
<1>2. CASE Accept \/ NextBlock \/ UNCHANGED vars
  <2>1. Storage' = Storage
    BY <1>2 DEF Accept, NextBlock, vars, reserveVars, coverageVars, claimVars, fundVars, Storage
  <2> QED BY <2>1
<1>3. ASSUME NEW d \in Decisions, resolveClaim(d)
      PROVE  StorageInv(Storage)'
  BY <1>3, ApproveKeeps, RejectKeeps DEF resolveClaim
<1> QED BY <1>1, <1>2, <1>3, DepositKeeps, IssueKeeps, ExpireKeeps, WithdrawKeeps, OpenKeeps DEF Next

\* What a step can do to the stack.
LEMMA StackStep ==
  ASSUME TypeOK, [Next]_vars
  PROVE  \/ UNCHANGED stack
         \/ \E k \in {"withdraw", "payout"}, r \in Address :
              stack' = Append(stack, [kind |-> k, receiver |-> r, saved |-> Storage])
         \/ stack # <<>> /\ Pop
<1>1. ASSUME NEW m \in Accounts, NEW v \in Amounts, withdrawReserve(m, v)
      PROVE  \E k \in {"withdraw", "payout"}, r \in Address :
               stack' = Append(stack, [kind |-> k, receiver |-> r, saved |-> Storage])
  BY <1>1 DEF withdrawReserve, SendValue, Address, Available, Debit
<1>2. ASSUME NEW d \in Decisions, BoundToOpenClaim(d), approveClaim(d)
      PROVE  \E k \in {"withdraw", "payout"}, r \in Address :
               stack' = Append(stack, [kind |-> k, receiver |-> r, saved |-> Storage])
  <2>1. claim[d.claimId].claimant \in Address
    BY <1>2 DEF BoundToOpenClaim, TypeOK, ClaimType
  <2> QED BY <1>2, <2>1 DEF approveClaim, SendValue, Debit, Payee
<1>3. ASSUME NEW m \in Accounts, NEW v \in Amounts, depositReserve(m, v)
      PROVE  UNCHANGED stack
  BY <1>3 DEF depositReserve
<1>4. ASSUME NEW m \in Accounts, NEW b \in Address, NEW x \in Bytes32, NEW y \in Bytes32,
             NEW p \in Amounts, NEW e \in 0..MaxTime, issueCoverage(m, b, x, y, p, e)
      PROVE  UNCHANGED stack
  BY <1>4 DEF issueCoverage
<1>5. ASSUME NEW c \in CoverageIds, expireCoverage(c)
      PROVE  UNCHANGED stack
  BY <1>5 DEF expireCoverage
<1>6. ASSUME NEW a \in Accounts, NEW c \in CoverageIds, NEW h \in Bytes32, openClaim(a, c, h)
      PROVE  UNCHANGED stack
  BY <1>6 DEF openClaim
<1>7. ASSUME NEW d \in Decisions, rejectClaim(d)
      PROVE  UNCHANGED stack
  BY <1>7 DEF rejectClaim
<1>8. ASSUME NEW d \in Decisions, resolveClaim(d)
      PROVE  BoundToOpenClaim(d) /\ (approveClaim(d) \/ rejectClaim(d))
  BY <1>8 DEF resolveClaim
<1>9. Accept \/ Refuse => stack # <<>> /\ Pop
  BY DEF Accept, Refuse, InCall
<1>10. NextBlock \/ UNCHANGED vars => UNCHANGED stack
  BY DEF NextBlock, vars
<1> QED BY <1>1, <1>2, <1>3, <1>4, <1>5, <1>6, <1>7, <1>8, <1>9, <1>10 DEF Next

LEMMA InvariantStep ==
  ASSUME IInv, [Next]_vars
  PROVE  IInv'
<1> USE DEF IInv
<1>1. TypeOK'
  BY TypeStep, OpenClaimIsLive
<1>2. StorageInv(Storage)'
  BY <1>1, StorageStep
<1>3. \A i \in 1..Len(stack') : StorageInv(stack'[i].saved)
  <2>1. CASE UNCHANGED stack
    BY <2>1
  <2>2. ASSUME NEW k, NEW r, stack' = Append(stack, [kind |-> k, receiver |-> r, saved |-> Storage])
        PROVE  \A i \in 1..Len(stack') : StorageInv(stack'[i].saved)
    <3>1. Len(stack') = Len(stack) + 1 /\ Len(stack) \in Nat
      BY <2>2 DEF TypeOK
    <3>2. \A i \in 1..Len(stack') :
            IF i \in 1..Len(stack) THEN stack'[i] = stack[i] ELSE stack'[i].saved = Storage
      BY <2>2 DEF TypeOK
    <3> QED BY <3>1, <3>2
  <2>3. CASE stack # <<>> /\ Pop
    BY <2>3, PopType DEF Pop, TypeOK
  <2> QED BY <2>1, <2>2, <2>3, StackStep
<1> QED BY <1>1, <1>2, <1>3

LEMMA InvariantInit == Init => IInv
<1> SUFFICES ASSUME Init PROVE IInv
  OBVIOUS
<1>1. TypeOK
  BY AccountsAssumption, BoundsAssumption
     DEF Init, TypeOK, NoCoverage, NoClaim, CoverageType, ClaimType, CoverageStatus, ClaimStatus,
         Address, Bytes32
<1>2. IdsInOrder(Storage)
  BY BoundsAssumption DEF Init, IdsInOrder, NoCoverage, NoClaim, Storage, CoverageIds, ClaimIds
<1>3. LocksMatch(Storage)
  <2>1. \A m \in Accounts : Liability(Storage, m) = [c \in CoverageIds |-> 0]
    BY DEF Init, Liability, Live, NoCoverage, Storage
  <2>2. \A m \in Accounts : Exposure(Storage, m) = 0
    BY <2>1, TotalZero DEF Exposure
  <2> QED BY <2>2 DEF Init, LocksMatch, Storage
<1>4. LocksBacked(Storage)
  BY DEF Init, LocksBacked, Storage
<1>5. BalanceMatches(Storage)
  BY TotalZero DEF Init, BalanceMatches, Storage
<1>6. ClaimsMatch(Storage)
  BY DEF Init, ClaimsMatch, Storage
<1>7. NoncesMatch(Storage)
  <2>1. SettledClaims(Storage) = {}
    BY DEF Init, SettledClaims, NoClaim, Storage
  <2> QED BY <2>1, FS_EmptySet DEF Init, NoncesMatch, Storage
<1>8. \A i \in 1..Len(stack) : StorageInv(stack[i].saved)
  BY DEF Init
<1> QED BY <1>1, <1>2, <1>3, <1>4, <1>5, <1>6, <1>7, <1>8, StorageTyped DEF IInv, StorageInv

LEMMA Invariant == Spec => []IInv
BY InvariantInit, InvariantStep, PTL DEF Spec

\* Every variable always has the type its declaration in the contract gives
\* it; in particular no balance and no lock counter ever becomes negative.
THEOREM TypeCorrect == Spec => []TypeOK
<1>1. IInv => TypeOK
  BY DEF IInv
<1> QED BY <1>1, Invariant, PTL

\* Each merchant's lock counter is always the sum of the maximum payouts of
\* its live coverages.
THEOREM LocksMatchLiveCoverageHolds == Spec => []LocksMatchLiveCoverage
<1>1. IInv => LocksMatchLiveCoverage
  BY DEF IInv, StorageInv, LocksMatchLiveCoverage
<1> QED BY <1>1, Invariant, PTL

\* What is locked is always backed by the merchant's own reserve.
THEOREM ReserveCoversLocksHolds == Spec => []ReserveCoversLocks
<1>1. IInv => ReserveCoversLocks
  BY DEF IInv, StorageInv, ReserveCoversLocks
<1> QED BY <1>1, Invariant, PTL

\* The contract always holds exactly the sum of the reserves.
THEOREM SolventHolds == Spec => []Solvent
<1>1. IInv => Solvent
  BY DEF IInv, StorageInv, Solvent
<1> QED BY <1>1, Invariant, PTL

\* Claims and coverages always pair up, within the time and amount covered.
THEOREM OneClaimPerCoverageHolds == Spec => []OneClaimPerCoverage
<1>1. IInv => OneClaimPerCoverage
  BY DEF IInv, StorageInv, OneClaimPerCoverage
<1> QED BY <1>1, Invariant, PTL

\* As many nonces are used as claims are settled.
THEOREM NoncePerSettlementHolds == Spec => []NoncePerSettlement
<1>1. IInv => NoncePerSettlement
  BY DEF IInv, StorageInv, NoncePerSettlement
<1> QED BY <1>1, Invariant, PTL

\* The full payout of every open claim is always there.
THEOREM OpenClaimsPayableHolds == Spec => []OpenClaimsPayable
<1>1. ASSUME IInv PROVE OpenClaimsPayable
  <2> SUFFICES ASSUME NEW k \in ClaimIds, claim[k].status = "Open"
               PROVE  LET c == coverage[claim[k].coverageId] IN
                      /\ c.maxPayout <= lockedExposure[c.merchant]
                      /\ c.maxPayout <= reserveBalance[c.merchant]
                      /\ c.maxPayout <= native
    BY DEF OpenClaimsPayable
  <2> DEFINE c == claim[k].coverageId
             m == coverage[c].merchant
  <2>1. /\ TypeOK /\ StorageInv(Storage) /\ LocksMatch(Storage)
        /\ LocksBacked(Storage) /\ BalanceMatches(Storage)
    BY <1>1 DEF IInv, StorageInv
  <2>2. c \in CoverageIds /\ m \in Accounts /\ Live(Storage, c)
    BY <2>1, OpenClaimIsLive
  <2>3. coverage[c].maxPayout <= lockedExposure[m]
    BY <2>1, <2>2, LiveIsLocked
  <2>4. lockedExposure[m] <= reserveBalance[m]
    BY <2>1, <2>2 DEF LocksBacked, Storage
  <2>5. reserveBalance[m] <= native
    BY <2>1, <2>2, ReserveIsHeld
  <2>6. /\ coverage[c].maxPayout \in Nat /\ lockedExposure[m] \in Nat
        /\ reserveBalance[m] \in Nat /\ native \in Nat
    BY <2>1, <2>2 DEF TypeOK, CoverageType
  <2> QED BY <2>3, <2>4, <2>5, <2>6
<1> QED BY <1>1, Invariant, PTL
-----------------------------------------------------------------------------
(***************************************************************************)
(* Settlement is final: no sequence of transactions, nested calls and      *)
(* reverts takes back what a completed transaction has settled.            *)
(***************************************************************************)

\* A suspended storage is an earlier one: it has settled no more than the
\* suspended storages above it and the present one.
SavedEarlier ==
  \A i \in 1..Len(stack) :
    /\ KeepsSettlements(stack[i].saved, Storage)
    /\ \A j \in i..Len(stack) : KeepsSettlements(stack[i].saved, stack[j].saved)

\* Keeping settlements is reflexive and transitive.
LEMMA KeepsTransitive ==
  ASSUME NEW s, NEW t, NEW u, KeepsSettlements(s, t), KeepsSettlements(t, u)
  PROVE  KeepsSettlements(s, u)
BY DEF KeepsSettlements, SettledClaims

\* No function touches a settled claim or frees a nonce.
LEMMA FunctionsKeep ==
  ASSUME IInv, [Next]_vars, ~Refuse
  PROVE  KeepsSettlements(Storage, Storage')
<1> SUFFICES /\ \A k \in SettledClaims(Storage) : claim'[k] = claim[k]
             /\ usedNonce \subseteq usedNonce'
  BY DEF KeepsSettlements, Storage
<1>1. \A k \in SettledClaims(Storage) : /\ k \in ClaimIds
                                        /\ claim[k].status \in {"Approved", "Rejected"}
  BY DEF SettledClaims, Storage
<1>2. ASSUME NEW a \in Accounts, NEW c \in CoverageIds, NEW h \in Bytes32, openClaim(a, c, h)
      PROVE  /\ \A k \in SettledClaims(Storage) : claim'[k] = claim[k]
             /\ usedNonce \subseteq usedNonce'
  <2>1. claim[claimCount + 1].status = "None"
    BY <1>2, NextClaimIsNew DEF IInv, openClaim, Unclaimed
  <2>2. \A k \in SettledClaims(Storage) : k # claimCount + 1
    BY <1>1, <2>1
  <2> QED BY <1>1, <1>2, <2>2 DEF openClaim, IInv, TypeOK, Unclaimed
<1>3. ASSUME NEW d \in Decisions, resolveClaim(d)
      PROVE  /\ \A k \in SettledClaims(Storage) : claim'[k] = claim[k]
             /\ usedNonce \subseteq usedNonce'
  <2>1. \A k \in SettledClaims(Storage) : k # d.claimId
    BY <1>1, <1>3 DEF resolveClaim, BoundToOpenClaim
  <2>2. CASE approveClaim(d)
    BY <1>1, <2>1, <2>2 DEF approveClaim, IInv, TypeOK, Debit, Payee
  <2>3. CASE rejectClaim(d)
    BY <1>1, <2>1, <2>3 DEF rejectClaim, IInv, TypeOK
  <2> QED BY <1>3, <2>2, <2>3 DEF resolveClaim
<1>4. ASSUME UNCHANGED <<claimVars, usedNonce>>
      PROVE  /\ \A k \in SettledClaims(Storage) : claim'[k] = claim[k]
             /\ usedNonce \subseteq usedNonce'
  BY <1>4 DEF claimVars
<1>5. ASSUME NEW m \in Accounts, NEW v \in Amounts, depositReserve(m, v)
      PROVE  UNCHANGED <<claimVars, usedNonce>>
  BY <1>5 DEF depositReserve
<1>6. ASSUME NEW m \in Accounts, NEW b \in Address, NEW x \in Bytes32, NEW y \in Bytes32,
             NEW p \in Amounts, NEW e \in 0..MaxTime, issueCoverage(m, b, x, y, p, e)
      PROVE  UNCHANGED <<claimVars, usedNonce>>
  BY <1>6 DEF issueCoverage
<1>7. ASSUME NEW c \in CoverageIds, expireCoverage(c)
      PROVE  UNCHANGED <<claimVars, usedNonce>>
  BY <1>7 DEF expireCoverage
<1>8. ASSUME NEW m \in Accounts, NEW v \in Amounts, withdrawReserve(m, v)
      PROVE  UNCHANGED <<claimVars, usedNonce>>
  BY <1>8 DEF withdrawReserve
<1>9. ASSUME Accept \/ NextBlock \/ UNCHANGED vars
      PROVE  UNCHANGED <<claimVars, usedNonce>>
  BY <1>9 DEF Accept, NextBlock, vars
<1> QED BY <1>2, <1>3, <1>4, <1>5, <1>6, <1>7, <1>8, <1>9 DEF Next

\* Every step works in place or starts a transfer, keeping what is settled, or
\* ends a transfer with the present storage or with the suspended one.
LEMMA StepKinds ==
  ASSUME IInv, [Next]_vars
  PROVE  \/ UNCHANGED stack /\ KeepsSettlements(Storage, Storage')
         \/ /\ \E k, r : stack' = Append(stack, [kind |-> k, receiver |-> r, saved |-> Storage])
            /\ KeepsSettlements(Storage, Storage')
         \/ stack # <<>> /\ Pop /\ Storage' = Storage
         \/ stack # <<>> /\ Pop /\ Storage' = stack[Len(stack)].saved
<1>1. CASE Refuse
  <2>1. stack # <<>> /\ Pop /\ stack[Len(stack)] = Top
    BY <1>1 DEF Refuse, InCall, Top
  <2>2. Top \in Frame
    BY <2>1, PopType DEF IInv, TypeOK
  <2>3. Top.saved \in StorageType
    BY <2>2 DEF Frame
  <2> QED BY <1>1, <2>1, <2>3 DEF Refuse, Storage, StorageType
<1>2. CASE Accept
  BY <1>2 DEF Accept, InCall, reserveVars, coverageVars, claimVars, fundVars, Storage
<1>3. CASE ~Refuse /\ ~Accept
  <2>1. KeepsSettlements(Storage, Storage')
    BY <1>3, FunctionsKeep
  <2>2. \/ UNCHANGED stack
        \/ \E k, r : stack' = Append(stack, [kind |-> k, receiver |-> r, saved |-> Storage])
    <3>1. ASSUME NEW m \in Accounts, NEW v \in Amounts, depositReserve(m, v)
          PROVE  UNCHANGED stack
      BY <3>1 DEF depositReserve
    <3>2. ASSUME NEW m \in Accounts, NEW b \in Address, NEW x \in Bytes32,
                 NEW y \in Bytes32, NEW p \in Amounts, NEW e \in 0..MaxTime,
                 issueCoverage(m, b, x, y, p, e)
          PROVE  UNCHANGED stack
      BY <3>2 DEF issueCoverage
    <3>3. ASSUME NEW c \in CoverageIds, expireCoverage(c)
          PROVE  UNCHANGED stack
      BY <3>3 DEF expireCoverage
    <3>4. ASSUME NEW m \in Accounts, NEW v \in Amounts, withdrawReserve(m, v)
          PROVE  stack' = Append(stack, [kind |-> "withdraw", receiver |-> m,
                                         saved |-> Storage])
      BY <3>4 DEF withdrawReserve, SendValue
    <3>5. ASSUME NEW a \in Accounts, NEW c \in CoverageIds, NEW h \in Bytes32,
                 openClaim(a, c, h)
          PROVE  UNCHANGED stack
      BY <3>5 DEF openClaim
    <3>6. ASSUME NEW d \in Decisions, resolveClaim(d)
          PROVE  \/ UNCHANGED stack
                 \/ stack' = Append(stack, [kind |-> "payout", receiver |-> Payee(d),
                                            saved |-> Storage])
      BY <3>6 DEF resolveClaim, approveClaim, rejectClaim, SendValue
    <3>7. NextBlock \/ UNCHANGED vars => UNCHANGED stack
      BY DEF NextBlock, vars
    <3> QED BY <1>3, <3>1, <3>2, <3>3, <3>4, <3>5, <3>6, <3>7 DEF Next
  <2> QED BY <2>1, <2>2
<1> QED BY <1>1, <1>2, <1>3

\* The suspended storages stay earlier ones, and the committed settlements stay.
LEMMA SavedEarlierStep ==
  ASSUME IInv, SavedEarlier, [Next]_vars
  PROVE  SavedEarlier' /\ KeepsSettlements(Committed, Committed')
<1> DEFINE n == Len(stack)
<1>1. stack \in Seq(Frame) /\ n \in Nat
  BY DEF IInv, TypeOK
<1>2. \A i \in 1..n : /\ KeepsSettlements(stack[i].saved, Storage)
                      /\ \A j \in i..n : KeepsSettlements(stack[i].saved, stack[j].saved)
  BY DEF SavedEarlier
<1>3. KeepsSettlements(Storage, Storage)
  BY DEF KeepsSettlements
<1>4. stack # <<>> => 1 \in 1..n
  BY <1>1, EmptySeq
<1>5. CASE UNCHANGED stack /\ KeepsSettlements(Storage, Storage')
  <2>1. \A i \in 1..n : KeepsSettlements(stack[i].saved, Storage')
    BY <1>2, <1>5, KeepsTransitive
  <2>2. SavedEarlier'
    BY <1>2, <1>5, <2>1 DEF SavedEarlier
  <2>3. KeepsSettlements(Committed, Committed')
    BY <1>2, <1>4, <1>5 DEF Committed
  <2> QED BY <2>2, <2>3
<1>6. CASE /\ \E k, r : stack' = Append(stack, [kind |-> k, receiver |-> r, saved |-> Storage])
           /\ KeepsSettlements(Storage, Storage')
  <2>1. /\ stack' # <<>> /\ Len(stack') = n + 1
        /\ \A i \in 1..n : stack'[i] = stack[i]
        /\ stack'[n + 1].saved = Storage
    BY <1>1, <1>6
  <2>2. \A i \in 1..(n + 1) : i \in 1..n \/ i = n + 1
    BY <1>1
  <2>3. \A i \in 1..(n + 1) : KeepsSettlements(stack'[i].saved, Storage)
    BY <1>2, <1>3, <2>1, <2>2
  <2>4. \A i \in 1..(n + 1) : KeepsSettlements(stack'[i].saved, Storage')
    BY <1>6, <2>3, KeepsTransitive
  <2>5. \A i \in 1..(n + 1) : \A j \in i..(n + 1) :
          KeepsSettlements(stack'[i].saved, stack'[j].saved)
    <3> SUFFICES ASSUME NEW i \in 1..(n + 1), NEW j \in i..(n + 1)
                 PROVE  KeepsSettlements(stack'[i].saved, stack'[j].saved)
      OBVIOUS
    <3>1. CASE j = n + 1
      BY <3>1, <2>1, <2>3
    <3>2. CASE j # n + 1
      <4>1. i \in 1..n /\ j \in i..n /\ j \in 1..n
        BY <1>1, <3>2
      <4> QED BY <4>1, <1>2, <2>1
    <3> QED BY <3>1, <3>2
  <2>6. SavedEarlier'
    BY <2>1, <2>4, <2>5 DEF SavedEarlier
  <2>7. Committed' = Committed
    <3>1. CASE stack = <<>>
      BY <2>1, <3>1 DEF Committed
    <3>2. CASE stack # <<>>
      BY <1>4, <2>1, <3>2 DEF Committed
    <3> QED BY <3>1, <3>2
  <2>8. KeepsSettlements(Committed, Committed)
    BY DEF KeepsSettlements
  <2> QED BY <2>6, <2>7, <2>8
<1>7. CASE /\ stack # <<>> /\ Pop
           /\ Storage' = Storage \/ Storage' = stack[n].saved
  <2>1. /\ n \in 1..n /\ Len(stack') = n - 1
        /\ \A i \in 1..(n - 1) : stack'[i] = stack[i] /\ i \in 1..n
    BY <1>1, <1>7, PopType DEF Pop
  <2>2. \A i \in 1..(n - 1) : n \in i..n /\ \A j \in i..(n - 1) : j \in i..n /\ j \in 1..(n - 1)
    BY <1>1
  <2>3. \A i \in 1..n : KeepsSettlements(stack[i].saved, Storage')
    BY <1>1, <1>2, <1>7
  <2>4. SavedEarlier'
    <3>1. ASSUME NEW i \in 1..(n - 1)
          PROVE  KeepsSettlements(stack'[i].saved, Storage')
      BY <2>1, <2>3
    <3>2. ASSUME NEW i \in 1..(n - 1), NEW j \in i..(n - 1)
          PROVE  KeepsSettlements(stack'[i].saved, stack'[j].saved)
      <4>1. i \in 1..n /\ j \in i..n /\ j \in 1..(n - 1)
        BY <2>1, <2>2
      <4> QED BY <1>2, <2>1, <4>1
    <3> QED BY <2>1, <3>1, <3>2 DEF SavedEarlier
  <2>5. KeepsSettlements(Committed, Committed')
    <3>1. CASE stack' = <<>>
      BY <1>4, <1>7, <2>3, <3>1 DEF Committed
    <3>2. CASE stack' # <<>>
      <4>1. 1 \in 1..(n - 1)
        BY <1>1, <1>7, <2>1, <3>2, PopType, EmptySeq DEF Pop
      <4>2. stack'[1] = stack[1]
        BY <2>1, <4>1
      <4> QED BY <1>7, <3>2, <4>2 DEF Committed, KeepsSettlements
    <3> QED BY <3>1, <3>2
  <2> QED BY <2>4, <2>5
<1> QED BY <1>5, <1>6, <1>7, StepKinds

\* A transaction that has settled a claim has settled it for good: verdict and
\* amount stay, and its nonce stays used.
THEOREM SettlementIsFinalHolds == Spec => SettlementIsFinal
<1>1. Init => SavedEarlier
  BY DEF Init, SavedEarlier
<1>2. IInv /\ SavedEarlier /\ [Next]_vars => SavedEarlier'
  BY SavedEarlierStep
<1>3. IInv /\ SavedEarlier /\ [Next]_vars => [KeepsSettlements(Committed, Committed')]_vars
  BY SavedEarlierStep
<1> QED BY <1>1, <1>2, <1>3, Invariant, PTL DEF Spec, SettlementIsFinal

-----------------------------------------------------------------------------
(***************************************************************************)
(* The contract implements the escrows.                                    *)
(***************************************************************************)

StageNames == {"none", "covered", "claimed", "paid", "denied", "lapsed"}

LedgerType ==
  [free: [Accounts -> Int], wallet: [Accounts -> Int], escrow: [CoverageIds -> Int],
   stage: [CoverageIds -> StageNames], merchant: [CoverageIds -> Address],
   beneficiary: [CoverageIds -> Address], paid: [CoverageIds -> Int]]

LEMMA LedgersEqual ==
  ASSUME NEW r \in LedgerType, NEW q \in LedgerType,
         r.free = q.free, r.wallet = q.wallet, r.escrow = q.escrow, r.stage = q.stage,
         r.merchant = q.merchant, r.beneficiary = q.beneficiary, r.paid = q.paid
  PROVE  r = q
BY DEF LedgerType

\* One entry of one part is written.
PutFree(r, i, x) == [r EXCEPT !.free[i] = x]
PutWallet(r, i, x) == [r EXCEPT !.wallet[i] = x]
PutEscrow(r, i, x) == [r EXCEPT !.escrow[i] = x]
PutStage(r, i, x) == [r EXCEPT !.stage[i] = x]
PutMerchant(r, i, x) == [r EXCEPT !.merchant[i] = x]
PutBeneficiary(r, i, x) == [r EXCEPT !.beneficiary[i] = x]
PutPaid(r, i, x) == [r EXCEPT !.paid[i] = x]

LEMMA PutFreeWrites ==
  ASSUME NEW r \in LedgerType, NEW i \in Accounts, NEW x \in Int
  PROVE  LET q == PutFree(r, i, x) IN
         /\ q \in LedgerType
         /\ q.free = [r.free EXCEPT ![i] = x]
         /\ q.wallet = r.wallet /\ q.escrow = r.escrow /\ q.stage = r.stage /\ q.merchant = r.merchant /\ q.beneficiary = r.beneficiary /\ q.paid = r.paid
BY DEF LedgerType, PutFree

LEMMA PutWalletWrites ==
  ASSUME NEW r \in LedgerType, NEW i \in Accounts, NEW x \in Int
  PROVE  LET q == PutWallet(r, i, x) IN
         /\ q \in LedgerType
         /\ q.wallet = [r.wallet EXCEPT ![i] = x]
         /\ q.free = r.free /\ q.escrow = r.escrow /\ q.stage = r.stage /\ q.merchant = r.merchant /\ q.beneficiary = r.beneficiary /\ q.paid = r.paid
BY DEF LedgerType, PutWallet

LEMMA PutEscrowWrites ==
  ASSUME NEW r \in LedgerType, NEW i \in CoverageIds, NEW x \in Int
  PROVE  LET q == PutEscrow(r, i, x) IN
         /\ q \in LedgerType
         /\ q.escrow = [r.escrow EXCEPT ![i] = x]
         /\ q.free = r.free /\ q.wallet = r.wallet /\ q.stage = r.stage /\ q.merchant = r.merchant /\ q.beneficiary = r.beneficiary /\ q.paid = r.paid
BY DEF LedgerType, PutEscrow

LEMMA PutStageWrites ==
  ASSUME NEW r \in LedgerType, NEW i \in CoverageIds, NEW x \in StageNames
  PROVE  LET q == PutStage(r, i, x) IN
         /\ q \in LedgerType
         /\ q.stage = [r.stage EXCEPT ![i] = x]
         /\ q.free = r.free /\ q.wallet = r.wallet /\ q.escrow = r.escrow /\ q.merchant = r.merchant /\ q.beneficiary = r.beneficiary /\ q.paid = r.paid
BY DEF LedgerType, PutStage

LEMMA PutMerchantWrites ==
  ASSUME NEW r \in LedgerType, NEW i \in CoverageIds, NEW x \in Address
  PROVE  LET q == PutMerchant(r, i, x) IN
         /\ q \in LedgerType
         /\ q.merchant = [r.merchant EXCEPT ![i] = x]
         /\ q.free = r.free /\ q.wallet = r.wallet /\ q.escrow = r.escrow /\ q.stage = r.stage /\ q.beneficiary = r.beneficiary /\ q.paid = r.paid
BY DEF LedgerType, PutMerchant

LEMMA PutBeneficiaryWrites ==
  ASSUME NEW r \in LedgerType, NEW i \in CoverageIds, NEW x \in Address
  PROVE  LET q == PutBeneficiary(r, i, x) IN
         /\ q \in LedgerType
         /\ q.beneficiary = [r.beneficiary EXCEPT ![i] = x]
         /\ q.free = r.free /\ q.wallet = r.wallet /\ q.escrow = r.escrow /\ q.stage = r.stage /\ q.merchant = r.merchant /\ q.paid = r.paid
BY DEF LedgerType, PutBeneficiary

LEMMA PutPaidWrites ==
  ASSUME NEW r \in LedgerType, NEW i \in CoverageIds, NEW x \in Int
  PROVE  LET q == PutPaid(r, i, x) IN
         /\ q \in LedgerType
         /\ q.paid = [r.paid EXCEPT ![i] = x]
         /\ q.free = r.free /\ q.wallet = r.wallet /\ q.escrow = r.escrow /\ q.stage = r.stage /\ q.merchant = r.merchant /\ q.beneficiary = r.beneficiary
BY DEF LedgerType, PutPaid

\* What of an escrow is left, and what was paid of it.
EscrowOf(s, c) == IF Live(s, c) THEN s.coverage[c].maxPayout ELSE 0
PaidOf(s, c) ==
  IF s.claimOfCoverage[c] = 0 THEN 0 ELSE s.claim[s.claimOfCoverage[c]].paidAmount

LEMMA StageTyped ==
  ASSUME NEW s, NEW c
  PROVE  Stage(s, c) \in StageNames
<1>1. ASSUME NEW q
      PROVE  (CASE q = "Approved" -> "paid" [] q = "Rejected" -> "denied" [] OTHER -> "claimed")
               \in StageNames
  BY DEF StageNames
<1> QED BY <1>1 DEF Stage, StageNames

LEMMA LedgerTyped ==
  ASSUME NEW s \in StorageType
  PROVE  AbstractLedger(s) \in LedgerType
<1>1. \A a \in Accounts : s.reserveBalance[a] - s.lockedExposure[a] \in Int
  BY DEF StorageType
<1>2. \A c \in CoverageIds : /\ s.coverage[c].merchant \in Address
                            /\ s.coverage[c].claimant \in Address
                            /\ EscrowOf(s, c) \in Int
  BY DEF StorageType, CoverageType, EscrowOf
<1>3. \A c \in CoverageIds : PaidOf(s, c) \in Int
  BY BoundsAssumption DEF StorageType, ClaimType, PaidOf, CoverageIds, ClaimIds
<1>4. \A c \in CoverageIds : Stage(s, c) \in StageNames
  BY StageTyped
<1>5. s.wallet \in [Accounts -> Int]
  BY DEF StorageType
<1> QED BY <1>1, <1>2, <1>3, <1>4, <1>5 DEF AbstractLedger, LedgerType, EscrowOf, PaidOf

LEMMA LedgerRead ==
  ASSUME NEW s
  PROVE  LET r == AbstractLedger(s) IN
         /\ \A a \in Accounts : r.free[a] = s.reserveBalance[a] - s.lockedExposure[a]
         /\ r.wallet = s.wallet
         /\ \A c \in CoverageIds :
              /\ r.escrow[c] = EscrowOf(s, c)
              /\ r.stage[c] = Stage(s, c)
              /\ r.merchant[c] = s.coverage[c].merchant
              /\ r.beneficiary[c] = s.coverage[c].claimant
              /\ r.paid[c] = PaidOf(s, c)
BY DEF AbstractLedger, EscrowOf, PaidOf

LEMMA LedgerMatches ==
  ASSUME NEW s \in StorageType, NEW q \in LedgerType,
         \A a \in Accounts : q.free[a] = s.reserveBalance[a] - s.lockedExposure[a],
         q.wallet = s.wallet,
         \A c \in CoverageIds :
           /\ q.escrow[c] = EscrowOf(s, c)
           /\ q.stage[c] = Stage(s, c)
           /\ q.merchant[c] = s.coverage[c].merchant
           /\ q.beneficiary[c] = s.coverage[c].claimant
           /\ q.paid[c] = PaidOf(s, c)
  PROVE  AbstractLedger(s) = q
<1> DEFINE r == AbstractLedger(s)
<1>1. r \in LedgerType
  BY LedgerTyped
<1>2. /\ \A a \in Accounts : r.free[a] = q.free[a]
      /\ r.wallet = q.wallet
      /\ \A c \in CoverageIds :
           /\ r.escrow[c] = q.escrow[c] /\ r.stage[c] = q.stage[c]
           /\ r.merchant[c] = q.merchant[c] /\ r.beneficiary[c] = q.beneficiary[c]
           /\ r.paid[c] = q.paid[c]
  BY LedgerRead
<1> HIDE DEF r
<1>3. /\ r.free = q.free /\ r.escrow = q.escrow /\ r.stage = q.stage
      /\ r.merchant = q.merchant /\ r.beneficiary = q.beneficiary /\ r.paid = q.paid
  BY <1>1, <1>2 DEF LedgerType
<1>4. r = q
  BY <1>1, <1>2, <1>3, LedgersEqual
<1> QED BY <1>4 DEF r

\* A coverage that a step leaves alone, with its claim.
LEMMA CoverageUnmoved ==
  ASSUME NEW s, NEW t, NEW c,
         t.coverage[c] = s.coverage[c],
         t.claimOfCoverage[c] = s.claimOfCoverage[c],
         s.claimOfCoverage[c] # 0 =>
           t.claim[s.claimOfCoverage[c]] = s.claim[s.claimOfCoverage[c]]
  PROVE  /\ EscrowOf(t, c) = EscrowOf(s, c) /\ Stage(t, c) = Stage(s, c)
         /\ PaidOf(t, c) = PaidOf(s, c)
<1>1. Live(t, c) <=> Live(s, c)
  BY DEF Live
<1>2. Stage(t, c) = Stage(s, c)
  <2>1. CASE s.claimOfCoverage[c] = 0
    BY <2>1 DEF Stage
  <2>2. CASE s.claimOfCoverage[c] # 0
    BY <2>2 DEF Stage
  <2> QED BY <2>1, <2>2
<1> QED BY <1>1, <1>2 DEF EscrowOf, PaidOf

\* The ledgers to which a revert may return, one per transfer in progress.
Ledgers(q) == [i \in 1..Len(q) |-> AbstractLedger(q[i].saved)]

LEMMA LedgersAppend ==
  ASSUME NEW q \in Seq(Frame), NEW f
  PROVE  Ledgers(Append(q, f)) = Append(Ledgers(q), AbstractLedger(f.saved))
BY DEF Ledgers

LEMMA LedgersPop ==
  ASSUME NEW q \in Seq(Frame), q # <<>>
  PROVE  /\ Ledgers(q) # <<>>
         /\ Ledgers(q)[Len(Ledgers(q))] = AbstractLedger(q[Len(q)].saved)
         /\ Ledgers(SubSeq(q, 1, Len(q) - 1)) =
              SubSeq(Ledgers(q), 1, Len(Ledgers(q)) - 1)
BY DEF Ledgers

-----------------------------------------------------------------------------
(***************************************************************************)
(* Each function is a step of the escrows.                                 *)
(***************************************************************************)

Ledger == AbstractLedger(Storage)

\* The present ledger and the next one, part by part.
LEMMA LedgerNow ==
  ASSUME TypeOK, TypeOK'
  PROVE  /\ Storage \in StorageType /\ Storage' \in StorageType
         /\ Ledger \in LedgerType /\ Ledger' = AbstractLedger(Storage')
         /\ \A a \in Accounts : Ledger.free[a] = reserveBalance[a] - lockedExposure[a]
         /\ Ledger.wallet = wallet
         /\ \A c \in CoverageIds :
              /\ Ledger.escrow[c] = EscrowOf(Storage, c)
              /\ Ledger.stage[c] = Stage(Storage, c)
              /\ Ledger.merchant[c] = coverage[c].merchant
              /\ Ledger.beneficiary[c] = coverage[c].claimant
              /\ Ledger.paid[c] = PaidOf(Storage, c)
<1>1. Storage \in StorageType /\ Storage' \in StorageType
  BY DEF TypeOK, Storage, StorageType
<1>2. /\ Storage.reserveBalance = reserveBalance /\ Storage.lockedExposure = lockedExposure
      /\ Storage.wallet = wallet /\ Storage.coverage = coverage
  BY DEF Storage
<1>3. Ledger' = AbstractLedger(Storage')
  BY DEF Ledger
<1> HIDE DEF Storage
<1> QED BY <1>1, <1>2, <1>3, LedgerTyped, LedgerRead DEF Ledger

\* A ledger is the next one if it agrees with the variables' next values.
LEMMA NextLedger ==
  ASSUME TypeOK', NEW q \in LedgerType,
         \A a \in Accounts : q.free[a] = reserveBalance'[a] - lockedExposure'[a],
         q.wallet = wallet',
         \A c \in CoverageIds :
           /\ q.escrow[c] = EscrowOf(Storage', c)
           /\ q.stage[c] = Stage(Storage', c)
           /\ q.merchant[c] = coverage'[c].merchant
           /\ q.beneficiary[c] = coverage'[c].claimant
           /\ q.paid[c] = PaidOf(Storage', c)
  PROVE  Ledger' = q
<1>1. Storage' \in StorageType
  BY DEF TypeOK, Storage, StorageType
<1>2. /\ Storage'.reserveBalance = reserveBalance' /\ Storage'.lockedExposure = lockedExposure'
      /\ Storage'.wallet = wallet' /\ Storage'.coverage = coverage'
  BY DEF Storage
<1>3. Ledger' = AbstractLedger(Storage')
  BY DEF Ledger
<1> DEFINE t == Storage'
<1>4. /\ t \in StorageType
      /\ \A a \in Accounts : q.free[a] = t.reserveBalance[a] - t.lockedExposure[a]
      /\ q.wallet = t.wallet
      /\ \A c \in CoverageIds :
           /\ q.escrow[c] = EscrowOf(t, c)
           /\ q.stage[c] = Stage(t, c)
           /\ q.merchant[c] = t.coverage[c].merchant
           /\ q.beneficiary[c] = t.coverage[c].claimant
           /\ q.paid[c] = PaidOf(t, c)
  BY <1>1, <1>2
<1> HIDE DEF t
<1>5. AbstractLedger(t) = q
  BY <1>4, LedgerMatches
<1> QED BY <1>3, <1>5 DEF t

\* A coverage that the step leaves alone, with its claim.
LEMMA Unmoved ==
  ASSUME NEW c \in CoverageIds,
         coverage'[c] = coverage[c],
         claimOfCoverage'[c] = claimOfCoverage[c],
         claimOfCoverage[c] # 0 => claim'[claimOfCoverage[c]] = claim[claimOfCoverage[c]]
  PROVE  /\ EscrowOf(Storage', c) = EscrowOf(Storage, c)
         /\ Stage(Storage', c) = Stage(Storage, c)
         /\ PaidOf(Storage', c) = PaidOf(Storage, c)
<1>1. /\ Storage'.coverage = coverage' /\ Storage.coverage = coverage
      /\ Storage'.claimOfCoverage = claimOfCoverage'
      /\ Storage.claimOfCoverage = claimOfCoverage
      /\ Storage'.claim = claim' /\ Storage.claim = claim
  BY DEF Storage
<1> DEFINE s == Storage
           t == Storage'
<1>2. /\ t.coverage[c] = s.coverage[c]
      /\ t.claimOfCoverage[c] = s.claimOfCoverage[c]
      /\ s.claimOfCoverage[c] # 0 =>
           t.claim[s.claimOfCoverage[c]] = s.claim[s.claimOfCoverage[c]]
  BY <1>1
<1> HIDE DEF s, t
<1>3. /\ EscrowOf(t, c) = EscrowOf(s, c) /\ Stage(t, c) = Stage(s, c)
      /\ PaidOf(t, c) = PaidOf(s, c)
  BY <1>2, CoverageUnmoved
<1> QED BY <1>3 DEF s, t

\* A coverage as the variables describe it.
LEMMA CoverageRead ==
  ASSUME NEW c \in CoverageIds
  PROVE  /\ Live(Storage, c) <=>
              /\ coverage[c].status = "Active"
              /\ claimOfCoverage[c] # 0 => claim[claimOfCoverage[c]].status = "Open"
         /\ Stage(Storage, c) =
              CASE coverage[c].status = "None" -> "none"
                [] coverage[c].status = "Expired" -> "lapsed"
                [] OTHER ->
                     IF claimOfCoverage[c] = 0 THEN "covered"
                     ELSE CASE claim[claimOfCoverage[c]].status = "Approved" -> "paid"
                            [] claim[claimOfCoverage[c]].status = "Rejected" -> "denied"
                            [] OTHER -> "claimed"
         /\ PaidOf(Storage, c) = IF claimOfCoverage[c] = 0 THEN 0
                                 ELSE claim[claimOfCoverage[c]].paidAmount
         /\ EscrowOf(Storage, c) = IF Live(Storage, c) THEN coverage[c].maxPayout ELSE 0
BY DEF Live, Stage, PaidOf, EscrowOf, Storage

LEMMA DepositFunds ==
  ASSUME TypeOK, TypeOK', NEW m \in Accounts, NEW v \in Amounts, depositReserve(m, v)
  PROVE  /\ v \in 1..Ledger.wallet[m]
         /\ Ledger' = [Ledger EXCEPT !.free[m] = @ + v, !.wallet[m] = @ - v]
         /\ stack' = stack
<1> DEFINE r1 == PutFree(Ledger, m, Ledger.free[m] + v)
           r2 == PutWallet(r1, m, r1.wallet[m] - v)
<1>1. r2 = [Ledger EXCEPT !.free[m] = @ + v, !.wallet[m] = @ - v]
  BY DEF PutFree, PutWallet
<1>2. /\ v \in Nat /\ v # 0 /\ v <= wallet[m] /\ wallet \in [Accounts -> Nat]
      /\ reserveBalance' = [reserveBalance EXCEPT ![m] = @ + v]
      /\ wallet' = [wallet EXCEPT ![m] = @ - v]
      /\ UNCHANGED <<lockedExposure, coverage, claim, claimOfCoverage, stack>>
      /\ reserveBalance \in [Accounts -> Nat] /\ lockedExposure \in [Accounts -> Nat]
  BY BoundsAssumption DEF depositReserve, TypeOK, coverageVars, claimVars
<1>3. /\ r1 \in LedgerType
      /\ r1.free = [Ledger.free EXCEPT ![m] = Ledger.free[m] + v]
      /\ r1.wallet = wallet /\ r1.escrow = Ledger.escrow /\ r1.stage = Ledger.stage
      /\ r1.merchant = Ledger.merchant /\ r1.beneficiary = Ledger.beneficiary
      /\ r1.paid = Ledger.paid
  <2>1. Ledger.free[m] + v \in Int
    BY <1>2, LedgerNow
  <2> QED BY <2>1, LedgerNow, PutFreeWrites
<1> HIDE DEF r1
<1>4. /\ r2 \in LedgerType
      /\ r2.free = r1.free
      /\ r2.wallet = [wallet EXCEPT ![m] = wallet[m] - v] /\ r2.escrow = Ledger.escrow
      /\ r2.stage = Ledger.stage /\ r2.merchant = Ledger.merchant
      /\ r2.beneficiary = Ledger.beneficiary /\ r2.paid = Ledger.paid
  <2>1. r1.wallet[m] - v \in Int
    BY <1>2, <1>3
  <2> QED BY <1>3, <2>1, PutWalletWrites
<1> HIDE DEF r2
<1>5. \A a \in Accounts : r2.free[a] = reserveBalance'[a] - lockedExposure'[a]
  <2>1. Ledger.free \in [Accounts -> Int]
    BY LedgerNow DEF LedgerType
  <2> QED BY <1>2, <1>3, <1>4, <2>1, LedgerNow
<1>6. \A c \in CoverageIds :
        /\ EscrowOf(Storage', c) = EscrowOf(Storage, c)
        /\ Stage(Storage', c) = Stage(Storage, c)
        /\ PaidOf(Storage', c) = PaidOf(Storage, c)
  BY <1>2, Unmoved
<1>7. \A c \in CoverageIds :
        /\ r2.escrow[c] = EscrowOf(Storage', c)
        /\ r2.stage[c] = Stage(Storage', c)
        /\ r2.merchant[c] = coverage'[c].merchant
        /\ r2.beneficiary[c] = coverage'[c].claimant
        /\ r2.paid[c] = PaidOf(Storage', c)
  BY <1>2, <1>4, <1>6, LedgerNow
<1>8. r2.wallet = wallet'
  BY <1>2, <1>4
<1>9. Ledger' = r2
  BY <1>4, <1>5, <1>7, <1>8, NextLedger
<1> QED BY <1>1, <1>2, <1>9, LedgerNow

LEMMA WithdrawTakes ==
  ASSUME TypeOK, TypeOK', NEW m \in Accounts, NEW v \in Amounts, withdrawReserve(m, v)
  PROVE  /\ v \in 1..Ledger.free[m]
         /\ Ledger' = [Ledger EXCEPT !.free[m] = @ - v, !.wallet[m] = @ + v]
         /\ stack' = Append(stack, [kind |-> "withdraw", receiver |-> m, saved |-> Storage])
<1> DEFINE r1 == PutFree(Ledger, m, Ledger.free[m] - v)
           r2 == PutWallet(r1, m, r1.wallet[m] + v)
<1>1. r2 = [Ledger EXCEPT !.free[m] = @ - v, !.wallet[m] = @ + v]
  BY DEF PutFree, PutWallet
<1>2. /\ v \in Nat /\ v # 0 /\ v <= reserveBalance[m] - lockedExposure[m]
      /\ reserveBalance' = [reserveBalance EXCEPT ![m] = @ - v]
      /\ wallet' = [wallet EXCEPT ![m] = @ + v]
      /\ UNCHANGED <<lockedExposure, coverage, claim, claimOfCoverage>>
      /\ reserveBalance \in [Accounts -> Nat] /\ lockedExposure \in [Accounts -> Nat]
      /\ wallet \in [Accounts -> Nat]
      /\ stack' = Append(stack, [kind |-> "withdraw", receiver |-> m, saved |-> Storage])
  BY BoundsAssumption DEF withdrawReserve, Available, Debit, SendValue, TypeOK, coverageVars, claimVars
<1>3. /\ r1 \in LedgerType
      /\ r1.free = [Ledger.free EXCEPT ![m] = Ledger.free[m] - v]
      /\ r1.wallet = wallet /\ r1.escrow = Ledger.escrow /\ r1.stage = Ledger.stage
      /\ r1.merchant = Ledger.merchant /\ r1.beneficiary = Ledger.beneficiary
      /\ r1.paid = Ledger.paid
  <2>1. Ledger.free[m] - v \in Int
    BY <1>2, LedgerNow
  <2> QED BY <2>1, LedgerNow, PutFreeWrites
<1> HIDE DEF r1
<1>4. /\ r2 \in LedgerType
      /\ r2.free = r1.free
      /\ r2.wallet = [wallet EXCEPT ![m] = wallet[m] + v] /\ r2.escrow = Ledger.escrow
      /\ r2.stage = Ledger.stage /\ r2.merchant = Ledger.merchant
      /\ r2.beneficiary = Ledger.beneficiary /\ r2.paid = Ledger.paid
  <2>1. r1.wallet[m] + v \in Int
    BY <1>2, <1>3
  <2> QED BY <1>3, <2>1, PutWalletWrites
<1> HIDE DEF r2
<1>5. \A a \in Accounts : r2.free[a] = reserveBalance'[a] - lockedExposure'[a]
  <2>1. Ledger.free \in [Accounts -> Int]
    BY LedgerNow DEF LedgerType
  <2> QED BY <1>2, <1>3, <1>4, <2>1, LedgerNow
<1>6. \A c \in CoverageIds :
        /\ EscrowOf(Storage', c) = EscrowOf(Storage, c)
        /\ Stage(Storage', c) = Stage(Storage, c)
        /\ PaidOf(Storage', c) = PaidOf(Storage, c)
  BY <1>2, Unmoved
<1>7. \A c \in CoverageIds :
        /\ r2.escrow[c] = EscrowOf(Storage', c)
        /\ r2.stage[c] = Stage(Storage', c)
        /\ r2.merchant[c] = coverage'[c].merchant
        /\ r2.beneficiary[c] = coverage'[c].claimant
        /\ r2.paid[c] = PaidOf(Storage', c)
  BY <1>2, <1>4, <1>6, LedgerNow
<1>8. r2.wallet = wallet'
  BY <1>2, <1>4
<1>9. Ledger' = r2
  BY <1>4, <1>5, <1>7, <1>8, NextLedger
<1>10. v \in 1..Ledger.free[m]
  BY <1>2, LedgerNow
<1> QED BY <1>1, <1>2, <1>9, <1>10

\* Coverage c after a step, as the variables describe it then.
LEMMA CoverageReadNext ==
  ASSUME NEW c \in CoverageIds
  PROVE  /\ Live(Storage', c) <=>
              /\ coverage'[c].status = "Active"
              /\ claimOfCoverage'[c] # 0 => claim'[claimOfCoverage'[c]].status = "Open"
         /\ Stage(Storage', c) =
              CASE coverage'[c].status = "None" -> "none"
                [] coverage'[c].status = "Expired" -> "lapsed"
                [] OTHER ->
                     IF claimOfCoverage'[c] = 0 THEN "covered"
                     ELSE CASE claim'[claimOfCoverage'[c]].status = "Approved" -> "paid"
                            [] claim'[claimOfCoverage'[c]].status = "Rejected" -> "denied"
                            [] OTHER -> "claimed"
         /\ PaidOf(Storage', c) = IF claimOfCoverage'[c] = 0 THEN 0
                                  ELSE claim'[claimOfCoverage'[c]].paidAmount
         /\ EscrowOf(Storage', c) = IF Live(Storage', c) THEN coverage'[c].maxPayout ELSE 0
BY DEF Live, Stage, PaidOf, EscrowOf, Storage

\* The ledger r with the escrow of c filled with p.
Issued(r, m, b, c, p) ==
  [r EXCEPT !.stage[c] = "covered", !.merchant[c] = m, !.beneficiary[c] = b,
            !.free[m] = @ - p, !.escrow[c] = p]

LEMMA IssueCovers ==
  ASSUME TypeOK, TypeOK', StorageInv(Storage),
         NEW m \in Accounts, NEW b \in Address, NEW x \in Bytes32, NEW y \in Bytes32,
         NEW p \in Amounts, NEW e \in 0..MaxTime, issueCoverage(m, b, x, y, p, e),
         NEW c, c = coverageCount + 1
  PROVE  /\ c \in CoverageIds /\ b \in Accounts
         /\ Ledger.stage[c] = "none"
         /\ p \in 1..Ledger.free[m]
         /\ Ledger' = Issued(Ledger, m, b, c, p)
         /\ stack' = stack
<1> DEFINE r1 == PutStage(Ledger, c, "covered")
           r2 == PutMerchant(r1, c, m)
           r3 == PutBeneficiary(r2, c, b)
           r4 == PutFree(r3, m, r3.free[m] - p)
           r5 == PutEscrow(r4, c, p)
<1>1. r5 = Issued(Ledger, m, b, c, p)
  BY DEF Issued, PutStage, PutMerchant, PutBeneficiary, PutFree, PutEscrow
<1>2. c \in CoverageIds /\ coverage[c].status = "None" /\ claimOfCoverage[c] = 0
  BY NextCoverageIsNew DEF issueCoverage
<1>3. /\ p \in Nat /\ p # 0 /\ p <= reserveBalance[m] - lockedExposure[m]
      /\ b # ZeroAddress
      /\ lockedExposure' = [lockedExposure EXCEPT ![m] = @ + p]
      /\ UNCHANGED <<reserveBalance, wallet, claim, claimOfCoverage, stack>>
      /\ reserveBalance \in [Accounts -> Nat] /\ lockedExposure \in [Accounts -> Nat]
  BY BoundsAssumption DEF issueCoverage, Available, TypeOK, claimVars, fundVars
<1>4. /\ coverage'[c].status = "Active" /\ coverage'[c].maxPayout = p
      /\ coverage'[c].merchant = m /\ coverage'[c].claimant = b
      /\ \A i \in CoverageIds \ {c} : coverage'[i] = coverage[i]
  BY <1>2 DEF issueCoverage, TypeOK
<1>5. /\ r1 \in LedgerType /\ r1.stage = [Ledger.stage EXCEPT ![c] = "covered"]
      /\ r1.free = Ledger.free /\ r1.wallet = Ledger.wallet /\ r1.escrow = Ledger.escrow
      /\ r1.merchant = Ledger.merchant /\ r1.beneficiary = Ledger.beneficiary
      /\ r1.paid = Ledger.paid
  <2>1. "covered" \in StageNames
    BY DEF StageNames
  <2> QED BY <1>2, <2>1, LedgerNow, PutStageWrites
<1> HIDE DEF r1
<1>6. /\ r2 \in LedgerType /\ r2.stage = r1.stage
      /\ r2.free = Ledger.free /\ r2.wallet = Ledger.wallet /\ r2.escrow = Ledger.escrow
      /\ r2.merchant = [Ledger.merchant EXCEPT ![c] = m]
      /\ r2.beneficiary = Ledger.beneficiary /\ r2.paid = Ledger.paid
  BY <1>2, <1>5, PutMerchantWrites DEF Address
<1> HIDE DEF r2
<1>7. /\ r3 \in LedgerType /\ r3.stage = r1.stage
      /\ r3.free = Ledger.free /\ r3.wallet = Ledger.wallet /\ r3.escrow = Ledger.escrow
      /\ r3.merchant = r2.merchant
      /\ r3.beneficiary = [Ledger.beneficiary EXCEPT ![c] = b] /\ r3.paid = Ledger.paid
  BY <1>2, <1>6, PutBeneficiaryWrites
<1> HIDE DEF r3
<1>8. /\ r4 \in LedgerType /\ r4.stage = r1.stage
      /\ r4.free = [Ledger.free EXCEPT ![m] = Ledger.free[m] - p]
      /\ r4.wallet = Ledger.wallet /\ r4.escrow = Ledger.escrow
      /\ r4.merchant = r2.merchant /\ r4.beneficiary = r3.beneficiary /\ r4.paid = Ledger.paid
  <2>1. r3.free[m] - p \in Int /\ r3.free[m] = Ledger.free[m]
    BY <1>3, <1>7, LedgerNow
  <2> QED BY <1>7, <2>1, PutFreeWrites
<1> HIDE DEF r4
<1>9. /\ r5 \in LedgerType /\ r5.stage = r1.stage /\ r5.free = r4.free
      /\ r5.wallet = Ledger.wallet /\ r5.escrow = [Ledger.escrow EXCEPT ![c] = p]
      /\ r5.merchant = r2.merchant /\ r5.beneficiary = r3.beneficiary /\ r5.paid = Ledger.paid
  <2>1. p \in Int
    BY <1>3
  <2> QED BY <1>2, <1>8, <2>1, PutEscrowWrites
<1> HIDE DEF r5
<1>10. /\ Ledger.free \in [Accounts -> Int] /\ Ledger.escrow \in [CoverageIds -> Int]
       /\ Ledger.stage \in [CoverageIds -> StageNames]
       /\ Ledger.merchant \in [CoverageIds -> Address]
       /\ Ledger.beneficiary \in [CoverageIds -> Address]
  BY LedgerNow DEF LedgerType
<1>11. \A a \in Accounts : r5.free[a] = reserveBalance'[a] - lockedExposure'[a]
  BY <1>3, <1>8, <1>9, <1>10, LedgerNow
<1>12. \A i \in CoverageIds \ {c} :
         /\ EscrowOf(Storage', i) = EscrowOf(Storage, i)
         /\ Stage(Storage', i) = Stage(Storage, i)
         /\ PaidOf(Storage', i) = PaidOf(Storage, i)
  BY <1>3, <1>4, Unmoved
<1>13. /\ EscrowOf(Storage', c) = p /\ Stage(Storage', c) = "covered"
       /\ PaidOf(Storage', c) = 0 /\ PaidOf(Storage, c) = 0 /\ Stage(Storage, c) = "none"
  BY <1>2, <1>3, <1>4, CoverageRead, CoverageReadNext
<1>14. \A i \in CoverageIds :
         /\ r5.escrow[i] = EscrowOf(Storage', i)
         /\ r5.stage[i] = Stage(Storage', i)
         /\ r5.merchant[i] = coverage'[i].merchant
         /\ r5.beneficiary[i] = coverage'[i].claimant
         /\ r5.paid[i] = PaidOf(Storage', i)
  BY <1>2, <1>4, <1>5, <1>6, <1>7, <1>9, <1>10, <1>12, <1>13, LedgerNow
<1>15. r5.wallet = wallet'
  BY <1>3, <1>9, LedgerNow
<1>16. Ledger' = r5
  BY <1>9, <1>11, <1>14, <1>15, NextLedger
<1>17. p \in 1..Ledger.free[m] /\ b \in Accounts
  BY <1>3, LedgerNow DEF Address
<1> QED BY <1>1, <1>2, <1>3, <1>13, <1>16, <1>17, LedgerNow

LEMMA OpenClaims ==
  ASSUME TypeOK, TypeOK', StorageInv(Storage),
         NEW a \in Accounts, NEW c \in CoverageIds, NEW h \in Bytes32, openClaim(a, c, h)
  PROVE  /\ Ledger.stage[c] = "covered"
         /\ Ledger' = [Ledger EXCEPT !.stage[c] = "claimed"]
         /\ stack' = stack
<1> DEFINE k == claimCount + 1
           r1 == PutStage(Ledger, c, "claimed")
<1>1. r1 = [Ledger EXCEPT !.stage[c] = "claimed"]
  BY DEF PutStage
<1>2. /\ k \in ClaimIds /\ k # 0
      /\ \A i \in CoverageIds : claimOfCoverage[i] # k
  BY NextClaimIsNew DEF openClaim, ClaimIds
<1>3. /\ coverage[c].status = "Active" /\ claimOfCoverage[c] = 0
      /\ UNCHANGED <<reserveBalance, lockedExposure, wallet, coverage, stack>>
  BY DEF openClaim, Unclaimed, reserveVars, fundVars, coverageVars
<1>4. /\ claimOfCoverage'[c] = k
      /\ \A i \in CoverageIds \ {c} : claimOfCoverage'[i] = claimOfCoverage[i]
      /\ claim'[k].status = "Open" /\ claim'[k].paidAmount = 0
      /\ \A i \in ClaimIds \ {k} : claim'[i] = claim[i]
  BY <1>2 DEF openClaim, TypeOK
<1> HIDE DEF k
<1>5. /\ r1 \in LedgerType /\ r1.stage = [Ledger.stage EXCEPT ![c] = "claimed"]
      /\ r1.free = Ledger.free /\ r1.wallet = Ledger.wallet /\ r1.escrow = Ledger.escrow
      /\ r1.merchant = Ledger.merchant /\ r1.beneficiary = Ledger.beneficiary
      /\ r1.paid = Ledger.paid
  <2>1. "claimed" \in StageNames
    BY DEF StageNames
  <2> QED BY <2>1, LedgerNow, PutStageWrites
<1> HIDE DEF r1
<1>6. \A i \in CoverageIds \ {c} :
        /\ EscrowOf(Storage', i) = EscrowOf(Storage, i)
        /\ Stage(Storage', i) = Stage(Storage, i)
        /\ PaidOf(Storage', i) = PaidOf(Storage, i)
  <2>1. \A i \in CoverageIds : claimOfCoverage[i] # 0 => claimOfCoverage[i] \in ClaimIds \ {k}
    <3>1. claimOfCoverage \in [CoverageIds -> 0..MaxCoverage] /\ MaxCoverage \in Nat
      BY BoundsAssumption DEF TypeOK
    <3>2. \A i \in 0..MaxCoverage : i # 0 => i \in ClaimIds
      BY <3>1 DEF ClaimIds
    <3> QED BY <1>2, <3>1, <3>2
  <2> QED BY <1>3, <1>4, <2>1, Unmoved
<1>7. /\ EscrowOf(Storage', c) = EscrowOf(Storage, c)
      /\ Stage(Storage', c) = "claimed" /\ Stage(Storage, c) = "covered"
      /\ PaidOf(Storage', c) = 0 /\ PaidOf(Storage, c) = 0
  BY <1>2, <1>3, <1>4, CoverageRead, CoverageReadNext
<1>8. Ledger.stage \in [CoverageIds -> StageNames]
  BY LedgerNow DEF LedgerType
<1>9. \A i \in CoverageIds :
        /\ r1.escrow[i] = EscrowOf(Storage', i)
        /\ r1.stage[i] = Stage(Storage', i)
        /\ r1.merchant[i] = coverage'[i].merchant
        /\ r1.beneficiary[i] = coverage'[i].claimant
        /\ r1.paid[i] = PaidOf(Storage', i)
  BY <1>3, <1>5, <1>6, <1>7, <1>8, LedgerNow
<1>10. /\ \A i \in Accounts : r1.free[i] = reserveBalance'[i] - lockedExposure'[i]
       /\ r1.wallet = wallet'
  BY <1>3, <1>5, LedgerNow
<1>11. Ledger' = r1
  BY <1>5, <1>9, <1>10, NextLedger
<1> QED BY <1>1, <1>3, <1>7, <1>11, LedgerNow

\* The ledger r with the escrow of c closed.
Closed(r, c, v, stage) ==
  [r EXCEPT !.stage[c] = stage, !.escrow[c] = 0, !.paid[c] = v,
            !.free[r.merchant[c]] = @ + (r.escrow[c] - v)]

LEMMA CloseWrites ==
  ASSUME NEW r \in LedgerType, NEW c \in CoverageIds, NEW v \in Int, NEW stage \in StageNames,
         r.merchant[c] \in Accounts
  PROVE  LET q == Closed(r, c, v, stage)
             m == r.merchant[c] IN
         /\ q \in LedgerType
         /\ q.stage = [r.stage EXCEPT ![c] = stage]
         /\ q.escrow = [r.escrow EXCEPT ![c] = 0]
         /\ q.paid = [r.paid EXCEPT ![c] = v]
         /\ q.free = [r.free EXCEPT ![m] = r.free[m] + (r.escrow[c] - v)]
         /\ q.wallet = r.wallet /\ q.merchant = r.merchant /\ q.beneficiary = r.beneficiary
<1> DEFINE m == r.merchant[c]
           r1 == PutStage(r, c, stage)
           r2 == PutEscrow(r1, c, 0)
           r3 == PutPaid(r2, c, v)
           r4 == PutFree(r3, m, r3.free[m] + (r.escrow[c] - v))
<1>1. Closed(r, c, v, stage) = r4
  BY DEF Closed, PutStage, PutEscrow, PutPaid, PutFree
<1> HIDE DEF m
<1>2. /\ r1 \in LedgerType /\ r1.stage = [r.stage EXCEPT ![c] = stage]
      /\ r1.free = r.free /\ r1.wallet = r.wallet /\ r1.escrow = r.escrow
      /\ r1.merchant = r.merchant /\ r1.beneficiary = r.beneficiary /\ r1.paid = r.paid
  BY PutStageWrites
<1> HIDE DEF r1
<1>3. /\ r2 \in LedgerType /\ r2.stage = r1.stage /\ r2.free = r.free
      /\ r2.wallet = r.wallet /\ r2.escrow = [r.escrow EXCEPT ![c] = 0]
      /\ r2.merchant = r.merchant /\ r2.beneficiary = r.beneficiary /\ r2.paid = r.paid
  BY <1>2, PutEscrowWrites
<1> HIDE DEF r2
<1>4. /\ r3 \in LedgerType /\ r3.stage = r1.stage /\ r3.free = r.free
      /\ r3.wallet = r.wallet /\ r3.escrow = r2.escrow
      /\ r3.merchant = r.merchant /\ r3.beneficiary = r.beneficiary
      /\ r3.paid = [r.paid EXCEPT ![c] = v]
  BY <1>3, PutPaidWrites
<1> HIDE DEF r3
<1>5. /\ m \in Accounts /\ r.free[m] + (r.escrow[c] - v) \in Int
  BY DEF LedgerType, m
<1>6. /\ r4 \in LedgerType /\ r4.stage = r1.stage
      /\ r4.free = [r.free EXCEPT ![m] = r.free[m] + (r.escrow[c] - v)]
      /\ r4.wallet = r.wallet /\ r4.escrow = r2.escrow
      /\ r4.merchant = r.merchant /\ r4.beneficiary = r.beneficiary /\ r4.paid = r3.paid
  BY <1>4, <1>5, PutFreeWrites
<1> HIDE DEF r4
<1> QED BY <1>1, <1>2, <1>3, <1>4, <1>6 DEF m

\* A step that releases the lock of a live coverage and pays v closes its escrow.
LEMMA CoverageCloses ==
  ASSUME TypeOK, TypeOK', NEW c \in CoverageIds, NEW v \in Nat, NEW stage \in StageNames,
         Live(Storage, c), coverage[c].merchant \in Accounts,
         \A a \in Accounts : reserveBalance'[a] - lockedExposure'[a] =
           IF a = coverage[c].merchant
           THEN reserveBalance[a] - lockedExposure[a] + (coverage[c].maxPayout - v)
           ELSE reserveBalance[a] - lockedExposure[a],
         \A i \in CoverageIds : /\ coverage'[i].merchant = coverage[i].merchant
                                /\ coverage'[i].claimant = coverage[i].claimant,
         \A i \in CoverageIds \ {c} : /\ EscrowOf(Storage', i) = EscrowOf(Storage, i)
                                      /\ Stage(Storage', i) = Stage(Storage, i)
                                      /\ PaidOf(Storage', i) = PaidOf(Storage, i),
         EscrowOf(Storage', c) = 0, Stage(Storage', c) = stage, PaidOf(Storage', c) = v,
         NEW q, q = Closed(Ledger, c, v, stage)
  PROVE  /\ q \in LedgerType
         /\ \A a \in Accounts : q.free[a] = reserveBalance'[a] - lockedExposure'[a]
         /\ q.wallet = wallet
         /\ \A i \in CoverageIds :
              /\ q.escrow[i] = EscrowOf(Storage', i)
              /\ q.stage[i] = Stage(Storage', i)
              /\ q.merchant[i] = coverage'[i].merchant
              /\ q.beneficiary[i] = coverage'[i].claimant
              /\ q.paid[i] = PaidOf(Storage', i)
<1> DEFINE m == coverage[c].merchant
<1>1. Ledger \in LedgerType /\ Ledger.merchant[c] = m /\ Ledger.wallet = wallet
  BY LedgerNow
<1>2. Ledger.escrow[c] = coverage[c].maxPayout
  BY LedgerNow, CoverageRead
<1>3. /\ q \in LedgerType
      /\ q.stage = [Ledger.stage EXCEPT ![c] = stage]
      /\ q.escrow = [Ledger.escrow EXCEPT ![c] = 0]
      /\ q.paid = [Ledger.paid EXCEPT ![c] = v]
      /\ q.free = [Ledger.free EXCEPT ![m] = Ledger.free[m] + (coverage[c].maxPayout - v)]
      /\ q.wallet = wallet /\ q.merchant = Ledger.merchant
      /\ q.beneficiary = Ledger.beneficiary
  <2>1. v \in Int /\ m \in Accounts
    OBVIOUS
  <2> QED BY <1>1, <1>2, <2>1, CloseWrites
<1>4. /\ Ledger.free \in [Accounts -> Int] /\ Ledger.escrow \in [CoverageIds -> Int]
      /\ Ledger.stage \in [CoverageIds -> StageNames] /\ Ledger.paid \in [CoverageIds -> Int]
  BY <1>1 DEF LedgerType
<1>5. \A a \in Accounts : q.free[a] = reserveBalance'[a] - lockedExposure'[a]
  BY <1>3, <1>4, LedgerNow
<1>6. \A i \in CoverageIds :
        /\ q.escrow[i] = EscrowOf(Storage', i)
        /\ q.stage[i] = Stage(Storage', i)
        /\ q.paid[i] = PaidOf(Storage', i)
  BY <1>3, <1>4, LedgerNow
<1>7. \A i \in CoverageIds :
        /\ q.merchant[i] = coverage'[i].merchant
        /\ q.beneficiary[i] = coverage'[i].claimant
  BY <1>3, LedgerNow
<1> QED BY <1>3, <1>5, <1>6, <1>7

LEMMA ExpiryLapses ==
  ASSUME TypeOK, TypeOK', StorageInv(Storage), NEW c \in CoverageIds, expireCoverage(c)
  PROVE  /\ Ledger.stage[c] = "covered"
         /\ Ledger' = Closed(Ledger, c, 0, "lapsed")
         /\ stack' = stack
<1>1. /\ coverage[c].status = "Active" /\ claimOfCoverage[c] = 0
      /\ lockedExposure' = [lockedExposure EXCEPT
                              ![coverage[c].merchant] = @ - coverage[c].maxPayout]
      /\ UNCHANGED <<reserveBalance, claim, claimOfCoverage, wallet, stack>>
  BY DEF expireCoverage, Unclaimed, ReleaseLock, claimVars, fundVars
<1>2. /\ coverage'[c].status = "Expired"
      /\ \A i \in CoverageIds : /\ coverage'[i].merchant = coverage[i].merchant
                                /\ coverage'[i].claimant = coverage[i].claimant
      /\ \A i \in CoverageIds \ {c} : coverage'[i] = coverage[i]
  BY DEF expireCoverage, TypeOK, CoverageType
<1>3. coverage[c].merchant \in Accounts
  BY <1>1 DEF StorageInv, IdsInOrder, Storage
<1>4. /\ reserveBalance \in [Accounts -> Nat] /\ lockedExposure \in [Accounts -> Nat]
      /\ coverage[c].maxPayout \in Nat
  BY DEF TypeOK, CoverageType
<1>5. \A a \in Accounts : reserveBalance'[a] - lockedExposure'[a] =
        IF a = coverage[c].merchant
        THEN reserveBalance[a] - lockedExposure[a] + (coverage[c].maxPayout - 0)
        ELSE reserveBalance[a] - lockedExposure[a]
  BY <1>1, <1>3, <1>4
<1>6. \A i \in CoverageIds \ {c} : /\ EscrowOf(Storage', i) = EscrowOf(Storage, i)
                                   /\ Stage(Storage', i) = Stage(Storage, i)
                                   /\ PaidOf(Storage', i) = PaidOf(Storage, i)
  BY <1>1, <1>2, Unmoved
<1>7. /\ EscrowOf(Storage', c) = 0 /\ Stage(Storage', c) = "lapsed" /\ PaidOf(Storage', c) = 0
      /\ Live(Storage, c) /\ Stage(Storage, c) = "covered"
  BY <1>1, <1>2, CoverageRead, CoverageReadNext
<1> DEFINE q == Closed(Ledger, c, 0, "lapsed")
<1>8. /\ q \in LedgerType
      /\ \A a \in Accounts : q.free[a] = reserveBalance'[a] - lockedExposure'[a]
      /\ q.wallet = wallet
      /\ \A i \in CoverageIds :
           /\ q.escrow[i] = EscrowOf(Storage', i)
           /\ q.stage[i] = Stage(Storage', i)
           /\ q.merchant[i] = coverage'[i].merchant
           /\ q.beneficiary[i] = coverage'[i].claimant
           /\ q.paid[i] = PaidOf(Storage', i)
  <2>1. "lapsed" \in StageNames /\ 0 \in Nat
    BY DEF StageNames
  <2> HIDE DEF q
  <2>2. q = Closed(Ledger, c, 0, "lapsed")
    BY DEF q
  <2> QED BY <1>2, <1>3, <1>5, <1>6, <1>7, <2>1, <2>2, CoverageCloses
<1> HIDE DEF q
<1>9. Ledger' = q
  BY <1>1, <1>8, NextLedger
<1> QED BY <1>1, <1>7, <1>9, LedgerNow DEF q

\* The claim that a decision settles, and its coverage, before and after.
LEMMA SettlementMoves ==
  ASSUME TypeOK, StorageInv(Storage), NEW d \in Decisions, BoundToOpenClaim(d),
         NEW status \in {"Approved", "Rejected"}, NEW paid \in Nat,
         coverage' = coverage, claimOfCoverage' = claimOfCoverage,
         claim'[d.claimId].status = status, claim'[d.claimId].paidAmount = paid,
         \A k \in ClaimIds \ {d.claimId} : claim'[k] = claim[k]
  PROVE  LET c == d.coverageId IN
         /\ c \in CoverageIds /\ Live(Storage, c)
         /\ coverage[c].merchant \in Accounts
         /\ claim[d.claimId].claimant = coverage[c].claimant
         /\ claim[d.claimId].claimant \in Accounts
         /\ claim[d.claimId].paidAmount = 0
         /\ Stage(Storage, c) = "claimed"
         /\ \A i \in CoverageIds \ {c} : /\ EscrowOf(Storage', i) = EscrowOf(Storage, i)
                                         /\ Stage(Storage', i) = Stage(Storage, i)
                                         /\ PaidOf(Storage', i) = PaidOf(Storage, i)
         /\ EscrowOf(Storage', c) = 0
         /\ Stage(Storage', c) = IF status = "Approved" THEN "paid" ELSE "denied"
         /\ PaidOf(Storage', c) = paid
<1> DEFINE c == d.coverageId
           k == d.claimId
<1>1. k \in ClaimIds /\ claim[k].status = "Open" /\ claim[k].coverageId = c
  BY DEF BoundToOpenClaim
<1>2. /\ c \in CoverageIds /\ claimOfCoverage[c] = k /\ k \in 1..claimCount
      /\ Live(Storage, c) /\ coverage[c].status = "Active"
      /\ coverage[c].merchant \in Accounts /\ claim[k].claimant \in Accounts
  BY <1>1, OpenClaimIsLive
<1>3. Bound(claim[k], coverage[c])
  BY <1>1, <1>2 DEF StorageInv, ClaimsMatch, Storage
<1>4. claim[k].claimant = coverage[c].claimant /\ claim[k].paidAmount = 0
  BY <1>1, <1>3 DEF Bound
<1>5. \A i \in CoverageIds \ {c} : claimOfCoverage[i] # 0 =>
        claimOfCoverage[i] \in ClaimIds \ {k}
  <2>1. \A i \in CoverageIds : claimOfCoverage[i] # 0 => claim[claimOfCoverage[i]].coverageId = i
    BY DEF StorageInv, ClaimsMatch, Storage
  <2>2. \A i \in CoverageIds : claimOfCoverage[i] # 0 => claimOfCoverage[i] \in ClaimIds
    BY BoundsAssumption DEF TypeOK, ClaimIds
  <2> QED BY <1>1, <2>1, <2>2
<1>6. \A i \in CoverageIds \ {c} : /\ EscrowOf(Storage', i) = EscrowOf(Storage, i)
                                   /\ Stage(Storage', i) = Stage(Storage, i)
                                   /\ PaidOf(Storage', i) = PaidOf(Storage, i)
  BY <1>5, Unmoved
<1>7. k # 0
  BY <1>1 DEF ClaimIds
<1>8. Stage(Storage, c) = "claimed"
  BY <1>1, <1>2, <1>7, CoverageRead
<1>9. /\ EscrowOf(Storage', c) = 0
      /\ Stage(Storage', c) = IF status = "Approved" THEN "paid" ELSE "denied"
      /\ PaidOf(Storage', c) = paid
  BY <1>2, <1>7, CoverageReadNext
<1> QED BY <1>2, <1>4, <1>6, <1>8, <1>9

LEMMA RejectionDenies ==
  ASSUME TypeOK, TypeOK', StorageInv(Storage), NEW d \in Decisions, BoundToOpenClaim(d),
         rejectClaim(d)
  PROVE  LET c == d.coverageId IN
         /\ c \in CoverageIds /\ Ledger.stage[c] = "claimed"
         /\ Ledger' = Closed(Ledger, c, 0, "denied")
         /\ stack' = stack
<1> DEFINE c == d.coverageId
           k == d.claimId
<1>1. /\ claim' = [claim EXCEPT ![k].status = "Rejected"]
      /\ lockedExposure' = [lockedExposure EXCEPT
                              ![coverage[c].merchant] = @ - coverage[c].maxPayout]
      /\ UNCHANGED <<reserveBalance, coverage, claimOfCoverage, wallet, stack>>
  BY DEF rejectClaim, ReleaseLock, coverageVars, fundVars
<1>2. k \in ClaimIds
  BY DEF BoundToOpenClaim
<1>3. /\ claim'[k].status = "Rejected" /\ claim'[k].paidAmount = claim[k].paidAmount
      /\ \A i \in ClaimIds \ {k} : claim'[i] = claim[i]
  BY <1>1, <1>2 DEF TypeOK, ClaimType
<1>4. claim[k].paidAmount \in Nat
  BY <1>2 DEF TypeOK, ClaimType
<1>5. /\ c \in CoverageIds /\ Live(Storage, c)
      /\ coverage[c].merchant \in Accounts
      /\ claim[k].paidAmount = 0
      /\ Stage(Storage, c) = "claimed"
      /\ \A i \in CoverageIds \ {c} : /\ EscrowOf(Storage', i) = EscrowOf(Storage, i)
                                      /\ Stage(Storage', i) = Stage(Storage, i)
                                      /\ PaidOf(Storage', i) = PaidOf(Storage, i)
      /\ EscrowOf(Storage', c) = 0
      /\ Stage(Storage', c) = "denied"
      /\ PaidOf(Storage', c) = claim[k].paidAmount
  BY <1>1, <1>3, <1>4, SettlementMoves
<1>6. /\ reserveBalance \in [Accounts -> Nat] /\ lockedExposure \in [Accounts -> Nat]
      /\ coverage[c].maxPayout \in Nat
  BY <1>5 DEF TypeOK, CoverageType
<1> HIDE DEF c, k
<1>7. \A a \in Accounts : reserveBalance'[a] - lockedExposure'[a] =
        IF a = coverage[c].merchant
        THEN reserveBalance[a] - lockedExposure[a] + (coverage[c].maxPayout - 0)
        ELSE reserveBalance[a] - lockedExposure[a]
  BY <1>1, <1>5, <1>6
<1> DEFINE q == Closed(Ledger, c, 0, "denied")
<1>8. /\ q \in LedgerType
      /\ \A a \in Accounts : q.free[a] = reserveBalance'[a] - lockedExposure'[a]
      /\ q.wallet = wallet
      /\ \A i \in CoverageIds :
           /\ q.escrow[i] = EscrowOf(Storage', i)
           /\ q.stage[i] = Stage(Storage', i)
           /\ q.merchant[i] = coverage'[i].merchant
           /\ q.beneficiary[i] = coverage'[i].claimant
           /\ q.paid[i] = PaidOf(Storage', i)
  <2>1. "denied" \in StageNames /\ 0 \in Nat
    BY DEF StageNames
  <2> HIDE DEF q
  <2>2. q = Closed(Ledger, c, 0, "denied")
    BY DEF q
  <2> QED BY <1>1, <1>5, <1>7, <2>1, <2>2, CoverageCloses
<1> HIDE DEF q
<1>9. Ledger' = q
  BY <1>1, <1>8, NextLedger
<1> QED BY <1>1, <1>5, <1>9, LedgerNow DEF q, c

LEMMA ApprovalPays ==
  ASSUME TypeOK, TypeOK', StorageInv(Storage), NEW d \in Decisions, BoundToOpenClaim(d),
         approveClaim(d)
  PROVE  LET c == d.coverageId IN
         /\ c \in CoverageIds /\ Ledger.stage[c] = "claimed"
         /\ d.amount \in 1..Ledger.escrow[c]
         /\ Ledger' = [Closed(Ledger, c, d.amount, "paid")
                         EXCEPT !.wallet[Ledger.beneficiary[c]] = @ + d.amount]
         /\ stack' = Append(stack, [kind |-> "payout", receiver |-> Payee(d),
                                    saved |-> Storage])
<1> DEFINE c == d.coverageId
           k == d.claimId
           v == d.amount
           b == claim[k].claimant
<1>1. /\ claim' = [claim EXCEPT ![k].status = "Approved", ![k].paidAmount = v]
      /\ lockedExposure' = [lockedExposure EXCEPT
                              ![coverage[c].merchant] = @ - coverage[c].maxPayout]
      /\ reserveBalance' = [reserveBalance EXCEPT ![coverage[c].merchant] = @ - v]
      /\ wallet' = [wallet EXCEPT ![b] = @ + v]
      /\ UNCHANGED <<coverage, claimOfCoverage>>
      /\ v # 0 /\ v <= coverage[c].maxPayout
      /\ stack' = Append(stack, [kind |-> "payout", receiver |-> Payee(d), saved |-> Storage])
  BY DEF approveClaim, Debit, ReleaseLock, SendValue, Payee, coverageVars
<1>2. k \in ClaimIds /\ v \in Nat
  BY DecisionsAssumption DEF BoundToOpenClaim, ClaimDecision
<1>3. /\ claim'[k].status = "Approved" /\ claim'[k].paidAmount = v
      /\ \A i \in ClaimIds \ {k} : claim'[i] = claim[i]
  BY <1>1, <1>2 DEF TypeOK, ClaimType
<1>4. /\ c \in CoverageIds /\ Live(Storage, c)
      /\ coverage[c].merchant \in Accounts
      /\ b = coverage[c].claimant /\ b \in Accounts
      /\ Stage(Storage, c) = "claimed"
      /\ \A i \in CoverageIds \ {c} : /\ EscrowOf(Storage', i) = EscrowOf(Storage, i)
                                      /\ Stage(Storage', i) = Stage(Storage, i)
                                      /\ PaidOf(Storage', i) = PaidOf(Storage, i)
      /\ EscrowOf(Storage', c) = 0
      /\ Stage(Storage', c) = "paid"
      /\ PaidOf(Storage', c) = v
  BY <1>1, <1>2, <1>3, SettlementMoves
<1>5. /\ reserveBalance \in [Accounts -> Nat] /\ lockedExposure \in [Accounts -> Nat]
      /\ wallet \in [Accounts -> Nat]
      /\ coverage[c].maxPayout \in Nat
  BY <1>4 DEF TypeOK, CoverageType
<1> HIDE DEF c, k, v, b
<1>6. \A a \in Accounts : reserveBalance'[a] - lockedExposure'[a] =
        IF a = coverage[c].merchant
        THEN reserveBalance[a] - lockedExposure[a] + (coverage[c].maxPayout - v)
        ELSE reserveBalance[a] - lockedExposure[a]
  BY <1>1, <1>2, <1>4, <1>5
<1> DEFINE r == Closed(Ledger, c, v, "paid")
           q == PutWallet(r, b, r.wallet[b] + v)
<1>7. /\ r \in LedgerType
      /\ \A a \in Accounts : r.free[a] = reserveBalance'[a] - lockedExposure'[a]
      /\ r.wallet = wallet
      /\ \A i \in CoverageIds :
           /\ r.escrow[i] = EscrowOf(Storage', i)
           /\ r.stage[i] = Stage(Storage', i)
           /\ r.merchant[i] = coverage'[i].merchant
           /\ r.beneficiary[i] = coverage'[i].claimant
           /\ r.paid[i] = PaidOf(Storage', i)
  <2>1. "paid" \in StageNames
    BY DEF StageNames
  <2> HIDE DEF r
  <2>2. r = Closed(Ledger, c, v, "paid")
    BY DEF r
  <2> QED BY <1>1, <1>2, <1>4, <1>6, <2>1, <2>2, CoverageCloses
<1>8. Ledger.beneficiary[c] = b /\ Ledger.stage[c] = "claimed"
      /\ Ledger.escrow[c] = coverage[c].maxPayout
  BY <1>4, LedgerNow, CoverageRead
<1>9. q = [Closed(Ledger, c, v, "paid") EXCEPT !.wallet[Ledger.beneficiary[c]] = @ + v]
  BY <1>8 DEF PutWallet
<1> HIDE DEF r
<1>10. /\ q \in LedgerType /\ q.wallet = [r.wallet EXCEPT ![b] = r.wallet[b] + v]
       /\ q.free = r.free /\ q.escrow = r.escrow /\ q.stage = r.stage
       /\ q.merchant = r.merchant /\ q.beneficiary = r.beneficiary /\ q.paid = r.paid
  <2>1. r.wallet[b] + v \in Int
    BY <1>2, <1>4, <1>5, <1>7
  <2> QED BY <1>4, <1>7, <2>1, PutWalletWrites
<1> HIDE DEF q
<1>11. q.wallet = wallet'
  BY <1>1, <1>7, <1>10
<1>12. Ledger' = q
  BY <1>7, <1>10, <1>11, NextLedger
<1>13. v \in 1..Ledger.escrow[c]
  BY <1>1, <1>2, <1>5, <1>8
<1> QED BY <1>1, <1>4, <1>8, <1>9, <1>12, <1>13 DEF c, v

-----------------------------------------------------------------------------
(***************************************************************************)
(* The refinement.                                                         *)
(***************************************************************************)

\* What the transfers in progress would return to.
Savepoints == Ledgers(stack)

LEMMA RefinedInit == Init => Escrow!Init
<1> SUFFICES ASSUME Init PROVE Escrow!Init
  OBVIOUS
<1>1. \A c \in CoverageIds : Stage(Storage, c) = "none" /\ ~Live(Storage, c)
  BY DEF Init, Stage, Live, Storage, NoCoverage
<1>2. /\ [a \in Accounts |-> reserveBalance[a] - lockedExposure[a]] = [a \in Accounts |-> 0]
      /\ wallet = Endowment
      /\ \A c \in CoverageIds : /\ coverage[c].merchant = ZeroAddress
                                /\ coverage[c].claimant = ZeroAddress
                                /\ claimOfCoverage[c] = 0
  BY DEF Init, NoCoverage
<1>3. /\ Storage.reserveBalance = reserveBalance /\ Storage.lockedExposure = lockedExposure
      /\ Storage.wallet = wallet /\ Storage.coverage = coverage
      /\ Storage.claimOfCoverage = claimOfCoverage
  BY DEF Storage
<1>4. [i \in 1..Len(stack) |-> AbstractLedger(stack[i].saved)] = <<>>
  BY DEF Init
<1> QED BY <1>1, <1>2, <1>3, <1>4 DEF Escrow!Init, AbstractLedger

LEMMA RefinedStep ==
  ASSUME IInv, [Next]_vars
  PROVE  [Escrow!Next]_<<AbstractLedger(Storage),
                         [i \in 1..Len(stack) |-> AbstractLedger(stack[i].saved)]>>
<1>1. /\ TypeOK /\ TypeOK' /\ StorageInv(Storage) /\ stack \in Seq(Frame)
  BY InvariantStep DEF IInv, TypeOK
<1>2. SUFFICES Escrow!Next \/ (Ledger' = Ledger /\ Savepoints' = Savepoints)
  BY DEF Ledger, Savepoints, Ledgers
<1>3. ASSUME NEW f, f.saved = Storage, stack' = Append(stack, f)
      PROVE  Savepoints' = Append(Savepoints, Ledger)
  BY <1>1, <1>3, LedgersAppend DEF Savepoints, Ledger
<1>4. ASSUME stack' = stack
      PROVE  Savepoints' = Savepoints
  BY <1>4 DEF Savepoints, Ledgers
<1>5. ASSUME NEW m \in Accounts, NEW v \in Amounts, depositReserve(m, v)
      PROVE  Escrow!Next
  <2>1. Escrow!Fund(m, v) /\ v \in 1..Ledger.wallet[m]
    BY <1>1, <1>4, <1>5, DepositFunds DEF Escrow!Fund, Ledger, Savepoints, Ledgers
  <2> QED BY <2>1 DEF Escrow!Next, Ledger
<1>6. ASSUME NEW m \in Accounts, NEW b \in Address, NEW x \in Bytes32, NEW y \in Bytes32,
             NEW p \in Amounts, NEW e \in 0..MaxTime, issueCoverage(m, b, x, y, p, e)
      PROVE  Escrow!Next
  <2>0. PICK c : c = coverageCount + 1
    OBVIOUS
  <2>1. /\ c \in CoverageIds /\ b \in Accounts /\ p \in 1..Ledger.free[m]
        /\ Ledger.stage[c] = "none"
        /\ Ledger' = Issued(Ledger, m, b, c, p)
        /\ stack' = stack
    BY <1>1, <1>6, <2>0, IssueCovers
  <2>2. Escrow!Issue(m, b, c, p)
    BY <1>4, <2>1 DEF Escrow!Issue, Issued, Ledger, Savepoints, Ledgers
  <2> QED BY <2>1, <2>2 DEF Escrow!Next, Ledger
<1>7. ASSUME NEW c \in CoverageIds, expireCoverage(c)
      PROVE  Escrow!Next
  <2>1. Escrow!Lapse(c)
    BY <1>1, <1>4, <1>7, ExpiryLapses
    DEF Escrow!Lapse, Escrow!Close, Closed, Ledger, Savepoints, Ledgers
  <2> QED BY <2>1 DEF Escrow!Next
<1>8. ASSUME NEW m \in Accounts, NEW v \in Amounts, withdrawReserve(m, v)
      PROVE  Escrow!Next
  <2>1. /\ v \in 1..Ledger.free[m]
        /\ Ledger' = [Ledger EXCEPT !.free[m] = @ - v, !.wallet[m] = @ + v]
        /\ Savepoints' = Append(Savepoints, Ledger)
    BY <1>1, <1>3, <1>8, WithdrawTakes
  <2>2. Escrow!Take(m, v)
    BY <2>1 DEF Escrow!Take, Ledger, Savepoints, Ledgers
  <2> QED BY <2>1, <2>2 DEF Escrow!Next, Ledger
<1>9. ASSUME NEW a \in Accounts, NEW c \in CoverageIds, NEW h \in Bytes32, openClaim(a, c, h)
      PROVE  Escrow!Next
  <2>1. Escrow!Claim(c)
    BY <1>1, <1>4, <1>9, OpenClaims DEF Escrow!Claim, Ledger, Savepoints, Ledgers
  <2> QED BY <2>1 DEF Escrow!Next
<1>10. ASSUME NEW d \in Decisions, resolveClaim(d)
       PROVE  Escrow!Next
  <2> DEFINE c == d.coverageId
  <2>1. BoundToOpenClaim(d) /\ (approveClaim(d) \/ rejectClaim(d))
    BY <1>10 DEF resolveClaim
  <2>2. CASE approveClaim(d)
    <3>1. /\ c \in CoverageIds /\ Ledger.stage[c] = "claimed"
          /\ d.amount \in 1..Ledger.escrow[c]
          /\ Ledger' = [Closed(Ledger, c, d.amount, "paid")
                          EXCEPT !.wallet[Ledger.beneficiary[c]] = @ + d.amount]
          /\ Savepoints' = Append(Savepoints, Ledger)
      BY <1>1, <1>3, <2>1, <2>2, ApprovalPays
    <3>2. Escrow!Pay(c, d.amount)
      BY <3>1 DEF Escrow!Pay, Escrow!Close, Closed, Ledger, Savepoints, Ledgers
    <3> QED BY <3>1, <3>2 DEF Escrow!Next, Ledger
  <2>3. CASE rejectClaim(d)
    <3>1. c \in CoverageIds /\ Escrow!Deny(c)
      BY <1>1, <1>4, <2>1, <2>3, RejectionDenies
      DEF Escrow!Deny, Escrow!Close, Closed, Ledger, Savepoints, Ledgers
    <3> QED BY <3>1 DEF Escrow!Next
  <2> QED BY <2>1, <2>2, <2>3
<1>11. ASSUME stack # <<>>, Pop
       PROVE  /\ Savepoints # <<>>
              /\ Savepoints' = SubSeq(Savepoints, 1, Len(Savepoints) - 1)
              /\ Savepoints[Len(Savepoints)] = AbstractLedger(stack[Len(stack)].saved)
  BY <1>1, <1>11, LedgersPop DEF Savepoints, Pop
<1>12. CASE Accept
  <2>1. Ledger' = Ledger
    BY <1>12 DEF Accept, reserveVars, coverageVars, claimVars, fundVars, Ledger, Storage
  <2>2. Escrow!Return
    BY <1>11, <1>12, <2>1 DEF Accept, InCall, Escrow!Return, Ledger, Savepoints, Ledgers
  <2> QED BY <2>2 DEF Escrow!Next
<1>13. CASE Refuse
  <2>1. stack # <<>> /\ Pop /\ stack[Len(stack)] = Top
    BY <1>13 DEF Refuse, InCall, Top
  <2>2. Storage' = stack[Len(stack)].saved
    <3>1. Top \in Frame
      BY <1>1, <2>1, PopType
    <3>2. Top.saved \in StorageType
      BY <3>1 DEF Frame
    <3> QED BY <1>13, <2>1, <3>2 DEF Refuse, Storage, StorageType
  <2>3. Ledger' = AbstractLedger(Storage')
    BY DEF Ledger
  <2>4. Escrow!Undo
    BY <1>11, <2>1, <2>2, <2>3 DEF Escrow!Undo, Ledger, Savepoints, Ledgers
  <2> QED BY <2>4 DEF Escrow!Next
<1>14. CASE NextBlock \/ UNCHANGED vars
  BY <1>4, <1>14
  DEF NextBlock, vars, reserveVars, coverageVars, claimVars, fundVars, Ledger, Storage
<1> QED BY <1>5, <1>6, <1>7, <1>8, <1>9, <1>10, <1>12, <1>13, <1>14 DEF Next

\* The contract's pooled counters, records, nonces and call frames implement one
\* escrow per coverage (WarrantyEscrow): whatever a behaviour of the contract does,
\* each coverage's escrow is filled once from its merchant's free money and emptied
\* once, and a refused transfer returns to the very point before it.
THEOREM ImplementsEscrowHolds == Spec => ImplementsEscrow
<1>1. IInv /\ [Next]_vars =>
        [Escrow!Next]_<<AbstractLedger(Storage),
                        [i \in 1..Len(stack) |-> AbstractLedger(stack[i].saved)]>>
  BY RefinedStep
<1> QED BY <1>1, RefinedInit, Invariant, PTL DEF Spec, ImplementsEscrow, Escrow!Spec
=============================================================================
