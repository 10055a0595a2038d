------------------------ MODULE WarrantyReserveSafety -----------------------
(***************************************************************************)
(* The correctness properties of WarrantyReserve.  Each is a predicate of  *)
(* a storage, so that it can be said of the present one, also while a      *)
(* receiver of value is running, and of those to which a revert returns.   *)
(***************************************************************************)
EXTENDS WarrantyReserve

\* A coverage whose maximum payout is still reserved.
Live(s, c) ==
  /\ s.coverage[c].status = "Active"
  /\ s.claimOfCoverage[c] # 0 => s.claim[s.claimOfCoverage[c]].status = "Open"

\* What coverage c may still cost merchant m, and the sum of these.
Liability(s, m) ==
  [c \in CoverageIds |->
     IF Live(s, c) /\ s.coverage[c].merchant = m THEN s.coverage[c].maxPayout ELSE 0]

Exposure(s, m) == Total(Liability(s, m))

SettledClaims(s) == {k \in ClaimIds : s.claim[k].status \in {"Approved", "Rejected"}}

LocksMatch(s) == \A m \in Accounts : s.lockedExposure[m] = Exposure(s, m)

LocksBacked(s) == \A m \in Accounts : s.lockedExposure[m] <= s.reserveBalance[m]

BalanceMatches(s) == s.native = Total(s.reserveBalance)

\* What claim q of coverage c must satisfy.
Bound(q, c) ==
  /\ c.status = "Active"
  /\ q.claimant = c.claimant
  /\ q.openedAt < c.expiry
  /\ q.paidAmount <= c.maxPayout
  /\ q.paidAmount # 0 <=> q.status = "Approved"

ClaimsMatch(s) ==
  /\ \A k \in 1..s.claimCount :
       LET id == s.claim[k].coverageId IN
       /\ id \in 1..s.coverageCount
       /\ s.claimOfCoverage[id] = k
       /\ Bound(s.claim[k], s.coverage[id])
  /\ \A c \in CoverageIds : s.claimOfCoverage[c] # 0 =>
       /\ s.claimOfCoverage[c] \in 1..s.claimCount
       /\ s.claim[s.claimOfCoverage[c]].coverageId = c

NoncesMatch(s) ==
  /\ IsFiniteSet(s.usedNonce)
  /\ Cardinality(s.usedNonce) = Cardinality(SettledClaims(s))

-----------------------------------------------------------------------------
\* The lock counter of a merchant is the sum of the maximum payouts of its
\* unexpired, unsettled coverages: no path of issueCoverage, expireCoverage or
\* resolveClaim locks or releases twice, or for another merchant.
LocksMatchLiveCoverage == LocksMatch(Storage)

\* Lines 11 and 220: a withdrawal or a payout never eats into what other live
\* coverages have reserved.
ReserveCoversLocks == LocksBacked(Storage)

\* The contract holds exactly the native value it accounts for, also while a
\* transfer is in progress.
Solvent == BalanceMatches(Storage)

\* A claim and its coverage belong together: the only claim of a coverage that
\* was active and unexpired, by its claimant; it pays at most maxPayout, and
\* only when approved.  A coverage with a claim is never expired (line 207).
OneClaimPerCoverage == ClaimsMatch(Storage)

\* One nonce is consumed per settlement (lines 291, 306 and 327), neither
\* before it nor without it.
NoncePerSettlement == NoncesMatch(Storage)

\* A valid decision for an open claim is never refused for lack of money: the
\* checked subtractions of lines 309, 310 and 329 and the payout's value are
\* always covered by what was reserved at issue.
OpenClaimsPayable ==
  \A k \in ClaimIds : claim[k].status = "Open" =>
    LET c == coverage[claim[k].coverageId] IN
    /\ c.maxPayout <= lockedExposure[c.merchant]
    /\ c.maxPayout <= reserveBalance[c.merchant]
    /\ c.maxPayout <= native

\* The storage after the last completed transaction.
Committed == IF stack = <<>> THEN Storage ELSE stack[1].saved

\* Whatever s has settled is settled alike in t, and its nonces are used.
KeepsSettlements(s, t) ==
  /\ \A k \in SettledClaims(s) : t.claim[k] = s.claim[k]
  /\ s.usedNonce \subseteq t.usedNonce

\* Once a transaction has settled a claim, no later transaction, however it
\* nests calls and refuses transfers, changes the verdict or the amount, or
\* frees the nonces that were used.
SettlementIsFinal == [][KeepsSettlements(Committed, Committed')]_vars
=============================================================================
