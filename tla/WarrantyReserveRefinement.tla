---------------------- MODULE WarrantyReserveRefinement ---------------------
(***************************************************************************)
(* WarrantyReserve implements WarrantyEscrow: two counters per merchant    *)
(* and the records of coverages and claims stand for escrows per coverage. *)
(***************************************************************************)
EXTENDS WarrantyReserveSafety

Stage(s, c) ==
  CASE s.coverage[c].status = "None" -> "none"
    [] s.coverage[c].status = "Expired" -> "lapsed"
    [] OTHER ->
         IF s.claimOfCoverage[c] = 0 THEN "covered"
         ELSE LET q == s.claim[s.claimOfCoverage[c]].status IN
              CASE q = "Approved" -> "paid"
                [] q = "Rejected" -> "denied"
                [] OTHER -> "claimed"

AbstractLedger(s) ==
  [free |-> [a \in Accounts |-> s.reserveBalance[a] - s.lockedExposure[a]],
   wallet |-> s.wallet,
   escrow |-> [c \in CoverageIds |->
                 IF Live(s, c) THEN s.coverage[c].maxPayout ELSE 0],
   stage |-> [c \in CoverageIds |-> Stage(s, c)],
   merchant |-> [c \in CoverageIds |-> s.coverage[c].merchant],
   beneficiary |-> [c \in CoverageIds |-> s.coverage[c].claimant],
   paid |-> [c \in CoverageIds |->
               IF s.claimOfCoverage[c] = 0 THEN 0
               ELSE s.claim[s.claimOfCoverage[c]].paidAmount]]

Escrow == INSTANCE WarrantyEscrow WITH
  Nobody <- ZeroAddress,
  ledger <- AbstractLedger(Storage),
  savepoints <- [i \in 1..Len(stack) |-> AbstractLedger(stack[i].saved)]

\* Every behaviour of the contract is one of the escrows: each step of a call,
\* transfer, acceptance or revert is a step of WarrantyEscrow or none.
ImplementsEscrow == Escrow!Spec
=============================================================================
