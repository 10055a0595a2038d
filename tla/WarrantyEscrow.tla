--------------------------- MODULE WarrantyEscrow ---------------------------
(***************************************************************************)
(* What WarrantyReserve promises, without pooled counters, ids, nonces,    *)
(* signatures or clocks: every coverage has an escrow of its own, filled   *)
(* from its merchant's free money when it is issued, and emptied once --   *)
(* back to the merchant, or up to its whole amount to the claimant named   *)
(* at issue.  What a transfer's receiver does before it accepts may be     *)
(* undone together with the transfer, to the point before it.              *)
(***************************************************************************)
EXTENDS Integers, Sequences

CONSTANTS Accounts, CoverageIds, Nobody, Endowment

VARIABLES
  ledger,      \* free and wallet per account; escrow, stage, merchant,
               \* beneficiary and paid per coverage
  savepoints   \* the ledgers before the transfers in progress

Init ==
  /\ ledger = [free |-> [a \in Accounts |-> 0],
               wallet |-> Endowment,
               escrow |-> [c \in CoverageIds |-> 0],
               stage |-> [c \in CoverageIds |-> "none"],
               merchant |-> [c \in CoverageIds |-> Nobody],
               beneficiary |-> [c \in CoverageIds |-> Nobody],
               paid |-> [c \in CoverageIds |-> 0]]
  /\ savepoints = <<>>

Fund(m, v) ==
  /\ v \in 1..ledger.wallet[m]
  /\ ledger' = [ledger EXCEPT !.free[m] = @ + v, !.wallet[m] = @ - v]
  /\ UNCHANGED savepoints

Issue(m, b, c, p) ==
  /\ ledger.stage[c] = "none"
  /\ p \in 1..ledger.free[m]
  /\ ledger' = [ledger EXCEPT !.stage[c] = "covered", !.merchant[c] = m,
                              !.beneficiary[c] = b, !.free[m] = @ - p,
                              !.escrow[c] = p]
  /\ UNCHANGED savepoints

\* The escrow of c goes back to the merchant's free money, less what is paid.
Close(c, paid, stage) ==
  [ledger EXCEPT !.stage[c] = stage, !.escrow[c] = 0, !.paid[c] = paid,
                 !.free[ledger.merchant[c]] = @ + (ledger.escrow[c] - paid)]

Lapse(c) ==
  /\ ledger.stage[c] = "covered"
  /\ ledger' = Close(c, 0, "lapsed")
  /\ UNCHANGED savepoints

Claim(c) ==
  /\ ledger.stage[c] = "covered"
  /\ ledger' = [ledger EXCEPT !.stage[c] = "claimed"]
  /\ UNCHANGED savepoints

Deny(c) ==
  /\ ledger.stage[c] = "claimed"
  /\ ledger' = Close(c, 0, "denied")
  /\ UNCHANGED savepoints

Pay(c, v) ==
  /\ ledger.stage[c] = "claimed"
  /\ v \in 1..ledger.escrow[c]
  /\ ledger' = [Close(c, v, "paid") EXCEPT !.wallet[ledger.beneficiary[c]] = @ + v]
  /\ savepoints' = Append(savepoints, ledger)

Take(m, v) ==
  /\ v \in 1..ledger.free[m]
  /\ ledger' = [ledger EXCEPT !.free[m] = @ - v, !.wallet[m] = @ + v]
  /\ savepoints' = Append(savepoints, ledger)

Return ==
  /\ savepoints # <<>>
  /\ savepoints' = SubSeq(savepoints, 1, Len(savepoints) - 1)
  /\ UNCHANGED ledger

Undo ==
  /\ savepoints # <<>>
  /\ savepoints' = SubSeq(savepoints, 1, Len(savepoints) - 1)
  /\ ledger' = savepoints[Len(savepoints)]

Next ==
  \/ \E m \in Accounts :
       \/ \E v \in 1..ledger.wallet[m] : Fund(m, v)
       \/ \E v \in 1..ledger.free[m] : Take(m, v)
       \/ \E b \in Accounts, c \in CoverageIds, p \in 1..ledger.free[m] :
            Issue(m, b, c, p)
  \/ \E c \in CoverageIds :
       \/ Lapse(c)
       \/ Claim(c)
       \/ Deny(c)
       \/ \E v \in 1..ledger.escrow[c] : Pay(c, v)
  \/ Return
  \/ Undo

Spec == Init /\ [][Next]_<<ledger, savepoints>>
=============================================================================
