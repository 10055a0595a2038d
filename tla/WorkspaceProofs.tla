---------------------------- MODULE WorkspaceProofs ----------------------------
(***************************************************************************)
(* Why no money is locked where it cannot be settled, for any accounts,    *)
(* keys, manifests and amounts.                                            *)
(*                                                                         *)
(* canWrite is looked at when a handler is started, and what it has read   *)
(* changes afterwards.  What it says of the deployment does not: the       *)
(* manifest is built in and the signer on the page, once read, is the      *)
(* immutable one.  So a write in flight, and money in the books, both      *)
(* witness that the deployment can settle.                                 *)
(***************************************************************************)
EXTENDS Workspace, TLAPS

\* The deployment is one whose decisions the pinned evaluator signs.
Settleable ==
  /\ isOperationalDeployment
  /\ EXPECTED_EVALUATOR # Unset
  /\ EXPECTED_EVALUATOR = signer

Witnessed ==
  /\ tx # Off => tx.key = "probe" \/ Settleable
  /\ (\E a \in Accounts : books[a] # Empty) => Settleable

IInv == TypeOK /\ Witnessed

--------------------------------------------------------------------------------
LEMMA Empties == Empty \in Books
BY WorkspaceAssumption DEF Empty, Books

\* The page starts with nothing in the books and no handler running.
LEMMA InitIInv == Init => IInv
BY Empties DEF Init, IInv, TypeOK, Witnessed, Merchants

\* A refresh types what it sets.
LEMMA RefreshTyped ==
  ASSUME NEW merchant \in Merchants, TypeOK, Refresh(merchant)
  PROVE  reading' \in BOOLEAN /\ readError' \in BOOLEAN /\ refreshes' \subseteq Merchants
BY DEF Refresh, TypeOK

\* What settles and what does not is fixed when the page is built.
LEMMA SettleableFixed == UNCHANGED config => (Settleable' <=> Settleable)
BY DEF config, Settleable, isOperationalDeployment, EXPECTED_EVALUATOR

\* A write that the page allows is of a deployment that settles.
LEMMA WritableSettles == TypeOK /\ canWrite => Settleable
BY DEF TypeOK, canWrite, signerOk, Settleable
--------------------------------------------------------------------------------
(* Each step keeps the invariant.                                          *)

LEMMA TimerFiresKeeps == IInv /\ TimerFires => IInv'
<1> SUFFICES ASSUME IInv, TimerFires PROVE IInv'
  OBVIOUS
<1>1. timer \in Merchants
  BY DEF IInv, TypeOK, TimerFires
<1>2. TypeOK'
  BY <1>1, RefreshTyped DEF IInv, TypeOK, TimerFires, config, wallet, shown
<1>3. Witnessed'
  BY SettleableFixed DEF IInv, Witnessed, TimerFires
<1> QED BY <1>2, <1>3 DEF IInv

LEMMA OnRefreshKeeps == IInv /\ onRefresh => IInv'
<1> SUFFICES ASSUME IInv, onRefresh PROVE IInv'
  OBVIOUS
<1>1. TypeOK'
  BY RefreshTyped DEF IInv, TypeOK, onRefresh, config, wallet, shown
<1>2. Witnessed'
  BY SettleableFixed DEF IInv, Witnessed, onRefresh
<1> QED BY <1>1, <1>2 DEF IInv

LEMMA ReadsKeep ==
  ASSUME NEW merchant \in Merchants, IInv, ReserveRead(merchant) \/ ReadFails(merchant)
  PROVE  IInv'
<1>1. TypeOK'
  <2>1. /\ UNCHANGED <<manifest, signer, books, address, onAppChain, switching, tx, timer>>
        /\ reading' \in BOOLEAN /\ refreshes' \subseteq Merchants
        /\ due' \in Merchants \cup {Off}
    BY DEF IInv, TypeOK, ReserveRead, ReadFails, Settles, config, wallet
  <2>2. reserve' \in Merchants /\ evaluator' \in {Unset, signer} /\ readError' \in BOOLEAN
    BY DEF IInv, TypeOK, ReserveRead, ReadFails, shown
  <2> QED BY <2>1, <2>2 DEF IInv, TypeOK
<1>2. Witnessed'
  BY SettleableFixed DEF IInv, Witnessed, ReserveRead, ReadFails, Settles
<1> QED BY <1>1, <1>2 DEF IInv

LEMMA WalletKeeps ==
  ASSUME IInv,
         \/ onConnect \/ ChainChanged \/ onSwitch \/ Switches
         \/ \E a \in Merchants : AccountsChanged(a)
  PROVE  IInv'
<1>1. /\ UNCHANGED <<config, books, tx, shown, reading, readError, refreshes>>
      /\ UNCHANGED <<address, due, timer>> \/ \E a \in Merchants : Account(a)
      /\ onAppChain' \in BOOLEAN /\ switching' \in BOOLEAN
  BY DEF IInv, TypeOK, onConnect, ChainChanged, onSwitch, Switches, AccountsChanged,
         Merchants, reads
<1>2. TypeOK'
  BY <1>1 DEF IInv, TypeOK, Account, Defer, config, shown
<1>3. Witnessed'
  BY <1>1, SettleableFixed DEF IInv, Witnessed
<1> QED BY <1>2, <1>3 DEF IInv

\* The only step that relies on what the page has read.
LEMMA SendKeeps ==
  ASSUME NEW key \in Writes, NEW amount \in 0..MaxReserve, IInv, send(key, amount)
  PROVE  IInv'
<1>1. address \in Accounts
  BY DEF IInv, TypeOK, send, canWrite, Merchants
<1>2. TypeOK'
  BY <1>1 DEF IInv, TypeOK, send, config, wallet, shown, reads
<1>3. Witnessed'
  BY WritableSettles, SettleableFixed DEF IInv, Witnessed, send
<1> QED BY <1>2, <1>3 DEF IInv

LEMMA ProbeKeeps == IInv /\ onProbe => IInv'
<1> SUFFICES ASSUME IInv, onProbe PROVE IInv'
  OBVIOUS
<1>1. address \in Accounts
  BY DEF IInv, TypeOK, onProbe, Merchants
<1>2. 0 \in 0..MaxReserve
  BY WorkspaceAssumption
<1>3. TypeOK'
  BY <1>1, <1>2 DEF IInv, TypeOK, onProbe, config, wallet, shown, reads
<1>4. Witnessed'
  BY SettleableFixed DEF IInv, Witnessed, onProbe
<1> QED BY <1>3, <1>4 DEF IInv

\* What the contract accepts keeps every lock within its balance.
LEMMA PostedTyped ==
  ASSUME TypeOK, tx # Off, tx.key \in Writes, Accepted
  PROVE  Posted \in [Accounts -> Books]
<1> DEFINE b == books[tx.from]
<1>1. /\ tx.from \in Accounts /\ tx.amount \in Nat
      /\ b \in [balance : Nat, locked : Nat]
      /\ b.locked <= b.balance /\ b.balance <= MaxReserve
  BY WorkspaceAssumption DEF TypeOK, Books
<1>2. CASE tx.key = "deposit"
  <2>1. [b EXCEPT !.balance = @ + tx.amount] \in Books
    BY <1>1, <1>2, WorkspaceAssumption DEF Books, Accepted
  <2> QED BY <1>1, <1>2, <2>1 DEF TypeOK, Posted
<1>3. CASE tx.key = "withdraw"
  <2>1. [b EXCEPT !.balance = @ - tx.amount] \in Books
    BY <1>1, <1>3, WorkspaceAssumption DEF Books, Accepted, Free
  <2> QED BY <1>1, <1>3, <2>1 DEF TypeOK, Posted
<1>4. CASE tx.key = "issue"
  <2>1. [b EXCEPT !.locked = @ + tx.amount] \in Books
    BY <1>1, <1>4, WorkspaceAssumption DEF Books, Accepted, Free
  <2> QED BY <1>1, <1>4, <2>1 DEF TypeOK, Posted
<1> QED BY <1>2, <1>3, <1>4 DEF Writes

LEMMA MinedKeeps == IInv /\ Mined => IInv'
<1> SUFFICES ASSUME IInv, Mined PROVE IInv'
  OBVIOUS
<1>1. books' \in [Accounts -> Books]
  BY PostedTyped DEF IInv, Mined
<1>2. tx' \in [key : Writes \cup {"probe"}, from : Accounts,
              amount : 0..MaxReserve, stage : {"asking", "success"}]
      /\ tx'.key = tx.key
  BY DEF IInv, TypeOK, Mined
<1>3. TypeOK'
  BY <1>1, <1>2 DEF IInv, TypeOK, Mined, config, wallet, shown, reads
<1>4. Witnessed'
  <2>1. Settleable
    BY DEF IInv, Witnessed, Mined, Writes
  <2> QED BY <2>1, SettleableFixed DEF Witnessed, Mined
<1> QED BY <1>3, <1>4 DEF IInv

LEMMA SendEndsKeep == IInv /\ (Receipt \/ SendEnds) => IInv'
<1> SUFFICES ASSUME IInv, Receipt \/ SendEnds PROVE IInv'
  OBVIOUS
<1>1. CASE Receipt
  <2>1. tx.from \in Merchants
    BY <1>1 DEF IInv, TypeOK, Receipt, Merchants
  <2>2. TypeOK'
    BY <1>1, <2>1, RefreshTyped DEF IInv, TypeOK, Receipt, config, wallet, shown
  <2>3. Witnessed'
    BY <1>1, SettleableFixed DEF IInv, Witnessed, Receipt
  <2> QED BY <2>2, <2>3 DEF IInv
<1>2. CASE SendEnds
  BY <1>2, SettleableFixed
  DEF IInv, TypeOK, Witnessed, SendEnds, config, wallet, shown, reads
<1> QED BY <1>1, <1>2

\* Books that lose a lock were not empty, so the deployment settles.
LEMMA ReleasedKeeps ==
  ASSUME NEW merchant \in Accounts, IInv, Released(merchant)
  PROVE  IInv'
<1> DEFINE b == books[merchant]
<1>1. PICK l \in 1..b.locked, p \in 0..MaxReserve :
        /\ p <= l
        /\ books' = [books EXCEPT ![merchant] =
                      [balance |-> @.balance - p, locked |-> @.locked - l]]
  BY DEF Released
<1>2. /\ b \in [balance : Nat, locked : Nat]
      /\ b.locked <= b.balance /\ b.balance <= MaxReserve
  BY WorkspaceAssumption DEF IInv, TypeOK, Books
<1>3. [balance |-> b.balance - p, locked |-> b.locked - l] \in Books
  BY <1>1, <1>2, WorkspaceAssumption DEF Books
<1>4. TypeOK'
  BY <1>1, <1>3 DEF IInv, TypeOK, Released, config, wallet, shown, reads
<1>5. b # Empty
  BY <1>1, <1>2 DEF Empty
<1>6. Witnessed'
  BY <1>5, SettleableFixed DEF IInv, Witnessed, Released
<1> QED BY <1>4, <1>6 DEF IInv

LEMMA NextIInv == IInv /\ [Next]_vars => IInv'
<1> SUFFICES ASSUME IInv, [Next]_vars PROVE IInv'
  OBVIOUS
<1>1. CASE UNCHANGED vars
  BY <1>1, SettleableFixed
  DEF IInv, TypeOK, Witnessed, vars, config, wallet, shown, reads
<1> QED
  BY <1>1, TimerFiresKeeps, OnRefreshKeeps, ReadsKeep, WalletKeeps, SendKeeps, ProbeKeeps,
     MinedKeeps, SendEndsKeep, ReleasedKeeps
  DEF Next
--------------------------------------------------------------------------------
\* In every state of the page all variables are well typed; in particular the
\* contract's books never lock more than they hold (WarrantyReserve.sol:188-225).
THEOREM TypeCorrect == Spec => []TypeOK
<1>1. IInv => TypeOK
  BY DEF IInv
<1> QED BY <1>1, InitIInv, NextIInv, PTL DEF Spec

\* Money is locked from the page only where the pinned evaluator can settle,
\* though the gate is read once and the transaction mined any time later
\* (AppConsole.tsx:269-276, 448-454, chain.ts:356-385).
THEOREM LockedIsSettleableHolds == Spec => []LockedIsSettleable
<1>1. IInv => LockedIsSettleable
  <2> SUFFICES ASSUME IInv, \E a \in Accounts : books[a] # Empty
               PROVE  /\ ~archived
                      /\ signer = (IF manifest.pin # Unset THEN manifest.pin
                                   ELSE CurrentEvaluator)
                      /\ IF manifest.address = "current" THEN manifest.operational # "0"
                         ELSE manifest.operational = "1" /\ manifest.pin # Unset
    BY DEF LockedIsSettleable
  <2>1. Settleable
    BY DEF IInv, Witnessed
  <2> QED BY <2>1 DEF Settleable, isOperationalDeployment, EXPECTED_EVALUATOR, archived
<1> QED BY <1>1, InitIInv, NextIInv, PTL DEF Spec

\* A write is never open under a notice that denies it, whatever the manifest
\* (AppConsole.tsx:276, 892-937).
THEOREM WritableIsUngatedHolds == Spec => []WritableIsUngated
<1>1. WritableIsUngated
  BY DEF WritableIsUngated, canWrite, gate, archived, isOperationalDeployment
<1> QED BY <1>1, PTL
================================================================================
