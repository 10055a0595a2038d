------------------------------ MODULE Workspace ------------------------------
(***************************************************************************)
(* web/components/AppConsole.tsx without its claims (those are Console's): *)
(* the deployment manifest that unlocks writes, the wallet's account and   *)
(* network, deposits, issuance and withdrawals, and the reads of the       *)
(* reserve, which overlap with each other and with all the rest.           *)
(*                                                                         *)
(* A handler goes on with the account it was started for.  The node        *)
(* answers a read when it lands, rows and logs with it; of the reserve on   *)
(* the page, only whose it is matters here.  Two refreshes for the same    *)
(* account count as one.                                                   *)
(***************************************************************************)
EXTENDS Naturals, FiniteSets

CONSTANTS
  Accounts,          \* the wallet's accounts
  Keys,              \* evaluator signers
  CurrentEvaluator,  \* CURRENT_DEPLOYMENT.evaluator, checked in
  Nobody,            \* no account
  Unset,             \* no key
  Off,               \* no timer, no transaction
  Manifests,         \* the deployment manifests to look at
  MaxReserve         \* bound: a reserve

Addresses == {"archived", "current", "custom", "invalid"}
Manifest ==
  [address : Addresses, operational : {"0", "1", "unset"}, pin : Keys \cup {Unset}]

ASSUME WorkspaceAssumption ==
  /\ Nobody \notin Accounts
  /\ Unset \notin Keys
  /\ CurrentEvaluator \in Keys
  /\ Manifests \subseteq Manifest
  /\ MaxReserve \in Nat

VARIABLES
  manifest,    \* built into the page
  signer,      \* evaluatorSigner() of the contract at its address, immutable
  books,       \* reserveOf() by account
  address,     \* useConnection: the connected account
  onAppChain,  \* and whether it is on the app's network
  switching,
  tx,          \* the action whose status is "pending"
  reserve,     \* whose reserve is on the page
  evaluator,   \* on the page
  reading, readError,
  timer,       \* the deferred refresh, for the account it was created with
  due,         \* history: the account that was connected and is not read yet
  refreshes    \* the accounts whose refresh awaits the node

config == <<manifest, signer>>
wallet == <<address, onAppChain, switching>>
shown == <<reserve, evaluator>>
reads == <<reading, readError, timer, due, refreshes>>
vars == <<config, books, wallet, tx, shown, reads>>

Merchants == Accounts \cup {Nobody}
Books == {b \in [balance : 0..MaxReserve, locked : 0..MaxReserve] : b.locked <= b.balance}
Empty == [balance |-> 0, locked |-> 0]
Free(b) == b.balance - b.locked
------------------------------------------------------------------------------
(* The deployment gate.                                                    *)

deployed == manifest.address # "invalid"
archived == deployed /\ manifest.address = "archived"

\* Mutant of isOperationalDeployment: without the early return for the archive.
isOperationalAnywhere ==
  \/ manifest.address = "current" /\ manifest.operational # "0"
  \/ manifest.operational = "1" /\ manifest.pin # Unset

isOperationalDeployment ==
  \/ manifest.address = "current" /\ manifest.operational # "0"
  \/ /\ manifest.address \notin {"archived", "current"}
     /\ manifest.operational = "1" /\ manifest.pin # Unset

EXPECTED_EVALUATOR ==
  IF manifest.pin = Unset /\ manifest.address = "current"
  THEN CurrentEvaluator ELSE manifest.pin

signerOk == Unset \notin {EXPECTED_EVALUATOR, evaluator} /\ EXPECTED_EVALUATOR = evaluator

\* Mutant of canWrite: on whatever network the wallet is.
canWriteAnywhere == isOperationalDeployment /\ signerOk /\ address # Nobody /\ deployed

canWrite ==
  /\ isOperationalDeployment /\ signerOk
  /\ address # Nobody /\ onAppChain /\ deployed

\* The notice above the page, by its title.
gate ==
  CASE archived -> "archived"
    [] deployed /\ ~archived /\ ~signerOk -> "signer"
    [] ~deployed -> "not live"
    [] deployed /\ signerOk /\ ~archived /\ address = Nobody -> "connect"
    [] deployed /\ signerOk /\ ~archived /\ address # Nobody /\ ~onAppChain -> "network"
    [] OTHER -> "none"

busy == tx # Off \/ switching
------------------------------------------------------------------------------
(* refresh, and the effect that defers the first one for each account.     *)

\* Mutant of Defer: the effect runs when the page is mounted only.
DeferOnce(merchant) == UNCHANGED timer

\* The cleanup of the former effect stops its timer.
Defer(merchant) == timer' = merchant

Refresh(merchant) ==
  IF deployed
  THEN /\ reading' = TRUE
       /\ readError' = FALSE
       /\ refreshes' = refreshes \cup {merchant}
  ELSE UNCHANGED <<reading, readError, refreshes>>

TimerFires ==
  /\ timer # Off
  /\ timer' = Off
  /\ Refresh(timer)
  /\ UNCHANGED <<config, books, wallet, tx, shown, due>>

onRefresh ==
  /\ deployed /\ ~reading
  /\ Refresh(address)
  /\ UNCHANGED <<config, books, wallet, tx, shown, timer, due>>

Settles(merchant) ==
  /\ merchant \in refreshes
  /\ refreshes' = refreshes \ {merchant}
  /\ reading' = FALSE
  /\ due' = IF due = merchant THEN Off ELSE due
  /\ UNCHANGED <<config, books, wallet, tx, timer>>

\* The reserve is shown even if the rows cannot be read after it.
ReserveRead(merchant) ==
  /\ Settles(merchant)
  /\ reserve' = merchant
  /\ evaluator' = signer
  /\ readError' \in {readError, TRUE}

ReadFails(merchant) ==
  /\ Settles(merchant)
  /\ readError' = TRUE
  /\ UNCHANGED shown
------------------------------------------------------------------------------
(* The wallet.                                                             *)

Account(a) == address' = a /\ due' = a /\ Defer(a)

\* The wallet connects an account; while it asks, nothing else can be started.
onConnect ==
  /\ address = Nobody
  /\ \E a \in Accounts : Account(a)
  /\ onAppChain' \in BOOLEAN
  /\ UNCHANGED <<config, books, switching, tx, shown, reading, readError, refreshes>>

\* The user changes the account in the wallet, or disconnects it.
AccountsChanged(a) ==
  /\ address # Nobody /\ a # address
  /\ Account(a)
  /\ onAppChain' = (onAppChain /\ a # Nobody)
  /\ UNCHANGED <<config, books, switching, tx, shown, reading, readError, refreshes>>

ChainChanged ==
  /\ address # Nobody
  /\ onAppChain' = ~onAppChain
  /\ UNCHANGED <<config, books, address, switching, tx, shown, reads>>

\* The first try, or the one after the network has been added.
onSwitch ==
  /\ gate # "none" /\ address # Nobody /\ ~onAppChain /\ ~switching
  /\ switching' = TRUE
  /\ UNCHANGED <<config, books, address, onAppChain, tx, shown, reads>>

Switches ==
  /\ switching
  /\ switching' = FALSE
  /\ onAppChain' \in {onAppChain, TRUE}
  /\ UNCHANGED <<config, books, address, tx, shown, reads>>
------------------------------------------------------------------------------
(* send, for deposits, issuance and withdrawals, and onProbe.              *)

Writes == {"deposit", "issue", "withdraw"}

send(key, amount) ==
  /\ ~busy /\ canWrite
  /\ amount > 0
  /\ tx' = [key |-> key, from |-> address, amount |-> amount, stage |-> "asking"]
  /\ UNCHANGED <<config, books, wallet, shown, reads>>

\* The guardrail test only simulates, on any deployment.
onProbe ==
  /\ deployed /\ ~busy /\ address # Nobody
  /\ tx' = [key |-> "probe", from |-> address, amount |-> 0, stage |-> "asking"]
  /\ UNCHANGED <<config, books, wallet, shown, reads>>

Accepted ==
  IF tx.key = "deposit"
  THEN books[tx.from].balance + tx.amount <= MaxReserve
  ELSE tx.amount <= Free(books[tx.from])

Posted ==
  CASE tx.key = "deposit" -> [books EXCEPT ![tx.from].balance = @ + tx.amount]
    [] tx.key = "withdraw" -> [books EXCEPT ![tx.from].balance = @ - tx.amount]
    [] tx.key = "issue" -> [books EXCEPT ![tx.from].locked = @ + tx.amount]

\* The user confirms, and the transaction is mined.
Mined ==
  /\ tx # Off /\ tx.key \in Writes /\ tx.stage = "asking"
  /\ Accepted
  /\ books' = Posted
  /\ tx' = [tx EXCEPT !.stage = "success"]
  /\ UNCHANGED <<config, wallet, shown, reads>>

\* The receipt: the page refreshes as it would have when the action was started.
Receipt ==
  /\ tx # Off /\ tx.stage = "success"
  /\ tx' = Off
  /\ Refresh(tx.from)
  /\ UNCHANGED <<config, books, wallet, shown, timer, due>>

\* The wallet refuses, the transaction reverts, its receipt does not come, or
\* the simulation is over.
SendEnds ==
  /\ tx # Off
  /\ tx' = Off
  /\ UNCHANGED <<config, books, wallet, shown, reads>>

\* A claim of the merchant is settled, or its coverage expires.
Released(merchant) ==
  /\ \E l \in 1..books[merchant].locked, p \in 0..MaxReserve :
       /\ p <= l
       /\ books' = [books EXCEPT ![merchant] =
                      [balance |-> @.balance - p, locked |-> @.locked - l]]
  /\ UNCHANGED <<config, wallet, tx, shown, reads>>

Init ==
  /\ manifest \in Manifests
  /\ signer \in Keys
  /\ books = [a \in Accounts |-> Empty]
  /\ address = Nobody
  /\ onAppChain = FALSE /\ switching = FALSE
  /\ tx = Off
  /\ reserve = Nobody
  /\ evaluator = Unset
  /\ reading = FALSE /\ readError = FALSE
  /\ timer = Nobody /\ due = Nobody
  /\ refreshes = {}

Next ==
  \/ TimerFires \/ onRefresh
  \/ \E merchant \in Merchants :
       ReserveRead(merchant) \/ ReadFails(merchant) \/ AccountsChanged(merchant)
  \/ onConnect \/ ChainChanged \/ onSwitch \/ Switches
  \/ \E key \in Writes, amount \in 0..MaxReserve : send(key, amount)
  \/ onProbe \/ Mined \/ Receipt \/ SendEnds
  \/ \E merchant \in Accounts : Released(merchant)

\* Timers fire, and the node answers every read or the transport fails it.
Spec ==
  /\ Init /\ [][Next]_vars
  /\ WF_vars(TimerFires)
  /\ \A merchant \in Accounts : WF_vars(ReserveRead(merchant) \/ ReadFails(merchant))
------------------------------------------------------------------------------
(* Properties.                                                             *)

TypeOK ==
  /\ manifest \in Manifests /\ signer \in Keys
  /\ books \in [Accounts -> Books]
  /\ address \in Merchants
  /\ onAppChain \in BOOLEAN /\ switching \in BOOLEAN
  /\ tx # Off => tx \in [key : Writes \cup {"probe"}, from : Accounts,
                         amount : 0..MaxReserve, stage : {"asking", "success"}]
  /\ reserve \in Merchants
  /\ evaluator \in {Unset, signer}
  /\ reading \in BOOLEAN /\ readError \in BOOLEAN
  /\ timer \in Merchants \cup {Off} /\ due \in Merchants \cup {Off}
  /\ refreshes \subseteq Merchants

\* "so no real BOT can be locked without a working settlement path"
\* (AppConsole.tsx:898): whatever the manifest says, a reserve of the
\* deployment is written from this page only if it is not the archived one, is
\* declared operational or is the checked-in one, and its immutable signer is
\* the pinned one (AppConsole.tsx:199-202, 269-276, chain.ts:365-385).
LockedIsSettleable ==
  (\E a \in Accounts : books[a] # Empty) =>
    /\ ~archived
    /\ signer = (IF manifest.pin # Unset THEN manifest.pin ELSE CurrentEvaluator)
    /\ IF manifest.address = "current" THEN manifest.operational # "0"
       ELSE manifest.operational = "1" /\ manifest.pin # Unset

\* The notice and the buttons, which are computed apart, never contradict each
\* other: no write is open under a notice that denies it
\* (AppConsole.tsx:276, 892-937).
WritableIsUngated == canWrite => gate = "none"

\* An account that is connected and stays so has its reserve read, or fails to,
\* whatever refreshes of other accounts are cancelled or late
\* (AppConsole.tsx:395-402).
SwitchIsRead == \A a \in Accounts : (due = a /\ deployed) ~> due # a

\* "Read from reserveOf(connected wallet) on BOT Chain Mainnet."
\* (AppConsole.tsx:1304), once no read is under way any more.
ShownIsConnected ==
  deployed /\ address # Nobody /\ ~readError /\ timer = Off /\ refreshes = {}
    => reserve = address
==============================================================================
