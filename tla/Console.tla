------------------------------- MODULE Console -------------------------------
(***************************************************************************)
(* web/components/AppConsole.tsx: the page that opens a claim, attests its *)
(* evidence, asks for a decision and settles with it, for one browser tab. *)
(*                                                                         *)
(* Every handler awaits the wallet and then the chain or the server, so    *)
(* the page goes on rendering, taking input and running effects while a    *)
(* call is in flight; a handler goes on with the values it was started     *)
(* with.  A step is what the page runs between two awaits, with the        *)
(* effects of the fields it changed.  The timer of the reset effect and    *)
(* the answers of the network come in any order.                           *)
(*                                                                         *)
(* A content is fixed when a claim is opened, with the second it was built *)
(* in, and hashes to what the chain keeps: contents are numbered in the    *)
(* order they are built.  Two calls that ask the same of the same claim    *)
(* count as one.  The wallet is connected to the right chain.              *)
(* Deposits, issuance and withdrawals touch none of this state but the     *)
(* fields, which Type sets to anything.                                    *)
(***************************************************************************)
EXTENDS Naturals, Sequences, FiniteSets

CONSTANTS
  Coverages,  \* ids of coverages
  MaxBuilt,   \* bound: contents built by onOpen
  MaxCalls    \* bound: calls in flight, abandoned ones included, for each set
              \* of coverages that may be issued

Empty == 0  \* an empty field, no snapshot, no decision

ASSUME ConsoleAssumption ==
  /\ Empty \notin Coverages
  /\ IsFiniteSet(Coverages)
  /\ MaxBuilt \in Nat
  /\ MaxCalls \in [DOMAIN MaxCalls -> Nat]
  /\ DOMAIN MaxCalls \subseteq SUBSET Coverages

ClaimIds == 1..Cardinality(Coverages)
Contents == 1..MaxBuilt
Kinds == {"open", "attest", "evaluate", "resolve"}

VARIABLES
  issued,            \* the coverages that are issued
  claims,            \* on the chain: coverage, committed content, open or not
  recorded,          \* the claims the server has a record for
  saved,             \* localStorage: contents by coverage and claim
  calls,             \* the handlers that are suspended, and what they wait for
  pending,           \* txs: the keys whose status is "pending"
  evalCoverageId, evalClaimId,
  evidenceSnapshot,  \* its content; the ids kept beside it are never read
  evidenceAttested,
  signed,            \* the claim of the decision that is shown
  resetTimer,        \* is the timeout of the reset effect running?
  rehydrations,      \* GET /api/evidence requests that are not cancelled
  built,             \* contents built so far
  misled, miskept    \* history: flags set, contents saved by strayed calls

ids == <<evalCoverageId, evalClaimId>>
flags == <<evidenceAttested, signed>>
world == <<issued, claims, recorded>>
effects == <<resetTimer, rehydrations>>
history == <<misled, miskept>>
vars == <<world, saved, calls, pending, evalCoverageId, evalClaimId,
          evidenceSnapshot, evidenceAttested, signed, resetTimer, rehydrations, built, history>>

\* A call has strayed when the fields have changed since it was started.
Calls ==
  [kind : Kinds, stage : {"asking", "sent", "granted", "abandoned"},
   coverage : Coverages \cup {Empty}, claim : ClaimIds \cup {Empty},
   content : Contents \cup {Empty}, strayed : BOOLEAN]

FreshPage ==
  /\ calls = {}
  /\ pending = {}
  /\ evalCoverageId = Empty
  /\ evalClaimId = Empty
  /\ evidenceSnapshot = Empty
  /\ evidenceAttested = FALSE
  /\ signed = Empty
  /\ resetTimer = TRUE
  /\ rehydrations = {}

Init ==
  /\ issued \in DOMAIN MaxCalls
  /\ claims = <<>>
  /\ recorded = {}
  /\ saved = [key \in Coverages \X ClaimIds |-> Empty]
  /\ built = 0
  /\ misled = {} /\ miskept = {}
  /\ FreshPage

Key(call) == IF call.kind = "attest" THEN "evaluate" ELSE call.kind
\* Mutant of Busy: only the key that the evaluation card shows.
BusyEvaluating == "evaluate" \in pending

Busy == pending # {}
InFlight == {call \in calls : call.stage # "abandoned"}

\* Calls in flight whose answer goes to the fields; nobody awaits the others.
Strays(call) == call.kind # "resolve" /\ call.stage # "abandoned"
Astray(call) == [call EXCEPT !.strayed = @ \/ Strays(call)]
Strayed(some) == {Astray(call) : call \in some}

Recorded(coverage, claim) ==
  claim \in recorded /\ claims[claim].coverage = coverage
------------------------------------------------------------------------------
(* The effects of the fields that name the claim.                          *)

\* Mutant of Uncancelled: the answers of earlier requests are taken.
NeverCancelled(requests) == requests

\* The cleanup of the effect: what a cancelled request answers is dropped.
Uncancelled(requests) == {}

Rehydration(coverage, claim) ==
  IF Empty \in {coverage, claim} THEN {} ELSE {<<coverage, claim>>}

\* The snapshot that localStorage has for a claim, else the one at hand.
Local(storage, coverage, claim, snapshot) ==
  LET key == <<coverage, claim>>
  IN  IF key \in DOMAIN storage /\ storage[key] # Empty THEN storage[key] ELSE snapshot

Show(coverage, claim) ==
  /\ evalCoverageId' = coverage
  /\ evalClaimId' = claim
  /\ resetTimer' = TRUE
  /\ rehydrations' = Uncancelled(rehydrations) \cup Rehydration(coverage, claim)

\* One of the two fields is typed in, or set by an issuance.
Type(coverage, claim) ==
  /\ (coverage = evalCoverageId) # (claim = evalClaimId)
  /\ Show(coverage, claim)
  /\ evidenceSnapshot' = Local(saved, coverage, claim, evidenceSnapshot)
  /\ calls' = Strayed(calls)
  /\ UNCHANGED <<world, saved, pending, flags, built, history>>

\* A note, the amount or a checkbox changes: of the next content, not of this one.
EditEvidence ==
  /\ resetTimer' = TRUE
  /\ UNCHANGED <<world, saved, calls, pending, ids, evidenceSnapshot, flags, rehydrations, built,
                 history>>

\* Mutants of Reset: one of the two flags is forgotten.
ResetDecision ==
  /\ resetTimer
  /\ resetTimer' = FALSE
  /\ signed' = Empty
  /\ UNCHANGED <<world, saved, calls, pending, ids, evidenceSnapshot, evidenceAttested, rehydrations,
                 built, history>>

ResetAttested ==
  /\ resetTimer
  /\ resetTimer' = FALSE
  /\ evidenceAttested' = FALSE
  /\ UNCHANGED <<world, saved, calls, pending, ids, evidenceSnapshot, signed, rehydrations,
                 built, history>>

Reset ==
  /\ resetTimer
  /\ resetTimer' = FALSE
  /\ evidenceAttested' = FALSE
  /\ signed' = Empty
  /\ misled' = {}
  /\ UNCHANGED <<world, saved, calls, pending, ids, evidenceSnapshot, rehydrations, built, miskept>>

\* The answer to a rehydration, or its failure.
Rehydrate(request) ==
  /\ rehydrations' = rehydrations \ {request}
  /\ \/ UNCHANGED <<evidenceAttested, pending, misled>>
     \/ /\ Recorded(request[1], request[2])
        /\ evidenceAttested' = TRUE
        /\ pending' = pending \ {"evaluate"}
        /\ misled' = misled \ {"attested"}
  /\ UNCHANGED <<world, saved, calls, ids, evidenceSnapshot, signed, resetTimer, built,
                 miskept>>
------------------------------------------------------------------------------
(* The handlers, up to the wallet's prompt, and from its answer.           *)

Start(kind, coverage, claim, content) ==
  LET call == [kind |-> kind, stage |-> "asking", coverage |-> coverage,
               claim |-> claim, content |-> content, strayed |-> FALSE]
  IN  /\ ~Busy
      /\ Cardinality(calls) < MaxCalls[issued]
      /\ calls' = calls \cup {call}
      /\ pending' = pending \cup {Key(call)}

\* Mutant of onOpen: the snapshot of an earlier claim is kept.
OpenKeepsSnapshot(coverage) ==
  /\ built < MaxBuilt
  /\ built' = built + 1
  /\ evidenceSnapshot' = IF evidenceSnapshot = Empty THEN built + 1 ELSE evidenceSnapshot
  /\ Start("open", coverage, Empty, built + 1)
  /\ UNCHANGED <<world, saved, ids, flags, effects, history>>

onOpen(coverage) ==
  /\ built < MaxBuilt
  /\ built' = built + 1
  /\ evidenceSnapshot' = built + 1
  /\ Start("open", coverage, Empty, built + 1)
  /\ UNCHANGED <<world, saved, ids, flags, effects, history>>

onAttestEvidence ==
  /\ evidenceSnapshot # Empty
  /\ Start("attest", evalCoverageId, evalClaimId, evidenceSnapshot)
  /\ UNCHANGED <<world, saved, ids, evidenceSnapshot, flags, effects, built, history>>

onEvaluate ==
  /\ evidenceAttested
  /\ Start("evaluate", evalCoverageId, evalClaimId, Empty)
  /\ signed' = Empty
  /\ UNCHANGED <<world, saved, ids, evidenceSnapshot, evidenceAttested, effects, built, history>>

onResolve ==
  /\ signed # Empty
  /\ Start("resolve", Empty, signed, Empty)
  /\ UNCHANGED <<world, saved, ids, evidenceSnapshot, flags, effects, built, history>>

Advanced(call, stage) == (calls \ {call}) \cup {[call EXCEPT !.stage = stage]}

\* The user confirms in the wallet: the transaction or the request goes out.
Send(call) ==
  /\ call.stage = "asking"
  /\ calls' = Advanced(call, "sent")
  /\ pending' = pending \cup {Key(call)}
  /\ UNCHANGED <<world, saved, ids, evidenceSnapshot, flags, effects, built, history>>
------------------------------------------------------------------------------
(* The chain and the server.                                               *)

OpenOnChain(call) ==
  /\ call.claim \in DOMAIN claims
  /\ claims[call.claim].open

Grantable(call) ==
  CASE call.kind = "open" -> \A id \in DOMAIN claims : claims[id].coverage # call.coverage
    [] call.kind = "attest" ->
         /\ OpenOnChain(call)
         /\ claims[call.claim].coverage = call.coverage
         /\ claims[call.claim].content = call.content
    [] call.kind = "evaluate" -> OpenOnChain(call) /\ Recorded(call.coverage, call.claim)
    [] call.kind = "resolve" -> OpenOnChain(call)

Opened(call) == [coverage |-> call.coverage, content |-> call.content, open |-> TRUE]

ClaimsAfter(call) ==
  CASE call.kind = "open" -> Append(claims, Opened(call))
    [] call.kind = "resolve" -> [claims EXCEPT ![call.claim].open = FALSE]
    [] OTHER -> claims

\* The event of the receipt names the claim; nobody awaits an abandoned call.
Answered(call) ==
  IF call.stage = "abandoned" THEN calls \ {call} ELSE
  (calls \ {call}) \cup
    {[call EXCEPT !.stage = "granted", !.claim = IF call.kind = "open" THEN Len(claims) + 1 ELSE @]}

\* The chain or the server does what is asked; else the call fails.
Grant(call) ==
  /\ call.stage \in {"sent", "abandoned"}
  /\ Grantable(call)
  /\ claims' = ClaimsAfter(call)
  /\ recorded' = IF call.kind = "attest" THEN recorded \cup {call.claim} ELSE recorded
  /\ calls' = Answered(call)
  /\ UNCHANGED <<issued, saved, pending, ids, evidenceSnapshot, flags, effects, built, history>>

\* An abandoned call is refused, or never arrives.
Lose(call) ==
  /\ call.stage = "abandoned"
  /\ calls' = calls \ {call}
  /\ UNCHANGED <<world, saved, pending, ids, evidenceSnapshot, flags, effects, built, history>>
------------------------------------------------------------------------------
(* The handlers, from the answer on.                                       *)

Ends(call) ==
  /\ calls' = calls \ {call}
  /\ pending' = pending \ {Key(call)}

\* What an answer leaves behind is marked if its call has strayed.
Marked(marks, call, place) == IF call.strayed THEN marks \cup {place} ELSE marks \ {place}

\* The snapshot at hand is bound to the claim of the event, saved and shown.
FinishOpen(call) ==
  /\ call.kind = "open" /\ call.stage = "granted"
  /\ saved' = [saved EXCEPT ![<<call.coverage, call.claim>>] =
                 IF evidenceSnapshot = Empty THEN @ ELSE evidenceSnapshot]
  /\ miskept' = Marked(miskept, call, <<call.coverage, call.claim>>)
  /\ pending' = pending \ {Key(call)}
  /\ IF call.claim = evalClaimId
     THEN /\ calls' = calls \ {call}
          /\ UNCHANGED <<ids, effects, evidenceSnapshot>>
     ELSE /\ calls' = Strayed(calls \ {call})
          /\ Show(evalCoverageId, call.claim)
          /\ evidenceSnapshot' = Local(saved', evalCoverageId, call.claim, evidenceSnapshot)
  /\ UNCHANGED <<world, flags, built, misled>>

\* Stored now, or in conflict with the same content stored before.
FinishAttest(call) ==
  /\ call.kind = "attest" /\ call.stage = "granted"
  /\ evidenceAttested' = TRUE
  /\ misled' = Marked(misled, call, "attested")
  /\ Ends(call)
  /\ UNCHANGED <<world, saved, ids, evidenceSnapshot, signed, effects, built, miskept>>

FinishEvaluate(call) ==
  /\ call.kind = "evaluate" /\ call.stage = "granted"
  /\ signed' = call.claim
  /\ misled' = Marked(misled, call, "signed")
  /\ Ends(call)
  /\ UNCHANGED <<world, saved, ids, evidenceSnapshot, evidenceAttested, effects, built, miskept>>

FinishResolve(call) ==
  /\ call.kind = "resolve" /\ call.stage = "granted"
  /\ Ends(call)
  /\ UNCHANGED <<world, saved, ids, evidenceSnapshot, flags, effects, built, history>>

\* What is on its way may arrive although the page no longer waits for it.
Abandoned(some) ==
  {[call EXCEPT !.stage = "abandoned", !.strayed = FALSE] :
     call \in {c \in some : c.stage = "sent" /\ c.kind # "evaluate"}}

\* Mutant of Fails: a catch that does not set the status.
FailsSilently(call) ==
  /\ call.stage \in {"asking", "sent"}
  /\ calls' = (calls \ {call}) \cup Abandoned({call})
  /\ UNCHANGED <<world, saved, pending, ids, evidenceSnapshot, flags, effects, built, history>>

\* The failure branch of a handler or its catch: the wallet refuses, the
\* transaction reverts, the reply is an error or a limit, or none comes,
\* whether or not what was asked has been done.
Fails(call) ==
  /\ call.stage \in {"asking", "sent"}
  /\ calls' = (calls \ {call}) \cup Abandoned({call})
  /\ pending' = pending \ {Key(call)}
  /\ UNCHANGED <<world, saved, ids, evidenceSnapshot, flags, effects, built, history>>

\* The page is loaded anew: only localStorage stays.
Reload ==
  /\ calls' = Abandoned(InFlight) \cup (calls \ InFlight)
  /\ pending' = {}
  /\ evalCoverageId' = Empty
  /\ evalClaimId' = Empty
  /\ evidenceSnapshot' = Empty
  /\ evidenceAttested' = FALSE
  /\ signed' = Empty
  /\ resetTimer' = TRUE
  /\ rehydrations' = {}
  /\ misled' = {}
  /\ UNCHANGED <<world, saved, built, miskept>>

Next ==
  \/ \E coverage \in issued \cup {Empty}, claim \in 0..Cardinality(issued) :
       Type(coverage, claim)
  \/ EditEvidence
  \/ Reset
  \/ \E request \in rehydrations : Rehydrate(request)
  \/ \E coverage \in issued : onOpen(coverage)
  \/ onAttestEvidence
  \/ onEvaluate
  \/ onResolve
  \/ \E call \in calls :
       \/ Send(call) \/ Grant(call) \/ Lose(call) \/ Fails(call)
       \/ FinishOpen(call) \/ FinishAttest(call)
       \/ FinishEvaluate(call) \/ FinishResolve(call)
  \/ Reload

Spec == Init /\ [][Next]_vars
------------------------------------------------------------------------------
(* Properties.                                                             *)

\* Every variable has the type of the state it stands for.
TypeOK ==
  /\ issued \in DOMAIN MaxCalls
  /\ claims \in Seq([coverage : Coverages, content : Contents, open : BOOLEAN])
  /\ recorded \subseteq DOMAIN claims
  /\ saved \in [Coverages \X ClaimIds -> Contents \cup {Empty}]
  /\ calls \subseteq Calls
  /\ pending \subseteq {"open", "evaluate", "resolve"}
  /\ evalCoverageId \in Coverages \cup {Empty}
  /\ evalClaimId \in ClaimIds \cup {Empty}
  /\ evidenceSnapshot \in Contents \cup {Empty}
  /\ evidenceAttested \in BOOLEAN
  /\ signed \in ClaimIds \cup {Empty}
  /\ resetTimer \in BOOLEAN
  /\ rehydrations \subseteq Coverages \X ClaimIds
  /\ built \in 0..MaxBuilt
  /\ misled \subseteq {"attested", "signed"}
  /\ miskept \subseteq Coverages \X ClaimIds

\* Evaluate is unlocked only for the claim in the fields, which then has a
\* record: "a stale attested state can never unlock evaluation for different
\* inputs" (AppConsole.tsx:254-267).  It may lag behind the fields by the
\* timeout of the reset effect, and nothing more is promised where the answer
\* to an attestation came after the fields had changed.
UnlockedForShown ==
  evidenceAttested /\ "attested" \notin misled =>
    resetTimer \/ Recorded(evalCoverageId, evalClaimId)

\* The decision that is shown, and that Resolve sends, is for the claim and
\* the coverage in the fields, unless they changed while it was asked for
\* (AppConsole.tsx:261-267, 790, 805-818).
DecisionForShown ==
  signed # Empty /\ "signed" \notin misled =>
    \/ resetTimer
    \/ signed = evalClaimId /\ claims[signed].coverage = evalCoverageId

\* What localStorage holds for a claim is the content that the claim
\* committed to on the chain: "the EXACT snapshot committed at openClaim
\* survives reloads" (AppConsole.tsx:483-495, 557-558), unless the fields
\* changed while it was opened: then the snapshot of the claim they named
\* meanwhile is saved for the new one.
SavedIsCommitted ==
  \A coverage \in Coverages, id \in ClaimIds :
    saved[<<coverage, id>>] # Empty /\ <<coverage, id>> \notin miskept =>
      /\ id \in DOMAIN claims
      /\ claims[id].coverage = coverage
      /\ claims[id].content = saved[<<coverage, id>>]

\* Whatever the user does, the answer to a rehydration unlocks Evaluate only
\* if the claim in the fields at that moment has a record: the requests for
\* claims shown before are cancelled (AppConsole.tsx:563, 586, 594-596).
RehydratedForShown ==
  [][/\ rehydrations' # rehydrations
     /\ ~evidenceAttested /\ evidenceAttested'
     => Recorded(evalCoverageId, evalClaimId)]_vars

\* The page waits for one transaction at most, although the answer to a
\* rehydration may clear the status of a running evaluation (AppConsole.tsx:588)
\* and a second call of the evaluation card may then be started (939).
OneTransactionAtATime ==
  Cardinality({call \in InFlight : call.kind \in {"open", "resolve"}}) <= 1

\* The buttons are never locked for good: a pending status belongs to a call
\* in flight, whose end clears it (AppConsole.tsx:455-508, 713-722, 939).
PendingHasCall ==
  \A key \in pending : \E call \in InFlight : Key(call) = key
==============================================================================
