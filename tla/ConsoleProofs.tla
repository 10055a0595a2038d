---------------------------- MODULE ConsoleProofs ----------------------------
(***************************************************************************)
(* Why the console never acts on another claim than the one it shows, for  *)
(* any coverages, contents and calls, while the user goes on typing.       *)
(*                                                                         *)
(* A transaction keeps its own key pending until it ends.  A call that has *)
(* not strayed still has the claim that is shown, or the snapshot that it  *)
(* opened with, and what it was granted stays true of a chain on which     *)
(* claims only get more; what a strayed one leaves behind is marked.       *)
(***************************************************************************)
EXTENDS Console, FiniteSetTheorems, SequenceTheorems, TLAPS

Transactions == {"open", "resolve"}
Claim == [coverage : Coverages, content : Contents, open : BOOLEAN]

OneClaimEach ==
  \A id, other \in DOMAIN claims : claims[id].coverage = claims[other].coverage => id = other

\* A transaction holds its key, and so is the only one; a key has its call.
LockedIn(flying, keys) ==
  /\ \A call \in flying : call.kind \in Transactions => call.kind \in keys
  /\ \A call, other \in flying :
       call.kind \in Transactions /\ other.kind \in Transactions => call = other
  /\ \A key \in keys : \E call \in flying : Key(call) = key

Locked == LockedIn(InFlight, pending)

Requested == rehydrations \subseteq {ids}

\* What a call was granted stays true; only coverages with a content are opened.
GrantedHolds ==
  \A call \in calls :
    /\ call.kind = "open" => call.coverage \in Coverages /\ call.content \in Contents
    /\ call.stage = "granted" =>
         /\ call.kind = "open" =>
              /\ call.claim \in DOMAIN claims
              /\ claims[call.claim].coverage = call.coverage
              /\ claims[call.claim].content = call.content
         /\ call.kind \in {"attest", "evaluate"} => Recorded(call.coverage, call.claim)

\* A call that has not strayed is for what the page shows.
Awaited ==
  \A call \in InFlight :
    ~call.strayed =>
      /\ call.kind \in {"attest", "evaluate"} =>
           call.coverage = evalCoverageId /\ call.claim = evalClaimId
      /\ call.kind = "open" => evidenceSnapshot = call.content

\* The decision that is shown is for the claim and the coverage in the fields.
Decided ==
  signed # Empty /\ "signed" \notin misled =>
    resetTimer \/ (signed = evalClaimId /\ Recorded(evalCoverageId, signed))

IInv ==
  /\ TypeOK /\ OneClaimEach /\ Locked /\ Requested /\ GrantedHolds
  /\ Awaited /\ UnlockedForShown /\ Decided /\ SavedIsCommitted

------------------------------------------------------------------------------
\* Claims are no more than the coverages, which have one each.
LEMMA RoomForClaim ==
  ASSUME TypeOK, OneClaimEach, NEW coverage \in Coverages,
         \A id \in DOMAIN claims : claims[id].coverage # coverage
  PROVE  Len(claims) + 1 \in ClaimIds
<1>1. claims \in Seq(Claim)
  BY DEF TypeOK, Claim
<1>2. /\ Len(claims) \in Nat /\ DOMAIN claims = 1..Len(claims)
      /\ \A id \in 1..Len(claims) : claims[id].coverage \in Coverages
  <2>1. Len(claims) \in Nat /\ DOMAIN claims = 1..Len(claims)
    BY <1>1, LenProperties
  <2>2. \A id \in 1..Len(claims) : claims[id] \in Claim
    BY <1>1, ElementOfSeq
  <2> QED BY <2>1, <2>2 DEF Claim
<1> DEFINE n == Len(claims) + 1
<1> DEFINE owner == [id \in 1..n |-> IF id = n THEN coverage ELSE claims[id].coverage]
<1>3. owner \in Injection(1..n, Coverages)
  <2>1. owner \in [1..n -> Coverages]
    BY <1>2
  <2>2. ASSUME NEW a \in 1..n, NEW b \in 1..n, owner[a] = owner[b] PROVE a = b
    BY <1>2, <2>2 DEF OneClaimEach
  <2> QED BY <2>1, <2>2 DEF Injection, IsInjective
<1>4. Cardinality(1..n) <= Cardinality(Coverages)
  <2> HIDE DEF owner
  <2> QED BY <1>3, FS_Injection, ConsoleAssumption
<1>5. Cardinality(1..n) = n
  BY <1>2, FS_Interval
<1>6. Cardinality(Coverages) \in Nat
  BY FS_CardinalityType, ConsoleAssumption
<1> QED BY <1>2, <1>4, <1>5, <1>6 DEF ClaimIds

LEMMA InitIInv == Init => IInv
<1> SUFFICES ASSUME Init PROVE IInv
  OBVIOUS
<1>1. claims = <<>> /\ claims \in Seq(Claim) /\ DOMAIN claims = {}
  BY EmptySeq, LenProperties DEF Init
<1>2. issued \in DOMAIN MaxCalls
  BY DEF Init
<1>3. calls = {} /\ InFlight = {} /\ pending = {}
  BY DEF Init, FreshPage, InFlight
<1>4. TypeOK
  <2>1. claims \in Seq([coverage : Coverages, content : Contents, open : BOOLEAN])
    BY <1>1 DEF Claim
  <2>2. saved \in [Coverages \X ClaimIds -> Contents \cup {Empty}]
    BY DEF Init
  <2>3. built \in 0..MaxBuilt
    BY ConsoleAssumption DEF Init
  <2> QED BY <1>2, <2>1, <2>2, <2>3 DEF TypeOK, Init, FreshPage
<1>5. Locked /\ GrantedHolds /\ Awaited
  BY <1>3 DEF Locked, LockedIn, GrantedHolds, Awaited
<1>6. OneClaimEach /\ Requested /\ UnlockedForShown /\ Decided /\ SavedIsCommitted
  BY <1>1 DEF OneClaimEach, Requested, UnlockedForShown, Decided, SavedIsCommitted,
              Init, FreshPage, Empty
<1> QED BY <1>4, <1>5, <1>6 DEF IInv
------------------------------------------------------------------------------
(* The page, while no call ends.                                           *)

\* The chain, the calls and the pending keys are as they were.
LEMMA CallsKept ==
  ASSUME IInv, UNCHANGED <<world, calls, pending>>
  PROVE  OneClaimEach' /\ Locked' /\ GrantedHolds'
<1>1. UNCHANGED <<issued, claims, recorded>> /\ InFlight' = InFlight
  BY DEF world, InFlight
<1>2. \A coverage, claim : Recorded(coverage, claim)' <=> Recorded(coverage, claim)
  BY <1>1 DEF Recorded
<1>3. OneClaimEach'
  BY <1>1 DEF IInv, OneClaimEach
<1>4. Locked'
  BY <1>1 DEF IInv, Locked, LockedIn, Key
<1>5. GrantedHolds'
  BY <1>1, <1>2 DEF IInv, GrantedHolds
<1> QED BY <1>3, <1>4, <1>5

\* What localStorage has for a claim is a content, if it is not empty.
LEMMA LocalTyped ==
  ASSUME NEW storage \in [Coverages \X ClaimIds -> Contents \cup {Empty}],
         NEW snapshot \in Contents \cup {Empty}, NEW coverage, NEW claim
  PROVE  Local(storage, coverage, claim, snapshot) \in Contents \cup {Empty}
BY DEF Local

\* A claim that the user types is one that the chain may have.
LEMMA TypedClaim ==
  ASSUME TypeOK, NEW claim \in 0..Cardinality(issued)
  PROVE  claim \in ClaimIds \cup {Empty} /\ issued \subseteq Coverages
<1>1. issued \subseteq Coverages
  BY ConsoleAssumption DEF TypeOK
<1>2. /\ IsFiniteSet(issued) /\ Cardinality(issued) <= Cardinality(Coverages)
  BY <1>1, FS_Subset, ConsoleAssumption
<1>3. Cardinality(Coverages) \in Nat /\ Cardinality(issued) \in Nat
  BY <1>2, FS_CardinalityType, ConsoleAssumption
<1> QED BY <1>1, <1>2, <1>3 DEF ClaimIds, Empty

\* A call may stray, and is the same otherwise.
LEMMA AstrayMoves ==
  ASSUME NEW call \in Calls
  PROVE  /\ Astray(call) \in Calls
         /\ Astray(call).kind = call.kind /\ Astray(call).stage = call.stage
         /\ Astray(call).coverage = call.coverage /\ Astray(call).claim = call.claim
         /\ Astray(call).content = call.content
         /\ Astray(call).strayed = (call.strayed \/ Strays(call))
         /\ Key(Astray(call)) = Key(call)
<1>1. Strays(call) \in BOOLEAN
  BY DEF Strays
<1> QED BY <1>1 DEF Astray, Calls, Key

\* The fields change: the calls that go on keep their keys and what they were
\* granted, and those whose answer goes to the fields have strayed.
LEMMA StrayedKept ==
  ASSUME IInv, NEW some \in SUBSET calls, calls' = Strayed(some), UNCHANGED world,
         LockedIn({call \in some : call.stage # "abandoned"}, pending')
  PROVE  calls' \subseteq Calls /\ Locked' /\ GrantedHolds' /\ Awaited'
<1> DEFINE flying == {call \in some : call.stage # "abandoned"}
<1>1. some \subseteq Calls
  BY DEF IInv, TypeOK
<1>2. \A new \in calls' : \E call \in some : new = Astray(call)
  BY DEF Strayed
<1>3. \A call \in some : Astray(call) \in calls'
  BY DEF Strayed
<1>4. calls' \subseteq Calls
  BY <1>1, <1>2, AstrayMoves
<1>5. /\ \A new \in InFlight' : \E call \in flying : new = Astray(call)
      /\ \A call \in flying : Astray(call) \in InFlight'
  BY <1>1, <1>2, <1>3, AstrayMoves DEF InFlight
<1>6. Locked'
  <2>1. /\ \A call \in flying : call.kind \in Transactions => call.kind \in pending'
        /\ \A call, other \in flying :
             call.kind \in Transactions /\ other.kind \in Transactions => call = other
        /\ \A key \in pending' : \E call \in flying : Key(call) = key
    BY DEF LockedIn
  <2>2. ASSUME NEW new \in InFlight', new.kind \in Transactions PROVE new.kind \in pending'
    BY <1>1, <1>5, <2>1, <2>2, AstrayMoves
  <2>3. ASSUME NEW new \in InFlight', NEW other \in InFlight',
               new.kind \in Transactions, other.kind \in Transactions
        PROVE  new = other
    <3>1. PICK call \in flying : new = Astray(call)
      BY <1>5
    <3>2. PICK last \in flying : other = Astray(last)
      BY <1>5
    <3>3. call.kind \in Transactions /\ last.kind \in Transactions
      BY <1>1, <2>3, <3>1, <3>2, AstrayMoves
    <3> QED BY <2>1, <3>1, <3>2, <3>3
  <2>4. ASSUME NEW key \in pending' PROVE \E new \in InFlight' : Key(new) = key
    BY <1>1, <1>5, <2>1, AstrayMoves
  <2> QED BY <2>2, <2>3, <2>4 DEF Locked, LockedIn, Key
<1>7. GrantedHolds'
  <2>1. UNCHANGED <<claims, recorded>>
    BY DEF world
  <2> QED BY <1>1, <1>2, <2>1, AstrayMoves DEF IInv, GrantedHolds, Recorded
<1>8. Awaited'
  <2>1. \A new \in InFlight' : new.kind \in {"attest", "evaluate", "open"} => new.strayed
    <3> SUFFICES ASSUME NEW new \in InFlight', new.kind \in {"attest", "evaluate", "open"}
                 PROVE  new.strayed
      OBVIOUS
    <3>1. PICK call \in flying : new = Astray(call)
      BY <1>5
    <3>2. call \in Calls /\ call.stage # "abandoned"
      BY <1>1
    <3> QED BY <3>1, <3>2, AstrayMoves DEF Strays
  <2> QED BY <2>1 DEF Awaited
<1> QED BY <1>4, <1>6, <1>7, <1>8

LEMMA TypeKeeps ==
  ASSUME IInv, NEW coverage \in issued \cup {Empty}, NEW claim \in 0..Cardinality(issued),
         Type(coverage, claim)
  PROVE  IInv'
<1>1. /\ evalCoverageId' = coverage /\ evalClaimId' = claim /\ resetTimer' = TRUE
      /\ rehydrations' = Rehydration(coverage, claim)
      /\ evidenceSnapshot' = Local(saved, coverage, claim, evidenceSnapshot)
      /\ calls' = Strayed(calls)
      /\ UNCHANGED <<world, saved, pending, evidenceAttested, signed, built, misled, miskept>>
  BY DEF Type, Show, Uncancelled, flags, history
<1>2. UNCHANGED <<issued, claims, recorded>>
  BY <1>1 DEF world
<1>3. coverage \in Coverages \cup {Empty} /\ claim \in ClaimIds \cup {Empty}
  BY TypedClaim DEF IInv
<1>4. calls' \subseteq Calls /\ Locked' /\ GrantedHolds' /\ Awaited'
  <2>1. LockedIn({call \in calls : call.stage # "abandoned"}, pending')
    BY <1>1 DEF IInv, Locked, InFlight
  <2> QED BY <1>1, <2>1, StrayedKept
<1>5. TypeOK'
  <2>1. evidenceSnapshot' \in Contents \cup {Empty}
    BY <1>1, LocalTyped DEF IInv, TypeOK
  <2>2. rehydrations' \subseteq Coverages \X ClaimIds
    BY <1>1, <1>3 DEF Rehydration
  <2> QED BY <1>1, <1>2, <1>3, <1>4, <2>1, <2>2 DEF IInv, TypeOK
<1>6. OneClaimEach'
  BY <1>2 DEF IInv, OneClaimEach
<1>7. Requested'
  BY <1>1 DEF Requested, Rehydration, ids
<1>8. UnlockedForShown' /\ Decided'
  BY <1>1, <1>2 DEF UnlockedForShown, Decided, Recorded
<1>9. SavedIsCommitted'
  BY <1>1, <1>2 DEF IInv, SavedIsCommitted
<1> QED BY <1>4, <1>5, <1>6, <1>7, <1>8, <1>9 DEF IInv

LEMMA EditKeeps == IInv /\ EditEvidence => IInv'
<1> SUFFICES ASSUME IInv, EditEvidence PROVE IInv'
  OBVIOUS
<1>1. /\ resetTimer' = TRUE
      /\ UNCHANGED <<world, saved, calls, pending, evalCoverageId, evalClaimId,
                     evidenceSnapshot, evidenceAttested, signed, rehydrations, built, misled, miskept>>
  BY DEF EditEvidence, ids, flags, history
<1>2. UNCHANGED <<issued, claims, recorded>> /\ InFlight' = InFlight
  BY <1>1 DEF world, InFlight
<1>3. TypeOK'
  BY <1>1, <1>2 DEF IInv, TypeOK
<1>4. OneClaimEach' /\ Locked' /\ GrantedHolds'
  BY <1>1, CallsKept
<1>5. Requested' /\ Awaited' /\ UnlockedForShown' /\ Decided' /\ SavedIsCommitted'
  BY <1>1, <1>2
     DEF IInv, Requested, ids, Awaited, UnlockedForShown, Decided, Recorded, SavedIsCommitted
<1> QED BY <1>3, <1>4, <1>5 DEF IInv

LEMMA ResetKeeps == IInv /\ Reset => IInv'
<1> SUFFICES ASSUME IInv, Reset PROVE IInv'
  OBVIOUS
<1>1. /\ resetTimer' = FALSE /\ evidenceAttested' = FALSE /\ signed' = Empty /\ misled' = {}
      /\ UNCHANGED <<world, saved, calls, pending, evalCoverageId, evalClaimId,
                     evidenceSnapshot, rehydrations, built, miskept>>
  BY DEF Reset, ids
<1>2. UNCHANGED <<issued, claims, recorded>> /\ InFlight' = InFlight
  BY <1>1 DEF world, InFlight
<1>3. TypeOK'
  BY <1>1, <1>2 DEF IInv, TypeOK
<1>4. OneClaimEach' /\ Locked' /\ GrantedHolds'
  BY <1>1, CallsKept
<1>5. Requested' /\ Awaited' /\ UnlockedForShown' /\ Decided' /\ SavedIsCommitted'
  BY <1>1, <1>2
     DEF IInv, Requested, ids, Awaited, UnlockedForShown, Decided, SavedIsCommitted
<1> QED BY <1>3, <1>4, <1>5 DEF IInv

\* The request was for the claim that is shown, and the evaluation whose key it
\* may clear is no transaction.
LEMMA RehydrateKeeps ==
  ASSUME IInv, NEW request \in rehydrations, Rehydrate(request)
  PROVE  IInv'
<1>1. /\ rehydrations' = rehydrations \ {request}
      /\ \/ UNCHANGED <<evidenceAttested, pending, misled>>
         \/ /\ Recorded(request[1], request[2])
            /\ evidenceAttested' = TRUE
            /\ pending' = pending \ {"evaluate"}
            /\ misled' = misled \ {"attested"}
      /\ UNCHANGED <<world, saved, calls, evalCoverageId, evalClaimId,
                     evidenceSnapshot, signed, resetTimer, built, miskept>>
  BY DEF Rehydrate, ids
<1>2. UNCHANGED <<issued, claims, recorded>> /\ InFlight' = InFlight
  BY <1>1 DEF world, InFlight
<1>3. request = <<evalCoverageId, evalClaimId>>
  BY DEF IInv, Requested, ids
<1>4. TypeOK'
  BY <1>1, <1>2 DEF IInv, TypeOK
<1>5. OneClaimEach' /\ GrantedHolds'
  BY <1>1, <1>2 DEF IInv, OneClaimEach, GrantedHolds, Recorded
<1>6. Locked'
  BY <1>1, <1>2 DEF IInv, Locked, LockedIn, Key, Transactions
<1>7. Requested' /\ Awaited' /\ SavedIsCommitted'
  BY <1>1, <1>2 DEF IInv, Requested, ids, Awaited, SavedIsCommitted
<1>8. UnlockedForShown' /\ Decided'
  BY <1>1, <1>2, <1>3 DEF IInv, UnlockedForShown, Decided, Recorded
<1> QED BY <1>4, <1>5, <1>6, <1>7, <1>8 DEF IInv
------------------------------------------------------------------------------
(* A handler starts.                                                       *)

\* It finds no key pending, so no transaction in flight.
LEMMA StartKeeps ==
  ASSUME IInv, NEW kind \in Kinds, NEW coverage \in Coverages \cup {Empty},
         NEW claim \in ClaimIds \cup {Empty}, NEW content \in Contents \cup {Empty},
         Start(kind, coverage, claim, content), UNCHANGED world,
         kind = "open" => coverage \in Coverages /\ content \in Contents
  PROVE  LET call == [kind |-> kind, stage |-> "asking", coverage |-> coverage,
                      claim |-> claim, content |-> content, strayed |-> FALSE] IN
         /\ call \in Calls /\ calls' \subseteq Calls
         /\ pending' \subseteq {"open", "evaluate", "resolve"}
         /\ OneClaimEach' /\ Locked' /\ GrantedHolds'
         /\ InFlight' = InFlight \cup {call}
         /\ \A other \in InFlight : other.kind # "open"
<1> DEFINE call == [kind |-> kind, stage |-> "asking", coverage |-> coverage,
                    claim |-> claim, content |-> content, strayed |-> FALSE]
<1>1. /\ pending = {} /\ calls' = calls \cup {call} /\ pending' = {Key(call)}
      /\ UNCHANGED <<issued, claims, recorded>>
  BY DEF Start, Busy, world
<1>2. call \in Calls
  BY DEF Calls
<1>3. Key(call) = IF kind = "attest" THEN "evaluate" ELSE kind
  BY DEF Key
<1>4. InFlight' = InFlight \cup {call}
  BY <1>1 DEF InFlight
<1>5. \A other \in InFlight : other.kind \notin Transactions
  BY <1>1 DEF IInv, Locked, LockedIn
<1>6. Locked'
  <2>1. \A key \in pending' : \E other \in InFlight' : Key(other) = key
    BY <1>1, <1>4
  <2> QED BY <1>1, <1>3, <1>4, <1>5, <2>1 DEF Locked, LockedIn, Transactions, Key
<1>7. OneClaimEach' /\ GrantedHolds'
  BY <1>1 DEF IInv, OneClaimEach, GrantedHolds, Recorded
<1>8. calls' \subseteq Calls /\ pending' \subseteq {"open", "evaluate", "resolve"}
  BY <1>1, <1>2, <1>3 DEF IInv, TypeOK, Kinds
<1> QED BY <1>1, <1>2, <1>4, <1>5, <1>6, <1>7, <1>8 DEF Transactions

LEMMA OpenKeeps ==
  ASSUME IInv, NEW coverage \in issued, onOpen(coverage)
  PROVE  IInv'
<1>1. /\ built < MaxBuilt /\ built' = built + 1 /\ evidenceSnapshot' = built + 1
      /\ Start("open", coverage, Empty, built + 1)
      /\ UNCHANGED <<world, saved, evalCoverageId, evalClaimId, evidenceAttested, signed,
                     resetTimer, rehydrations, misled, miskept>>
  BY DEF onOpen, ids, flags, effects, history
<1>2. UNCHANGED <<issued, claims, recorded>>
  BY <1>1 DEF world
<1>3. coverage \in Coverages
  BY ConsoleAssumption DEF IInv, TypeOK
<1>4. built + 1 \in Contents /\ built' \in 0..MaxBuilt
  BY <1>1, ConsoleAssumption DEF IInv, TypeOK, Contents
<1> DEFINE call == [kind |-> "open", stage |-> "asking", coverage |-> coverage,
                    claim |-> Empty, content |-> built + 1, strayed |-> FALSE]
<1>5. /\ calls' \subseteq Calls /\ pending' \subseteq {"open", "evaluate", "resolve"}
      /\ OneClaimEach' /\ Locked' /\ GrantedHolds'
      /\ InFlight' = InFlight \cup {call}
      /\ \A other \in InFlight : other.kind # "open"
  BY <1>1, <1>3, <1>4, StartKeeps DEF Kinds
<1>6. TypeOK'
  BY <1>1, <1>2, <1>4, <1>5 DEF IInv, TypeOK
<1>7. Awaited'
  BY <1>1, <1>2, <1>5 DEF IInv, Awaited
<1>8. Requested' /\ UnlockedForShown' /\ Decided' /\ SavedIsCommitted'
  BY <1>1, <1>2
     DEF IInv, Requested, ids, UnlockedForShown, Decided, Recorded, SavedIsCommitted
<1> QED BY <1>5, <1>6, <1>7, <1>8 DEF IInv

LEMMA AttestKeeps == IInv /\ onAttestEvidence => IInv'
<1> SUFFICES ASSUME IInv, onAttestEvidence PROVE IInv'
  OBVIOUS
<1>1. /\ Start("attest", evalCoverageId, evalClaimId, evidenceSnapshot)
      /\ UNCHANGED <<world, saved, evalCoverageId, evalClaimId, evidenceSnapshot,
                     evidenceAttested, signed, resetTimer, rehydrations, built,
                     misled, miskept>>
  BY DEF onAttestEvidence, ids, flags, effects, history
<1>2. UNCHANGED <<issued, claims, recorded>>
  BY <1>1 DEF world
<1> DEFINE call == [kind |-> "attest", stage |-> "asking", coverage |-> evalCoverageId,
                    claim |-> evalClaimId, content |-> evidenceSnapshot, strayed |-> FALSE]
<1>3. /\ calls' \subseteq Calls /\ pending' \subseteq {"open", "evaluate", "resolve"}
      /\ OneClaimEach' /\ Locked' /\ GrantedHolds'
      /\ InFlight' = InFlight \cup {call}
      /\ \A other \in InFlight : other.kind # "open"
  BY <1>1, StartKeeps DEF Kinds, IInv, TypeOK
<1>4. TypeOK'
  BY <1>1, <1>2, <1>3 DEF IInv, TypeOK
<1>5. Awaited'
  BY <1>1, <1>2, <1>3 DEF IInv, Awaited
<1>6. Requested' /\ UnlockedForShown' /\ Decided' /\ SavedIsCommitted'
  BY <1>1, <1>2
     DEF IInv, Requested, ids, UnlockedForShown, Decided, Recorded, SavedIsCommitted
<1> QED BY <1>3, <1>4, <1>5, <1>6 DEF IInv

LEMMA EvaluateKeeps == IInv /\ onEvaluate => IInv'
<1> SUFFICES ASSUME IInv, onEvaluate PROVE IInv'
  OBVIOUS
<1>1. /\ Start("evaluate", evalCoverageId, evalClaimId, Empty) /\ signed' = Empty
      /\ UNCHANGED <<world, saved, evalCoverageId, evalClaimId, evidenceSnapshot,
                     evidenceAttested, resetTimer, rehydrations, built,
                     misled, miskept>>
  BY DEF onEvaluate, ids, effects, history
<1>2. UNCHANGED <<issued, claims, recorded>>
  BY <1>1 DEF world
<1> DEFINE call == [kind |-> "evaluate", stage |-> "asking", coverage |-> evalCoverageId,
                    claim |-> evalClaimId, content |-> Empty, strayed |-> FALSE]
<1>3. /\ calls' \subseteq Calls /\ pending' \subseteq {"open", "evaluate", "resolve"}
      /\ OneClaimEach' /\ Locked' /\ GrantedHolds'
      /\ InFlight' = InFlight \cup {call}
      /\ \A other \in InFlight : other.kind # "open"
  BY <1>1, StartKeeps DEF Kinds, IInv, TypeOK
<1>4. TypeOK'
  BY <1>1, <1>2, <1>3 DEF IInv, TypeOK
<1>5. Awaited'
  BY <1>1, <1>2, <1>3 DEF IInv, Awaited
<1>6. Requested' /\ UnlockedForShown' /\ Decided' /\ SavedIsCommitted'
  BY <1>1, <1>2
     DEF IInv, Requested, ids, UnlockedForShown, Decided, Recorded, SavedIsCommitted
<1> QED BY <1>3, <1>4, <1>5, <1>6 DEF IInv

LEMMA ResolveKeeps == IInv /\ onResolve => IInv'
<1> SUFFICES ASSUME IInv, onResolve PROVE IInv'
  OBVIOUS
<1>1. /\ Start("resolve", Empty, signed, Empty)
      /\ UNCHANGED <<world, saved, evalCoverageId, evalClaimId, evidenceSnapshot,
                     evidenceAttested, signed, resetTimer, rehydrations, built,
                     misled, miskept>>
  BY DEF onResolve, ids, flags, effects, history
<1>2. UNCHANGED <<issued, claims, recorded>>
  BY <1>1 DEF world
<1> DEFINE call == [kind |-> "resolve", stage |-> "asking", coverage |-> Empty,
                    claim |-> signed, content |-> Empty, strayed |-> FALSE]
<1>3. /\ calls' \subseteq Calls /\ pending' \subseteq {"open", "evaluate", "resolve"}
      /\ OneClaimEach' /\ Locked' /\ GrantedHolds'
      /\ InFlight' = InFlight \cup {call}
      /\ \A other \in InFlight : other.kind # "open"
  BY <1>1, StartKeeps DEF Kinds, IInv, TypeOK
<1>4. TypeOK'
  BY <1>1, <1>2, <1>3 DEF IInv, TypeOK
<1>5. Awaited'
  BY <1>1, <1>2, <1>3 DEF IInv, Awaited
<1>6. Requested' /\ UnlockedForShown' /\ Decided' /\ SavedIsCommitted'
  BY <1>1, <1>2
     DEF IInv, Requested, ids, UnlockedForShown, Decided, Recorded, SavedIsCommitted
<1> QED BY <1>3, <1>4, <1>5, <1>6 DEF IInv
------------------------------------------------------------------------------
(* A call goes on.                                                         *)

\* A call in flight is replaced by itself at a later stage.
LEMMA Replaced ==
  ASSUME IInv, NEW call \in InFlight, NEW after, after \in Calls,
         after.stage \in {"sent", "granted"}, after.kind = call.kind,
         calls' = (calls \ {call}) \cup {after},
         pending' = pending \/ pending' = pending \cup {Key(call)}
  PROVE  /\ calls' \subseteq Calls /\ pending' \subseteq {"open", "evaluate", "resolve"}
         /\ InFlight' = (InFlight \ {call}) \cup {after}
         /\ Locked'
<1>1. call \in Calls /\ call \in calls
  BY DEF InFlight, IInv, TypeOK
<1>2. Key(after) = Key(call) /\ Key(call) \in {"open", "evaluate", "resolve"}
  BY <1>1 DEF Key, Calls, Kinds
<1>3. calls' \subseteq Calls /\ pending' \subseteq {"open", "evaluate", "resolve"}
  BY <1>2 DEF IInv, TypeOK
<1>4. InFlight' = (InFlight \ {call}) \cup {after}
  BY DEF InFlight
<1>5. \A key \in pending' : \E c \in InFlight' : Key(c) = key
  <2> SUFFICES ASSUME NEW key \in pending' PROVE \E c \in InFlight' : Key(c) = key
    OBVIOUS
  <2>1. CASE key = Key(call)
    BY <1>2, <1>4, <2>1
  <2>2. CASE key # Key(call)
    <3>1. PICK c \in InFlight : Key(c) = key
      BY <2>2 DEF IInv, Locked, LockedIn
    <3> QED BY <1>4, <2>2, <3>1
  <2> QED BY <2>1, <2>2
<1>6. \A c \in InFlight' : c.kind \in Transactions => c.kind \in pending'
  BY <1>4 DEF IInv, Locked, LockedIn
<1>7. \A c, other \in InFlight' :
        c.kind \in Transactions /\ other.kind \in Transactions => c = other
  BY <1>4 DEF IInv, Locked, LockedIn
<1> QED BY <1>3, <1>4, <1>5, <1>6, <1>7 DEF Locked, LockedIn, Key

\* A call in flight ends and clears its key.
LEMMA Ended ==
  ASSUME IInv, NEW call \in InFlight, pending' = pending \ {Key(call)}
  PROVE  LockedIn(InFlight \ {call}, pending') /\ pending' \subseteq {"open", "evaluate", "resolve"}
<1> DEFINE rest == InFlight \ {call}
<1>1. call \in Calls
  BY DEF InFlight, IInv, TypeOK
<1>2. \A key \in pending' : \E c \in rest : Key(c) = key
  <2> SUFFICES ASSUME NEW key \in pending' PROVE \E c \in rest : Key(c) = key
    OBVIOUS
  <2>1. PICK c \in InFlight : Key(c) = key
    BY DEF IInv, Locked, LockedIn
  <2> QED BY <2>1
<1>3. ASSUME NEW c \in rest, c.kind \in Transactions PROVE c.kind \in pending'
  <2>1. c \in InFlight /\ c # call /\ c.kind \in pending
    BY <1>3 DEF IInv, Locked, LockedIn
  <2>2. c.kind # Key(call)
    <3> SUFFICES ASSUME c.kind = Key(call) PROVE FALSE
      OBVIOUS
    <3>1. call.kind = c.kind
      BY <1>3 DEF Key, Transactions
    <3> QED BY <1>3, <2>1, <3>1 DEF IInv, Locked, LockedIn
  <2> QED BY <2>1, <2>2
<1>4. \A c, other \in rest :
        c.kind \in Transactions /\ other.kind \in Transactions => c = other
  BY DEF IInv, Locked, LockedIn
<1> QED BY <1>2, <1>3, <1>4 DEF LockedIn, IInv, TypeOK

LEMMA SendKeeps ==
  ASSUME IInv, NEW call \in calls, Send(call)
  PROVE  IInv'
<1> DEFINE after == [call EXCEPT !.stage = "sent"]
<1>1. /\ call.stage = "asking" /\ calls' = (calls \ {call}) \cup {after}
      /\ pending' = pending \cup {Key(call)}
      /\ UNCHANGED <<world, saved, evalCoverageId, evalClaimId, evidenceSnapshot,
                     evidenceAttested, signed, resetTimer, rehydrations, built,
                     misled, miskept>>
  BY DEF Send, Advanced, ids, flags, effects, history
<1>2. UNCHANGED <<issued, claims, recorded>>
  BY <1>1 DEF world
<1>3. call \in Calls /\ call \in InFlight
  BY <1>1 DEF IInv, TypeOK, InFlight
<1>4. /\ after \in Calls /\ after.stage = "sent" /\ after.kind = call.kind
      /\ after.coverage = call.coverage /\ after.claim = call.claim
      /\ after.content = call.content /\ after.strayed = call.strayed
  BY <1>3 DEF Calls
<1> HIDE DEF after
<1>5. /\ calls' \subseteq Calls /\ pending' \subseteq {"open", "evaluate", "resolve"}
      /\ InFlight' = (InFlight \ {call}) \cup {after}
      /\ Locked'
  BY <1>1, <1>3, <1>4, Replaced
<1>6. TypeOK'
  BY <1>1, <1>2, <1>5 DEF IInv, TypeOK
<1>7. OneClaimEach' /\ GrantedHolds'
  BY <1>1, <1>2, <1>4 DEF IInv, OneClaimEach, GrantedHolds, Recorded
<1>8. Awaited'
  BY <1>1, <1>2, <1>3, <1>4, <1>5 DEF IInv, Awaited
<1>9. Requested' /\ UnlockedForShown' /\ Decided' /\ SavedIsCommitted'
  BY <1>1, <1>2
     DEF IInv, Requested, ids, UnlockedForShown, Decided, Recorded, SavedIsCommitted
<1> QED BY <1>5, <1>6, <1>7, <1>8, <1>9 DEF IInv

LEMMA LoseKeeps ==
  ASSUME IInv, NEW call \in calls, Lose(call)
  PROVE  IInv'
<1>1. /\ call.stage = "abandoned" /\ calls' = calls \ {call}
      /\ UNCHANGED <<world, saved, pending, evalCoverageId, evalClaimId, evidenceSnapshot,
                     evidenceAttested, signed, resetTimer, rehydrations, built,
                     misled, miskept>>
  BY DEF Lose, ids, flags, effects, history
<1>2. UNCHANGED <<issued, claims, recorded>> /\ InFlight' = InFlight
  BY <1>1 DEF world, InFlight
<1>3. TypeOK'
  BY <1>1, <1>2 DEF IInv, TypeOK
<1>4. OneClaimEach' /\ GrantedHolds' /\ Locked'
  BY <1>1, <1>2
     DEF IInv, OneClaimEach, GrantedHolds, Recorded, Locked, LockedIn, Key
<1>5. Awaited' /\ Requested' /\ UnlockedForShown' /\ Decided' /\ SavedIsCommitted'
  BY <1>1, <1>2
     DEF IInv, Awaited, Requested, ids, UnlockedForShown, Decided, Recorded, SavedIsCommitted
<1> QED BY <1>3, <1>4, <1>5 DEF IInv

\* What a handler gives up may still arrive, but is waited for no more.
LEMMA FailsKeeps ==
  ASSUME IInv, NEW call \in calls, Fails(call)
  PROVE  IInv'
<1>1. /\ call.stage \in {"asking", "sent"}
      /\ calls' = (calls \ {call}) \cup Abandoned({call})
      /\ pending' = pending \ {Key(call)}
      /\ UNCHANGED <<world, saved, evalCoverageId, evalClaimId, evidenceSnapshot,
                     evidenceAttested, signed, resetTimer, rehydrations, built,
                     misled, miskept>>
  BY DEF Fails, ids, flags, effects, history
<1>2. UNCHANGED <<issued, claims, recorded>>
  BY <1>1 DEF world
<1>3. call \in Calls /\ call \in InFlight
  BY <1>1 DEF IInv, TypeOK, InFlight
<1>4. \A c \in Abandoned({call}) :
        /\ c \in Calls /\ c.stage = "abandoned"
        /\ c.kind = call.kind /\ c.coverage = call.coverage /\ c.content = call.content
  <2> DEFINE given == [call EXCEPT !.stage = "abandoned", !.strayed = FALSE]
  <2>1. /\ given \in Calls /\ given.stage = "abandoned" /\ given.kind = call.kind
        /\ given.coverage = call.coverage /\ given.content = call.content
    BY <1>3 DEF Calls
  <2>2. \A c \in Abandoned({call}) : c = given
    BY DEF Abandoned
  <2> QED BY <2>1, <2>2
<1>5. InFlight' = InFlight \ {call}
  BY <1>1, <1>3, <1>4 DEF InFlight
<1>6. Locked' /\ pending' \subseteq {"open", "evaluate", "resolve"}
  <2>1. LockedIn(InFlight \ {call}, pending') /\ pending' \subseteq {"open", "evaluate", "resolve"}
    BY <1>1, <1>3, Ended
  <2> QED BY <1>5, <2>1 DEF Locked, LockedIn, Key
<1>7. TypeOK'
  <2>1. calls' \subseteq Calls
    BY <1>1, <1>4 DEF IInv, TypeOK
  <2> QED BY <1>1, <1>2, <1>6, <2>1 DEF IInv, TypeOK
<1>8. OneClaimEach' /\ GrantedHolds'
  BY <1>1, <1>2, <1>4 DEF IInv, OneClaimEach, GrantedHolds, Recorded
<1>9. Awaited' /\ Requested' /\ UnlockedForShown' /\ Decided' /\ SavedIsCommitted'
  BY <1>1, <1>2, <1>5
     DEF IInv, Awaited, Requested, ids, UnlockedForShown, Decided, Recorded, SavedIsCommitted
<1> QED BY <1>6, <1>7, <1>8, <1>9 DEF IInv

LEMMA ReloadKeeps == IInv /\ Reload => IInv'
<1> SUFFICES ASSUME IInv, Reload PROVE IInv'
  OBVIOUS
<1>1. /\ calls' = Abandoned(InFlight) \cup (calls \ InFlight)
      /\ pending' = {} /\ evalCoverageId' = Empty /\ evalClaimId' = Empty
      /\ evidenceSnapshot' = Empty /\ evidenceAttested' = FALSE /\ signed' = Empty
      /\ resetTimer' = TRUE /\ rehydrations' = {} /\ misled' = {}
      /\ UNCHANGED <<world, saved, built, miskept>>
  BY DEF Reload
<1>2. UNCHANGED <<issued, claims, recorded>>
  BY <1>1 DEF world
<1>3. \A c \in Abandoned(InFlight) :
        /\ c \in Calls /\ c.stage = "abandoned"
        /\ c.kind = "open" => c.coverage \in Coverages /\ c.content \in Contents
  <2>1. \A c \in InFlight :
          /\ c \in Calls
          /\ c.kind = "open" => c.coverage \in Coverages /\ c.content \in Contents
    BY DEF IInv, TypeOK, InFlight, GrantedHolds
  <2> QED BY <2>1 DEF Abandoned, Calls
<1>4. InFlight' = {}
  BY <1>1, <1>3 DEF InFlight
<1>5. TypeOK'
  <2>1. calls' \subseteq Calls
    BY <1>1, <1>3 DEF IInv, TypeOK
  <2> QED BY <1>1, <1>2, <2>1 DEF IInv, TypeOK
<1>6. OneClaimEach' /\ GrantedHolds'
  BY <1>1, <1>2, <1>3 DEF IInv, OneClaimEach, GrantedHolds, Recorded
<1>7. Locked' /\ Awaited'
  BY <1>1, <1>4 DEF Locked, LockedIn, Awaited
<1>8. Requested' /\ UnlockedForShown' /\ Decided' /\ SavedIsCommitted'
  BY <1>1, <1>2
     DEF IInv, Requested, UnlockedForShown, Decided, SavedIsCommitted
<1> QED BY <1>5, <1>6, <1>7, <1>8 DEF IInv
------------------------------------------------------------------------------
(* The chain and the server answer.                                        *)

\* Claims only get more, keep what they were opened with, and are one for each
\* coverage.
LEMMA ClaimsGrow ==
  ASSUME IInv, NEW call \in calls, Grantable(call), claims' = ClaimsAfter(call)
  PROVE  /\ claims' \in Seq(Claim) /\ DOMAIN claims \subseteq DOMAIN claims'
         /\ \A id \in DOMAIN claims :
              /\ claims'[id].coverage = claims[id].coverage
              /\ claims'[id].content = claims[id].content
         /\ OneClaimEach'
         /\ call.kind = "open" =>
              /\ Len(claims) + 1 \in ClaimIds /\ Len(claims) + 1 \in DOMAIN claims'
              /\ claims'[Len(claims) + 1].coverage = call.coverage
              /\ claims'[Len(claims) + 1].content = call.content
<1>1. claims \in Seq(Claim) /\ call \in Calls
  BY DEF IInv, TypeOK, Claim
<1>2. /\ Len(claims) \in Nat /\ DOMAIN claims = 1..Len(claims)
      /\ \A id \in DOMAIN claims : claims[id] \in Claim
  <2>1. Len(claims) \in Nat /\ DOMAIN claims = 1..Len(claims)
    BY <1>1, LenProperties
  <2> QED BY <1>1, <2>1, ElementOfSeq
<1>3. CASE call.kind = "open"
  <2>1. \A id \in DOMAIN claims : claims[id].coverage # call.coverage
    BY <1>3 DEF Grantable
  <2>2. Opened(call) \in Claim /\ call.coverage \in Coverages
    BY <1>3 DEF IInv, GrantedHolds, Opened, Claim
  <2>3. /\ Opened(call).coverage = call.coverage /\ Opened(call).content = call.content
    BY DEF Opened
  <2>4. claims' = Append(claims, Opened(call))
    BY <1>3 DEF ClaimsAfter
  <2>5. /\ claims' \in Seq(Claim) /\ Len(claims') = Len(claims) + 1
        /\ \A id \in 1..Len(claims) : claims'[id] = claims[id]
        /\ claims'[Len(claims) + 1] = Opened(call)
    BY <1>1, <2>2, <2>4, AppendProperties
  <2>6. DOMAIN claims' = 1..(Len(claims) + 1)
    BY <2>5, LenProperties
  <2>7. Len(claims) + 1 \in ClaimIds
    BY <2>1, <2>2, RoomForClaim DEF IInv
  <2>8. OneClaimEach'
    <3> SUFFICES ASSUME NEW id \in DOMAIN claims', NEW other \in DOMAIN claims',
                        claims'[id].coverage = claims'[other].coverage
                 PROVE  id = other
      BY DEF OneClaimEach
    <3>1. CASE id \in DOMAIN claims /\ other \in DOMAIN claims
      BY <1>2, <2>5, <3>1 DEF IInv, OneClaimEach
    <3>2. CASE id = Len(claims) + 1 \/ other = Len(claims) + 1
      BY <1>2, <2>1, <2>3, <2>5, <2>6, <3>2
    <3> QED BY <1>2, <2>6, <3>1, <3>2
  <2> QED BY <1>2, <2>3, <2>5, <2>6, <2>7, <2>8
<1>4. CASE call.kind = "resolve"
  <2>1. call.claim \in DOMAIN claims
    BY <1>4 DEF Grantable, OpenOnChain
  <2> DEFINE closed == [claims[call.claim] EXCEPT !.open = FALSE]
  <2>2. /\ closed \in Claim /\ closed.coverage = claims[call.claim].coverage
        /\ closed.content = claims[call.claim].content
    BY <1>2, <2>1 DEF Claim
  <2>3. claims' = [claims EXCEPT ![call.claim] = closed]
    BY <1>4 DEF ClaimsAfter
  <2> HIDE DEF closed
  <2>4. /\ claims' \in Seq(Claim) /\ Len(claims') = Len(claims)
        /\ \A id \in 1..Len(claims) : claims'[id] = IF id = call.claim THEN closed ELSE claims[id]
    BY <1>1, <1>2, <2>1, <2>2, <2>3, ExceptSeq
  <2>5. DOMAIN claims' = DOMAIN claims
    BY <2>3
  <2>6. \A id \in DOMAIN claims :
          /\ claims'[id].coverage = claims[id].coverage
          /\ claims'[id].content = claims[id].content
    BY <1>2, <2>2, <2>4
  <2>7. OneClaimEach'
    BY <2>5, <2>6 DEF IInv, OneClaimEach
  <2> QED BY <1>4, <2>4, <2>5, <2>6, <2>7
<1>5. CASE call.kind \in {"attest", "evaluate"}
  <2>1. claims' = claims
    BY <1>5 DEF ClaimsAfter
  <2> QED BY <1>1, <1>5, <2>1 DEF IInv, OneClaimEach
<1> QED BY <1>1, <1>3, <1>4, <1>5 DEF Calls, Kinds

LEMMA GrantKeeps ==
  ASSUME IInv, NEW call \in calls, Grant(call)
  PROVE  IInv'
<1>1. /\ call.stage \in {"sent", "abandoned"} /\ Grantable(call)
      /\ claims' = ClaimsAfter(call)
      /\ recorded' = IF call.kind = "attest" THEN recorded \cup {call.claim} ELSE recorded
      /\ calls' = Answered(call)
      /\ UNCHANGED <<issued, saved, pending, evalCoverageId, evalClaimId,
                     evidenceSnapshot, evidenceAttested, signed, resetTimer,
                     rehydrations, built, misled, miskept>>
  BY DEF Grant, ids, flags, effects, history
<1>2. /\ claims' \in Seq(Claim) /\ DOMAIN claims \subseteq DOMAIN claims'
      /\ \A id \in DOMAIN claims :
           /\ claims'[id].coverage = claims[id].coverage
           /\ claims'[id].content = claims[id].content
      /\ OneClaimEach'
      /\ call.kind = "open" =>
           /\ Len(claims) + 1 \in ClaimIds /\ Len(claims) + 1 \in DOMAIN claims'
           /\ claims'[Len(claims) + 1].coverage = call.coverage
           /\ claims'[Len(claims) + 1].content = call.content
  BY <1>1, ClaimsGrow
<1>3. recorded \subseteq DOMAIN claims
  BY DEF IInv, TypeOK
<1>4. recorded \subseteq recorded' /\ recorded' \subseteq DOMAIN claims'
  BY <1>1, <1>2, <1>3 DEF Grantable, OpenOnChain
<1>5. \A coverage, claim :
        Recorded(coverage, claim) => claim \in recorded' /\ claims'[claim].coverage = coverage
  BY <1>2, <1>3, <1>4 DEF Recorded
<1> DEFINE after == [call EXCEPT !.stage = "granted",
                                 !.claim = IF call.kind = "open" THEN Len(claims) + 1 ELSE @]
<1>6. call \in Calls
  BY DEF IInv, TypeOK
<1>7. /\ after \in Calls /\ after.stage = "granted" /\ after.kind = call.kind
      /\ after.coverage = call.coverage /\ after.content = call.content
      /\ after.strayed = call.strayed
      /\ after.claim = IF call.kind = "open" THEN Len(claims) + 1 ELSE call.claim
  BY <1>2, <1>6 DEF Calls
<1>8. \/ call.stage = "abandoned" /\ calls' = calls \ {call}
      \/ call.stage = "sent" /\ calls' = (calls \ {call}) \cup {after}
  BY <1>1 DEF Answered
<1> HIDE DEF after
<1>9. \/ InFlight' = InFlight
      \/ call \in InFlight /\ InFlight' = (InFlight \ {call}) \cup {after}
  BY <1>7, <1>8 DEF InFlight
<1>10. calls' \subseteq Calls /\ Locked'
  <2>1. CASE call.stage = "abandoned"
    <3>1. InFlight' = InFlight
      BY <1>8, <2>1 DEF InFlight
    <3> QED BY <1>1, <1>8, <2>1, <3>1 DEF IInv, TypeOK, Locked, LockedIn, Key
  <2>2. CASE call.stage = "sent"
    <3>1. call \in InFlight /\ calls' = (calls \ {call}) \cup {after}
      BY <1>8, <2>2 DEF InFlight
    <3> QED BY <1>1, <1>7, <3>1, Replaced
  <2> QED BY <1>1, <2>1, <2>2
<1>11. TypeOK'
  BY <1>1, <1>2, <1>4, <1>10 DEF IInv, TypeOK, Claim
<1>12. GrantedHolds'
  <2> SUFFICES ASSUME NEW c \in calls'
               PROVE  /\ c.kind = "open" => c.coverage \in Coverages /\ c.content \in Contents
                      /\ c.stage = "granted" =>
                           /\ c.kind = "open" =>
                                /\ c.claim \in DOMAIN claims'
                                /\ claims'[c.claim].coverage = c.coverage
                                /\ claims'[c.claim].content = c.content
                           /\ c.kind \in {"attest", "evaluate"} =>
                                c.claim \in recorded' /\ claims'[c.claim].coverage = c.coverage
    BY DEF GrantedHolds, Recorded
  <2>1. CASE c \in calls
    BY <1>2, <1>5, <2>1 DEF IInv, GrantedHolds
  <2>2. CASE c = after
    <3>1. c.kind = "open" => c.coverage \in Coverages /\ c.content \in Contents
      BY <1>7, <2>2 DEF IInv, GrantedHolds
    <3>2. call.kind = "attest" =>
            call.claim \in recorded' /\ claims'[call.claim].coverage = call.coverage
      BY <1>1, <1>2 DEF Grantable, OpenOnChain
    <3>3. call.kind = "evaluate" =>
            call.claim \in recorded' /\ claims'[call.claim].coverage = call.coverage
      BY <1>1, <1>5 DEF Grantable
    <3> QED BY <1>2, <1>7, <2>2, <3>1, <3>2, <3>3
  <2> QED BY <1>8, <2>1, <2>2
<1>13. Awaited'
  BY <1>1, <1>7, <1>9 DEF IInv, Awaited
<1>14. Requested'
  BY <1>1 DEF IInv, Requested, ids
<1>15. UnlockedForShown' /\ Decided'
  BY <1>1, <1>5 DEF IInv, UnlockedForShown, Decided, Recorded
<1>16. SavedIsCommitted'
  BY <1>1, <1>2 DEF IInv, SavedIsCommitted
<1> QED BY <1>2, <1>10, <1>11, <1>12, <1>13, <1>14, <1>15, <1>16 DEF IInv
------------------------------------------------------------------------------
(* A handler goes on from its answer.                                      *)

\* A call that was answered ends.  If the fields change with it, the others in
\* flight have strayed.
LEMMA Finished ==
  ASSUME IInv, NEW call \in calls, call.stage = "granted",
         calls' \in {calls \ {call}, Strayed(calls \ {call})},
         pending' = pending \ {Key(call)}, UNCHANGED world
  PROVE  /\ call \in Calls /\ call \in InFlight /\ calls' \subseteq Calls
         /\ pending' \subseteq {"open", "evaluate", "resolve"}
         /\ UNCHANGED <<issued, claims, recorded>>
         /\ OneClaimEach' /\ Locked' /\ GrantedHolds'
         /\ calls' = calls \ {call} => InFlight' = InFlight \ {call}
         /\ calls' # calls \ {call} => Awaited'
<1>1. UNCHANGED <<issued, claims, recorded>>
  BY DEF world
<1>2. call \in Calls /\ call \in InFlight
  BY DEF IInv, TypeOK, InFlight
<1>3. LockedIn(InFlight \ {call}, pending') /\ pending' \subseteq {"open", "evaluate", "resolve"}
  BY <1>2, Ended
<1>4. OneClaimEach'
  BY <1>1 DEF IInv, OneClaimEach
<1>5. CASE calls' = calls \ {call}
  <2>1. InFlight' = InFlight \ {call}
    BY <1>5 DEF InFlight
  <2>2. Locked'
    BY <1>3, <2>1 DEF Locked, LockedIn, Key
  <2>3. calls' \subseteq Calls /\ GrantedHolds'
    BY <1>1, <1>5 DEF IInv, TypeOK, GrantedHolds, Recorded
  <2> QED BY <1>1, <1>2, <1>3, <1>4, <1>5, <2>1, <2>2, <2>3
<1>6. CASE calls' # calls \ {call}
  <2> DEFINE some == calls \ {call}
  <2>1. {c \in some : c.stage # "abandoned"} = InFlight \ {call}
    BY DEF InFlight
  <2>2. some \in SUBSET calls /\ calls' = Strayed(some)
    BY <1>6
  <2>3. LockedIn({c \in some : c.stage # "abandoned"}, pending')
    BY <1>3, <2>1
  <2>4. calls' \subseteq Calls /\ Locked' /\ GrantedHolds' /\ Awaited'
    <3> HIDE DEF some
    <3> QED BY <2>2, <2>3, StrayedKept
  <2> QED BY <1>1, <1>2, <1>3, <1>4, <1>6, <2>4
<1> QED BY <1>5, <1>6

\* What is saved is the snapshot at hand: the call's own, if it has not strayed.
LEMMA FinishOpenKeeps ==
  ASSUME IInv, NEW call \in calls, FinishOpen(call)
  PROVE  IInv'
<1>1. /\ call.kind = "open" /\ call.stage = "granted" /\ pending' = pending \ {Key(call)}
      /\ saved' = [saved EXCEPT ![<<call.coverage, call.claim>>] =
                     IF evidenceSnapshot = Empty THEN @ ELSE evidenceSnapshot]
      /\ miskept' = IF call.strayed THEN miskept \cup {<<call.coverage, call.claim>>}
                    ELSE miskept \ {<<call.coverage, call.claim>>}
      /\ UNCHANGED <<world, evidenceAttested, signed, built, misled>>
  BY DEF FinishOpen, flags, Marked
<1>2. \/ /\ calls' = calls \ {call}
         /\ UNCHANGED <<evalCoverageId, evalClaimId, resetTimer, rehydrations, evidenceSnapshot>>
      \/ /\ calls' = Strayed(calls \ {call})
         /\ evalCoverageId' = evalCoverageId /\ evalClaimId' = call.claim
         /\ resetTimer' = TRUE /\ rehydrations' = Rehydration(evalCoverageId, call.claim)
         /\ evidenceSnapshot' = Local(saved', evalCoverageId, call.claim, evidenceSnapshot)
  BY DEF FinishOpen, ids, effects, Show, Uncancelled
<1>3. /\ call \in Calls /\ call \in InFlight /\ calls' \subseteq Calls
      /\ pending' \subseteq {"open", "evaluate", "resolve"}
      /\ UNCHANGED <<issued, claims, recorded>>
      /\ OneClaimEach' /\ Locked' /\ GrantedHolds'
      /\ calls' = calls \ {call} => InFlight' = InFlight \ {call}
      /\ calls' # calls \ {call} => Awaited'
  <2>1. calls' \in {calls \ {call}, Strayed(calls \ {call})}
    BY <1>2
  <2> QED BY <1>1, <2>1, Finished
<1>4. /\ call.coverage \in Coverages /\ call.claim \in DOMAIN claims
      /\ claims[call.claim].coverage = call.coverage
      /\ claims[call.claim].content = call.content
  BY <1>1 DEF IInv, GrantedHolds
<1>5. call.claim \in ClaimIds
  <2>1. call.claim # Empty
    <3>1. DOMAIN claims = 1..Len(claims)
      BY LenProperties DEF IInv, TypeOK
    <3> QED BY <1>4, <3>1 DEF Empty
  <2> QED BY <1>3, <2>1 DEF Calls
<1>6. TypeOK'
  <2>1. saved' \in [Coverages \X ClaimIds -> Contents \cup {Empty}]
    BY <1>1 DEF IInv, TypeOK
  <2>2. evidenceSnapshot' \in Contents \cup {Empty}
    <3>1. evidenceSnapshot \in Contents \cup {Empty}
      BY DEF IInv, TypeOK
    <3>2. Local(saved', evalCoverageId, call.claim, evidenceSnapshot) \in Contents \cup {Empty}
      BY <2>1, <3>1, LocalTyped
    <3> QED BY <1>2, <3>1, <3>2
  <2>3. rehydrations' \subseteq Coverages \X ClaimIds
    BY <1>2, <1>5 DEF IInv, TypeOK, Rehydration
  <2>4. /\ evalCoverageId' \in Coverages \cup {Empty} /\ evalClaimId' \in ClaimIds \cup {Empty}
        /\ resetTimer' \in BOOLEAN
    BY <1>2, <1>5 DEF IInv, TypeOK
  <2>5. miskept' \subseteq Coverages \X ClaimIds
    BY <1>1, <1>4, <1>5 DEF IInv, TypeOK
  <2> QED BY <1>1, <1>3, <2>1, <2>2, <2>3, <2>4, <2>5 DEF IInv, TypeOK
<1>7. Requested'
  BY <1>2 DEF IInv, Requested, ids, Rehydration
<1>8. Awaited'
  <2> SUFFICES ASSUME calls' = calls \ {call} PROVE Awaited'
    BY <1>3
  <2>1. InFlight' \subseteq InFlight
    BY <1>3
  <2>2. CASE UNCHANGED <<evalCoverageId, evalClaimId, evidenceSnapshot>>
    BY <2>1, <2>2 DEF IInv, Awaited
  <2>3. CASE calls' = Strayed(calls \ {call})
    <3>1. \A c \in InFlight' : c.kind \in {"attest", "evaluate", "open"} => c.strayed
      <4> SUFFICES ASSUME NEW c \in InFlight', c.kind \in {"attest", "evaluate", "open"}
                   PROVE  c.strayed
        OBVIOUS
      <4>1. PICK before \in calls : c = Astray(before)
        BY <2>3 DEF Strayed, InFlight
      <4>2. c.stage # "abandoned" /\ before \in Calls
        BY DEF InFlight, IInv, TypeOK
      <4> QED BY <4>1, <4>2, AstrayMoves DEF Strays
    <3> QED BY <3>1 DEF Awaited
  <2> QED BY <1>2, <2>2, <2>3
<1>9. UnlockedForShown' /\ Decided'
  BY <1>1, <1>2, <1>3 DEF IInv, UnlockedForShown, Decided, Recorded
<1>10. SavedIsCommitted'
  <2> SUFFICES ASSUME NEW coverage \in Coverages, NEW id \in ClaimIds,
                      saved'[<<coverage, id>>] # Empty, <<coverage, id>> \notin miskept'
               PROVE  /\ id \in DOMAIN claims /\ claims[id].coverage = coverage
                      /\ claims[id].content = saved'[<<coverage, id>>]
    BY <1>3 DEF SavedIsCommitted
  <2>1. CASE coverage = call.coverage /\ id = call.claim
    <3>1. ~call.strayed
      BY <1>1, <2>1
    <3>2. evidenceSnapshot = call.content /\ call.content \in Contents
      BY <1>1, <1>3, <3>1 DEF IInv, Awaited, GrantedHolds
    <3>3. evidenceSnapshot # Empty
      BY <3>2 DEF Contents, Empty
    <3>4. saved'[<<coverage, id>>] = evidenceSnapshot
      BY <1>1, <2>1, <3>3 DEF IInv, TypeOK
    <3> QED BY <1>4, <2>1, <3>2, <3>4
  <2>2. CASE ~(coverage = call.coverage /\ id = call.claim)
    <3>1. saved'[<<coverage, id>>] = saved[<<coverage, id>>] /\ <<coverage, id>> \notin miskept
      BY <1>1, <2>2 DEF IInv, TypeOK
    <3> QED BY <3>1 DEF IInv, SavedIsCommitted
  <2> QED BY <2>1, <2>2
<1> QED BY <1>3, <1>6, <1>7, <1>8, <1>9, <1>10 DEF IInv

\* The flag is for what is shown, or it is marked.
LEMMA FinishAttestKeeps ==
  ASSUME IInv, NEW call \in calls, FinishAttest(call)
  PROVE  IInv'
<1>1. /\ call.kind = "attest" /\ call.stage = "granted"
      /\ calls' = calls \ {call} /\ pending' = pending \ {Key(call)}
      /\ evidenceAttested' = TRUE
      /\ misled' = IF call.strayed THEN misled \cup {"attested"} ELSE misled \ {"attested"}
      /\ UNCHANGED <<world, saved, evalCoverageId, evalClaimId, evidenceSnapshot, signed,
                     resetTimer, rehydrations, built, miskept>>
  BY DEF FinishAttest, Ends, Marked, ids, effects
<1>2. /\ call \in Calls /\ call \in InFlight /\ calls' \subseteq Calls
      /\ pending' \subseteq {"open", "evaluate", "resolve"}
      /\ UNCHANGED <<issued, claims, recorded>>
      /\ OneClaimEach' /\ Locked' /\ GrantedHolds'
      /\ InFlight' = InFlight \ {call}
  BY <1>1, Finished
<1>3. ~call.strayed => Recorded(evalCoverageId, evalClaimId)
  BY <1>1, <1>2 DEF IInv, GrantedHolds, Awaited
<1>4. TypeOK'
  BY <1>1, <1>2 DEF IInv, TypeOK
<1>5. UnlockedForShown'
  BY <1>1, <1>2, <1>3 DEF UnlockedForShown, Recorded
<1>6. Decided'
  BY <1>1, <1>2 DEF IInv, Decided, Recorded
<1>7. Requested' /\ Awaited' /\ SavedIsCommitted'
  BY <1>1, <1>2 DEF IInv, Requested, ids, Awaited, SavedIsCommitted
<1> QED BY <1>2, <1>4, <1>5, <1>6, <1>7 DEF IInv

\* The decision is for what is shown, or it is marked.
LEMMA FinishEvaluateKeeps ==
  ASSUME IInv, NEW call \in calls, FinishEvaluate(call)
  PROVE  IInv'
<1>1. /\ call.kind = "evaluate" /\ call.stage = "granted"
      /\ calls' = calls \ {call} /\ pending' = pending \ {Key(call)}
      /\ signed' = call.claim
      /\ misled' = IF call.strayed THEN misled \cup {"signed"} ELSE misled \ {"signed"}
      /\ UNCHANGED <<world, saved, evalCoverageId, evalClaimId, evidenceSnapshot,
                     evidenceAttested, resetTimer, rehydrations, built, miskept>>
  BY DEF FinishEvaluate, Ends, Marked, ids, effects
<1>2. /\ call \in Calls /\ call \in InFlight /\ calls' \subseteq Calls
      /\ pending' \subseteq {"open", "evaluate", "resolve"}
      /\ UNCHANGED <<issued, claims, recorded>>
      /\ OneClaimEach' /\ Locked' /\ GrantedHolds'
      /\ InFlight' = InFlight \ {call}
  BY <1>1, Finished
<1>3. ~call.strayed => call.claim = evalClaimId /\ Recorded(evalCoverageId, evalClaimId)
  BY <1>1, <1>2 DEF IInv, GrantedHolds, Awaited
<1>4. TypeOK'
  <2>1. signed' \in ClaimIds \cup {Empty}
    BY <1>1, <1>2 DEF Calls
  <2> QED BY <1>1, <1>2, <2>1 DEF IInv, TypeOK
<1>5. UnlockedForShown'
  BY <1>1, <1>2 DEF IInv, UnlockedForShown, Recorded
<1>6. Decided'
  BY <1>1, <1>2, <1>3 DEF Decided, Recorded
<1>7. Requested' /\ Awaited' /\ SavedIsCommitted'
  BY <1>1, <1>2 DEF IInv, Requested, ids, Awaited, SavedIsCommitted
<1> QED BY <1>2, <1>4, <1>5, <1>6, <1>7 DEF IInv

LEMMA FinishResolveKeeps ==
  ASSUME IInv, NEW call \in calls, FinishResolve(call)
  PROVE  IInv'
<1>1. /\ call.stage = "granted"
      /\ calls' = calls \ {call} /\ pending' = pending \ {Key(call)}
      /\ UNCHANGED <<world, saved, evalCoverageId, evalClaimId, evidenceSnapshot,
                     evidenceAttested, signed, resetTimer, rehydrations, built,
                     misled, miskept>>
  BY DEF FinishResolve, Ends, ids, flags, effects, history
<1>2. /\ call \in Calls /\ call \in InFlight /\ calls' \subseteq Calls
      /\ pending' \subseteq {"open", "evaluate", "resolve"}
      /\ UNCHANGED <<issued, claims, recorded>>
      /\ OneClaimEach' /\ Locked' /\ GrantedHolds'
      /\ InFlight' = InFlight \ {call}
  BY <1>1, Finished
<1>3. TypeOK'
  BY <1>1, <1>2 DEF IInv, TypeOK
<1>4. UnlockedForShown' /\ Decided' /\ Requested' /\ Awaited' /\ SavedIsCommitted'
  BY <1>1, <1>2
     DEF IInv, UnlockedForShown, Decided, Recorded, Requested, ids, Awaited, SavedIsCommitted
<1> QED BY <1>2, <1>3, <1>4 DEF IInv
------------------------------------------------------------------------------
(* Every step keeps the invariant, and what follows from it.               *)

LEMMA NextIInv == IInv /\ [Next]_vars => IInv'
<1> SUFFICES ASSUME IInv, [Next]_vars PROVE IInv'
  OBVIOUS
<1>1. CASE \E coverage \in issued \cup {Empty}, claim \in 0..Cardinality(issued) :
             Type(coverage, claim)
  BY <1>1, TypeKeeps
<1>2. CASE EditEvidence
  BY <1>2, EditKeeps
<1>3. CASE Reset
  BY <1>3, ResetKeeps
<1>4. CASE \E request \in rehydrations : Rehydrate(request)
  BY <1>4, RehydrateKeeps
<1>5. CASE \E coverage \in issued : onOpen(coverage)
  BY <1>5, OpenKeeps
<1>6. CASE onAttestEvidence
  BY <1>6, AttestKeeps
<1>7. CASE onEvaluate
  BY <1>7, EvaluateKeeps
<1>8. CASE onResolve
  BY <1>8, ResolveKeeps
<1>9. CASE \E call \in calls : Send(call) \/ Grant(call) \/ Lose(call) \/ Fails(call)
  BY <1>9, SendKeeps, GrantKeeps, LoseKeeps, FailsKeeps
<1>10. CASE \E call \in calls : \/ FinishOpen(call) \/ FinishAttest(call)
                               \/ FinishEvaluate(call) \/ FinishResolve(call)
  BY <1>10, FinishOpenKeeps, FinishAttestKeeps, FinishEvaluateKeeps, FinishResolveKeeps
<1>11. CASE Reload
  BY <1>11, ReloadKeeps
<1>12. CASE UNCHANGED vars
  <2>1. /\ UNCHANGED <<issued, claims, recorded, saved, calls, pending,
                       evalCoverageId, evalClaimId, evidenceSnapshot, evidenceAttested,
                       signed, resetTimer, rehydrations, built, misled, miskept>>
        /\ InFlight' = InFlight
    BY <1>12 DEF vars, world, history, InFlight
  <2>2. TypeOK'
    BY <2>1 DEF IInv, TypeOK
  <2>3. OneClaimEach' /\ Locked' /\ GrantedHolds'
    BY <2>1, CallsKept DEF world
  <2>4. UnlockedForShown' /\ Decided' /\ Requested' /\ Awaited' /\ SavedIsCommitted'
    BY <2>1
       DEF IInv, UnlockedForShown, Decided, Recorded, Requested, ids, Awaited, SavedIsCommitted
  <2> QED BY <2>2, <2>3, <2>4 DEF IInv
<1> QED BY <1>1, <1>2, <1>3, <1>4, <1>5, <1>6, <1>7, <1>8, <1>9, <1>10, <1>11, <1>12 DEF Next

\* What the page keeps, with whatever calls are in flight (AppConsole.tsx:225-330).
THEOREM TypeCorrect == Spec => []TypeOK
<1>1. IInv => TypeOK
  BY DEF IInv
<1> QED BY InitIInv, NextIInv, <1>1, PTL DEF Spec

\* Evaluate is unlocked for the claim in the fields, unless the attestation was
\* answered after they had changed (AppConsole.tsx:254-267).
THEOREM UnlockedForShownHolds == Spec => []UnlockedForShown
<1>1. IInv => UnlockedForShown
  BY DEF IInv
<1> QED BY InitIInv, NextIInv, <1>1, PTL DEF Spec

\* The decision that Resolve sends is for what the fields show, unless the
\* evaluation was answered after they had changed
\* (AppConsole.tsx:261-267, 790, 805-818).
THEOREM DecisionForShownHolds == Spec => []DecisionForShown
<1>1. IInv => DecisionForShown
  BY DEF IInv, Decided, DecisionForShown, Recorded
<1> QED BY InitIInv, NextIInv, <1>1, PTL DEF Spec

\* The snapshot of openClaim is what is saved and survives reloads, unless the
\* fields changed while the claim was opened (AppConsole.tsx:483-495, 557-558).
THEOREM SavedIsCommittedHolds == Spec => []SavedIsCommitted
<1>1. IInv => SavedIsCommitted
  BY DEF IInv
<1> QED BY InitIInv, NextIInv, <1>1, PTL DEF Spec

\* The page waits for one transaction at most, whatever a rehydration clears
\* (AppConsole.tsx:588, 939).
THEOREM OneTransactionAtATimeHolds == Spec => []OneTransactionAtATime
<1>1. IInv => OneTransactionAtATime
  <2> DEFINE transactions == {call \in InFlight : call.kind \in Transactions}
  <2> SUFFICES ASSUME IInv PROVE Cardinality(transactions) <= 1
    BY DEF OneTransactionAtATime, Transactions
  <2>1. \A call, other \in transactions : call = other
    BY DEF IInv, Locked, LockedIn
  <2>2. CASE transactions = {}
    BY <2>2, FS_EmptySet
  <2>3. CASE transactions # {}
    <3>1. PICK call \in transactions : TRUE
      BY <2>3
    <3>2. transactions = {call}
      BY <2>1, <3>1
    <3> HIDE DEF transactions
    <3> QED BY <3>2, FS_Singleton
  <2> QED BY <2>2, <2>3
<1> QED BY InitIInv, NextIInv, <1>1, PTL DEF Spec

\* A pending status belongs to a call in flight, whose end clears it
\* (AppConsole.tsx:455-508, 713-722, 939).
THEOREM PendingHasCallHolds == Spec => []PendingHasCall
<1>1. IInv => PendingHasCall
  BY DEF IInv, Locked, LockedIn, PendingHasCall
<1> QED BY InitIInv, NextIInv, <1>1, PTL DEF Spec

\* A rehydration unlocks Evaluate only for the claim that is shown when its
\* answer comes (AppConsole.tsx:563, 586, 594-596).
THEOREM RehydratedForShownHolds == Spec => RehydratedForShown
<1> DEFINE Shown == rehydrations' # rehydrations /\ ~evidenceAttested /\ evidenceAttested'
                    => Recorded(evalCoverageId, evalClaimId)
<1>1. IInv /\ [Next]_vars => [Shown]_vars
  <2> SUFFICES ASSUME IInv, Next, rehydrations' # rehydrations,
                      ~evidenceAttested, evidenceAttested'
               PROVE  Recorded(evalCoverageId, evalClaimId)
    OBVIOUS
  <2>1. PICK request \in rehydrations : Rehydrate(request)
    BY DEF Next, Type, Show, EditEvidence, Reset, onOpen, onAttestEvidence, onEvaluate,
           onResolve, Send, Grant, Lose, Fails, FinishOpen, FinishAttest, FinishEvaluate,
           FinishResolve, Reload, flags, effects
  <2>2. request = <<evalCoverageId, evalClaimId>>
    BY DEF IInv, Requested, ids
  <2> QED BY <2>1, <2>2 DEF Rehydrate
<1> QED BY InitIInv, NextIInv, <1>1, PTL DEF Spec, RehydratedForShown
==============================================================================
