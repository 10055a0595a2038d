--------------------------- MODULE ProofPageProofs ---------------------------
(***************************************************************************)
(* Why green means agreement and the connection tells what was read, for   *)
(* any cards, transactions, deployments, books and number of runs.         *)
(*                                                                         *)
(* The ref that guards verifyAll makes the last run the only one that is   *)
(* not over, so every answer on its way is one that this run waits for,    *)
(* read since it began; and what a run has settled so far is what the page *)
(* shows.                                                                  *)
(***************************************************************************)
EXTENDS ProofPage, SequenceTheorems, TLAPS

Verdicts == {"ok", "warn", "bad", "retry"}
Current == runs[Len(runs)]
Checked == cards \cup {other \in {"overCap"} : ~NodeErrors}

\* Only the last run may not be over, and only its reads are on their way.
OneRun ==
  /\ running = busy
  /\ running <=> runs # <<>> /\ Current.phase # "done"
  /\ running => conn = "busy"
  /\ \A r \in DOMAIN runs :
       /\ r # Len(runs) => runs[r].phase = "done"
       /\ runs[r].phase # "reading" => runs[r].awaited = {}
       /\ runs[r].phase = "chainId" => runs[r].failed = {}
  /\ \A answer \in answers : answer[1] = Len(runs) /\ answer[2] \in Current.awaited
  /\ \A answer, other \in answers : answer[2] = other[2] => answer = other

\* What is shown or on its way as agreeing did agree since the run began.
Truthful ==
  /\ \A r \in DOMAIN runs : runs[r].chainOk => deployment.chain = Mainnet
  /\ runs # <<>> => Agreeing \subseteq agreed
  /\ deployment.chain = Mainnet =>
       /\ \A item \in Checked : shown[item] = "ok" => item \in agreed
       /\ \A answer \in answers :
            answer[2] \in Checked /\ answer[3] = "ok" => answer[2] \in agreed

\* A reading run is at one of its three stages, and the page shows the outcome
\* of all that it no longer waits for.
Progressed ==
  running /\ Current.phase = "reading" =>
    /\ Current.awaited # {}
    /\ \/ Current.awaited \subseteq cards
       \/ Current.awaited \subseteq Receipts
       \/ Current.awaited = {"overCap"}
    /\ Current.failed \cap Current.awaited = {}
    /\ \A card \in cards \ Current.awaited :
         shown[card] # "pending" /\ (card \in Current.failed <=> shown[card] = "retry")
    /\ ~(Current.awaited \subseteq cards) =>
         \A tx \in Receipts \ Current.awaited : shown[tx] # "pending"

IInv == TypeOK /\ OneRun /\ Truthful /\ Progressed /\ ConnTells

-----------------------------------------------------------------------------
\* The cards, the transactions and the simulation are different things.
LEMMA ItemsApart ==
  ASSUME TypeOK
  PROVE  /\ cards \subseteq AllCards /\ cards # {}
         /\ cards \cap Receipts = {} /\ "overCap" \notin cards /\ "overCap" \notin Receipts
         /\ "overCap" \notin AllCards /\ AllCards \cap Receipts = {}
         /\ Receipts # {}
<1>1. "overCap" \notin AllCards
  BY DEF AllCards
<1> QED BY <1>1, ProofPageAssumption DEF TypeOK

\* A read comes to one of four verdicts.
LEMMA OutcomesTyped ==
  ASSUME TypeOK, NEW item \in Items
  PROVE  Outcomes(item) \subseteq Verdicts
<1>1. CASE item \in cards
  BY <1>1, ItemsApart DEF Outcomes, readCard, Unexpected, Verdicts
<1>2. CASE item \in Receipts
  BY <1>2, ItemsApart DEF Outcomes, checkReceipt, Verdicts
<1>3. CASE item = "overCap"
  BY <1>3, ItemsApart DEF Outcomes, checkOverCap, Verdicts
<1> QED BY <1>1, <1>2, <1>3 DEF Items

\* What reads as agreeing does agree.
LEMMA OutcomesTruthful ==
  ASSUME TypeOK, NEW item \in Checked, "ok" \in Outcomes(item), deployment.chain = Mainnet
  PROVE  item \in Agreeing
<1>1. CASE item \in cards
  <2>1. readCard(item) = "ok"
    BY <1>1, ItemsApart DEF Outcomes
  <2>2. Expected(item)
    BY <2>1 DEF readCard, Unexpected
  <2> QED BY <1>1, <2>2 DEF Agreeing
<1>2. CASE item = "overCap" /\ ~NodeErrors
  <2>1. "ok" \in checkOverCap
    BY <1>2, ItemsApart DEF Outcomes
  <2>2. OverCapReverts
    BY <1>2, <2>1 DEF checkOverCap
  <2> QED BY <1>2, <2>2 DEF Agreeing
<1> QED BY <1>1, <1>2 DEF Checked

\* The runs are a sequence, and which of them is the last.
LEMMA RunsTyped ==
  ASSUME TypeOK
  PROVE  /\ Len(runs) \in Nat /\ DOMAIN runs = 1..Len(runs)
         /\ runs # <<>> => Len(runs) \in DOMAIN runs
         /\ \A r \in DOMAIN runs : runs[r] \in Run
BY LenProperties, EmptySeq, ElementOfSeq DEF TypeOK

\* A run is replaced.
LEMMA RunReplaced ==
  ASSUME TypeOK, NEW r \in DOMAIN runs, NEW run \in Run
  PROVE  LET after == [runs EXCEPT ![r] = run] IN
         /\ after \in Seq(Run)
         /\ Len(after) = Len(runs) /\ DOMAIN after = DOMAIN runs
         /\ after # <<>>
         /\ after[r] = run
         /\ \A q \in DOMAIN runs : q # r => after[q] = runs[q]
<1> DEFINE after == [runs EXCEPT ![r] = run]
<1>1. runs \in Seq(Run) /\ r \in 1..Len(runs) /\ Len(runs) \in Nat
  BY RunsTyped DEF TypeOK
<1>2. /\ after \in Seq(Run) /\ Len(after) = Len(runs)
      /\ \A j \in 1..Len(runs) : after[j] = IF j = r THEN run ELSE runs[j]
  BY <1>1, ExceptSeq
<1>3. after # <<>>
  BY <1>1, <1>2, EmptySeq
<1> QED BY <1>1, <1>2, <1>3, LenProperties

LEMMA InitIInv == Init => IInv
<1> SUFFICES ASSUME Init PROVE IInv
  OBVIOUS
<1>1. runs = <<>> /\ runs \in Seq(Run) /\ DOMAIN runs = {}
  BY EmptySeq, LenProperties DEF Init, Fresh
<1>2. \A item \in Items : shown[item] = "pending"
  BY DEF Init, Fresh
<1>3. TypeOK
  BY <1>1 DEF TypeOK, Init, Fresh
<1>4. OneRun /\ Progressed
  BY <1>1 DEF OneRun, Progressed, Init, Fresh
<1>5. Truthful
  BY <1>1, <1>2 DEF Truthful, Init, Fresh, Checked, Items
<1>6. ConnTells
  BY DEF ConnTells, Init, Fresh
<1> QED BY <1>3, <1>4, <1>5, <1>6 DEF IInv
-----------------------------------------------------------------------------
(* What a step leaves alone.                                               *)

LEMMA WorldFixed ==
  ASSUME UNCHANGED world
  PROVE  /\ UNCHANGED <<archived, cards, deployment>>
         /\ Items' = Items /\ Run' = Run /\ Checked' = Checked
         /\ ledger' = ledger => Agreeing' = Agreeing
<1>1. UNCHANGED <<archived, cards, deployment>>
  BY DEF world
<1>2. Items' = Items
  BY <1>1 DEF Items
<1>3. Run' = Run
  BY <1>1, <1>2 DEF Run
<1>4. ledger' = ledger => Agreeing' = Agreeing
  BY <1>1 DEF Agreeing, Expected, OverCapReverts, Exists, Free
<1> QED BY <1>1, <1>2, <1>3, <1>4 DEF Checked

\* The page is as it was.
LEMMA PageFixed ==
  ASSUME IInv, UNCHANGED <<world, ledger, agreed>>, timer' \in BOOLEAN,
         UNCHANGED <<running, busy, runs, answers, shown, conn>>
  PROVE  IInv'
<1>1. Current' = Current
  BY DEF Current
<1>2. TypeOK'
  BY WorldFixed DEF IInv, TypeOK
<1>3. OneRun' /\ Progressed' /\ Truthful'
  BY <1>1, WorldFixed DEF IInv, OneRun, Progressed, Truthful
<1>4. ConnTells'
  BY WorldFixed DEF IInv, ConnTells
<1> QED BY <1>2, <1>3, <1>4 DEF IInv

\* Without a run, no answer is on its way.
LEMMA NoAnswers ==
  ASSUME IInv, ~running \/ Current.awaited = {}
  PROVE  answers = {}
<1> SUFFICES ASSUME NEW answer \in answers PROVE FALSE
  OBVIOUS
<1>1. answer[1] \in DOMAIN runs /\ answer[2] \in Current.awaited
  BY DEF IInv, TypeOK, OneRun
<1>2. runs # <<>>
  <2>1. DOMAIN runs # {}
    BY <1>1
  <2>2. runs = <<>> => DOMAIN runs = {}
    BY EmptySeq, LenProperties
  <2> QED BY <2>1, <2>2
<1>3. Len(runs) \in DOMAIN runs
  BY <1>2, RunsTyped DEF IInv
<1>4. ~running => Current.awaited = {}
  BY <1>2, <1>3 DEF IInv, OneRun, Current
<1> QED BY <1>1, <1>4

\* A run that is not over is the last one, and the page is busy with it.
LEMMA LiveRun ==
  ASSUME IInv, NEW r \in DOMAIN runs, runs[r].phase # "done"
  PROVE  r = Len(runs) /\ runs[r] = Current /\ running /\ busy /\ conn = "busy" /\ runs # <<>>
<1>1. r = Len(runs)
  BY DEF IInv, OneRun
<1>2. runs # <<>>
  BY EmptySeq, LenProperties
<1> QED BY <1>1, <1>2 DEF IInv, OneRun, Current

-----------------------------------------------------------------------------
(* The chain moves.                                                        *)

LEMMA MoveKeeps == IInv /\ Move => IInv'
<1> SUFFICES ASSUME IInv, Move PROVE IInv'
  OBVIOUS
<1>1. /\ UNCHANGED <<world, page>>
      /\ ledger' \in Ledgers
      /\ agreed' = agreed \cup Agreeing'
  BY DEF Move
<1>2. UNCHANGED <<timer, running, busy, runs, answers, shown, conn>>
  BY <1>1 DEF page
<1>3. Agreeing' \subseteq cards \cup {"overCap"}
  BY <1>1, WorldFixed DEF Agreeing
<1>4. TypeOK'
  BY <1>1, <1>2, <1>3, WorldFixed DEF IInv, TypeOK
<1>5. OneRun' /\ Progressed'
  BY <1>1, <1>2, WorldFixed DEF IInv, OneRun, Progressed, Current
<1>6. Truthful'
  BY <1>1, <1>2, WorldFixed DEF IInv, Truthful
<1>7. ConnTells'
  BY <1>1, <1>2, WorldFixed DEF IInv, ConnTells
<1> QED BY <1>4, <1>5, <1>6, <1>7 DEF IInv

-----------------------------------------------------------------------------
(* A run begins.                                                           *)

LEMMA BeginKeeps ==
  ASSUME IInv, ~running, Begin, UNCHANGED <<world, ledger>>, timer' \in BOOLEAN
  PROVE  IInv'
<1> DEFINE run == [phase |-> "chainId", chainOk |-> FALSE, awaited |-> {}, failed |-> {}]
<1>1. answers = {} /\ answers' = {}
  BY NoAnswers DEF Begin
<1>2. run \in Run
  BY DEF Run
<1>3. runs' = Append(runs, run) /\ runs \in Seq(Run)
  BY DEF Begin, IInv, TypeOK
<1>4. /\ runs' \in Seq(Run) /\ runs' # <<>>
      /\ Len(runs') = Len(runs) + 1 /\ Len(runs) \in Nat
      /\ DOMAIN runs' = 1..(Len(runs) + 1) /\ DOMAIN runs = 1..Len(runs)
      /\ \A r \in DOMAIN runs : runs'[r] = runs[r]
      /\ runs'[Len(runs) + 1] = run
  <2>1. /\ runs' \in Seq(Run) /\ runs' # <<>> /\ Len(runs') = Len(runs) + 1
        /\ \A r \in 1..Len(runs) : runs'[r] = runs[r]
        /\ runs'[Len(runs) + 1] = run
    BY <1>2, <1>3, AppendProperties
  <2> QED BY <1>3, <2>1, LenProperties
<1>5. /\ running' = TRUE /\ busy' = TRUE /\ conn' = "busy"
      /\ agreed' = Agreeing /\ Agreeing' = Agreeing
      /\ \A item \in Items : shown'[item] = "pending"
      /\ shown' \in [Items -> {"pending", "ok", "warn", "bad", "retry"}]
  BY WorldFixed DEF Begin
<1>6. Current' = run
  BY <1>4 DEF Current
<1>7. \A r \in DOMAIN runs : runs[r].phase = "done" /\ runs[r].awaited = {}
  <2> SUFFICES ASSUME NEW r \in DOMAIN runs
               PROVE  runs[r].phase = "done" /\ runs[r].awaited = {}
    OBVIOUS
  <2>1. runs[r].phase = "done"
    BY LiveRun
  <2> QED BY <2>1 DEF IInv, OneRun
<1>8. TypeOK'
  <2>1. agreed' \subseteq cards \cup {"overCap"}
    BY <1>5 DEF Agreeing
  <2> QED BY <1>1, <1>4, <1>5, <2>1, WorldFixed DEF IInv, TypeOK
<1>9. OneRun'
  <2>1. ASSUME NEW r \in DOMAIN runs'
        PROVE  /\ r # Len(runs') => runs'[r].phase = "done"
               /\ runs'[r].phase # "reading" => runs'[r].awaited = {}
               /\ runs'[r].phase = "chainId" => runs'[r].failed = {}
    <3>1. CASE r = Len(runs) + 1
      BY <1>4, <3>1
    <3>2. CASE r \in DOMAIN runs
      BY <1>4, <1>7, <3>2
    <3> QED BY <1>4, <3>1, <3>2
  <2> QED BY <1>1, <1>4, <1>5, <1>6, <2>1 DEF OneRun
<1>10. Truthful'
  <2>1. ASSUME NEW r \in DOMAIN runs', runs'[r].chainOk PROVE deployment'.chain = Mainnet
    <3>1. r \in DOMAIN runs /\ runs[r].chainOk
      BY <1>4, <2>1
    <3> QED BY <3>1, WorldFixed DEF IInv, Truthful
  <2>2. \A item \in Checked' : shown'[item] # "ok"
    BY <1>5, WorldFixed DEF Checked, Items
  <2> QED BY <1>1, <1>5, <2>1, <2>2 DEF Truthful
<1>11. Progressed'
  BY <1>6 DEF Progressed
<1>12. ConnTells'
  BY <1>5 DEF ConnTells
<1> QED BY <1>8, <1>9, <1>10, <1>11, <1>12 DEF IInv

LEMMA VerifyKeeps == IInv /\ (FirstRun \/ Reverify) => IInv'
<1> SUFFICES ASSUME IInv, FirstRun \/ Reverify PROVE IInv'
  OBVIOUS
<1>1. verifyAll /\ UNCHANGED <<world, ledger>> /\ timer' \in BOOLEAN
  BY DEF FirstRun, Reverify, IInv, TypeOK
<1>2. CASE running
  BY <1>1, <1>2, PageFixed DEF verifyAll
<1>3. CASE ~running
  BY <1>1, <1>3, BeginKeeps DEF verifyAll
<1> QED BY <1>2, <1>3
-----------------------------------------------------------------------------
(* A run goes on.                                                          *)

\* The chain id is read, or not, and the cards are asked for.
LEMMA ChainIdKeeps ==
  ASSUME IInv, NEW r \in DOMAIN runs, getChainId(r)
  PROVE  IInv'
<1>1. /\ r = Len(runs) /\ runs[r] = Current /\ running /\ busy /\ conn = "busy"
      /\ runs[r].phase = "chainId" /\ runs[r].failed = {} /\ runs # <<>>
  BY LiveRun DEF getChainId, IInv, OneRun
<1>2. answers = {} /\ Current.awaited = {}
  BY <1>1, NoAnswers DEF IInv, OneRun
<1>3. UNCHANGED <<world, ledger, agreed, timer, running, busy, answers, shown, conn>>
  BY DEF getChainId
<1>4. PICK ok \in {deployment.chain = Mainnet, FALSE} :
        runs' = [runs EXCEPT ![r] = [@ EXCEPT !.phase = "reading", !.chainOk = ok,
                                              !.awaited = cards]]
  BY DEF getChainId
<1> DEFINE run == [runs[r] EXCEPT !.phase = "reading", !.chainOk = ok, !.awaited = cards]
<1>5. /\ run \in Run /\ run.phase = "reading" /\ run.chainOk = ok
      /\ run.awaited = cards /\ run.failed = {}
  <2>1. runs[r] \in Run
    BY RunsTyped DEF IInv
  <2>2. ok \in BOOLEAN
    BY <1>4
  <2> QED BY <1>1, <2>1, <2>2 DEF Run, Items
<1>6. /\ runs' \in Seq(Run) /\ Len(runs') = Len(runs) /\ DOMAIN runs' = DOMAIN runs
      /\ runs' # <<>> /\ runs'[r] = run
      /\ \A q \in DOMAIN runs : q # r => runs'[q] = runs[q]
  <2> HIDE DEF run
  <2>1. runs' = [runs EXCEPT ![r] = run]
    BY <1>4 DEF run
  <2> QED BY <1>5, <2>1, RunReplaced DEF IInv
<1> HIDE DEF run
<1>7. Current' = run
  BY <1>1, <1>6 DEF Current
<1>8. TypeOK'
  BY <1>3, <1>6, WorldFixed DEF IInv, TypeOK
<1>9. OneRun'
  BY <1>1, <1>2, <1>3, <1>5, <1>6, <1>7 DEF IInv, OneRun
<1>10. Truthful'
  <2>1. ok => deployment.chain = Mainnet
    BY <1>4
  <2> QED BY <1>1, <1>2, <1>3, <1>5, <1>6, <2>1, WorldFixed DEF IInv, Truthful
<1>11. Progressed'
  BY <1>3, <1>5, <1>7, ItemsApart, WorldFixed DEF IInv, Progressed
<1>12. ConnTells'
  BY <1>1, <1>3 DEF ConnTells
<1> QED BY <1>8, <1>9, <1>10, <1>11, <1>12 DEF IInv

\* The node answers a read that the run waits for.
LEMMA AnswerKeeps ==
  ASSUME IInv, NEW r \in DOMAIN runs, NEW item \in Items, Answer(r, item)
  PROVE  IInv'
<1>1. /\ item \in runs[r].awaited
      /\ UNCHANGED <<world, ledger, agreed, timer, running, busy, runs, shown, conn>>
  BY DEF Answer
<1>2. r = Len(runs) /\ runs[r] = Current /\ runs # <<>>
  <2>1. runs[r].phase # "done"
    BY <1>1 DEF IInv, OneRun
  <2> QED BY <2>1, LiveRun
<1>3. PICK verdict \in Outcomes(item) : answers' = answers \cup {<<r, item, verdict>>}
  BY DEF Answer
<1>4. verdict \in Verdicts
  BY <1>3, OutcomesTyped DEF IInv
<1>5. Current' = Current
  BY <1>1 DEF Current
<1>6. TypeOK'
  <2>1. answers' \subseteq (DOMAIN runs) \X Items \X {"ok", "warn", "bad", "retry"}
    BY <1>3, <1>4 DEF IInv, TypeOK, Verdicts
  <2> QED BY <1>1, <2>1, WorldFixed DEF IInv, TypeOK
<1>7. OneRun'
  <2>1. \A answer \in answers' : answer[1] = Len(runs) /\ answer[2] \in Current.awaited
    BY <1>1, <1>2, <1>3 DEF IInv, OneRun
  <2>2. \A answer \in answers : answer[2] # item
    <3> SUFFICES ASSUME NEW answer \in answers, answer[2] = item PROVE FALSE
      OBVIOUS
    <3>1. answer[1] = r
      BY <1>2 DEF IInv, OneRun
    <3> QED BY <3>1 DEF Answer
  <2>3. \A answer, other \in answers' : answer[2] = other[2] => answer = other
    BY <1>3, <2>2 DEF IInv, OneRun
  <2> QED BY <1>1, <1>5, <2>1, <2>3 DEF IInv, OneRun
<1>8. Truthful'
  <2>1. ASSUME deployment.chain = Mainnet, NEW answer \in answers',
               answer[2] \in Checked, answer[3] = "ok"
        PROVE  answer[2] \in agreed
    <3>1. CASE answer \in answers
      BY <2>1, <3>1 DEF IInv, Truthful
    <3>2. CASE answer = <<r, item, verdict>>
      <4>1. item \in Checked /\ "ok" \in Outcomes(item)
        BY <1>3, <2>1, <3>2
      <4>2. item \in Agreeing
        BY <2>1, <4>1, OutcomesTruthful DEF IInv
      <4> QED BY <1>2, <3>2, <4>2 DEF IInv, Truthful
    <3> QED BY <1>3, <2>1, <3>1, <3>2
  <2> QED BY <1>1, <2>1, WorldFixed DEF IInv, Truthful
<1>9. Progressed'
  BY <1>1, <1>5, WorldFixed DEF IInv, Progressed
<1>10. ConnTells'
  BY <1>1, WorldFixed DEF IInv, ConnTells
<1> QED BY <1>6, <1>7, <1>8, <1>9, <1>10 DEF IInv
\* What a settling read is: the last run waits for it, at one of three stages.
LEMMA SettlingRead ==
  ASSUME IInv, NEW answer \in answers
  PROVE  /\ answer = <<Len(runs), answer[2], answer[3]>>
         /\ answer[2] \in Items /\ answer[3] \in Verdicts
         /\ Len(runs) \in DOMAIN runs /\ runs # <<>>
         /\ running /\ busy /\ conn = "busy"
         /\ Current \in Run /\ Current.phase = "reading" /\ answer[2] \in Current.awaited
         /\ answer[2] \in cards => Current.awaited \subseteq cards
         /\ answer[2] \in Receipts =>
              Current.awaited \subseteq Receipts /\ ~(Current.awaited \subseteq cards)
         /\ answer[2] = "overCap" =>
              Current.awaited = {"overCap"} /\ ~(Current.awaited \subseteq cards)
<1>1. /\ answer = <<answer[1], answer[2], answer[3]>> /\ answer[1] \in DOMAIN runs
      /\ answer[2] \in Items /\ answer[3] \in Verdicts
  BY DEF IInv, TypeOK, Verdicts
<1>2. answer[1] = Len(runs) /\ answer[2] \in Current.awaited
  BY DEF IInv, OneRun
<1>3. Current.phase = "reading"
  BY <1>1, <1>2 DEF IInv, OneRun, Current
<1>4. running /\ busy /\ conn = "busy" /\ runs # <<>>
  BY <1>1, <1>2, <1>3, LiveRun DEF Current
<1>5. Current \in Run
  BY <1>1, <1>2, RunsTyped DEF IInv, Current
<1>6. \/ Current.awaited \subseteq cards
      \/ Current.awaited \subseteq Receipts
      \/ Current.awaited = {"overCap"}
  BY <1>3, <1>4 DEF IInv, Progressed
<1> QED BY <1>1, <1>2, <1>3, <1>4, <1>5, <1>6, ItemsApart DEF IInv
\* The run after a read of each kind has settled.
LEMMA SettledRun ==
  ASSUME IInv, NEW answer \in answers,
         NEW run, run = Settled(Current, answer[2], answer[3])
  PROVE  /\ run \in Run /\ run.chainOk = Current.chainOk
         /\ run.failed = IF answer[2] \in cards /\ answer[3] = "retry"
                         THEN Current.failed \cup {answer[2]} ELSE Current.failed
         /\ run.phase = IF answer[2] = "overCap" THEN "done" ELSE "reading"
         /\ answer[2] = "overCap" => run.awaited = {}
         /\ answer[2] \in cards =>
              \/ run.awaited = Current.awaited \ {answer[2]} /\ run.awaited # {}
              \/ Current.awaited = {answer[2]} /\ run.awaited = Receipts
         /\ answer[2] \in Receipts =>
              \/ run.awaited = Current.awaited \ {answer[2]} /\ run.awaited # {}
              \/ Current.awaited = {answer[2]} /\ run.awaited = {"overCap"}
<1> DEFINE item == answer[2]
<1> DEFINE left == Current.awaited \ {item}
<1> DEFINE next == IF left = {} THEN Following(item) ELSE left
<1>1. /\ Current \in Run /\ Current.phase = "reading"
      /\ item \in Current.awaited /\ item \in Items
      /\ item = "overCap" => Current.awaited = {"overCap"}
  BY SettlingRead
<1>2. /\ item \in cards => Following(item) = Receipts
      /\ item \in Receipts => Following(item) = {"overCap"}
      /\ item = "overCap" => Following(item) = {}
  BY ItemsApart DEF IInv, Following
<1>3. next \subseteq Items
  BY <1>1, <1>2 DEF Items, Run
<1>4. /\ run.chainOk = Current.chainOk /\ run.awaited = next
      /\ run.phase = IF item = "overCap" THEN "done" ELSE "reading"
      /\ run.failed = IF item \in cards /\ answer[3] = "retry"
                      THEN Current.failed \cup {item} ELSE Current.failed
  BY <1>1 DEF Settled, Run
<1>5. run \in Run
  BY <1>1, <1>3, <1>4 DEF Settled, Run
<1>6. left = {} => Current.awaited = {item}
  BY <1>1
<1> QED BY <1>1, <1>2, <1>4, <1>5, <1>6, ItemsApart DEF IInv

\* A read settles.
LEMMA SettleKeeps ==
  ASSUME IInv, NEW answer \in answers, Settle(answer[1], answer[2], answer[3])
  PROVE  IInv'
<1> DEFINE item == answer[2]
<1> DEFINE verdict == answer[3]
<1> DEFINE last == Len(runs)
<1>1. /\ answer = <<last, item, verdict>> /\ item \in Items /\ verdict \in Verdicts
      /\ last \in DOMAIN runs /\ runs # <<>> /\ running /\ busy /\ conn = "busy"
      /\ Current \in Run /\ Current.phase = "reading" /\ item \in Current.awaited
      /\ item \in cards => Current.awaited \subseteq cards
      /\ item \in Receipts =>
           Current.awaited \subseteq Receipts /\ ~(Current.awaited \subseteq cards)
      /\ item = "overCap" =>
           Current.awaited = {"overCap"} /\ ~(Current.awaited \subseteq cards)
  BY SettlingRead
<1>2. PICK run : run = Settled(Current, item, verdict)
  OBVIOUS
<1>3. /\ answers' = answers \ {answer}
      /\ shown' = [shown EXCEPT ![item] = verdict]
      /\ runs' = [runs EXCEPT ![last] = run]
      /\ IF item = "overCap"
         THEN conn' = Concluded(run) /\ busy' = FALSE /\ running' = FALSE
         ELSE UNCHANGED <<conn, busy, running>>
      /\ UNCHANGED <<world, ledger, agreed, timer>>
  <2>1. answer[1] = last /\ runs[answer[1]] = Current /\ <<answer[1], item, verdict>> = answer
    BY <1>1 DEF Current
  <2>2. run = Settled(runs[answer[1]], answer[2], answer[3])
    BY <1>2, <2>1
  <2> QED BY <2>1, <2>2 DEF Settle, Ends
<1>4. /\ run \in Run /\ run.chainOk = Current.chainOk
      /\ run.failed = IF item \in cards /\ verdict = "retry"
                      THEN Current.failed \cup {item} ELSE Current.failed
      /\ run.phase = IF item = "overCap" THEN "done" ELSE "reading"
      /\ item = "overCap" => run.awaited = {}
      /\ item \in cards =>
           \/ run.awaited = Current.awaited \ {item} /\ run.awaited # {}
           \/ Current.awaited = {item} /\ run.awaited = Receipts
      /\ item \in Receipts =>
           \/ run.awaited = Current.awaited \ {item} /\ run.awaited # {}
           \/ Current.awaited = {item} /\ run.awaited = {"overCap"}
  BY <1>2, SettledRun
<1>5. /\ runs' \in Seq(Run) /\ Len(runs') = last /\ DOMAIN runs' = DOMAIN runs
      /\ runs' # <<>> /\ runs'[last] = run
      /\ \A q \in DOMAIN runs : q # last => runs'[q] = runs[q]
  BY <1>1, <1>3, <1>4, RunReplaced DEF IInv
<1>6. Current' = run
  BY <1>5 DEF Current
<1>7. /\ shown' \in [Items -> {"pending", "ok", "warn", "bad", "retry"}]
      /\ shown'[item] = verdict
      /\ \A other \in Items \ {item} : shown'[other] = shown[other]
  BY <1>1, <1>3 DEF IInv, TypeOK, Verdicts
<1>8. item \in cards \/ item \in Receipts \/ item = "overCap"
  BY <1>1 DEF Items
<1>9. \A other \in answers' : other \in answers /\ other[2] # item
  BY <1>3 DEF IInv, OneRun
<1>10. Concluded(run) \in {"on", "partial", "err"}
  BY DEF Concluded
<1> HIDE DEF item, verdict, last
<1>11. TypeOK'
  <2>1. answers' \subseteq (DOMAIN runs) \X Items \X {"ok", "warn", "bad", "retry"}
    BY <1>3 DEF IInv, TypeOK
  <2>2. /\ running' \in BOOLEAN /\ busy' \in BOOLEAN
        /\ conn' \in {"idle", "busy", "on", "partial", "err"}
    BY <1>3, <1>10 DEF IInv, TypeOK
  <2> QED BY <1>3, <1>5, <1>7, <2>1, <2>2, WorldFixed DEF IInv, TypeOK
<1>12. OneRun'
  <2>1. \A other \in answers' : other[1] = Len(runs') /\ other[2] \in run.awaited
    <3> SUFFICES ASSUME NEW other \in answers'
                 PROVE  other[1] = Len(runs') /\ other[2] \in run.awaited
      OBVIOUS
    <3>1. other[1] = last /\ other[2] \in Current.awaited /\ other[2] # item
      BY <1>9 DEF IInv, OneRun, last
    <3> QED BY <1>1, <1>4, <1>5, <1>8, <3>1
  <2>2. ASSUME NEW r \in DOMAIN runs'
        PROVE  /\ r # last => runs'[r].phase = "done"
               /\ runs'[r].phase # "reading" => runs'[r].awaited = {}
               /\ runs'[r].phase = "chainId" => runs'[r].failed = {}
    <3>1. CASE r = last
      BY <1>4, <1>5, <3>1
    <3>2. CASE r # last
      BY <1>5, <3>2 DEF IInv, OneRun, last
    <3> QED BY <3>1, <3>2
  <2>3. /\ running' = busy'
        /\ running' <=> run.phase # "done"
        /\ running' => conn' = "busy"
    BY <1>1, <1>3, <1>4 DEF IInv, OneRun
  <2>4. \A one, other \in answers' : one[2] = other[2] => one = other
    BY <1>9 DEF IInv, OneRun
  <2> QED BY <1>5, <1>6, <2>1, <2>2, <2>3, <2>4 DEF OneRun
<1>13. Truthful'
  <2>1. ASSUME NEW r \in DOMAIN runs', runs'[r].chainOk PROVE deployment.chain = Mainnet
    <3>1. CASE r = last
      BY <1>1, <1>4, <1>5, <2>1, <3>1 DEF IInv, Truthful, Current, last
    <3>2. CASE r # last
      BY <1>5, <2>1, <3>2 DEF IInv, Truthful
    <3> QED BY <3>1, <3>2
  <2>2. ASSUME deployment.chain = Mainnet, NEW other \in Checked, shown'[other] = "ok"
        PROVE  other \in agreed
    <3>1. CASE other = item
      BY <1>7, <2>2, <3>1 DEF IInv, Truthful, item, verdict
    <3>2. CASE other # item
      BY <1>7, <2>2, <3>2 DEF IInv, Truthful, Checked, Items
    <3> QED BY <3>1, <3>2
  <2>3. ASSUME deployment.chain = Mainnet, NEW other \in answers',
               other[2] \in Checked, other[3] = "ok"
        PROVE  other[2] \in agreed
    BY <1>9, <2>3 DEF IInv, Truthful
  <2> QED BY <1>1, <1>3, <2>1, <2>2, <2>3, WorldFixed DEF IInv, Truthful
<1>14. Progressed'
  <2> SUFFICES ASSUME running', run.phase = "reading"
               PROVE  /\ run.awaited # {}
                      /\ \/ run.awaited \subseteq cards
                         \/ run.awaited \subseteq Receipts
                         \/ run.awaited = {"overCap"}
                      /\ run.failed \cap run.awaited = {}
                      /\ \A card \in cards \ run.awaited :
                           shown'[card] # "pending"
                           /\ (card \in run.failed <=> shown'[card] = "retry")
                      /\ ~(run.awaited \subseteq cards) =>
                           \A tx \in Receipts \ run.awaited : shown'[tx] # "pending"
    BY <1>3, <1>6, WorldFixed DEF Progressed
  <2>1. /\ Current.failed \subseteq cards /\ Current.failed \cap Current.awaited = {}
        /\ \A card \in cards \ Current.awaited :
             shown[card] # "pending" /\ (card \in Current.failed <=> shown[card] = "retry")
        /\ ~(Current.awaited \subseteq cards) =>
             \A tx \in Receipts \ Current.awaited : shown[tx] # "pending"
    BY <1>1 DEF IInv, Progressed, Run
  <2>2. \A card \in cards : card \in Items
    BY DEF Items
  <2>3. \A tx \in Receipts : tx \in Items
    BY DEF Items
  <2>4. CASE item \in cards
    <3>1. run.failed = IF verdict = "retry" THEN Current.failed \cup {item} ELSE Current.failed
      BY <1>4, <2>4
    <3>2. \/ run.awaited = Current.awaited \ {item} /\ run.awaited # {}
          \/ Current.awaited = {item} /\ run.awaited = Receipts
      BY <1>4, <2>4
    <3>3. run.failed \cap run.awaited = {}
      BY <2>1, <2>4, <3>1, <3>2, ItemsApart DEF IInv
    <3>4. ASSUME NEW card \in cards \ run.awaited
          PROVE  shown'[card] # "pending" /\ (card \in run.failed <=> shown'[card] = "retry")
      <4>1. CASE card = item
        BY <1>1, <1>7, <2>1, <3>1, <4>1 DEF Verdicts
      <4>2. CASE card # item
        <5>1. card \notin Current.awaited
          BY <3>2, <3>4, <4>2
        <5> QED BY <1>7, <2>1, <2>2, <3>1, <3>4, <4>2, <5>1
      <4> QED BY <4>1, <4>2
    <3>5. CASE run.awaited = Current.awaited \ {item} /\ run.awaited # {}
      BY <1>1, <2>4, <3>3, <3>4, <3>5
    <3>6. CASE run.awaited = Receipts
      BY <3>3, <3>4, <3>6, ItemsApart DEF IInv
    <3> QED BY <3>2, <3>5, <3>6
  <2>5. CASE item \in Receipts
    <3>1. run.failed = Current.failed /\ item \notin cards
      BY <1>4, <2>5, ItemsApart DEF IInv
    <3>2. \/ run.awaited = Current.awaited \ {item} /\ run.awaited # {}
          \/ Current.awaited = {item} /\ run.awaited = {"overCap"}
      BY <1>4, <2>5
    <3>3. Current.awaited \subseteq Receipts /\ cards \cap Current.awaited = {}
      BY <1>1, <2>5, ItemsApart DEF IInv
    <3>4. \A card \in cards :
            shown'[card] # "pending" /\ (card \in run.failed <=> shown'[card] = "retry")
      BY <1>7, <2>1, <2>2, <3>1, <3>3
    <3>5. \A tx \in Receipts \ run.awaited : shown'[tx] # "pending"
      <4> SUFFICES ASSUME NEW tx \in Receipts \ run.awaited PROVE shown'[tx] # "pending"
        OBVIOUS
      <4>1. CASE tx = item
        BY <1>1, <1>7, <4>1 DEF Verdicts
      <4>2. CASE tx # item
        BY <1>1, <1>7, <2>1, <2>3, <2>5, <3>2, <4>2
      <4> QED BY <4>1, <4>2
    <3>6. run.failed \cap run.awaited = {}
      BY <2>1, <3>1, <3>2, ItemsApart DEF IInv
    <3> QED BY <3>2, <3>3, <3>4, <3>5, <3>6
  <2>6. CASE item = "overCap"
    BY <1>3, <2>6
  <2> QED BY <1>8, <2>4, <2>5, <2>6
<1>15. ConnTells'
  <2>1. CASE item # "overCap"
    <3>1. conn' = "busy"
      BY <1>1, <1>3, <2>1
    <3> QED BY <3>1 DEF ConnTells
  <2>2. CASE item = "overCap"
    <3>1. /\ conn' = Concluded(run) /\ run.failed = Current.failed
          /\ Current.awaited = {"overCap"} /\ ~(Current.awaited \subseteq cards)
      BY <1>1, <1>3, <1>4, <2>2, ItemsApart DEF IInv
    <3>2. /\ \A card \in cards :
               shown[card] # "pending" /\ (card \in run.failed <=> shown[card] = "retry")
          /\ \A tx \in Receipts : shown[tx] # "pending"
      BY <1>1, <3>1, ItemsApart DEF IInv, Progressed
    <3>3. /\ \A card \in cards : shown'[card] = shown[card]
          /\ \A tx \in Receipts : shown'[tx] = shown[tx]
      BY <1>7, <2>2, ItemsApart DEF IInv, Items
    <3>4. \A other \in Items : shown'[other] # "pending"
      BY <1>1, <1>7, <2>2, <3>2, <3>3 DEF Items, Verdicts
    <3>5. conn' = "on" => run.chainOk /\ run.failed = {}
      BY <3>1 DEF Concluded
    <3>6. conn' = "err" /\ ~archived => run.failed = cards
      BY <3>1 DEF Concluded
    <3>7. run.chainOk => deployment.chain = Mainnet
      BY <1>1, <1>4 DEF IInv, Truthful, Current, last
    <3> QED BY <1>3, <3>2, <3>3, <3>4, <3>5, <3>6, <3>7, WorldFixed DEF ConnTells
  <2> QED BY <2>1, <2>2
<1> QED BY <1>11, <1>12, <1>13, <1>14, <1>15 DEF IInv
-----------------------------------------------------------------------------
LEMMA NextIInv == IInv /\ [Next]_vars => IInv'
<1> SUFFICES ASSUME IInv, [Next]_vars PROVE IInv'
  OBVIOUS
<1>1. CASE FirstRun \/ Reverify
  BY <1>1, VerifyKeeps
<1>2. CASE \E r \in DOMAIN runs : getChainId(r)
  BY <1>2, ChainIdKeeps
<1>3. CASE \E r \in DOMAIN runs : \E item \in Items : Answer(r, item)
  BY <1>3, AnswerKeeps
<1>4. CASE \E answer \in answers : Settle(answer[1], answer[2], answer[3])
  BY <1>4, SettleKeeps
<1>5. CASE Move
  BY <1>5, MoveKeeps
<1>6. CASE UNCHANGED vars
  BY <1>6, PageFixed DEF vars, page, IInv, TypeOK
<1> QED BY <1>1, <1>2, <1>3, <1>4, <1>5, <1>6 DEF Next, Progress

\* What the page keeps of a run, whatever was read and in which order the
\* answers came (CurrentProofVerifier.tsx:34-103, ProofVerifier.tsx:52-123).
THEOREM TypeCorrect == Spec => []TypeOK
<1>1. IInv => TypeOK
  BY DEF IInv
<1> QED BY InitIInv, NextIInv, <1>1, PTL DEF Spec

\* A green verdict agreed with the chain in this very run: the guard of
\* verifyAll keeps the answers of an earlier one out (CurrentProofVerifier.tsx:34-47).
THEOREM GreenAgreedHolds == Spec => []GreenAgreed
<1>1. IInv => GreenAgreed
  <2> SUFFICES ASSUME IInv, NEW item \in Checked, shown[item] = "ok",
                      conn = "on" \/ deployment.chain = Mainnet
               PROVE  item \in agreed
    BY DEF GreenAgreed, Checked
  <2>1. deployment.chain = Mainnet
    BY DEF IInv, ConnTells
  <2> QED BY <2>1 DEF IInv, Truthful
<1> QED BY InitIInv, NextIInv, <1>1, PTL DEF Spec

\* The connection line is true of what the run read, and it is only drawn when
\* nothing is pending (CurrentProofVerifier.tsx:94-102).
THEOREM ConnTellsHolds == Spec => []ConnTells
<1>1. IInv => ConnTells
  BY DEF IInv
<1> QED BY InitIInv, NextIInv, <1>1, PTL DEF Spec
==============================================================================
