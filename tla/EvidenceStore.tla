---------------------------- MODULE EvidenceStore ---------------------------
(***************************************************************************)
(* web/lib/evidenceStore.ts and evidenceFs.ts: the server's record of      *)
(* attested evidence.  A JSON file is the durable copy; a process loads it *)
(* once into memory, answers reads from memory, and lets writes through    *)
(* one at a time, disk first.                                              *)
(*                                                                         *)
(* A step is what JavaScript runs between two awaits.  The flag `loaded'   *)
(* is set before the load is awaited, so only the call that found it unset *)
(* waits for the load; the others go on with what memory holds by then.    *)
(* A read that does so reports nothing; a write that does so copies an     *)
(* empty memory over the file, and the history variable `raced' tells      *)
(* behaviours with such a write from those without.                        *)
(*                                                                         *)
(* A record is identified with the claim it was attested for: its content  *)
(* is fixed by its hash, and what may differ is the claim it is bound to.  *)
(***************************************************************************)
EXTENDS Naturals, Sequences, FiniteSets

CONSTANTS
  Claims,         \* the claims, each with its coverage, that records are for
  Hashes,         \* evidence hashes
  HashOf,         \* the evidence hash of each claim on the chain
  Puts, ClaimOf,  \* calls of putEvidence, and the claim each one attests
  Readers,        \* concurrent calls of the reading functions
  None,           \* no record, no index entry
  Damaged,        \* a file that does not parse
  Writer,         \* the write at the head of the chain
  MaxRecords,     \* MAX_RECORDS
  MaxRestarts     \* bound: crashes of the process

ASSUME ConstantsAssumption ==
  /\ HashOf \in [Claims -> Hashes]
  /\ ClaimOf \in [Puts -> Claims]
  /\ IsFiniteSet(Hashes)
  /\ MaxRecords \in Nat \ {0}
  /\ MaxRestarts \in Nat
  /\ None \notin Claims \cup Hashes \cup Readers \cup {Writer}
  /\ Writer \notin Readers

Records == [Hashes -> Claims \cup {None}]
NoRecords == [h \in Hashes |-> None]
Stored(records) == {h \in Hashes : records[h] # None}

ASSUME DamagedAssumption == Damaged \notin Records

VARIABLES
  file,        \* the JSON file, replaced by one rename
  store,       \* const store: Map<hash, record>
  claimIndex,  \* const claimIndex: Map<claim, hash>
  loaded, loadFailed,
  loader,      \* the call whose initEvidenceStore is loading the file
  queue,       \* the writes on writeChain, the one that runs first
  phase,       \* where that one is suspended
  next,        \* its copy of the store with the new record
  read,        \* where each read is suspended
  reply,       \* what each caller of putEvidence knows
  restarts,
  raced        \* history: a write was let through while another call was loading

memory == <<store, claimIndex>>
flags == <<loaded, loadFailed>>
writing == <<queue, phase, next>>
vars == <<file, memory, flags, loader, writing, read, reply, restarts, raced>>

Intact == file # Damaged
Refusals == {"conflict", "full", "write_failed", "unavailable"}

TypeOK ==
  /\ file \in Records \cup {Damaged}
  /\ store \in Records
  /\ claimIndex \in [Claims -> Hashes \cup {None}]
  /\ loaded \in BOOLEAN
  /\ loadFailed \in BOOLEAN
  /\ loader \in Readers \cup {Writer, None}
  /\ queue \in Seq(Puts)
  /\ phase \in {"start", "load", "check", "persist", "commit"}
  /\ next \in Records
  /\ read \in [Readers -> {"idle", "load", "answer"}]
  /\ reply \in [Puts -> {"unsent", "waiting", "ok", "lost"} \cup Refusals]
  /\ restarts \in 0..MaxRestarts
  /\ raced \in BOOLEAN

ColdMemory ==
  /\ store' = NoRecords
  /\ claimIndex' = [c \in Claims |-> None]
  /\ loaded' = FALSE
  /\ loadFailed' = FALSE
  /\ loader' = None
  /\ queue' = <<>>
  /\ phase' = "start"
  /\ next' = NoRecords
  /\ read' = [r \in Readers |-> "idle"]

Init ==
  /\ file = NoRecords
  /\ store = NoRecords
  /\ claimIndex = [c \in Claims |-> None]
  /\ loaded = FALSE
  /\ loadFailed = FALSE
  /\ loader = None
  /\ queue = <<>>
  /\ phase = "start"
  /\ next = NoRecords
  /\ read = [r \in Readers |-> "idle"]
  /\ reply = [p \in Puts |-> "unsent"]
  /\ restarts = 0
  /\ raced = FALSE

-----------------------------------------------------------------------------
(***************************************************************************)
(* initEvidenceStore, called by a read or by the write at the head.        *)
(***************************************************************************)

\* Line 54: the first caller starts the load and is suspended until it ends;
\* any other is resumed at once, whatever memory holds.
StartLoad(caller) ==
  /\ loaded' = TRUE
  /\ loader' = caller
  /\ UNCHANGED loadFailed

FinishLoadUnindexed ==                                                 \* mutant
  /\ loader # None
  /\ \/ /\ Intact
        /\ store' = [h \in Hashes |-> IF file[h] # None THEN file[h] ELSE store[h]]
        /\ UNCHANGED <<claimIndex, loadFailed>>
     \/ loadFailed' = TRUE /\ UNCHANGED memory
  /\ loader' = None
  /\ phase' = IF loader = Writer THEN "check" ELSE phase
  /\ read' = [r \in Readers |-> IF loader = r THEN "answer" ELSE read[r]]
  /\ UNCHANGED <<file, loaded, queue, next, reply, restarts, raced>>

\* Lines 56-66, once evidenceFs is imported: the file's records are copied into
\* memory, or it cannot be read or parsed.
FinishLoad ==
  /\ loader # None
  /\ \/ /\ Intact
        /\ store' = [h \in Hashes |-> IF file[h] # None THEN file[h] ELSE store[h]]
        /\ claimIndex' = [c \in Claims |->
                            IF file[HashOf[c]] = c THEN HashOf[c] ELSE claimIndex[c]]
        /\ UNCHANGED loadFailed
     \/ loadFailed' = TRUE /\ UNCHANGED memory
  /\ loader' = None
  /\ phase' = IF loader = Writer THEN "check" ELSE phase
  /\ read' = [r \in Readers |-> IF loader = r THEN "answer" ELSE read[r]]
  /\ UNCHANGED <<file, loaded, queue, next, reply, restarts, raced>>

-----------------------------------------------------------------------------
(***************************************************************************)
(* putEvidence, with the writes chained one after the other.               *)
(***************************************************************************)

Running == Head(queue)
Record == ClaimOf[Running]
Key == HashOf[ClaimOf[Running]]

putEvidence(p) ==
  /\ reply[p] = "unsent"
  /\ reply' = [reply EXCEPT ![p] = "waiting"]
  /\ queue' = Append(queue, p)
  /\ UNCHANGED <<file, memory, flags, loader, phase, next, read, restarts, raced>>

BeginPutUnlessFailed ==                                                \* mutant
  /\ queue # <<>>
  /\ phase = "start"
  /\ ~loadFailed
  /\ IF loaded
     THEN phase' = "check" /\ UNCHANGED <<flags, loader>>
     ELSE phase' = "load" /\ StartLoad(Writer)
  /\ UNCHANGED <<file, memory, queue, next, read, reply, restarts, raced>>

BeginPut ==
  /\ queue # <<>>
  /\ phase = "start"
  /\ IF loaded
     THEN phase' = "check" /\ UNCHANGED <<flags, loader>>
     ELSE phase' = "load" /\ StartLoad(Writer)
  /\ UNCHANGED <<file, memory, queue, next, read, reply, restarts, raced>>

\* The write at the head ends: the chain goes on, whatever the answer.
Answered(answer) ==
  /\ reply' = [reply EXCEPT ![Running] = answer]
  /\ queue' = Tail(queue)
  /\ phase' = "start"
  /\ next' = NoRecords

GroundAfterFailedLoad ==                                               \* mutant
  IF store[Key] # None THEN "conflict"
  ELSE IF Cardinality(Stored(store)) >= MaxRecords THEN "full"
  ELSE "none"
GroundOverwriting ==                                                   \* mutant
  IF loadFailed THEN "unavailable"
  ELSE IF Cardinality(Stored(store)) >= MaxRecords THEN "full"
  ELSE "none"
GroundOneTooMany ==                                                    \* mutant
  IF loadFailed THEN "unavailable"
  ELSE IF store[Key] # None THEN "conflict"
  ELSE IF Cardinality(Stored(store)) > MaxRecords THEN "full"
  ELSE "none"

\* Lines 89-101: the first ground to refuse, or "none".
Ground ==
  IF loadFailed THEN "unavailable"
  ELSE IF store[Key] # None THEN "conflict"
  ELSE IF Cardinality(Stored(store)) >= MaxRecords THEN "full"
  ELSE "none"

CheckPutMemoryFirst ==                                                 \* mutant
  /\ phase = "check"
  /\ IF Ground = "none"
     THEN /\ next' = [store EXCEPT ![Key] = Record]
          /\ store' = next'
          /\ phase' = "persist"
          /\ raced' = (raced \/ loader # None)
          /\ UNCHANGED <<queue, reply>>
     ELSE Answered(Ground) /\ UNCHANGED <<store, raced>>
  /\ UNCHANGED <<file, claimIndex, flags, loader, read, restarts>>

CheckPut ==
  /\ phase = "check"
  /\ IF Ground = "none"
     THEN /\ next' = [store EXCEPT ![Key] = Record]
          /\ phase' = "persist"
          /\ raced' = (raced \/ loader # None)
          /\ UNCHANGED <<queue, reply>>
     ELSE Answered(Ground) /\ UNCHANGED raced
  /\ UNCHANGED <<file, memory, flags, loader, read, restarts>>

\* The write to a temporary file and the rename run without interruption; the
\* module they come from is not imported before an earlier import of it is.
Persist ==
  /\ phase = "persist"
  /\ loader = None
  /\ \/ /\ file' = next
        /\ phase' = "commit"
        /\ UNCHANGED <<queue, next, reply>>
     \/ Answered("write_failed") /\ UNCHANGED file
  /\ UNCHANGED <<memory, flags, loader, read, restarts, raced>>

CommitPut ==
  /\ phase = "commit"
  /\ store' = [store EXCEPT ![Key] = Record]
  /\ claimIndex' = [claimIndex EXCEPT ![Record] = Key]
  /\ Answered("ok")
  /\ UNCHANGED <<file, flags, loader, read, restarts, raced>>

-----------------------------------------------------------------------------
(***************************************************************************)
(* getEvidence, getEvidenceByClaim and getSeenEvidenceHashes.              *)
(***************************************************************************)

BeginRead(r) ==
  /\ read[r] = "idle"
  /\ IF loaded
     THEN read' = [read EXCEPT ![r] = "answer"] /\ UNCHANGED <<flags, loader>>
     ELSE read' = [read EXCEPT ![r] = "load"] /\ StartLoad(r)
  /\ UNCHANGED <<file, memory, writing, reply, restarts, raced>>

AnswerRead(r) ==
  /\ read[r] = "answer"
  /\ read' = [read EXCEPT ![r] = "idle"]
  /\ UNCHANGED <<file, memory, flags, loader, writing, reply, restarts, raced>>

\* What a read that is answered now returns.
getEvidence(h) == IF loadFailed THEN None ELSE store[h]

getEvidenceByClaim(c) ==
  IF loadFailed \/ claimIndex[c] = None THEN None ELSE store[claimIndex[c]]

getSeenEvidenceHashes(c) ==
  IF loadFailed THEN {} ELSE {h \in Stored(store) : store[h] # c}

-----------------------------------------------------------------------------
\* The process dies, at any point, and another starts; callers lose contact.
Restart ==
  /\ restarts < MaxRestarts
  /\ restarts' = restarts + 1
  /\ ColdMemory
  /\ reply' = [p \in Puts |-> IF reply[p] = "waiting" THEN "lost" ELSE reply[p]]
  /\ UNCHANGED <<file, raced>>

\* The file is damaged from outside.
Damage ==
  /\ file # NoRecords
  /\ file' = Damaged
  /\ UNCHANGED <<memory, flags, loader, writing, read, reply, restarts, raced>>

Serve ==
  \/ FinishLoad
  \/ BeginPut \/ CheckPut \/ Persist \/ CommitPut
  \/ \E r \in Readers : AnswerRead(r)

Next ==
  \/ Serve
  \/ \E p \in Puts : putEvidence(p)
  \/ \E r \in Readers : BeginRead(r)
  \/ Restart
  \/ Damage

\* The event loop resumes whatever is ready, and calls of the file system
\* return; nothing obliges clients to call.
Fairness ==
  /\ WF_vars(FinishLoad)
  /\ WF_vars(BeginPut) /\ WF_vars(CheckPut) /\ WF_vars(Persist) /\ WF_vars(CommitPut)
  /\ \A r \in Readers : WF_vars(AnswerRead(r))

Spec == Init /\ [][Next]_vars /\ Fairness

-----------------------------------------------------------------------------
(***************************************************************************)
(* What the store promises (lines 4-34).  Some of it is lost for good when *)
(* a write is let through while another call's load is under way; that     *)
(* this is the only way to lose it is what `raced' is for.                 *)
(***************************************************************************)

\* Lines 26-27: a record that was acknowledged is in the file, whatever crashes
\* and writes come later, as long as nobody damages the file.
RecordsSurvive ==
  \A p \in Puts : reply[p] = "ok" /\ Intact => file[HashOf[ClaimOf[p]]] = ClaimOf[p]

\* Lines 26-33: unless a write has overtaken another call's load, acknowledged
\* records survive, whoever loads the file; a damaged file is never replaced by
\* one that lacks them.
AckedIsDurable == ~raced => RecordsSurvive

\* Line 21: among all calls ever made for a hash at most one is acknowledged,
\* across retries, duplicates, other claims with the same hash and restarts,
\* unless a write has overtaken another call's load.
FirstWriteWins ==
  ~raced =>
    \A p, q \in Puts :
      /\ reply[p] = "ok" /\ reply[q] = "ok"
      /\ HashOf[ClaimOf[p]] = HashOf[ClaimOf[q]]
      => p = q

\* A client told "conflict" takes its claim for attested (AppConsole, 690-699):
\* a record for that hash has then been stored, and stays, unless a write has
\* overtaken another call's load.
ConflictMeansStored ==
  ~raced =>
    \A p \in Puts : reply[p] = "conflict" /\ Intact => file[HashOf[ClaimOf[p]]] # None

\* Lines 76-78: when every call for a hash was refused for a reason other than
\* a conflict, no later write smuggles that record into the file, not even one
\* that overtakes a load.
RefusalStoresNothing ==
  \A h \in Hashes :
    /\ \A p \in Puts : HashOf[ClaimOf[p]] = h =>
         reply[p] \in {"unsent", "full", "write_failed", "unavailable"}
    /\ Intact
    => file[h] = None

\* Lines 28-33: a read that is answered while nobody loads the file, be it the
\* read that began the load at a cold start or a later one, sees every record
\* acknowledged before, by hash, by claim and among the hashes of other claims,
\* unless the load failed or a write has overtaken it.  A read answered during
\* another call's load is not covered: line 55 lets it miss them.
ReadsSeeAcked ==
  \A r \in Readers, p \in Puts :
    read[r] = "answer" /\ loader = None /\ ~loadFailed /\ ~raced /\ reply[p] = "ok" =>
      LET c == ClaimOf[p] IN
      /\ getEvidence(HashOf[c]) = c
      /\ getEvidenceByClaim(c) = c
      /\ \A d \in Claims \ {c} : HashOf[c] \in getSeenEvidenceHashes(d)

\* Line 99: the file never holds more than MAX_RECORDS records, whoever loads.
WithinCapacity == Intact => Cardinality(Stored(file)) <= MaxRecords

\* A write is answered or its process dies: no refusal, failed load or failed
\* write leaves the chain, and whoever waits on it, hanging.
PutsAnswered ==
  \A p \in Puts : reply[p] = "waiting" ~> reply[p] # "waiting"
=============================================================================
