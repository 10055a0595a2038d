------------------------- MODULE EvidenceStoreProofs -------------------------
(***************************************************************************)
(* Why the store keeps what it promises, whoever loads the file, for any   *)
(* claims, hashes, calls, capacity and number of crashes.                  *)
(*                                                                         *)
(* Memory is empty until the load ends, or for good when it fails; from    *)
(* then on it is what an intact file holds, but for the one record that a  *)
(* write has persisted and not yet committed.  A write that found memory   *)
(* loaded writes all that was acknowledged before.  A write that was let   *)
(* through during a load does not: what holds nevertheless, where the      *)
(* records come from and how many there are, is kept apart from what holds *)
(* until then (Faithful).                                                  *)
(***************************************************************************)
EXTENDS EvidenceStoreRefinement, FiniteSetTheorems, SequenceTheorems, TLAPS

HashOfPut(p) == HashOf[ClaimOf[p]]
NoIndex == [c \in Claims |-> None]

\* Every queued call waits for its answer, and is queued once.
Queued ==
  /\ \A i \in DOMAIN queue : reply[queue[i]] = "waiting"
  /\ \A i, j \in DOMAIN queue : queue[i] = queue[j] => i = j
  /\ phase # "start" => queue # <<>>

\* Whoever found the store unloaded loads it, and no write is persisted meanwhile.
Loading ==
  /\ loader = Writer <=> phase = "load"
  /\ loader # None => loaded /\ ~loadFailed /\ phase # "commit"
  /\ loadFailed => loaded
  /\ phase # "start" => loaded
  /\ \A r \in Readers : read[r] # "idle" => loaded

\* What a write persists fits, and so does what is in the file.
Sized ==
  /\ phase \in {"persist", "commit"} => Cardinality(Stored(next)) <= MaxRecords
  /\ WithinCapacity

\* A record comes from a call that was acknowledged, or that a crash cut off,
\* or from the write at the head.
Committed(h) == \E p \in Puts : HashOfPut(p) = h /\ reply[p] \in {"ok", "lost"}

Sourced ==
  \A h \in Hashes :
    /\ store[h] # None => Committed(h)
    /\ phase \in {"persist", "commit"} /\ next[h] # None => Committed(h) \/ h = Key
    /\ Intact /\ file[h] # None => Committed(h) \/ (phase = "commit" /\ h = Key)

\* Memory is empty unless it was loaded, and what is persisted was checked
\* against a loaded one.
Warmed ==
  /\ ~Warm => store = NoRecords /\ claimIndex = NoIndex
  /\ phase \in {"persist", "commit"} => Warm

\* The file is what memory holds, or is about to hold.
WrittenFromMemory ==
  /\ phase \in {"persist", "commit"} =>
       next = [store EXCEPT ![Key] = Record] /\ store[Key] = None
  /\ Warm /\ Intact => file = IF phase = "commit" THEN next ELSE store

\* What was acknowledged, and what was in conflict, is in memory and in the file.
Kept ==
  \A p \in Puts :
    /\ reply[p] = "ok" =>
         /\ Warm => store[HashOfPut(p)] = ClaimOf[p] /\ claimIndex[ClaimOf[p]] = HashOfPut(p)
         /\ Intact => file[HashOfPut(p)] = ClaimOf[p]
    /\ reply[p] = "conflict" =>
         /\ Warm => store[HashOfPut(p)] # None
         /\ Intact => file[HashOfPut(p)] # None

\* One acknowledged call for a hash.
OnePerHash ==
  \A p, q \in Puts :
    reply[p] = "ok" /\ reply[q] = "ok" /\ HashOfPut(p) = HashOfPut(q) => p = q

Faithful == Warmed /\ WrittenFromMemory /\ Kept /\ OnePerHash

IInv ==
  /\ TypeOK /\ Queued /\ Loading /\ Sized /\ Sourced
  /\ ~raced => Faithful

-----------------------------------------------------------------------------
LEMMA PutsTyped ==
  ASSUME NEW p \in Puts
  PROVE  /\ ClaimOf[p] \in Claims /\ ClaimOf[p] # None
         /\ HashOfPut(p) \in Hashes /\ HashOfPut(p) # None
         /\ HashOfPut(p) = HashOf[ClaimOf[p]]
BY ConstantsAssumption DEF HashOfPut

\* The write at the head of the chain.
LEMMA RunningTyped ==
  ASSUME TypeOK, queue # <<>>
  PROVE  /\ 1 \in DOMAIN queue /\ Running = queue[1] /\ Running \in Puts
         /\ Record = ClaimOf[Running] /\ Key = HashOfPut(Running)
         /\ Record \in Claims /\ Record # None /\ Key \in Hashes
         /\ Key = HashOf[Record]
<1>1. queue \in Seq(Puts)
  BY DEF TypeOK
<1>2. Len(queue) \in Nat /\ DOMAIN queue = 1..Len(queue) /\ Len(queue) # 0
  BY <1>1, LenProperties, EmptySeq
<1>3. 1 \in DOMAIN queue /\ queue[1] \in Puts
  BY <1>1, <1>2, ElementOfSeq
<1>4. Running = queue[1]
  BY <1>1 DEF Running
<1> QED BY <1>3, <1>4, PutsTyped DEF Record, Key, HashOfPut

LEMMA StoredSize ==
  ASSUME NEW records \in Records
  PROVE  IsFiniteSet(Stored(records)) /\ Cardinality(Stored(records)) \in Nat
<1>1. Stored(records) \in SUBSET Hashes
  BY DEF Stored
<1>2. IsFiniteSet(Stored(records))
  BY <1>1, FS_Subset, ConstantsAssumption
<1> QED BY <1>2, FS_CardinalityType

LEMMA NothingStored ==
  /\ NoRecords \in Records /\ NoRecords # Damaged
  /\ Stored(NoRecords) = {} /\ Cardinality(Stored(NoRecords)) = 0
  /\ \A h \in Hashes : NoRecords[h] = None
<1>1. NoRecords \in Records /\ \A h \in Hashes : NoRecords[h] = None
  BY DEF NoRecords, Records
<1>2. Stored(NoRecords) = {}
  BY <1>1 DEF Stored
<1> QED BY <1>1, <1>2, FS_EmptySet, DamagedAssumption

LEMMA InitIInv == Init => IInv
<1> SUFFICES ASSUME Init PROVE IInv
  OBVIOUS
<1>1. queue = <<>> /\ queue \in Seq(Puts) /\ DOMAIN queue = {}
  BY EmptySeq, LenProperties DEF Init
<1>2. 0 \in 0..MaxRestarts
  BY ConstantsAssumption
<1>3. TypeOK
  BY <1>1, <1>2, NothingStored DEF TypeOK, Init
<1>4. Queued
  BY <1>1 DEF Queued, Init
<1>5. Loading
  BY ConstantsAssumption DEF Loading, Init
<1>6. Faithful
  BY DEF Faithful, Warmed, WrittenFromMemory, Kept, OnePerHash, Init, Warm, NoIndex
<1>7. Sourced
  BY NothingStored DEF Sourced, Init
<1>8. Sized
  BY NothingStored, ConstantsAssumption DEF Sized, WithinCapacity, Init
<1> QED BY <1>3, <1>4, <1>5, <1>6, <1>7, <1>8 DEF IInv
-----------------------------------------------------------------------------
(* What a step leaves alone.                                               *)

\* Reads, and whatever else changes none of the records and the calls.
LEMMA RecordsKept ==
  ASSUME IInv, UNCHANGED <<file, store, claimIndex, queue, phase, next, reply, raced>>,
         Warm' = Warm
  PROVE  /\ Sized' /\ Sourced' /\ Queued'
         /\ ~raced' => Faithful'
<1>1. Running' = Running /\ Key' = Key /\ Record' = Record
  BY DEF Running, Key, Record
<1>2. \A p : HashOfPut(p)' = HashOfPut(p)
  BY DEF HashOfPut
<1>3. \A h : Committed(h)' <=> Committed(h)
  BY DEF Committed, HashOfPut
<1>4. Sized' /\ Queued'
  BY DEF IInv, Sized, WithinCapacity, Intact, Stored, Queued
<1>5. Sourced'
  BY <1>1, <1>3 DEF IInv, Sourced, Intact
<1>6. ASSUME ~raced' PROVE Faithful'
  <2>1. Faithful
    BY <1>6 DEF IInv
  <2>2. Warmed' /\ WrittenFromMemory'
    BY <1>1, <2>1 DEF Faithful, Warmed, WrittenFromMemory, Intact
  <2>3. Kept' /\ OnePerHash'
    BY <1>2, <2>1 DEF Faithful, Kept, OnePerHash, Intact
  <2> QED BY <2>2, <2>3 DEF Faithful
<1> QED BY <1>4, <1>5, <1>6

LEMMA BeginReadKeeps ==
  ASSUME IInv, NEW r \in Readers, BeginRead(r)
  PROVE  IInv'
<1>1. /\ \/ loaded /\ read' = [read EXCEPT ![r] = "answer"]
            /\ UNCHANGED <<loaded, loadFailed, loader>>
         \/ /\ ~loaded /\ read' = [read EXCEPT ![r] = "load"]
            /\ loaded' = TRUE /\ loader' = r /\ UNCHANGED loadFailed
      /\ UNCHANGED <<file, store, claimIndex, queue, phase, next, reply, restarts, raced>>
  BY DEF BeginRead, StartLoad, flags, memory, writing
<1>2. r # None /\ r # Writer
  BY ConstantsAssumption
<1>3. TypeOK'
  BY <1>1 DEF IInv, TypeOK
<1>4. Warm' = Warm
  BY <1>1, <1>2 DEF Warm
<1>5. Loading'
  BY <1>1, <1>2 DEF IInv, Loading, TypeOK
<1> QED BY <1>1, <1>3, <1>4, <1>5, RecordsKept DEF IInv

LEMMA AnswerReadKeeps ==
  ASSUME IInv, NEW r \in Readers, AnswerRead(r)
  PROVE  IInv'
<1>1. /\ read' = [read EXCEPT ![r] = "idle"]
      /\ UNCHANGED <<file, store, claimIndex, loaded, loadFailed, loader, queue, phase, next,
                     reply, restarts, raced>>
  BY DEF AnswerRead, flags, memory, writing
<1>2. TypeOK'
  BY <1>1 DEF IInv, TypeOK
<1>3. Warm' = Warm
  BY <1>1 DEF Warm
<1>4. Loading'
  BY <1>1 DEF IInv, Loading, TypeOK
<1> QED BY <1>1, <1>2, <1>3, <1>4, RecordsKept DEF IInv

\* A damaged file vouches for nothing.
LEMMA DamageKeeps == IInv /\ Damage => IInv'
<1> SUFFICES ASSUME IInv, Damage PROVE IInv'
  OBVIOUS
<1>1. /\ file' = Damaged /\ ~Intact'
      /\ UNCHANGED <<store, claimIndex, loaded, loadFailed, loader, queue, phase, next, read,
                     reply, restarts, raced>>
  BY DEF Damage, Intact, memory, flags, writing
<1>2. /\ Running' = Running /\ Key' = Key /\ Record' = Record /\ Warm' = Warm
      /\ \A h : Committed(h)' <=> Committed(h)
  BY <1>1 DEF Running, Key, Record, Warm, Committed, HashOfPut
<1>3. TypeOK'
  BY <1>1 DEF IInv, TypeOK
<1>4. Queued' /\ Loading'
  BY <1>1 DEF IInv, Queued, Loading
<1>5. Sized' /\ Sourced'
  BY <1>1, <1>2 DEF IInv, Sized, WithinCapacity, Stored, Sourced
<1>6. ASSUME ~raced' PROVE Faithful'
  <2>1. Faithful
    BY <1>1, <1>6 DEF IInv
  <2>2. Warmed' /\ WrittenFromMemory'
    BY <1>1, <1>2, <2>1 DEF Faithful, Warmed, WrittenFromMemory
  <2>3. Kept' /\ OnePerHash'
    BY <1>1, <1>2, <2>1 DEF Faithful, Kept, OnePerHash, HashOfPut
  <2> QED BY <2>2, <2>3 DEF Faithful
<1> QED BY <1>3, <1>4, <1>5, <1>6 DEF IInv

\* A crash: the file stays, and callers that waited may or may not be in it.
LEMMA RestartKeeps == IInv /\ Restart => IInv'
<1> SUFFICES ASSUME IInv, Restart PROVE IInv'
  OBVIOUS
<1>1. /\ restarts < MaxRestarts /\ restarts' = restarts + 1 /\ file' = file /\ raced' = raced
      /\ store' = NoRecords /\ claimIndex' = NoIndex /\ loaded' = FALSE /\ loadFailed' = FALSE
      /\ loader' = None /\ queue' = <<>> /\ phase' = "start" /\ next' = NoRecords
      /\ read' = [r \in Readers |-> "idle"]
      /\ reply' = [p \in Puts |-> IF reply[p] = "waiting" THEN "lost" ELSE reply[p]]
  BY DEF Restart, ColdMemory, NoIndex
<1>2. ~Warm' /\ (Intact' <=> Intact)
  BY <1>1 DEF Warm, Intact
<1>3. queue' \in Seq(Puts) /\ DOMAIN queue' = {}
  BY <1>1, EmptySeq, LenProperties
<1>4. TypeOK'
  <2>1. claimIndex' \in [Claims -> Hashes \cup {None}] /\ store' \in Records /\ next' \in Records
    BY <1>1, NothingStored DEF NoIndex
  <2>2. restarts' \in 0..MaxRestarts
    BY <1>1, ConstantsAssumption DEF IInv, TypeOK
  <2>3. reply' \in [Puts -> {"unsent", "waiting", "ok", "lost"} \cup Refusals]
    BY <1>1 DEF IInv, TypeOK
  <2>4. read' \in [Readers -> {"idle", "load", "answer"}]
    BY <1>1
  <2> QED BY <1>1, <1>3, <2>1, <2>2, <2>3, <2>4 DEF IInv, TypeOK
<1>5. Queued'
  BY <1>1, <1>3 DEF Queued
<1>6. Loading'
  BY <1>1, ConstantsAssumption DEF Loading
<1>7. Sized'
  BY <1>1, <1>2 DEF IInv, Sized, WithinCapacity, Stored
<1>8. Sourced'
  <2>1. \A h : Committed(h) => Committed(h)'
    BY <1>1 DEF Committed, HashOfPut
  <2>2. ASSUME NEW h \in Hashes, phase = "commit", h = Key PROVE Committed(h)'
    <3>1. queue # <<>>
      BY <2>2 DEF IInv, Queued
    <3>2. reply[Running] = "waiting" /\ Running \in Puts /\ Key = HashOfPut(Running)
      BY <3>1, RunningTyped DEF IInv, Queued
    <3> QED BY <1>1, <2>2, <3>2 DEF Committed, HashOfPut
  <2> QED BY <1>1, <1>2, <2>1, <2>2, NothingStored DEF IInv, Sourced
<1>9. ASSUME ~raced' PROVE Faithful'
  <2>1. Faithful
    BY <1>1, <1>9 DEF IInv
  <2>2. Warmed' /\ WrittenFromMemory'
    BY <1>1, <1>2 DEF Warmed, WrittenFromMemory
  <2>3. Kept' /\ OnePerHash'
    BY <1>1, <1>2, <2>1 DEF Faithful, Kept, OnePerHash, HashOfPut
  <2> QED BY <2>2, <2>3 DEF Faithful
<1> QED BY <1>4, <1>5, <1>6, <1>7, <1>8, <1>9 DEF IInv
-----------------------------------------------------------------------------
(* The chain of writes.                                                    *)

LEMMA PutKeeps ==
  ASSUME IInv, NEW p \in Puts, putEvidence(p)
  PROVE  IInv'
<1>1. /\ reply[p] = "unsent" /\ reply' = [reply EXCEPT ![p] = "waiting"]
      /\ queue' = Append(queue, p)
      /\ UNCHANGED <<file, store, claimIndex, loaded, loadFailed, loader, phase, next, read,
                     restarts, raced>>
  BY DEF putEvidence, memory, flags
<1>2. queue \in Seq(Puts)
  BY DEF IInv, TypeOK
<1>3. /\ queue' \in Seq(Puts) /\ queue' # <<>> /\ Len(queue') = Len(queue) + 1
      /\ \A i \in 1..Len(queue) : queue'[i] = queue[i]
      /\ queue'[Len(queue) + 1] = p
  BY <1>1, <1>2, AppendProperties
<1>4. /\ Len(queue) \in Nat /\ DOMAIN queue = 1..Len(queue)
      /\ DOMAIN queue' = 1..(Len(queue) + 1)
  BY <1>2, <1>3, LenProperties
<1>5. \A i \in DOMAIN queue : queue[i] \in Puts /\ queue[i] # p
  <2>1. \A i \in DOMAIN queue : queue[i] \in Puts
    BY <1>2, <1>4, ElementOfSeq
  <2> QED BY <1>1, <2>1 DEF IInv, Queued
<1>6. reply' \in [Puts -> {"unsent", "waiting", "ok", "lost"} \cup Refusals]
  BY <1>1 DEF IInv, TypeOK
<1>7. TypeOK'
  BY <1>1, <1>3, <1>6 DEF IInv, TypeOK
<1>8. Queued'
  <2>1. ASSUME NEW i \in DOMAIN queue' PROVE reply'[queue'[i]] = "waiting"
    <3>1. CASE i \in DOMAIN queue
      BY <1>1, <1>3, <1>4, <1>5, <3>1 DEF IInv, Queued, TypeOK
    <3>2. CASE i = Len(queue) + 1
      BY <1>1, <1>3, <3>2 DEF IInv, TypeOK
    <3> QED BY <1>4, <3>1, <3>2
  <2>2. ASSUME NEW i \in DOMAIN queue', NEW j \in DOMAIN queue', queue'[i] = queue'[j]
        PROVE  i = j
    <3>1. CASE i \in DOMAIN queue /\ j \in DOMAIN queue
      BY <1>3, <1>4, <2>2, <3>1 DEF IInv, Queued
    <3>2. CASE i = Len(queue) + 1 \/ j = Len(queue) + 1
      BY <1>3, <1>4, <1>5, <2>2, <3>2
    <3> QED BY <1>4, <3>1, <3>2
  <2> QED BY <1>3, <2>1, <2>2 DEF Queued
<1>9. Warm' = Warm /\ Intact' = Intact
  BY <1>1 DEF Warm, Intact
<1>10. Loading'
  BY <1>1 DEF IInv, Loading
<1>11. phase # "start" => Running' = Running /\ Key' = Key /\ Record' = Record
  <2> SUFFICES ASSUME phase # "start"
               PROVE  Running' = Running /\ Key' = Key /\ Record' = Record
    OBVIOUS
  <2>1. queue # <<>>
    BY DEF IInv, Queued
  <2>2. Running = queue[1] /\ 1 \in DOMAIN queue
    BY <2>1, RunningTyped DEF IInv
  <2>3. Running' = queue'[1]
    BY <1>3 DEF Running
  <2>4. Running' = Running
    BY <1>3, <1>4, <2>2, <2>3
  <2> QED BY <2>4 DEF Key, Record
<1>12. Sized'
  BY <1>1, <1>9 DEF IInv, Sized, WithinCapacity, Stored
<1>13. Sourced'
  <2>1. \A h : Committed(h) => Committed(h)'
    BY <1>1 DEF Committed, HashOfPut, IInv, TypeOK
  <2> QED BY <1>1, <1>9, <1>11, <2>1 DEF IInv, Sourced
<1>14. ASSUME ~raced' PROVE Faithful'
  <2>1. Faithful
    BY <1>1, <1>14 DEF IInv
  <2>2. Warmed' /\ WrittenFromMemory'
    BY <1>1, <1>9, <1>11, <2>1 DEF Faithful, Warmed, WrittenFromMemory
  <2>3. Kept' /\ OnePerHash'
    BY <1>1, <1>9, <2>1 DEF IInv, Faithful, Kept, OnePerHash, HashOfPut, TypeOK
  <2> QED BY <2>2, <2>3 DEF Faithful
<1> QED BY <1>7, <1>8, <1>10, <1>12, <1>13, <1>14 DEF IInv

\* An intact file is what memory holds after the load; a failed one leaves it
\* empty.
LEMMA FinishLoadKeeps == IInv /\ FinishLoad => IInv'
<1> SUFFICES ASSUME IInv, FinishLoad PROVE IInv'
  OBVIOUS
<1>1. /\ loader # None /\ loaded /\ ~loadFailed /\ phase # "commit" /\ ~Warm
      /\ loader = Writer <=> phase = "load"
  BY DEF FinishLoad, IInv, Loading, Warm
<1>2. /\ loader' = None /\ loaded' /\ phase' \in {"check", phase}
      /\ phase' = (IF loader = Writer THEN "check" ELSE phase)
      /\ read' = [r \in Readers |-> IF loader = r THEN "answer" ELSE read[r]]
      /\ UNCHANGED <<file, loaded, queue, next, reply, restarts, raced>>
  BY <1>1 DEF FinishLoad
<1>3. /\ phase' # "load" /\ phase' # "commit"
      /\ phase' \in {"persist", "commit"} <=> phase \in {"persist", "commit"}
      /\ phase' # "start" <=> phase # "start"
  BY <1>1, <1>2
<1>4. /\ Running' = Running /\ Key' = Key /\ Record' = Record /\ Intact' = Intact
      /\ \A h : Committed(h)' <=> Committed(h)
  BY <1>2 DEF Running, Key, Record, Intact, Committed, HashOfPut
<1>5. read' \in [Readers -> {"idle", "load", "answer"}]
  BY <1>2 DEF IInv, TypeOK
<1>6. Queued' /\ Sized'
  BY <1>2, <1>3, <1>4 DEF IInv, Queued, Sized, WithinCapacity, Stored
<1>7. Loading'
  BY <1>1, <1>2, <1>3, ConstantsAssumption DEF IInv, Loading
<1>8. CASE /\ Intact
           /\ store' = [h \in Hashes |-> IF file[h] # None THEN file[h] ELSE store[h]]
           /\ claimIndex' = [c \in Claims |->
                               IF file[HashOf[c]] = c THEN HashOf[c] ELSE claimIndex[c]]
           /\ UNCHANGED loadFailed
  <2>1. file \in Records /\ store \in Records
    BY <1>8 DEF IInv, TypeOK, Intact
  <2>2. store' \in Records
    BY <1>8, <2>1 DEF Records
  <2>3. claimIndex' \in [Claims -> Hashes \cup {None}]
    BY <1>8, ConstantsAssumption DEF IInv, TypeOK
  <2>4. TypeOK'
    BY <1>2, <1>5, <1>8, <2>2, <2>3 DEF IInv, TypeOK
  <2>5. Sourced'
    BY <1>1, <1>2, <1>3, <1>4, <1>8 DEF IInv, Sourced
  <2>6. ASSUME ~raced' PROVE Faithful'
    <3>1. Faithful /\ phase \notin {"persist", "commit"}
      BY <1>1, <1>2, <2>6 DEF IInv, Faithful, Warmed
    <3>2. store = NoRecords /\ claimIndex = NoIndex
      BY <1>1, <3>1 DEF Faithful, Warmed
    <3>3. store' = file
      <4>1. \A h \in Hashes : store'[h] = file[h]
        BY <1>8, <3>2, NothingStored
      <4> QED BY <1>8, <2>1, <4>1 DEF Records
    <3>4. Warm'
      BY <1>1, <1>2, <1>8 DEF Warm
    <3>5. Warmed' /\ WrittenFromMemory'
      BY <1>2, <1>3, <3>1, <3>3, <3>4 DEF Warmed, WrittenFromMemory
    <3>6. \A p \in Puts : reply[p] = "ok" =>
            file[HashOfPut(p)] = ClaimOf[p] /\ claimIndex'[ClaimOf[p]] = HashOfPut(p)
      BY <1>8, <3>1, PutsTyped DEF Faithful, Kept
    <3>7. Kept' /\ OnePerHash'
      BY <1>2, <1>8, <3>1, <3>3, <3>6 DEF Faithful, Kept, OnePerHash, HashOfPut
    <3> QED BY <3>5, <3>7 DEF Faithful
  <2> QED BY <1>6, <1>7, <2>4, <2>5, <2>6 DEF IInv
<1>9. CASE loadFailed' = TRUE /\ UNCHANGED memory
  <2>1. UNCHANGED <<store, claimIndex>> /\ ~Warm'
    BY <1>9 DEF memory, Warm
  <2>2. TypeOK'
    BY <1>2, <1>5, <1>9, <2>1 DEF IInv, TypeOK
  <2>3. Sourced'
    BY <1>1, <1>2, <1>3, <1>4, <2>1 DEF IInv, Sourced
  <2>4. ASSUME ~raced' PROVE Faithful'
    <3>1. Faithful /\ phase \notin {"persist", "commit"}
      BY <1>1, <1>2, <2>4 DEF IInv, Faithful, Warmed
    <3>2. Warmed' /\ WrittenFromMemory'
      BY <1>1, <1>3, <2>1, <3>1 DEF Faithful, Warmed, WrittenFromMemory
    <3>3. Kept' /\ OnePerHash'
      BY <1>2, <1>4, <2>1, <3>1 DEF Faithful, Kept, OnePerHash, HashOfPut
    <3> QED BY <3>2, <3>3 DEF Faithful
  <2> QED BY <1>6, <1>7, <2>2, <2>3, <2>4 DEF IInv
<1> QED BY <1>8, <1>9 DEF FinishLoad

LEMMA BeginPutKeeps == IInv /\ BeginPut => IInv'
<1> SUFFICES ASSUME IInv, BeginPut PROVE IInv'
  OBVIOUS
<1>1. /\ queue # <<>> /\ phase = "start"
      /\ \/ loaded /\ phase' = "check" /\ UNCHANGED <<loaded, loadFailed, loader>>
         \/ /\ ~loaded /\ phase' = "load" /\ loaded' = TRUE /\ loader' = Writer
            /\ UNCHANGED loadFailed
      /\ UNCHANGED <<file, store, claimIndex, queue, next, read, reply, restarts, raced>>
  BY DEF BeginPut, StartLoad, memory, flags
<1>2. /\ Running' = Running /\ Key' = Key /\ Record' = Record /\ Intact' = Intact
      /\ \A h : Committed(h)' <=> Committed(h)
  BY <1>1 DEF Running, Key, Record, Intact, Committed, HashOfPut
<1>3. Warm' = Warm
  BY <1>1, ConstantsAssumption DEF Warm
<1>4. TypeOK'
  BY <1>1 DEF IInv, TypeOK
<1>5. Queued' /\ Sized'
  BY <1>1, <1>2 DEF IInv, Queued, Sized, WithinCapacity, Stored
<1>6. Loading'
  BY <1>1, ConstantsAssumption DEF IInv, Loading
<1>7. Sourced'
  BY <1>1, <1>2 DEF IInv, Sourced
<1>8. ASSUME ~raced' PROVE Faithful'
  <2>1. Faithful
    BY <1>1, <1>8 DEF IInv
  <2>2. Warmed' /\ WrittenFromMemory'
    BY <1>1, <1>2, <1>3, <2>1 DEF Faithful, Warmed, WrittenFromMemory
  <2>3. Kept' /\ OnePerHash'
    BY <1>1, <1>2, <1>3, <2>1 DEF Faithful, Kept, OnePerHash, HashOfPut
  <2> QED BY <2>2, <2>3 DEF Faithful
<1> QED BY <1>4, <1>5, <1>6, <1>7, <1>8 DEF IInv
-----------------------------------------------------------------------------
(* The write at the head of the chain.                                     *)

\* The write at the head is answered, and no other call.
LEMMA HeadAnswered ==
  ASSUME IInv, queue # <<>>, NEW answer \in Refusals \cup {"ok"}, Answered(answer)
  PROVE  /\ queue' \in Seq(Puts) /\ phase' = "start" /\ next' \in Records
         /\ reply' \in [Puts -> {"unsent", "waiting", "ok", "lost"} \cup Refusals]
         /\ Queued'
         /\ reply[Running] = "waiting" /\ reply'[Running] = answer
         /\ \A p \in Puts \ {Running} : reply'[p] = reply[p]
<1>1. /\ reply' = [reply EXCEPT ![Running] = answer] /\ queue' = Tail(queue)
      /\ phase' = "start" /\ next' = NoRecords
  BY DEF Answered
<1>2. queue \in Seq(Puts) /\ reply \in [Puts -> {"unsent", "waiting", "ok", "lost"} \cup Refusals]
  BY DEF IInv, TypeOK
<1>3. 1 \in DOMAIN queue /\ Running = queue[1] /\ Running \in Puts
  BY RunningTyped DEF IInv
<1>4. /\ queue' \in Seq(Puts) /\ Len(queue') = Len(queue) - 1
      /\ \A i \in 1..Len(queue') : queue'[i] = queue[i + 1]
  BY <1>1, <1>2, HeadTailProperties
<1>5. /\ Len(queue) \in Nat /\ DOMAIN queue = 1..Len(queue)
      /\ Len(queue') \in Nat /\ DOMAIN queue' = 1..Len(queue')
  BY <1>2, <1>4, LenProperties
<1>6. /\ reply' \in [Puts -> {"unsent", "waiting", "ok", "lost"} \cup Refusals]
      /\ reply'[Running] = answer /\ \A p \in Puts \ {Running} : reply'[p] = reply[p]
  BY <1>1, <1>2, <1>3
<1>7. reply[Running] = "waiting"
  BY <1>3 DEF IInv, Queued
<1>8. \A i \in DOMAIN queue' :
        /\ i + 1 \in DOMAIN queue /\ queue'[i] = queue[i + 1]
        /\ queue[i + 1] \in Puts \ {Running}
  <2> SUFFICES ASSUME NEW i \in DOMAIN queue'
               PROVE  /\ i + 1 \in DOMAIN queue /\ queue'[i] = queue[i + 1]
                      /\ queue[i + 1] \in Puts \ {Running}
    OBVIOUS
  <2>1. i \in Nat /\ i >= 1 /\ i + 1 \in DOMAIN queue /\ queue'[i] = queue[i + 1]
    BY <1>4, <1>5
  <2>2. queue[i + 1] \in Puts
    BY <1>2, <1>5, <2>1, ElementOfSeq
  <2>3. i + 1 # 1
    BY <2>1
  <2> QED BY <1>3, <2>1, <2>2, <2>3 DEF IInv, Queued
<1>9. Queued'
  <2>1. \A i \in DOMAIN queue' : reply'[queue'[i]] = "waiting"
    BY <1>6, <1>8 DEF IInv, Queued
  <2>2. ASSUME NEW i \in DOMAIN queue', NEW j \in DOMAIN queue', queue'[i] = queue'[j]
        PROVE  i = j
    <3>1. i + 1 = j + 1
      BY <1>8, <2>2 DEF IInv, Queued
    <3> QED BY <1>5, <3>1
  <2> QED BY <1>1, <2>1, <2>2 DEF Queued
<1> QED BY <1>1, <1>4, <1>6, <1>7, <1>9, NothingStored

\* A write that is refused leaves no trace; a conflict names a stored record.
LEMMA RefusedKeeps ==
  ASSUME IInv, phase \in {"check", "persist"}, NEW answer \in Refusals, Answered(answer),
         answer = "conflict" => store[Key] # None,
         UNCHANGED <<file, store, claimIndex, loaded, loadFailed, loader, read, restarts, raced>>
  PROVE  IInv'
<1>1. queue # <<>> /\ loaded
  BY DEF IInv, Queued, Loading
<1>2. /\ Running \in Puts /\ Key = HashOfPut(Running) /\ Key \in Hashes
  BY <1>1, RunningTyped DEF IInv
<1>3. /\ queue' \in Seq(Puts) /\ phase' = "start" /\ next' \in Records
      /\ reply' \in [Puts -> {"unsent", "waiting", "ok", "lost"} \cup Refusals]
      /\ Queued'
      /\ reply[Running] = "waiting" /\ reply'[Running] = answer
      /\ \A p \in Puts \ {Running} : reply'[p] = reply[p]
  BY <1>1, HeadAnswered
<1>4. Warm' = Warm /\ Intact' = Intact
  BY DEF Warm, Intact
<1>5. answer # "ok" /\ answer # "lost"
  BY DEF Refusals
<1>6. TypeOK'
  BY <1>3 DEF IInv, TypeOK
<1>7. Loading'
  BY <1>3, ConstantsAssumption DEF IInv, Loading
<1>8. Sized'
  BY <1>3, <1>4 DEF IInv, Sized, WithinCapacity, Stored
<1>9. Sourced'
  <2>1. \A h : Committed(h) => Committed(h)'
    BY <1>2, <1>3 DEF Committed, HashOfPut
  <2> QED BY <1>3, <1>4, <2>1 DEF IInv, Sourced
<1>10. ASSUME ~raced' PROVE Faithful'
  <2>1. Faithful
    BY <1>10 DEF IInv
  <2>2. Warmed' /\ WrittenFromMemory'
    BY <1>3, <1>4, <2>1 DEF Faithful, Warmed, WrittenFromMemory
  <2>3. OnePerHash'
    BY <1>3, <1>5, <2>1 DEF Faithful, OnePerHash, HashOfPut
  <2>4. Kept'
    <3> SUFFICES ASSUME NEW p \in Puts
                 PROVE  /\ reply'[p] = "ok" =>
                             /\ Warm => /\ store[HashOfPut(p)] = ClaimOf[p]
                                        /\ claimIndex[ClaimOf[p]] = HashOfPut(p)
                             /\ Intact => file[HashOfPut(p)] = ClaimOf[p]
                        /\ reply'[p] = "conflict" =>
                             /\ Warm => store[HashOfPut(p)] # None
                             /\ Intact => file[HashOfPut(p)] # None
      BY <1>4 DEF Kept, HashOfPut
    <3>1. CASE p # Running
      BY <1>3, <2>1, <3>1 DEF Faithful, Kept
    <3>2. CASE p = Running
      <4>1. store[Key] # None => Warm
        BY <1>2, <2>1, NothingStored DEF Faithful, Warmed
      <4>2. Warm /\ Intact => file = store
        BY <2>1 DEF Faithful, WrittenFromMemory
      <4> QED BY <1>2, <1>3, <1>5, <3>2, <4>1, <4>2
    <3> QED BY <3>1, <3>2
  <2> QED BY <2>2, <2>3, <2>4 DEF Faithful
<1> QED BY <1>3, <1>6, <1>7, <1>8, <1>9, <1>10 DEF IInv

\* A write that is let through during a load is not checked against the file.
LEMMA CheckPutKeeps == IInv /\ CheckPut => IInv'
<1> SUFFICES ASSUME IInv, CheckPut PROVE IInv'
  OBVIOUS
<1>1. /\ phase = "check"
      /\ UNCHANGED <<file, store, claimIndex, loaded, loadFailed, loader, read, restarts>>
  BY DEF CheckPut, memory, flags
<1>2. queue # <<>> /\ loaded
  BY <1>1 DEF IInv, Queued, Loading
<1>3. Key \in Hashes /\ Record \in Claims /\ Record # None
  BY <1>2, RunningTyped DEF IInv
<1>4. CASE Ground # "none"
  <2>1. Answered(Ground) /\ raced' = raced
    BY <1>4 DEF CheckPut
  <2>2. Ground \in Refusals
    BY <1>4 DEF Ground, Refusals
  <2>3. Ground = "conflict" => store[Key] # None
    BY DEF Ground
  <2> QED BY <1>1, <2>1, <2>2, <2>3, RefusedKeeps
<1>5. CASE Ground = "none"
  <2>1. /\ next' = [store EXCEPT ![Key] = Record] /\ phase' = "persist"
        /\ raced' = (raced \/ loader # None) /\ UNCHANGED <<queue, reply>>
    BY <1>5 DEF CheckPut
  <2>2. ~loadFailed /\ store[Key] = None /\ ~(Cardinality(Stored(store)) >= MaxRecords)
    BY <1>5 DEF Ground
  <2>3. store \in Records
    BY DEF IInv, TypeOK
  <2>4. /\ Running' = Running /\ Key' = Key /\ Record' = Record /\ Intact' = Intact
        /\ Warm' = Warm /\ \A h : Committed(h)' <=> Committed(h)
    BY <1>1, <2>1 DEF Running, Key, Record, Intact, Warm, Committed, HashOfPut
  <2>5. /\ next' \in Records
        /\ \A h \in Hashes : next'[h] = IF h = Key THEN Record ELSE store[h]
    BY <1>3, <2>1, <2>3 DEF Records
  <2>6. TypeOK'
    BY <1>1, <2>1, <2>5 DEF IInv, TypeOK
  <2>7. Queued' /\ Loading'
    BY <1>1, <1>2, <2>1, ConstantsAssumption DEF IInv, Queued, Loading
  <2>8. Cardinality(Stored(next)') <= MaxRecords
    <3>1. Stored(next)' = Stored(store) \cup {Key}
      BY <1>3, <2>1, <2>3 DEF Stored, Records
    <3>2. Key \notin Stored(store)
      BY <2>2 DEF Stored
    <3>3. /\ IsFiniteSet(Stored(store)) /\ Cardinality(Stored(store)) \in Nat
      BY <2>3, StoredSize
    <3>4. Cardinality(Stored(store) \cup {Key}) = Cardinality(Stored(store)) + 1
      BY <3>2, <3>3, FS_AddElement
    <3> QED BY <2>2, <3>1, <3>3, <3>4, ConstantsAssumption
  <2>9. Sized'
    BY <1>1, <2>4, <2>8 DEF IInv, Sized, WithinCapacity, Stored
  <2>10. Sourced'
    BY <1>1, <2>1, <2>4, <2>5 DEF IInv, Sourced
  <2>11. ASSUME ~raced' PROVE Faithful'
    <3>1. Faithful /\ loader = None
      BY <2>1, <2>11 DEF IInv
    <3>2. Warm
      BY <1>2, <2>2, <3>1 DEF Warm
    <3>3. Warmed' /\ WrittenFromMemory'
      BY <1>1, <2>1, <2>2, <2>4, <3>1, <3>2 DEF Faithful, Warmed, WrittenFromMemory
    <3>4. Kept' /\ OnePerHash'
      BY <1>1, <2>1, <2>4, <3>1 DEF Faithful, Kept, OnePerHash, HashOfPut
    <3> QED BY <3>3, <3>4 DEF Faithful
  <2> QED BY <2>6, <2>7, <2>9, <2>10, <2>11 DEF IInv
<1> QED BY <1>4, <1>5

\* What is persisted holds all that memory holds, so even a file that was
\* damaged meanwhile is whole again.
LEMMA PersistKeeps == IInv /\ Persist => IInv'
<1> SUFFICES ASSUME IInv, Persist PROVE IInv'
  OBVIOUS
<1>1. /\ phase = "persist" /\ loader = None
      /\ UNCHANGED <<store, claimIndex, loaded, loadFailed, loader, read, restarts, raced>>
  BY DEF Persist, memory, flags
<1>2. queue # <<>> /\ loaded
  BY <1>1 DEF IInv, Queued, Loading
<1>3. /\ Key \in Hashes /\ Record \in Claims /\ Record # None
      /\ Running \in Puts /\ Key = HashOfPut(Running)
  BY <1>2, RunningTyped DEF IInv
<1>4. CASE Answered("write_failed") /\ UNCHANGED file
  BY <1>1, <1>4, RefusedKeeps DEF Refusals
<1>5. CASE file' = next /\ phase' = "commit" /\ UNCHANGED <<queue, next, reply>>
  <2>1. /\ Cardinality(Stored(next)) <= MaxRecords
        /\ store \in Records /\ next \in Records
    BY <1>1 DEF IInv, Sized, TypeOK
  <2>2. /\ Running' = Running /\ Key' = Key /\ Record' = Record /\ Warm' = Warm
        /\ \A h : Committed(h)' <=> Committed(h)
    BY <1>1, <1>5 DEF Running, Key, Record, Warm, Committed, HashOfPut
  <2>3. TypeOK'
    BY <1>1, <1>5, <2>1 DEF IInv, TypeOK
  <2>4. Queued' /\ Loading'
    BY <1>1, <1>2, <1>5, ConstantsAssumption DEF IInv, Queued, Loading
  <2>5. Sized'
    BY <1>1, <1>5, <2>1 DEF Sized, WithinCapacity, Stored
  <2>6. Sourced'
    BY <1>1, <1>5, <2>2 DEF IInv, Sourced
  <2>7. ASSUME ~raced' PROVE Faithful'
    <3>1. Faithful
      BY <1>1, <2>7 DEF IInv
    <3>2. Warm /\ next = [store EXCEPT ![Key] = Record] /\ store[Key] = None
      BY <1>1, <3>1 DEF Faithful, Warmed, WrittenFromMemory
    <3>3. \A h \in Hashes : next[h] = IF h = Key THEN Record ELSE store[h]
      BY <1>3, <2>1, <3>2 DEF Records
    <3>4. Warmed' /\ WrittenFromMemory'
      BY <1>1, <1>5, <2>2, <3>2 DEF Warmed, WrittenFromMemory
    <3>5. ASSUME NEW p \in Puts
          PROVE  /\ reply[p] = "ok" => next[HashOfPut(p)] = ClaimOf[p]
                 /\ reply[p] = "conflict" => next[HashOfPut(p)] # None
      BY <1>3, <3>1, <3>2, <3>3, PutsTyped DEF Faithful, Kept
    <3>6. Kept' /\ OnePerHash'
      BY <1>1, <1>5, <2>2, <3>1, <3>5 DEF Faithful, Kept, OnePerHash, HashOfPut
    <3> QED BY <3>4, <3>6 DEF Faithful
  <2> QED BY <2>3, <2>4, <2>5, <2>6, <2>7 DEF IInv
<1> QED BY <1>4, <1>5 DEF Persist

\* No other call for the hash has been acknowledged: the record was not in
\* memory when it was checked, and no other write has run since.
LEMMA CommitPutKeeps == IInv /\ CommitPut => IInv'
<1> SUFFICES ASSUME IInv, CommitPut PROVE IInv'
  OBVIOUS
<1>1. /\ phase = "commit"
      /\ store' = [store EXCEPT ![Key] = Record]
      /\ claimIndex' = [claimIndex EXCEPT ![Record] = Key]
      /\ Answered("ok")
      /\ UNCHANGED <<file, loaded, loadFailed, loader, read, restarts, raced>>
  BY DEF CommitPut, flags
<1>2. queue # <<>> /\ loaded /\ loader = None
  BY <1>1 DEF IInv, Queued, Loading
<1>3. /\ Key \in Hashes /\ Record \in Claims /\ Record # None /\ Record = ClaimOf[Running]
      /\ Running \in Puts /\ Key = HashOfPut(Running) /\ Key = HashOf[Record]
  BY <1>2, RunningTyped DEF IInv
<1>4. /\ queue' \in Seq(Puts) /\ phase' = "start" /\ next' \in Records
      /\ reply' \in [Puts -> {"unsent", "waiting", "ok", "lost"} \cup Refusals]
      /\ Queued'
      /\ reply[Running] = "waiting" /\ reply'[Running] = "ok"
      /\ \A p \in Puts \ {Running} : reply'[p] = reply[p]
  BY <1>1, <1>2, HeadAnswered
<1>5. Warm' = Warm /\ Intact' = Intact
  BY <1>1 DEF Warm, Intact
<1>6. store \in Records /\ claimIndex \in [Claims -> Hashes \cup {None}]
  BY DEF IInv, TypeOK
<1>7. /\ store' \in Records
      /\ \A h \in Hashes : store'[h] = IF h = Key THEN Record ELSE store[h]
      /\ claimIndex' \in [Claims -> Hashes \cup {None}]
      /\ \A c \in Claims : claimIndex'[c] = IF c = Record THEN Key ELSE claimIndex[c]
  BY <1>1, <1>3, <1>6 DEF Records
<1>8. TypeOK'
  BY <1>1, <1>4, <1>7 DEF IInv, TypeOK
<1>9. Loading'
  BY <1>1, <1>2, <1>4, ConstantsAssumption DEF IInv, Loading
<1>10. Sized'
  BY <1>1, <1>4, <1>5 DEF IInv, Sized, WithinCapacity, Stored
<1>11. Sourced'
  <2>1. \A h : Committed(h) => Committed(h)'
    BY <1>3, <1>4 DEF Committed, HashOfPut
  <2>2. ASSUME NEW h \in Hashes, h = Key PROVE Committed(h)'
    BY <1>3, <1>4, <2>2 DEF Committed, HashOfPut
  <2> QED BY <1>1, <1>4, <1>5, <1>7, <2>1, <2>2 DEF IInv, Sourced
<1>12. ASSUME ~raced' PROVE Faithful'
  <2>1. Faithful
    BY <1>1, <1>12 DEF IInv
  <2>2. /\ Warm /\ next = [store EXCEPT ![Key] = Record] /\ store[Key] = None
        /\ Intact => file = next
    BY <1>1, <2>1 DEF Faithful, Warmed, WrittenFromMemory
  <2>3. Intact => file = store'
    BY <1>1, <2>2
  <2>4. Warmed' /\ WrittenFromMemory'
    BY <1>1, <1>4, <1>5, <2>2, <2>3 DEF Warmed, WrittenFromMemory
  <2>5. Kept'
    <3> SUFFICES ASSUME NEW p \in Puts
                 PROVE  /\ reply'[p] = "ok" =>
                             /\ store'[HashOfPut(p)] = ClaimOf[p]
                             /\ claimIndex'[ClaimOf[p]] = HashOfPut(p)
                             /\ Intact => file[HashOfPut(p)] = ClaimOf[p]
                        /\ reply'[p] = "conflict" =>
                             /\ store'[HashOfPut(p)] # None
                             /\ Intact => file[HashOfPut(p)] # None
      BY <1>1, <1>5 DEF Kept, HashOfPut
    <3>1. CASE p = Running
      BY <1>3, <1>4, <1>7, <2>3, <3>1
    <3>2. CASE p # Running
      <4>1. reply'[p] = reply[p]
        BY <1>4, <3>2
      <4>2. reply[p] = "ok" =>
              store[HashOfPut(p)] = ClaimOf[p] /\ claimIndex[ClaimOf[p]] = HashOfPut(p)
        BY <2>1, <2>2 DEF Faithful, Kept
      <4>3. reply[p] = "conflict" => store[HashOfPut(p)] # None
        BY <2>1, <2>2 DEF Faithful, Kept
      <4> QED BY <1>3, <1>7, <2>2, <2>3, <4>1, <4>2, <4>3, PutsTyped
    <3> QED BY <3>1, <3>2
  <2>6. OnePerHash'
    <3>1. ASSUME NEW p \in Puts \ {Running}, reply[p] = "ok" PROVE HashOfPut(p) # Key
      BY <2>1, <2>2, <3>1, PutsTyped DEF Faithful, Kept
    <3>2. ASSUME NEW p \in Puts, NEW q \in Puts, reply'[p] = "ok", reply'[q] = "ok",
                 HashOfPut(p) = HashOfPut(q)
          PROVE  p = q
      <4>1. CASE p # Running /\ q # Running
        BY <1>4, <2>1, <3>2, <4>1 DEF Faithful, OnePerHash, HashOfPut
      <4>2. CASE p = Running \/ q = Running
        BY <1>3, <1>4, <3>1, <3>2, <4>2
      <4> QED BY <4>1, <4>2
    <3> QED BY <3>2 DEF OnePerHash, HashOfPut
  <2> QED BY <2>4, <2>5, <2>6 DEF Faithful
<1> QED BY <1>4, <1>8, <1>9, <1>10, <1>11, <1>12 DEF IInv
-----------------------------------------------------------------------------
LEMMA NextIInv == IInv /\ [Next]_vars => IInv'
<1> SUFFICES ASSUME IInv, [Next]_vars PROVE IInv'
  OBVIOUS
<1>1. CASE FinishLoad \/ BeginPut \/ CheckPut \/ Persist \/ CommitPut
  BY <1>1, FinishLoadKeeps, BeginPutKeeps, CheckPutKeeps, PersistKeeps, CommitPutKeeps
<1>2. CASE \E r \in Readers : AnswerRead(r) \/ BeginRead(r)
  BY <1>2, AnswerReadKeeps, BeginReadKeeps
<1>3. CASE \E p \in Puts : putEvidence(p)
  BY <1>3, PutKeeps
<1>4. CASE Restart \/ Damage
  BY <1>4, RestartKeeps, DamageKeeps
<1>5. CASE UNCHANGED vars
  <2>1. UNCHANGED <<file, store, claimIndex, loaded, loadFailed, loader, queue, phase, next,
                    read, reply, restarts, raced>>
    BY <1>5 DEF vars, memory, flags, writing
  <2>2. Warm' = Warm
    BY <2>1 DEF Warm
  <2>3. TypeOK' /\ Loading'
    BY <2>1 DEF IInv, TypeOK, Loading
  <2> QED BY <2>1, <2>2, <2>3, RecordsKept DEF IInv
<1> QED BY <1>1, <1>2, <1>3, <1>4, <1>5 DEF Next, Serve

\* What the store keeps through loads by reads and writes, and crashes
\* (evidenceStore.ts:53-118).
THEOREM TypeCorrect == Spec => []TypeOK
<1>1. IInv => TypeOK
  BY DEF IInv
<1>2. IInv /\ [Next]_vars => IInv'
  BY NextIInv
<1> QED BY InitIInv, <1>1, <1>2, PTL DEF Spec

\* What was acknowledged is in the file, whatever crashes and writes come later and
\* whoever loads it, unless a write was let through during another call's load
\* (evidenceStore.ts:26-27, 55, 98-109).
THEOREM AckedIsDurableHolds == Spec => []AckedIsDurable
<1>1. IInv => AckedIsDurable
  BY DEF IInv, Faithful, Kept, HashOfPut, AckedIsDurable, RecordsSurvive
<1>2. IInv /\ [Next]_vars => IInv'
  BY NextIInv
<1> QED BY InitIInv, <1>1, <1>2, PTL DEF Spec

\* At most one call for a hash is ever acknowledged, unless a write was let through
\* during another call's load (evidenceStore.ts:21, 55, 92-94).
THEOREM FirstWriteWinsHolds == Spec => []FirstWriteWins
<1>1. IInv => FirstWriteWins
  BY DEF IInv, Faithful, OnePerHash, HashOfPut, FirstWriteWins
<1>2. IInv /\ [Next]_vars => IInv'
  BY NextIInv
<1> QED BY InitIInv, <1>1, <1>2, PTL DEF Spec

\* A caller told of a conflict may rely on a stored record, unless a write was let
\* through during another call's load (evidenceStore.ts:55, 92-94).
THEOREM ConflictMeansStoredHolds == Spec => []ConflictMeansStored
<1>1. IInv => ConflictMeansStored
  BY DEF IInv, Faithful, Kept, HashOfPut, ConflictMeansStored
<1>2. IInv /\ [Next]_vars => IInv'
  BY NextIInv
<1> QED BY InitIInv, <1>1, <1>2, PTL DEF Spec

\* No later write smuggles a refused record into the file, not even one let through
\* during a load (evidenceStore.ts:76-79).
THEOREM RefusalStoresNothingHolds == Spec => []RefusalStoresNothing
<1>1. IInv => RefusalStoresNothing
  <2> SUFFICES ASSUME IInv, NEW h \in Hashes, Intact, file[h] # None,
                      \A p \in Puts : HashOfPut(p) = h =>
                        reply[p] \in {"unsent", "full", "write_failed", "unavailable"}
               PROVE  FALSE
    BY DEF RefusalStoresNothing, HashOfPut
  <2>1. CASE Committed(h)
    BY <2>1 DEF Committed
  <2>2. CASE phase = "commit" /\ h = Key
    <3>1. queue # <<>>
      BY <2>2 DEF IInv, Queued
    <3>2. reply[Running] = "waiting" /\ Running \in Puts /\ h = HashOfPut(Running)
      BY <2>2, <3>1, RunningTyped DEF IInv, Queued
    <3> QED BY <3>2
  <2> QED BY <2>1, <2>2 DEF IInv, Sourced
<1>2. IInv /\ [Next]_vars => IInv'
  BY NextIInv
<1> QED BY InitIInv, <1>1, <1>2, PTL DEF Spec

\* A read answered while no load is under way, its own at a cold start included,
\* sees every record acknowledged before it, unless a write was let through during
\* another call's load (evidenceStore.ts:28-33, 55, 121-154).
THEOREM ReadsSeeAckedHolds == Spec => []ReadsSeeAcked
<1>1. IInv => ReadsSeeAcked
  <2> SUFFICES ASSUME IInv, NEW r \in Readers, NEW p \in Puts,
                      read[r] = "answer", loader = None, ~loadFailed, ~raced, reply[p] = "ok"
               PROVE  LET c == ClaimOf[p] IN
                      /\ getEvidence(HashOf[c]) = c
                      /\ getEvidenceByClaim(c) = c
                      /\ \A d \in Claims \ {c} : HashOf[c] \in getSeenEvidenceHashes(d)
    BY DEF ReadsSeeAcked
  <2>1. Warm
    BY DEF IInv, Loading, Warm
  <2>2. /\ store[HashOf[ClaimOf[p]]] = ClaimOf[p]
        /\ claimIndex[ClaimOf[p]] = HashOf[ClaimOf[p]]
    BY <2>1 DEF IInv, Faithful, Kept, HashOfPut
  <2>3. /\ ClaimOf[p] # None /\ HashOf[ClaimOf[p]] \in Hashes /\ HashOf[ClaimOf[p]] # None
    BY PutsTyped
  <2> QED BY <2>2, <2>3 DEF getEvidence, getEvidenceByClaim, getSeenEvidenceHashes, Stored
<1>2. IInv /\ [Next]_vars => IInv'
  BY NextIInv
<1> QED BY InitIInv, <1>1, <1>2, PTL DEF Spec

\* The file never holds more than MAX_RECORDS records, whoever loads it and whatever
\* is let through during a load (evidenceStore.ts:95-97).
THEOREM WithinCapacityHolds == Spec => []WithinCapacity
<1>1. IInv => WithinCapacity
  BY DEF IInv, Sized
<1>2. IInv /\ [Next]_vars => IInv'
  BY NextIInv
<1> QED BY InitIInv, <1>1, <1>2, PTL DEF Spec
-----------------------------------------------------------------------------
(* The store is a register.                                                *)

\* The instance counts as the store does.
LEMMA SameCardinality == \A S : Register!Cardinality(S) = Cardinality(S)
BY DEF Register!Cardinality, Cardinality

\* An intact file, and any file before a load, is the register.
LEMMA CurrentIsFile == IInv /\ ~raced /\ (Intact \/ ~Warm) => Current = file
BY DEF IInv, Faithful, WrittenFromMemory, Current

\* The step is one of the register, or changes nothing of it.
Refined ==
  Register!Next \/ UNCHANGED <<Current, Entered, Intact, reply, raced>>

\* After a write that was let through during a load nothing is promised.
LEMMA VoidRefined == raced' => Refined
BY DEF Refined, Register!Next, Register!Void

LEMMA Unmoved ==
  ASSUME UNCHANGED <<file, store, next, phase, queue, reply, raced>>, Warm' = Warm
  PROVE  Refined
<1>1. Current' = Current /\ Entered' = Entered /\ Intact' = Intact
  BY DEF Current, Entered, Running, Intact
<1> QED BY <1>1 DEF Refined

LEMMA LoadRefined == IInv /\ IInv' /\ FinishLoad => Refined
<1> SUFFICES ASSUME IInv, IInv', FinishLoad, ~raced' PROVE Refined
  BY VoidRefined
<1>1. loader # None /\ ~Warm /\ phase # "commit" /\ ~loadFailed
  BY DEF FinishLoad, IInv, Loading, Warm
<1>2. UNCHANGED <<file, queue, next, reply, raced>> /\ phase' # "commit"
  BY <1>1 DEF FinishLoad
<1>3. Intact' = Intact /\ Entered' = Entered
  BY <1>1, <1>2 DEF Intact, Entered
<1>4. Warm' => Intact'
  BY <1>1, <1>2 DEF FinishLoad, Warm, Intact
<1>5. Current' = file'
  BY <1>4 DEF IInv, Faithful, WrittenFromMemory, Current
<1>6. Current = file
  BY <1>1, <1>2, CurrentIsFile
<1> QED BY <1>2, <1>3, <1>5, <1>6 DEF Refined

LEMMA BeginPutRefined == IInv /\ BeginPut => Refined
<1> SUFFICES ASSUME IInv, BeginPut PROVE Refined
  OBVIOUS
<1>1. /\ phase = "start" /\ phase' \in {"check", "load"}
      /\ UNCHANGED <<file, store, queue, next, reply, raced>>
  BY DEF BeginPut, memory
<1>2. Warm' = Warm
  BY ConstantsAssumption DEF BeginPut, StartLoad, Warm, flags
<1>3. Current' = Current /\ Entered' = Entered /\ Intact' = Intact
  BY <1>1, <1>2 DEF Current, Entered, Intact
<1> QED BY <1>1, <1>3 DEF Refined

\* The running write is refused.
LEMMA RefusalRefined ==
  ASSUME IInv, NEW ground \in Refusals, Answered(ground), phase \in {"check", "persist"},
         UNCHANGED <<file, store, loaded, loadFailed, loader, raced>>,
         ground \in {"conflict", "full"} => Warm,
         ground = "conflict" => store[Key] # None,
         ground = "full" => Cardinality(Stored(store)) >= MaxRecords
  PROVE  Refined
<1>1. queue # <<>>
  BY DEF IInv, Queued
<1>2. Running \in Puts /\ reply[Running] = "waiting" /\ Key = Register!Hash(Running)
  BY <1>1, RunningTyped DEF IInv, Queued, Register!Hash, HashOfPut
<1>3. phase' = "start" /\ reply' = [reply EXCEPT ![Running] = ground]
  BY DEF Answered
<1>4. Warm' = Warm
  BY DEF Warm
<1>5. Current' = Current /\ Entered' = {} /\ Entered = {} /\ Intact' = Intact
  BY <1>3, <1>4 DEF Current, Entered, Intact
<1>6. ground \in {"conflict", "full"} => Current = store /\ Current # Damaged
  BY DamagedAssumption DEF Current, IInv, TypeOK
<1>7. ground = "full" => Register!Size >= MaxRecords
  <2> SUFFICES ASSUME ground = "full" PROVE Register!Size >= MaxRecords
    OBVIOUS
  <2>1. {h \in Hashes : Current[h] # None} = Stored(store)
    BY <1>6 DEF Stored
  <2>2. Register!Size = Cardinality(Stored(store))
    BY <2>1, SameCardinality DEF Register!Size
  <2> QED BY <2>2
<1>8. Register!Refuse(Running, ground)
  BY <1>2, <1>3, <1>5, <1>6, <1>7 DEF Register!Refuse
<1> QED BY <1>2, <1>8 DEF Refined, Register!Next, Refusals

LEMMA CheckPutRefined == IInv /\ CheckPut => Refined
<1> SUFFICES ASSUME IInv, CheckPut, ~raced' PROVE Refined
  BY VoidRefined
<1>1. /\ phase = "check" /\ loaded /\ ~raced
      /\ UNCHANGED <<file, store, loaded, loadFailed, loader, raced>>
  BY DEF CheckPut, memory, flags, IInv, Loading, TypeOK
<1>2. CASE Ground = "none"
  <2>1. phase' = "persist" /\ UNCHANGED <<queue, reply>>
    BY <1>2 DEF CheckPut
  <2>2. Warm' = Warm
    BY <1>1 DEF Warm
  <2>3. Current' = Current /\ Entered' = Entered /\ Intact' = Intact
    BY <1>1, <2>1, <2>2 DEF Current, Entered, Intact
  <2> QED BY <1>1, <2>1, <2>3 DEF Refined
<1>3. CASE Ground # "none"
  <2>1. Answered(Ground)
    BY <1>3 DEF CheckPut
  <2>2. Ground \in Refusals
    BY <1>3 DEF Ground, Refusals
  <2>3. Ground = "conflict" => store[Key] # None
    BY DEF Ground
  <2>4. Ground = "full" => Cardinality(Stored(store)) >= MaxRecords
    BY DEF Ground
  <2>5. Ground \in {"conflict", "full"} => Warm
    <3> SUFFICES ASSUME Ground \in {"conflict", "full"}, ~Warm PROVE FALSE
      OBVIOUS
    <3>1. store = NoRecords
      BY <1>1 DEF IInv, Faithful, Warmed
    <3>2. Key \in Hashes
      BY <1>1, RunningTyped DEF IInv, Queued
    <3> QED BY <2>3, <2>4, <3>1, <3>2, NothingStored, ConstantsAssumption
  <2> QED BY <1>1, <2>1, <2>2, <2>3, <2>4, <2>5, RefusalRefined
<1> QED BY <1>2, <1>3

\* The rename is the moment at which a call takes effect.
LEMMA PersistRefined == IInv /\ Persist => Refined
<1> SUFFICES ASSUME IInv, Persist, ~raced' PROVE Refined
  BY VoidRefined
<1>1. phase = "persist" /\ ~raced /\ UNCHANGED <<store, loaded, loadFailed, loader, raced>>
  BY DEF Persist, memory, flags
<1>2. CASE Answered("write_failed") /\ UNCHANGED file
  BY <1>1, <1>2, RefusalRefined DEF Refusals
<1>3. CASE file' = next /\ phase' = "commit" /\ UNCHANGED <<queue, next, reply>>
  <2>1. queue # <<>> /\ Warm
    BY <1>1 DEF IInv, Queued, Faithful, Warmed
  <2>2. /\ Running \in Puts /\ reply[Running] = "waiting"
        /\ Key = Register!Hash(Running) /\ Record = ClaimOf[Running]
    BY <2>1, RunningTyped DEF IInv, Queued, Register!Hash, HashOfPut
  <2>3. /\ next = [store EXCEPT ![Key] = Record] /\ store[Key] = None
        /\ Cardinality(Stored(next)) <= MaxRecords
        /\ store \in Records /\ next \in Records
    BY <1>1 DEF IInv, Sized, Faithful, WrittenFromMemory, TypeOK
  <2>4. Warm' = Warm /\ Running' = Running
    BY <1>1, <1>3 DEF Warm, Running
  <2>5. Current = store /\ Current' = next /\ Current # Damaged /\ Intact'
    BY <1>1, <1>3, <2>1, <2>3, <2>4, DamagedAssumption DEF Current, Intact
  <2>6. Entered = {} /\ Entered' = {Running}
    BY <1>1, <1>3, <2>4 DEF Entered
  <2>7. Register!Size' <= MaxRecords
    <3>1. {h \in Hashes : Current'[h] # None} = Stored(next)
      BY <2>5 DEF Stored
    <3>2. Register!Size' = Cardinality({h \in Hashes : Current'[h] # None})
      BY SameCardinality DEF Register!Size
    <3> QED BY <2>3, <3>1, <3>2
  <2>8. Current' = [Current EXCEPT ![Register!Hash(Running)] = ClaimOf[Running]]
    BY <2>2, <2>3, <2>5
  <2>9. Register!Enter(Running)
    BY <1>1, <1>3, <2>2, <2>3, <2>5, <2>6, <2>7, <2>8 DEF Register!Enter
  <2> QED BY <2>2, <2>9 DEF Refined, Register!Next
<1> QED BY <1>2, <1>3 DEF Persist

LEMMA CommitPutRefined == IInv /\ CommitPut => Refined
<1> SUFFICES ASSUME IInv, CommitPut, ~raced' PROVE Refined
  BY VoidRefined
<1>1. /\ phase = "commit" /\ store' = [store EXCEPT ![Key] = Record]
      /\ phase' = "start" /\ reply' = [reply EXCEPT ![Running] = "ok"]
      /\ ~raced /\ UNCHANGED <<file, loaded, loadFailed, loader, raced>>
  BY DEF CommitPut, Answered, flags
<1>2. queue # <<>> /\ Warm /\ next = [store EXCEPT ![Key] = Record]
  BY <1>1 DEF IInv, Queued, Faithful, Warmed, WrittenFromMemory
<1>3. Running \in Puts
  BY <1>2, RunningTyped DEF IInv
<1>4. Warm' = Warm /\ Intact' = Intact
  BY <1>1 DEF Warm, Intact
<1>5. Current' = Current
  BY <1>1, <1>2, <1>4 DEF Current
<1>6. Entered = {Running} /\ Entered' = {}
  BY <1>1 DEF Entered
<1>7. Register!Acknowledge(Running)
  BY <1>1, <1>4, <1>5, <1>6 DEF Register!Acknowledge
<1> QED BY <1>3, <1>7 DEF Refined, Register!Next

LEMMA PutRefined ==
  ASSUME IInv, NEW p \in Puts, putEvidence(p)
  PROVE  Refined
<1>1. /\ reply[p] = "unsent" /\ reply' = [reply EXCEPT ![p] = "waiting"]
      /\ queue' = Append(queue, p)
      /\ UNCHANGED <<file, store, loaded, loadFailed, loader, phase, next, raced>>
  BY DEF putEvidence, memory, flags
<1>2. Warm' = Warm /\ Intact' = Intact
  BY <1>1 DEF Warm, Intact
<1>3. Current' = Current
  BY <1>1, <1>2 DEF Current
<1>4. Entered' = Entered
  <2>1. CASE phase # "commit"
    BY <1>1, <2>1 DEF Entered
  <2>2. CASE phase = "commit"
    <3>1. queue # <<>> /\ queue \in Seq(Puts)
      BY <2>2 DEF IInv, Queued, TypeOK
    <3>2. Running = queue[1] /\ 1 \in DOMAIN queue
      BY <3>1, RunningTyped DEF IInv
    <3>3. queue'[1] = queue[1] /\ queue' \in Seq(Puts) /\ queue' # <<>>
      BY <1>1, <3>1, <3>2, AppendProperties, LenProperties
    <3>4. Running' = Running
      BY <3>2, <3>3 DEF Running
    <3> QED BY <1>1, <2>2, <3>4 DEF Entered
  <2> QED BY <2>1, <2>2
<1>5. Register!Ask(p)
  BY <1>1, <1>2, <1>3, <1>4 DEF Register!Ask
<1> QED BY <1>5 DEF Refined, Register!Next

LEMMA RestartRefined == IInv /\ Restart => Refined
<1> SUFFICES ASSUME IInv, Restart, ~raced' PROVE Refined
  BY VoidRefined
<1>1. /\ file' = file /\ loaded' = FALSE /\ phase' = "start" /\ raced' = raced
      /\ reply' = [p \in Puts |-> IF reply[p] = "waiting" THEN "lost" ELSE reply[p]]
  BY DEF Restart, ColdMemory
<1>2. Current' = file /\ Entered' = {} /\ Intact' = Intact
  BY <1>1 DEF Current, Entered, Warm, Intact
<1>3. Current' = IF ~Intact THEN Damaged ELSE Current
  BY <1>1, <1>2, CurrentIsFile DEF Intact
<1>4. Register!Crash
  BY <1>1, <1>2, <1>3 DEF Register!Crash
<1> QED BY <1>4 DEF Refined, Register!Next

LEMMA DamageRefined == IInv /\ Damage => Refined
<1> SUFFICES ASSUME IInv, Damage PROVE Refined
  OBVIOUS
<1>1. /\ file' = Damaged
      /\ UNCHANGED <<store, loaded, loadFailed, loader, queue, phase, next, reply, raced>>
  BY DEF Damage, memory, flags, writing
<1>2. ~Intact' /\ Warm' = Warm /\ Entered' = Entered
  BY <1>1 DEF Intact, Warm, Entered, Running
<1>3. Current' \in {Current, Damaged}
  BY <1>1, <1>2 DEF Current
<1>4. Register!Damage
  BY <1>1, <1>2, <1>3 DEF Register!Damage
<1> QED BY <1>4 DEF Refined, Register!Next

LEMMA StepRefined == IInv /\ IInv' /\ [Next]_vars => Refined
<1> SUFFICES ASSUME IInv, IInv', [Next]_vars PROVE Refined
  OBVIOUS
<1>1. CASE FinishLoad \/ BeginPut \/ CheckPut \/ Persist \/ CommitPut
  BY <1>1, LoadRefined, BeginPutRefined, CheckPutRefined, PersistRefined, CommitPutRefined
<1>2. CASE \E r \in Readers : AnswerRead(r) \/ BeginRead(r)
  <2>1. UNCHANGED <<file, store, next, phase, queue, reply, raced>>
    BY <1>2 DEF AnswerRead, BeginRead, memory, writing
  <2>2. Warm' = Warm
    BY <1>2, ConstantsAssumption DEF AnswerRead, BeginRead, StartLoad, flags, Warm
  <2> QED BY <2>1, <2>2, Unmoved
<1>3. CASE \E p \in Puts : putEvidence(p)
  BY <1>3, PutRefined
<1>4. CASE Restart \/ Damage
  BY <1>4, RestartRefined, DamageRefined
<1>5. CASE UNCHANGED vars
  <2>1. UNCHANGED <<file, store, next, phase, queue, reply, raced, loaded, loadFailed, loader>>
    BY <1>5 DEF vars, flags, memory, writing
  <2> QED BY <2>1, Unmoved DEF Warm
<1> QED BY <1>1, <1>2, <1>3, <1>4, <1>5 DEF Next, Serve

LEMMA InitRefined == Init => Register!Init
<1> SUFFICES ASSUME Init PROVE Register!Init
  OBVIOUS
<1>1. Current = NoRecords /\ Entered = {} /\ Intact
  BY NothingStored DEF Init, Current, Warm, Entered, Intact
<1> QED BY <1>1 DEF Init, Register!Init, NoRecords

\* Files, memory, loads and the chain of writes implement a register that is
\* written once per hash (EvidenceRegister): a write is atomic, and whatever was
\* acknowledged outlives every crash and failing write, whoever loads the file, up
\* to a write that is let through during another call's load (evidenceStore.ts:53-118).
THEOREM ImplementsRegisterHolds == Spec => ImplementsRegister
<1>1. IInv /\ [Next]_vars => IInv'
  BY NextIInv
<1>2. IInv /\ IInv' /\ [Next]_vars => [Register!Next]_<<Current, Entered, ~Intact, reply, raced>>
  <2> SUFFICES ASSUME IInv, IInv', [Next]_vars
               PROVE  [Register!Next]_<<Current, Entered, ~Intact, reply, raced>>
    OBVIOUS
  <2>1. Refined
    BY StepRefined
  <2> QED BY <2>1 DEF Refined
<1> QED BY InitIInv, InitRefined, <1>1, <1>2, PTL DEF Spec, ImplementsRegister, Register!Spec, Register!vars
==============================================================================
