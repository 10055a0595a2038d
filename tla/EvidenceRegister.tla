-------------------------- MODULE EvidenceRegister --------------------------
(***************************************************************************)
(* What the evidence store promises, without files, memory, loads and      *)
(* queues: a register with one place per hash, which is written once, for  *)
(* one claim, by one call.  A call takes effect at one moment between its  *)
(* start and its answer, or never; only a crash leaves its caller in doubt *)
(* which.  The register is lost only if it was damaged from outside, and   *)
(* no call is acknowledged by a register that was lost.                    *)
(*                                                                         *)
(* From the moment the promise is void on, everything may happen.          *)
(***************************************************************************)
EXTENDS Naturals, FiniteSets

CONSTANTS Claims, Hashes, HashOf, Puts, ClaimOf, None, MaxRecords,
  Lost   \* the register after it was lost

VARIABLES
  register,  \* hash to the claim whose record it has, or Lost
  entered,   \* the call that took effect and has not been answered, if any
  damaged,   \* has the durable copy been damaged since it was written?
  reply,
  void       \* is nothing promised any more?

vars == <<register, entered, damaged, reply, void>>

Hash(p) == HashOf[ClaimOf[p]]
Size == Cardinality({h \in Hashes : register[h] # None})

Init ==
  /\ register = [h \in Hashes |-> None]
  /\ entered = {}
  /\ damaged = FALSE
  /\ reply = [p \in Puts |-> "unsent"]
  /\ void = FALSE

Ask(p) ==
  /\ reply[p] = "unsent"
  /\ reply' = [reply EXCEPT ![p] = "waiting"]
  /\ UNCHANGED <<register, entered, damaged, void>>

Enter(p) ==
  /\ reply[p] = "waiting" /\ entered = {}
  /\ register # Lost
  /\ register[Hash(p)] = None
  /\ register' = [register EXCEPT ![Hash(p)] = ClaimOf[p]]
  /\ Size' <= MaxRecords
  /\ entered' = {p}
  /\ damaged' = FALSE
  /\ UNCHANGED <<reply, void>>

Acknowledge(p) ==
  /\ entered = {p}
  /\ reply' = [reply EXCEPT ![p] = "ok"]
  /\ entered' = {}
  /\ UNCHANGED <<register, damaged, void>>

\* A refused call never takes effect.
Refuse(p, ground) ==
  /\ reply[p] = "waiting" /\ entered = {}
  /\ ground = "conflict" => register # Lost /\ register[Hash(p)] # None
  /\ ground = "full" => register # Lost /\ Size >= MaxRecords
  /\ reply' = [reply EXCEPT ![p] = ground]
  /\ UNCHANGED <<register, entered, damaged, void>>

Crash ==
  /\ register' = IF damaged THEN Lost ELSE register
  /\ entered' = {}
  /\ reply' = [p \in Puts |-> IF reply[p] = "waiting" THEN "lost" ELSE reply[p]]
  /\ UNCHANGED <<damaged, void>>

Damage ==
  /\ damaged' = TRUE
  /\ register' \in {register, Lost}
  /\ UNCHANGED <<entered, reply, void>>

\* Any step to a state, and from a state, in which nothing is promised.
Void == void'

Next ==
  \/ \E p \in Puts :
       \/ Ask(p) \/ Enter(p) \/ Acknowledge(p)
       \/ \E ground \in {"conflict", "full", "write_failed", "unavailable"} :
            Refuse(p, ground)
  \/ Crash
  \/ Damage
  \/ Void

Spec == Init /\ [][Next]_vars
=============================================================================
