----------------------- MODULE EvidenceStoreRefinement ----------------------
(***************************************************************************)
(* EvidenceStore implements EvidenceRegister, until a write is let through *)
(* while another call's load is under way.  A loaded memory is the         *)
(* register, ahead of it a file that was renamed and is not yet committed; *)
(* before the load, during it, and when it failed, the file is.            *)
(***************************************************************************)
EXTENDS EvidenceStore

\* Memory holds what was loaded.
Warm == loaded /\ loader = None /\ ~loadFailed

Current ==
  IF Warm THEN IF phase = "commit" THEN next ELSE store
  ELSE file

\* The call whose record is in the file and which has not been answered.
Entered == IF phase = "commit" THEN {Running} ELSE {}

Register == INSTANCE EvidenceRegister WITH
  Lost <- Damaged,
  register <- Current,
  entered <- Entered,
  damaged <- ~Intact,
  void <- raced

\* Every behaviour of the store is one of the register (lines 20-34): writes are
\* atomic, once per hash, and outlive every crash once they are acknowledged,
\* whoever loads the file, up to a write that overtakes another call's load.
ImplementsRegister == Register!Spec
=============================================================================
