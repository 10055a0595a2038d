----------------------------- MODULE MCWorkspace -----------------------------
(***************************************************************************)
(* Two accounts, two evaluator keys, and the manifests an operator may     *)
(* build: right, wrong, unpinned, forced off, archived and invalid.        *)
(***************************************************************************)
EXTENDS Workspace

CONSTANTS alice, bob, evaluatorKey, otherKey

MCManifests ==
  {[address |-> "current", operational |-> "unset", pin |-> Unset],
   [address |-> "current", operational |-> "0", pin |-> evaluatorKey],
   [address |-> "custom", operational |-> "1", pin |-> otherKey],
   [address |-> "archived", operational |-> "1", pin |-> evaluatorKey],
   [address |-> "invalid", operational |-> "1", pin |-> evaluatorKey]}
==============================================================================
