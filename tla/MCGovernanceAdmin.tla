------------------------- MODULE MCGovernanceAdmin -------------------------
(* Constants for checking GovernanceAdmin on small instances.              *)
EXTENDS GovernanceAdmin, TLC

(* The pausing role and the two control roles; the other operational roles *)
(* are managed exactly as Pause is.                                        *)
MCRoles == {"Pause", "Upgrade", "Recovery"}

AnyPermutation == Permutations(Accounts)

(* Pauses are explored before the first handover and at one instant only:  *)
(* the pause switches and the seat share nothing but the roles.            *)
PausesOrHandovers == Len(pauseHistory) > 0 => history = <<>> /\ now = 0
=============================================================================
