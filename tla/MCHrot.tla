------------------------------- MODULE MCHrot -------------------------------
(***************************************************************************)
(* Values of Hrot's bounds for TLC.                                        *)
(***************************************************************************)
EXTENDS Hrot

BmcRegions == {<<"BMC", r>> : r \in {"active", "recovery", "staging"}}

AllFlags == Flags
BmcFlag == {"BmcStatus"}
NoFlags == {}

SingleIntents == {{b} : b \in IntentBits \ {"UpdateAtReset"}} \cup {{"PlatfireActiveUpdte", "UpdateAtReset"}}
NoIntents == {}
BmcAndMixedIntents ==
  {{"BmcActiveUpdate"}, {"BmcRecoveryUpdate"}, {"PlatfireActiveUpdte"},
   {"PchActiveUpdate", "BmcActiveUpdate"}, {"PchActiveUpdate", "PchRecoveryUpdate"},
   {"PlatfireActiveUpdte", "UpdateAtReset"}, {"BmcRecoveryUpdate", "PlatfireActiveUpdte"}}
=============================================================================
