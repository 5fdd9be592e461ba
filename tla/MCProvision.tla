---------------------------- MODULE MCProvision -----------------------------
(***************************************************************************)
(* Values of Provision's bounds for TLC.                                   *)
(***************************************************************************)
EXTENDS Provision, TLC

SoundFlash == {}
AnyFault == Accesses

AllCommands == CommandKinds

\* Contents are only compared with each other; sound for safety.
ValueSymmetry == Permutations(Values)
=============================================================================
