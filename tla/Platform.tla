------------------------------ MODULE Platform ------------------------------
(***************************************************************************)
(* What the HRoT promises about the BMC, whatever events, handlers and     *)
(* objects it takes: the BMC's image is rewritten only while the BMC is    *)
(* held, a protected BMC is released only with an image that               *)
(* authenticates, and once locked down nothing changes until the HRoT      *)
(* restarts.                                                               *)
(***************************************************************************)
EXTENDS Integers

VARIABLES bmc,      \* the BMC's reset line
          image,    \* whether the BMC's active image authenticates
          enabled,  \* the protection is on
          locked,   \* the platform is locked down
          resets    \* resets of the HRoT still to come

vars == <<bmc, image, enabled, locked, resets>>

\* A platform that holds all it needs to authenticate an image is protected.
Start(i, e) == i \in {"good", "bad"} /\ e \in BOOLEAN /\ (i = "good" => e)

Init == bmc = "held" /\ Start(image, enabled) /\ ~locked /\ resets \in Nat

\* A rewriting begins with holding the BMC and erasing its image.
Hold ==
  /\ ~locked
  /\ bmc' = "held" /\ image' \in {image, "bad"}
  /\ UNCHANGED <<enabled, locked, resets>>

Rewrite ==
  /\ ~locked /\ bmc = "held"
  /\ image' \in {"good", "bad"}
  /\ UNCHANGED <<bmc, enabled, locked, resets>>

Release ==
  /\ ~locked /\ bmc = "held"
  /\ enabled => image = "good"
  /\ bmc' = "released"
  /\ UNCHANGED <<image, enabled, locked, resets>>

\* A BMC that runs can do its image no good.
Damage ==
  /\ bmc = "released"
  /\ image' = "bad"
  /\ UNCHANGED <<bmc, enabled, locked, resets>>

\* The protection goes off; what an image is compared with may be new.
Disable ==
  /\ ~locked
  /\ image' \in {"good", "bad"} /\ enabled' = FALSE
  /\ UNCHANGED <<bmc, locked, resets>>

Lock ==
  /\ ~locked /\ bmc = "held"
  /\ locked' = TRUE
  /\ UNCHANGED <<bmc, image, enabled, resets>>

\* The HRoT starts again: it is reset, perhaps in the middle of something, or
\* it has updated itself, which a locked platform does not do.
Restart ==
  /\ resets' < resets \/ (~locked /\ UNCHANGED resets)
  /\ bmc' = "held" /\ image' \in {image, "bad"} /\ Start(image', enabled')
  /\ locked' = FALSE

Next == Hold \/ Rewrite \/ Release \/ Damage \/ Disable \/ Lock \/ Restart

Spec == Init /\ [][Next]_vars
=============================================================================
