------------------------------ MODULE UfmStore ------------------------------
(***************************************************************************)
(* What the UFM promises its users: provisioned items are written once, a  *)
(* mark is never taken back, security versions never fall and cancelled    *)
(* keys stay cancelled, each change being atomic - until everything is     *)
(* wiped together.                                                         *)
(***************************************************************************)
EXTENDS Integers

CONSTANTS Items, Data, Blank, Policies, NoPolicy

VARIABLES data,    \* what is stored for each item
          marked,  \* the items whose provision flag is set
          policy   \* security version and cancelled keys

vars == <<data, marked, policy>>

Wiped == data = [i \in Items |-> Blank] /\ marked = {} /\ policy = NoPolicy

\* The UFM is delivered blank or comes with all its items.
Init == Wiped \/ (data \in [Items -> Data] /\ marked = Items /\ policy \in Policies)

Store(i, v) ==
  /\ i \notin marked
  /\ data' = [data EXCEPT ![i] = v]
  /\ UNCHANGED <<marked, policy>>

Mark(added) ==
  /\ marked' = marked \cup added
  /\ UNCHANGED <<data, policy>>

Raise(p) ==
  /\ p.svn >= policy.svn /\ policy.cancelled \subseteq p.cancelled
  /\ policy' = p
  /\ UNCHANGED <<data, marked>>

Wipe == data' = [i \in Items |-> Blank] /\ marked' = {} /\ policy' = NoPolicy

Next ==
  \/ \E i \in Items, v \in Data : Store(i, v)
  \/ \E added \in SUBSET Items : Mark(added)
  \/ \E p \in Policies : Raise(p)
  \/ Wipe

Spec == Init /\ [][Next]_vars
=============================================================================
