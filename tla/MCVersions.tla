----------------------------- MODULE MCVersions -----------------------------
(* Small instances of Versions for TLC.                                    *)
EXTENDS Versions

\* Versions on both sides of a byte boundary; keys 3 and 4 share a byte.
Three == {"old", "new", "newer"}
ThreeImages ==
  [c \in Three |->
     CASE c = "old"   -> [svn |-> 7, capsuleKey |-> 3, pfmKey |-> 3,
                          active |-> {0, 1}, data |-> {0, 1}]
       [] c = "new"   -> [svn |-> 8, capsuleKey |-> 3, pfmKey |-> 4,
                          active |-> {0, 1}, data |-> {1}]
       [] c = "newer" -> [svn |-> 9, capsuleKey |-> 4, pfmKey |-> 4,
                          active |-> {0}, data |-> {0}]]

\* The second key id lies in the word of the next kind.
TwoCancels == {"cancel3", "cancel132"}
TwoCancelled ==
  [x \in TwoCancels |->
     IF x = "cancel3" THEN [kind |-> "BMC_CAPSULE", id |-> 3]
     ELSE [kind |-> "BMC_PFM", id |-> 132]]
=============================================================================
