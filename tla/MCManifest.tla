----------------------------- MODULE MCManifest -----------------------------
(* Small instances of Manifest for TLC.                                    *)
EXTENDS Manifest

\* A capsule of each kind of treatment, signed as it should be.
Signed(type, word, id) ==
  [type |-> type, word |-> word, intact |-> TRUE, wrong |-> {},
   direct |-> type \in Cancellations, rootKey |-> "root", rootCurve |-> "secp256r1",
   cskCurve |-> "secp256r1", cskUse |-> {SignBit(type)} \cap Bits, cskId |-> id,
   cskMagic |-> "secp256r1", cskDigest |-> "secp256r1", cskBy |-> "root",
   entryMagic |-> "secp256r1", entryBy |-> IF type \in Cancellations THEN "root" ELSE "csk"]

Good == {Signed("BMC_CAPSULE", 0, 3), Signed("CPLD_CAPSULE", 1, 3),
         Signed("BMC_CAPSULE_CANCELLATION", 3, 4)}

\* Like the first, but for the PFM and the content.
Further == {Signed("BMC_PFM", 0, 4), Signed("DECOMMISSION", 0, 3)}

\* What may be wrong with a field.
Values ==
  [type |-> {"BMC_CAPSULE", "BMC_PFM", "SEAMLESS", "BMC_CAPSULE_CANCELLATION"},
   word |-> {131}, intact |-> {FALSE}, wrong |-> {{"block0"}, {"root"}, {"csk"}, {"entry"}},
   direct |-> BOOLEAN, rootKey |-> {"other"}, rootCurve |-> {"secp384r1", "unknown"},
   cskCurve |-> {"secp384r1"}, cskUse |-> {{"SIGN_CPLD_UPDATE"}}, cskId |-> {3, 4},
   cskMagic |-> {"secp384r1"}, cskDigest |-> {"secp384r1"}, cskBy |-> {"other"},
   entryMagic |-> {"unknown"}, entryBy |-> {"root", "csk"}]

Spoilt(bs) ==
  bs \cup UNION {{[b EXCEPT ![f] = v] : v \in Values[f]} : b \in bs, f \in DOMAIN Values}

\* Bound: at most two fields are wrong, and one in the further blobs.  The highest
\* version and the one just too high come without errors.
TwoWrong ==
  Spoilt(Spoilt(Good) \cup Further) \cup
    {Signed("CPLD_CAPSULE", v, 4) : v \in {SVN_MAX, SVN_MAX + 1}}

Expected == {"BMC_CAPSULE", "BMC_PFM"}
=============================================================================
