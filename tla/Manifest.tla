------------------------------ MODULE Manifest ------------------------------
(***************************************************************************)
(* The signature chain of a capsule or PFM (intel_pfr_verification.c,      *)
(* intel_pfr_provision.c, intel_pfr_key_cancellation.c) and what           *)
(* hrot_update does with a capsule for the HRoT itself.  All               *)
(* verifications share one struct pfr_manifest: what one leaves in         *)
(* hash_curve, kc_flag and pubkey is there when the next begins.  A        *)
(* signature is modelled by the key that made it and the digest it is of.  *)
(***************************************************************************)
EXTENDS UfmPolicy, Sequences

CONSTANTS Blobs,      \* what may be found in flash, see Layout
          PcTypes     \* the types callers expect

Cancellations == {"CPLD_CAPSULE_CANCELLATION", "PCH_PFM_CANCELLATION",
                  "PCH_CAPSULE_CANCELLATION", "BMC_PFM_CANCELLATION",
                  "BMC_CAPSULE_CANCELLATION"}
Types == {"CPLD_CAPSULE", "PCH_PFM", "PCH_CAPSULE", "BMC_PFM", "BMC_CAPSULE", "SEAMLESS",
          "AFM", "DECOMMISSION"} \cup Cancellations

Curves == {"secp256r1", "secp384r1"}
Magics == Curves \cup {"unknown"}
Keys == {"root", "csk", "other"}
Bits == {"SIGN_PCH_PFM", "SIGN_PCH_UPDATE", "SIGN_BMC_PFM", "SIGN_BMC_UPDATE", "SIGN_CPLD_UPDATE"}

\* A signed blob: the type, version word and content of block 0; the tags and
\* fixed fields of block 1 that are wrong; whether the block 0 entry follows the
\* root entry directly; the root entry's key and curve; the CSK entry's curve,
\* permissions, id, signature curve, digest signed and signer; and the block 0
\* entry's signature curve and signer.
Layout == [type : Types, word : Nat, intact : BOOLEAN,
           wrong : SUBSET {"block0", "block1", "root", "rootuse", "csk", "entry"},
           direct : BOOLEAN, rootKey : Keys, rootCurve : Magics,
           cskCurve : Magics, cskUse : SUBSET Bits, cskId : Nat, cskMagic : Magics,
           cskDigest : Curves, cskBy : Keys, entryMagic : Magics, entryBy : Keys]

ASSUME ManifestAssumption == Blobs \subseteq Layout /\ PcTypes \subseteq Types

VARIABLES m,          \* struct pfr_manifest, without the pc_type every caller sets anew
          root,       \* key whose hash is provisioned, or "blank"
          keys,       \* cancelled keys (policy words)
          rot,        \* security version of the HRoT (policy word)
          writing,    \* the version whose firmware update_rot_fw is writing, if any
          gone,       \* history: [kind, id] of the cancellations carried out
          installed,  \* history: versions of the HRoT installed since the UFM was erased
          last        \* history: the last verdict, and what it should have been

policyVars == <<root, keys, rot, writing, gone, installed>>
vars == <<m, root, keys, rot, writing, gone, installed, last>>

-----------------------------------------------------------------------------
(* Block 1 and block 0                                                     *)

\* The word of cancelled keys that holds for a type; there may be none.
KindOf(type) ==
  CASE type \in {"CPLD_CAPSULE_CANCELLATION", "CPLD_CAPSULE"} -> "CPLD_CAPSULE"
    [] type \in {"PCH_PFM_CANCELLATION", "PCH_PFM"} -> "PCH_PFM"
    [] type \in {"PCH_CAPSULE_CANCELLATION", "PCH_CAPSULE"} -> "PCH_CAPSULE"
    [] type \in {"BMC_PFM_CANCELLATION", "BMC_PFM"} -> "BMC_PFM"
    [] type \in {"BMC_CAPSULE_CANCELLATION", "BMC_CAPSULE", "DECOMMISSION"} -> "BMC_CAPSULE"
    [] OTHER -> "none"

\* The permission that signing a type needs; no bit is enough for the others.
SignBit(type) ==
  CASE type = "BMC_CAPSULE" -> "SIGN_BMC_UPDATE"
    [] type = "PCH_CAPSULE" -> "SIGN_PCH_UPDATE"
    [] type = "BMC_PFM" -> "SIGN_BMC_PFM"
    [] type = "PCH_PFM" -> "SIGN_PCH_PFM"
    [] type \in {"CPLD_CAPSULE", "DECOMMISSION"} -> "SIGN_CPLD_UPDATE"
    [] OTHER -> "none"

\* What a stage returns: whether it succeeded, and the manifest it leaves.
Result(ok, mf) == [ok |-> ok, m |-> mf]

validate_pc_type(type, b) == b.type = type \/ type = "SEAMLESS"

\* Mutant: the flag of an earlier cancellation capsule is not taken back.
FlagNotCleared(mf, type, b) ==
  IF type \in Cancellations THEN Result(TRUE, [mf EXCEPT !.kc_flag = TRUE])
  ELSE LET ok == \/ type = "SEAMLESS"
                 \/ /\ KindOf(type) # "none"
                    /\ verify_kc_flag(keys, KindOf(type), b.cskId)
       IN Result(ok, mf)

\* A cancellation capsule is signed by the root key itself.
validate_key_cancellation_flag(mf, type, b) ==
  IF type \in Cancellations THEN Result(TRUE, [mf EXCEPT !.kc_flag = TRUE])
  ELSE LET ok == \/ type = "SEAMLESS"
                 \/ /\ KindOf(type) # "none"
                    /\ verify_kc_flag(keys, KindOf(type), b.cskId)
       IN Result(ok, IF ok THEN [mf EXCEPT !.kc_flag = FALSE] ELSE mf)

\* A hash is computed for the smaller curve only: zeros stand for the other one.
verify_root_key_hash(mf, b) == mf.hash_curve = "secp256r1" /\ b.rootKey = root

\* An unknown curve leaves the one of the verification before.
verify_root_key_entry(mf, b) ==
  IF "root" \in b.wrong THEN Result(FALSE, mf)
  ELSE LET mr == IF b.rootCurve \in Curves THEN [mf EXCEPT !.hash_curve = b.rootCurve] ELSE mf
       IN Result("rootuse" \notin b.wrong /\ verify_root_key_hash(mr, b), mr)

\* verify_signature: mbedtls is given as many bytes of the key as pubkey->length
\* says, and the hash that belongs to a curve.
verify_signature(mf, curve, digest, by) ==
  mf.length = "secp256r1" /\ by = mf.pubkey /\ curve = digest

\* The entry is looked for behind the CSK entry, or in its place.
intel_block1_block0_entry_verify(mf, b) ==
  IF /\ "entry" \notin b.wrong /\ b.direct = mf.kc_flag
     /\ b.entryMagic = mf.hash_curve /\ mf.hash_curve \in Curves
  THEN LET mk == IF mf.kc_flag THEN mf ELSE [mf EXCEPT !.pubkey = "csk"]
       IN Result(verify_signature(mk, mk.hash_curve, "secp256r1", b.entryBy), mk)
  ELSE Result(FALSE, mf)

\* The digest of the CSK entry is the one of the CSK's own curve.
intel_block1_csk_block0_entry_verify(mf, type, b) ==
  IF /\ "csk" \notin b.wrong /\ ~b.direct
     /\ b.cskMagic = mf.hash_curve
     /\ SignBit(type) \in b.cskUse
     /\ b.cskCurve \in Curves
     /\ verify_signature(mf, b.cskCurve, b.cskDigest, b.cskBy)
  THEN intel_block1_block0_entry_verify(mf, b)
  ELSE Result(FALSE, mf)

intel_block1_verify(mf, type, b) ==
  LET r == verify_root_key_entry(mf, b)
      mk == [r.m EXCEPT !.pubkey = b.rootKey,
                        !.length = IF b.rootCurve \in Curves THEN b.rootCurve ELSE @]
  IN IF "block1" \in b.wrong THEN Result(FALSE, mf)
     ELSE IF ~r.ok THEN r
     ELSE IF mk.kc_flag THEN intel_block1_block0_entry_verify(mk, b)
     ELSE intel_block1_csk_block0_entry_verify(mk, type, b)

\* Mutant: no content is hashed.
HashesBlock0Only(mf, b) == mf.hash_curve = "secp256r1" /\ "block0" \notin b.wrong

\* The content of a decommission capsule is not hashed.
intel_block0_verify(mf, b) ==
  \/ mf.hash_curve \notin Curves
  \/ /\ mf.hash_curve = "secp256r1"
     /\ "block0" \notin b.wrong
     /\ b.type # "DECOMMISSION" => b.intact

intel_pfr_manifest_verify(mf, type, b) ==
  LET k == validate_key_cancellation_flag(mf, type, b)
      r == intel_block1_verify(k.m, type, b)
  IN IF ~validate_pc_type(type, b) THEN Result(FALSE, mf)
     ELSE IF ~k.ok THEN k
     ELSE IF ~r.ok THEN r
     ELSE Result(intel_block0_verify(r.m, b), r.m)

-----------------------------------------------------------------------------
(* The promise                                                             *)

\* A blob is authentic as a type: it is of that type, its root key is the
\* provisioned one, and its blocks were signed by the root key or by a CSK that
\* the root key signed, that has the permission and has not been cancelled.
Authentic(type, b) ==
  /\ b.type = type /\ b.rootKey = root
  /\ IF type \in Cancellations THEN b.entryBy = "root"
     ELSE /\ SignBit(type) \in b.cskUse
          /\ [kind |-> KindOf(type), id |-> b.cskId] \notin gone
          /\ b.cskBy = "root" /\ b.entryBy = "csk"
  /\ type # "DECOMMISSION" => b.intact

\* Tags, places, curves and key ids are the ones the format asks for.
WellFormed(b) ==
  /\ b.wrong = {} /\ b.direct = (b.type \in Cancellations)
  /\ b.type \notin Cancellations => b.cskId < 128
  /\ {b.rootCurve, b.cskCurve, b.cskMagic, b.cskDigest, b.entryMagic} = {"secp256r1"}

\* The five words lie behind each other, with room for 128 keys each.
Place(kind) ==
  CASE kind = "PCH_PFM" -> 0 [] kind = "PCH_CAPSULE" -> 1 [] kind = "BMC_PFM" -> 2
    [] kind = "BMC_CAPSULE" -> 3 [] kind = "CPLD_CAPSULE" -> 4

\* The cancellation of a key id that no word has room for has struck the blob's
\* CSK: cut down to eight bits, the id names a key of the same or the next word.
Struck(type, b) ==
  /\ type \notin Cancellations /\ KindOf(type) \in Kinds
  /\ \E k \in gone : /\ k.id >= 128
                     /\ 128 * Place(k.kind) + (k.id % 256) = 128 * Place(KindOf(type)) + b.cskId

-----------------------------------------------------------------------------
(* The verifications of Versions and Hrot, and hrot_update                 *)

\* The manifest at power on.
Fresh == [kc_flag |-> FALSE, hash_curve |-> "unknown", pubkey |-> "none", length |-> "unknown"]

Init ==
  /\ m = Fresh
  /\ root = "root" /\ keys = {} /\ rot = {} /\ writing = {}
  /\ gone = {} /\ installed = << >>
  /\ last = [ok |-> FALSE, authentic |-> FALSE, formed |-> FALSE, struck |-> FALSE]

\* A verification, and what the manifest promised beforehand.
Verified(type, b, r) ==
  /\ m' = r.m
  /\ last' = [ok |-> r.ok, authentic |-> Authentic(type, b), formed |-> WellFormed(b),
              struck |-> Struck(type, b)]

\* A caller expects a type: pfr_staging_verify, pfr_recovery_verify,
\* pfr_active_verify, pfr_staging_pch_staging.
VerifyAs(type, b) ==
  /\ writing = {}
  /\ Verified(type, b, intel_pfr_manifest_verify(m, type, b))
  /\ UNCHANGED policyVars

\* pfr_decommission: the content must be zeros.
pfr_decommission(b) ==
  IF b.word = 0
  THEN /\ root' = "blank" /\ keys' = {} /\ rot' = {}
       /\ gone' = {} /\ installed' = << >>
       /\ UNCHANGED writing
  ELSE UNCHANGED policyVars

\* Mutant: the recorded version itself is let through.
RotVersionNotOlder(b) == b.word <= SVN_MAX /\ b.word >= get_ufm_svn(rot)

\* Mutant: a version that the word has no room for is let through.
RotVersionUnbounded(b) == b.word > get_ufm_svn(rot)

\* rot_svn_policy_verify: the version must be higher.
rot_svn_policy_verify(b) == b.word <= SVN_MAX /\ b.word > get_ufm_svn(rot)

\* Mutant: the capsule is acted upon whether it verifies or not.
ActsUnverified(b) ==
  LET r == intel_pfr_manifest_verify(m, b.type, b)
  IN /\ writing = {}
     /\ Verified(b.type, b, r)
     /\ \/ b.type = "DECOMMISSION" /\ pfr_decommission(b)
        \/ b.type # "DECOMMISSION" /\ UNCHANGED policyVars

\* hrot_update takes the type from the capsule, verifies it and acts on it.  The
\* version of an HRoT capsule is burnt before update_rot_fw begins.
hrot_update(b) ==
  LET r == intel_pfr_manifest_verify(m, b.type, b)
  IN /\ writing = {}
     /\ Verified(b.type, b, r)
     /\ \/ ~r.ok /\ UNCHANGED policyVars
        \/ r.ok /\ b.type = "DECOMMISSION" /\ pfr_decommission(b)
        \/ /\ r.ok /\ b.type \in Cancellations
           /\ keys' = cancel_kc_flag(keys, KindOf(b.type), b.word)
           /\ gone' = gone \cup {[kind |-> KindOf(b.type), id |-> b.word]}
           /\ UNCHANGED <<root, rot, writing, installed>>
        \/ /\ r.ok /\ b.type = "CPLD_CAPSULE" /\ rot_svn_policy_verify(b)
           /\ rot' = set_ufm_svn(b.word) /\ writing' = {b.word}
           /\ UNCHANGED <<root, keys, gone, installed>>
        \/ /\ r.ok /\ b.type = "CPLD_CAPSULE" /\ ~rot_svn_policy_verify(b)
           /\ UNCHANGED policyVars
        \/ /\ r.ok /\ b.type \notin Cancellations \cup {"DECOMMISSION", "CPLD_CAPSULE"}
           /\ UNCHANGED policyVars

\* update_rot_fw ends: the firmware is in place, or a page could not be copied.
update_rot_fw ==
  /\ writing # {} /\ writing' = {}
  /\ \/ \E v \in writing : installed' = Append(installed, v)
     \/ UNCHANGED installed
  /\ UNCHANGED <<m, root, keys, rot, gone, last>>

\* The root key is provisioned again after a decommission (see Provision).
Provision ==
  /\ writing = {}
  /\ root = "blank" /\ root' = "root"
  /\ UNCHANGED <<m, keys, rot, writing, gone, installed, last>>

\* A reset of the HRoT, in the middle of update_rot_fw too: the manifest begins
\* as Init has it.
Reset ==
  /\ m' = Fresh /\ writing' = {}
  /\ UNCHANGED <<root, keys, rot, gone, installed, last>>

Next ==
  \/ \E type \in PcTypes, b \in Blobs : VerifyAs(type, b)
  \/ \E b \in Blobs : hrot_update(b)
  \/ update_rot_fw
  \/ Provision
  \/ Reset

Spec == Init /\ [][Next]_vars

-----------------------------------------------------------------------------
(* Properties                                                              *)

Manifests == [kc_flag : BOOLEAN, hash_curve : Magics, pubkey : Keys \cup {"none"},
              length : Magics]

\* Every variable stays in its domain.
TypeOK ==
  /\ m \in Manifests /\ root \in {"root", "blank"}
  /\ keys \in SUBSET KeyBits /\ Recordable(rot)
  /\ writing \in SUBSET (0..SVN_MAX) /\ installed \in Seq(0..SVN_MAX)
  /\ gone \in SUBSET [kind : Kinds, id : Nat]
  /\ last \in [ok : BOOLEAN, authentic : BOOLEAN, formed : BOOLEAN, struck : BOOLEAN]

\* What intel_pfr_manifest_verify lets pass is authentic as the type the caller
\* expects, whatever the verifications before it have left in the manifest.
AcceptedIsAuthentic == last.ok => last.authentic

\* An authentic blob of the right form passes, whatever came before it: an
\* earlier capsule, good or bad, makes the HRoT refuse it only by cancelling a
\* key id of 128 or more that cancel_csk_key_id writes over the blob's CSK.
AuthenticIsAccepted == last.authentic /\ last.formed => last.ok \/ last.struck

\* Once provisioned, the UFM's root key, cancelled keys and HRoT version change
\* only for a capsule that is authentic.
PolicyGuarded ==
  [][root # "blank" /\ <<root, keys, rot>>' # <<root, keys, rot>>
       => last'.ok /\ last'.authentic]_vars

\* Each version of the HRoT that update_rot_fw installs is higher than all it has
\* installed since the UFM was erased, and was recorded before: no capsule is
\* installed twice, and none after a newer one, with failures and resets anywhere
\* between the record and the last page.
HrotOnlyNewer ==
  /\ \A i, j \in 1..Len(installed) : i < j => installed[i] < installed[j]
  /\ \A i \in 1..Len(installed) : installed[i] <= get_ufm_svn(rot)
  /\ \A v \in writing, i \in 1..Len(installed) : installed[i] < v
=============================================================================
