--------------------------- MODULE ManifestProofs ---------------------------
(***************************************************************************)
(* Proofs about Manifest for every set of blobs, key ids of any size       *)
(* included, and every order in which they are verified: what passes is    *)
(* authentic, what is authentic passes unless a cancellation has run over  *)
(* into its key, only authentic capsules change the policy words, and no   *)
(* version of the HRoT is installed twice.                                 *)
(***************************************************************************)
EXTENDS Manifest, UfmPolicyProofs, TLAPS

-----------------------------------------------------------------------------
(* The stages of a verification                                            *)

\* The parts of a stage's result.
LEMMA Outcome ==
  ASSUME NEW V, NEW ok \in BOOLEAN, NEW mf, V = Result(ok, mf)
  PROVE  (V.ok <=> ok) /\ V.m = mf /\ V.ok \in BOOLEAN
  BY DEF Result

LEMMA Refusal ==
  ASSUME NEW V, NEW mf, V = Result(FALSE, mf)
  PROVE  ~V.ok /\ V.m = mf /\ V.ok \in BOOLEAN
  BY DEF Result

\* A blob's fields.
LEMMA BlobFacts ==
  ASSUME NEW b \in Blobs
  PROVE  /\ b \in Layout /\ b.type \in Types /\ b.word \in Nat /\ b.rootKey \in Keys
         /\ b.cskUse \subseteq Bits /\ b.cskId \in Nat
<1>1. b \in Layout
  BY ManifestAssumption
<1> QED BY <1>1, ManifestAssumption DEF Layout

\* A permission bit goes with a word of cancelled keys.
LEMMA TypeFacts ==
  ASSUME NEW type \in Types
  PROVE  /\ type \in Cancellations => KindOf(type) \in Kinds
         /\ SignBit(type) \in Bits =>
              KindOf(type) \in Kinds /\ type \notin Cancellations /\ type # "SEAMLESS"
         /\ "none" \notin Bits /\ "none" \notin Kinds
  BY DEF Types, Cancellations, KindOf, SignBit, Bits, Kinds

\* Before block 1 is read: a cancellation capsule raises the flag, another one
\* lowers it or is refused.
LEMMA FlagFacts ==
  ASSUME NEW mf \in Manifests, NEW type \in Types, NEW b \in Blobs,
         NEW k, k = validate_key_cancellation_flag(mf, type, b)
  PROVE  /\ k.m \in Manifests /\ k.ok \in BOOLEAN
         /\ k.ok => (k.m.kc_flag <=> type \in Cancellations)
         /\ k.ok <=> \/ type \in Cancellations \cup {"SEAMLESS"}
                     \/ KindOf(type) # "none" /\ verify_kc_flag(keys, KindOf(type), b.cskId)
<1> DEFINE up == [mf EXCEPT !.kc_flag = TRUE]
           down == [mf EXCEPT !.kc_flag = FALSE]
           ok == \/ type = "SEAMLESS"
                 \/ KindOf(type) # "none" /\ verify_kc_flag(keys, KindOf(type), b.cskId)
<1>1. up \in Manifests /\ up.kc_flag
  BY DEF Manifests
<1>2. down \in Manifests /\ ~down.kc_flag
  BY DEF Manifests
<1>3. CASE type \in Cancellations
  <2>1. k = Result(TRUE, up)
    BY <1>3 DEF validate_key_cancellation_flag
  <2> HIDE DEF up
  <2>2. (k.ok <=> TRUE) /\ k.m = up /\ k.ok \in BOOLEAN
    BY <2>1, Outcome
  <2> QED BY <1>1, <1>3, <2>2
<1>4. CASE type \notin Cancellations
  <2> DEFINE mk == IF ok THEN down ELSE mf
  <2>1. k = Result(ok, mk)
    BY <1>4 DEF validate_key_cancellation_flag
  <2>2. mk \in Manifests /\ (ok => ~mk.kc_flag)
    BY <1>2
  <2>3. ok \in BOOLEAN
    OBVIOUS
  <2>4. ok <=> \/ type \in Cancellations \cup {"SEAMLESS"}
               \/ KindOf(type) # "none" /\ verify_kc_flag(keys, KindOf(type), b.cskId)
    BY <1>4
  <2> HIDE DEF ok, mk
  <2>5. (k.ok <=> ok) /\ k.m = mk /\ k.ok \in BOOLEAN
    BY <2>1, <2>3, Outcome
  <2> QED BY <1>4, <2>2, <2>4, <2>5
<1> QED BY <1>3, <1>4

\* The root entry: a good one leaves the smaller curve in place.
LEMMA RootFacts ==
  ASSUME NEW mf \in Manifests, NEW b \in Blobs, NEW r, r = verify_root_key_entry(mf, b)
  PROVE  /\ r.m \in Manifests /\ r.ok \in BOOLEAN /\ r.m.kc_flag = mf.kc_flag
         /\ r.ok => b.rootKey = root /\ r.m.hash_curve = "secp256r1"
         /\ WellFormed(b) /\ b.rootKey = root => r.ok
<1> DEFINE mr == IF b.rootCurve \in Curves THEN [mf EXCEPT !.hash_curve = b.rootCurve] ELSE mf
           ok == "rootuse" \notin b.wrong /\ mr.hash_curve = "secp256r1" /\ b.rootKey = root
<1>1. /\ mr \in Manifests /\ mr.kc_flag = mf.kc_flag
      /\ b.rootCurve \in Curves => mr.hash_curve = b.rootCurve
  BY DEF Manifests, Magics
<1>2. r = IF "root" \in b.wrong THEN Result(FALSE, mf) ELSE Result(ok, mr)
  BY DEF verify_root_key_entry, verify_root_key_hash
<1>3. WellFormed(b) => "root" \notin b.wrong /\ "rootuse" \notin b.wrong /\ b.rootCurve = "secp256r1"
                       /\ b.rootCurve \in Curves
  BY DEF WellFormed, Curves
<1>4. ok \in BOOLEAN
  OBVIOUS
<1>5. ok <=> "rootuse" \notin b.wrong /\ mr.hash_curve = "secp256r1" /\ b.rootKey = root
  OBVIOUS
<1> HIDE DEF mr, ok
<1>6. CASE "root" \in b.wrong
  <2>1. ~r.ok /\ r.m = mf /\ r.ok \in BOOLEAN
    BY <1>2, <1>6, Refusal
  <2> QED BY <1>3, <1>6, <2>1
<1>7. CASE "root" \notin b.wrong
  <2>1. (r.ok <=> ok) /\ r.m = mr /\ r.ok \in BOOLEAN
    BY <1>2, <1>4, <1>7, Outcome
  <2> QED BY <1>1, <1>3, <1>5, <2>1
<1> QED BY <1>6, <1>7

\* The key that the block 0 entry has to be signed with.
EntryKey(mf) == IF mf.kc_flag THEN mf.pubkey ELSE "csk"

\* The block 0 entry is signed by the CSK, or by the key in place if there is none.
LEMMA EntryFacts ==
  ASSUME NEW mf \in Manifests, NEW b \in Blobs,
         NEW r, r = intel_block1_block0_entry_verify(mf, b)
  PROVE  /\ r.m \in Manifests /\ r.ok \in BOOLEAN /\ r.m.hash_curve = mf.hash_curve
         /\ r.ok => b.entryBy = EntryKey(mf)
         /\ (/\ WellFormed(b) /\ mf.hash_curve = "secp256r1" /\ mf.length = "secp256r1"
             /\ mf.kc_flag <=> b.type \in Cancellations
             /\ b.entryBy = EntryKey(mf)) => r.ok
<1> DEFINE mk == IF mf.kc_flag THEN mf ELSE [mf EXCEPT !.pubkey = "csk"]
           go == /\ "entry" \notin b.wrong /\ b.direct = mf.kc_flag
                 /\ b.entryMagic = mf.hash_curve /\ mf.hash_curve \in Curves
           sig == mk.length = "secp256r1" /\ b.entryBy = mk.pubkey /\ mk.hash_curve = "secp256r1"
<1>1. /\ mk \in Manifests /\ mk.hash_curve = mf.hash_curve /\ mk.length = mf.length
      /\ mk.pubkey = EntryKey(mf)
  BY DEF Manifests, Keys, EntryKey
<1>2. r = IF go THEN Result(sig, mk) ELSE Result(FALSE, mf)
  BY DEF intel_block1_block0_entry_verify, verify_signature
<1>3. ASSUME WellFormed(b), mf.hash_curve = "secp256r1", mf.kc_flag <=> b.type \in Cancellations
      PROVE  go
  <2>1. mf.kc_flag \in BOOLEAN
    BY DEF Manifests
  <2>2. b.direct = mf.kc_flag
    BY <1>3, <2>1 DEF WellFormed
  <2> QED BY <1>3, <2>2 DEF WellFormed, Curves
<1>4. sig \in BOOLEAN
  OBVIOUS
<1>5. sig <=> mk.length = "secp256r1" /\ b.entryBy = mk.pubkey /\ mk.hash_curve = "secp256r1"
  OBVIOUS
<1>6. CASE ~go
  <2> HIDE DEF go, mk, sig
  <2>1. ~r.ok /\ r.m = mf /\ r.ok \in BOOLEAN
    BY <1>2, <1>6, Refusal
  <2> QED BY <1>3, <1>6, <2>1
<1>7. CASE go
  <2>1. mf.hash_curve \in Curves
    BY <1>7
  <2> HIDE DEF go, mk, sig
  <2>2. (r.ok <=> sig) /\ r.m = mk /\ r.ok \in BOOLEAN
    BY <1>2, <1>4, <1>7, Outcome
  <2> QED BY <1>1, <1>5, <2>1, <2>2
<1> QED BY <1>6, <1>7

\* The CSK entry is signed by the key in place, and gives the permission.
LEMMA CskFacts ==
  ASSUME NEW mf \in Manifests, NEW type \in Types, NEW b \in Blobs,
         NEW r, r = intel_block1_csk_block0_entry_verify(mf, type, b)
  PROVE  /\ r.m \in Manifests /\ r.ok \in BOOLEAN
         /\ r.ok => /\ r.m.hash_curve = mf.hash_curve /\ b.entryBy = EntryKey(mf)
                    /\ b.cskBy = mf.pubkey /\ SignBit(type) \in b.cskUse
         /\ (/\ WellFormed(b) /\ mf.hash_curve = "secp256r1" /\ mf.length = "secp256r1"
             /\ ~mf.kc_flag /\ b.type \notin Cancellations
             /\ b.cskBy = mf.pubkey /\ SignBit(type) \in b.cskUse
             /\ b.entryBy = EntryKey(mf)) => r.ok
<1> DEFINE e == intel_block1_block0_entry_verify(mf, b)
           go == /\ "csk" \notin b.wrong /\ ~b.direct
                 /\ b.cskMagic = mf.hash_curve
                 /\ SignBit(type) \in b.cskUse
                 /\ b.cskCurve \in Curves
                 /\ mf.length = "secp256r1" /\ b.cskBy = mf.pubkey /\ b.cskCurve = b.cskDigest
<1>1. r = IF go THEN e ELSE Result(FALSE, mf)
  BY DEF intel_block1_csk_block0_entry_verify, verify_signature
<1>2. go => b.cskBy = mf.pubkey /\ SignBit(type) \in b.cskUse
  OBVIOUS
<1>3. (/\ WellFormed(b) /\ mf.hash_curve = "secp256r1" /\ mf.length = "secp256r1"
       /\ b.type \notin Cancellations /\ b.cskBy = mf.pubkey /\ SignBit(type) \in b.cskUse) => go
  BY DEF WellFormed, Curves
<1> HIDE DEF go
<1>4. CASE ~go
  <2>1. ~r.ok /\ r.m = mf /\ r.ok \in BOOLEAN
    BY <1>1, <1>4, Refusal
  <2> QED BY <1>3, <1>4, <2>1
<1>5. CASE go
  <2>1. r = intel_block1_block0_entry_verify(mf, b)
    BY <1>1, <1>5
  <2> QED BY <1>2, <1>5, <2>1, EntryFacts
<1> QED BY <1>4, <1>5

\* What block 1 shows of a blob, for a flag that says whether there is a CSK.
Block1Signed(type, b, flag) ==
  /\ b.rootKey = root
  /\ IF flag THEN b.entryBy = b.rootKey
     ELSE b.cskBy = b.rootKey /\ SignBit(type) \in b.cskUse /\ b.entryBy = "csk"

LEMMA Block1Facts ==
  ASSUME NEW mf \in Manifests, NEW type \in Types, NEW b \in Blobs,
         NEW r, r = intel_block1_verify(mf, type, b)
  PROVE  /\ r.m \in Manifests /\ r.ok \in BOOLEAN
         /\ r.ok => r.m.hash_curve = "secp256r1" /\ Block1Signed(type, b, mf.kc_flag)
         /\ (/\ WellFormed(b) /\ (mf.kc_flag <=> b.type \in Cancellations)
             /\ Block1Signed(type, b, mf.kc_flag)) => r.ok
<1> DEFINE e == verify_root_key_entry(mf, b)
           mk == [e.m EXCEPT !.pubkey = b.rootKey,
                             !.length = IF b.rootCurve \in Curves THEN b.rootCurve ELSE @]
<1>1. /\ e.m \in Manifests /\ e.ok \in BOOLEAN /\ e.m.kc_flag = mf.kc_flag
      /\ e.ok => b.rootKey = root /\ e.m.hash_curve = "secp256r1"
      /\ WellFormed(b) /\ b.rootKey = root => e.ok
  BY RootFacts
<1>2. b.rootKey \in Keys /\ (WellFormed(b) => b.rootCurve = "secp256r1" /\ "block1" \notin b.wrong)
  BY BlobFacts DEF WellFormed
<1>3. r = IF "block1" \in b.wrong THEN Result(FALSE, mf)
          ELSE IF ~e.ok THEN e
          ELSE IF mk.kc_flag THEN intel_block1_block0_entry_verify(mk, b)
          ELSE intel_block1_csk_block0_entry_verify(mk, type, b)
  BY DEF intel_block1_verify
<1> HIDE DEF e
<1>4. /\ mk \in Manifests /\ mk.kc_flag = mf.kc_flag /\ mk.pubkey = b.rootKey
      /\ mk.hash_curve = e.m.hash_curve
      /\ b.rootCurve = "secp256r1" => mk.length = "secp256r1"
  BY <1>1, <1>2 DEF Manifests, Magics, Curves
<1> HIDE DEF mk
<1>5. CASE "block1" \in b.wrong
  <2>1. ~r.ok /\ r.m = mf /\ r.ok \in BOOLEAN
    BY <1>3, <1>5, Refusal
  <2> QED BY <1>2, <1>5, <2>1
<1>6. CASE "block1" \notin b.wrong /\ ~e.ok
  <2>1. r = e
    BY <1>3, <1>6
  <2> QED BY <1>1, <1>6, <2>1 DEF Block1Signed
<1>7. CASE "block1" \notin b.wrong /\ e.ok /\ mk.kc_flag
  <2>1. r = intel_block1_block0_entry_verify(mk, b)
    BY <1>3, <1>7
  <2>2. EntryKey(mk) = b.rootKey /\ mf.kc_flag
    BY <1>4, <1>7 DEF EntryKey
  <2>3. /\ r.m \in Manifests /\ r.ok \in BOOLEAN
        /\ r.ok => r.m.hash_curve = mk.hash_curve /\ b.entryBy = EntryKey(mk)
        /\ (/\ WellFormed(b) /\ mk.hash_curve = "secp256r1" /\ mk.length = "secp256r1"
            /\ mk.kc_flag <=> b.type \in Cancellations
            /\ b.entryBy = EntryKey(mk)) => r.ok
    BY <1>4, <2>1, EntryFacts
  <2> QED BY <1>1, <1>2, <1>4, <1>7, <2>2, <2>3 DEF Block1Signed
<1>8. CASE "block1" \notin b.wrong /\ e.ok /\ ~mk.kc_flag
  <2>1. r = intel_block1_csk_block0_entry_verify(mk, type, b)
    BY <1>3, <1>8
  <2>2. EntryKey(mk) = "csk" /\ ~mf.kc_flag
    BY <1>4, <1>8 DEF EntryKey
  <2>3. /\ r.m \in Manifests /\ r.ok \in BOOLEAN
        /\ r.ok => /\ r.m.hash_curve = mk.hash_curve /\ b.entryBy = EntryKey(mk)
                   /\ b.cskBy = mk.pubkey /\ SignBit(type) \in b.cskUse
        /\ (/\ WellFormed(b) /\ mk.hash_curve = "secp256r1" /\ mk.length = "secp256r1"
            /\ ~mk.kc_flag /\ b.type \notin Cancellations
            /\ b.cskBy = mk.pubkey /\ SignBit(type) \in b.cskUse
            /\ b.entryBy = EntryKey(mk)) => r.ok
    BY <1>4, <2>1, CskFacts
  <2> QED BY <1>1, <1>2, <1>4, <1>8, <2>2, <2>3 DEF Block1Signed
<1> QED BY <1>5, <1>6, <1>7, <1>8

-----------------------------------------------------------------------------
(* The verdict                                                             *)

\* A cancellation of k's kind and id clears the bit of the key id of a kind.
Strikes(k, kind, id) == 128 * Place(k.kind) + (k.id % 256) = 128 * Place(kind) + id

\* A key that was cancelled is refused, and no other is that none has struck.
KeysRefused == \A k \in gone : ~verify_kc_flag(keys, k.kind, k.id)
KeysKept == \A kind \in Kinds, id \in 0..127 :
              (\A k \in gone : ~Strikes(k, kind, id)) => verify_kc_flag(keys, kind, id)

\* The version whose firmware is being written is recorded.
Recording == \A v \in writing : v <= get_ufm_svn(rot)

\* What is in the UFM, and its history.
PolicyType ==
  /\ root \in {"root", "blank"} /\ keys \in SUBSET KeyBits /\ Recordable(rot)
  /\ writing \in SUBSET (0..SVN_MAX) /\ installed \in Seq(0..SVN_MAX)
  /\ gone \in SUBSET [kind : Kinds, id : Nat]

Policy == PolicyType /\ KeysRefused /\ KeysKept /\ Recording /\ HrotOnlyNewer

\* The inductive invariant.
IInv == TypeOK /\ Policy /\ AcceptedIsAuthentic /\ AuthenticIsAccepted

Verdicts == [ok : BOOLEAN, authentic : BOOLEAN, formed : BOOLEAN, struck : BOOLEAN]

\* The words lie in the order of Place.
LEMMA PlaceFacts ==
  /\ \A kind \in Kinds : /\ Place(kind) \in 0..4
                         /\ get_cancellation_policy_offset(kind) = 16 * Place(kind)
  /\ \A k, l \in Kinds : Place(k) = Place(l) => k = l
<1>1. /\ Place("PCH_PFM") = 0 /\ Place("PCH_CAPSULE") = 1 /\ Place("BMC_PFM") = 2
      /\ Place("BMC_CAPSULE") = 3 /\ Place("CPLD_CAPSULE") = 4
  BY DEF Place
<1>2. /\ get_cancellation_policy_offset("PCH_PFM") = 0
      /\ get_cancellation_policy_offset("PCH_CAPSULE") = 16
      /\ get_cancellation_policy_offset("BMC_PFM") = 32
      /\ get_cancellation_policy_offset("BMC_CAPSULE") = 48
      /\ get_cancellation_policy_offset("CPLD_CAPSULE") = 64
  BY DEF get_cancellation_policy_offset, CSK_KEY_SIZE
<1>3. ASSUME NEW kind \in Kinds
      PROVE  /\ Place(kind) \in 0..4
             /\ get_cancellation_policy_offset(kind) = 16 * Place(kind)
  BY <1>1, <1>2 DEF Kinds
<1>4. ASSUME NEW k \in Kinds, NEW l \in Kinds, Place(k) = Place(l) PROVE k = l
  BY <1>1, <1>4 DEF Kinds
<1> QED BY <1>3, <1>4

\* Among ids that a word has room for, a cancellation strikes the key it names.
LEMMA StrikesItself ==
  ASSUME NEW k \in [kind : Kinds, id : Nat], NEW kind \in Kinds, NEW id \in 0..127,
         k.id < 128, Strikes(k, kind, id)
  PROVE  k = [kind |-> kind, id |-> id]
<1> DEFINE p == Place(k.kind)
           q == Place(kind)
           n == k.id
<1>1. p \in 0..4 /\ q \in 0..4 /\ (p = q => k.kind = kind)
  BY PlaceFacts
<1>2. n \in 0..127 /\ n % 256 = n
  OBVIOUS
<1>3. 128 * p + n = 128 * q + id
  BY <1>2 DEF Strikes
<1> HIDE DEF p, q, n
<1>4. p = q /\ n = id
  BY <1>1, <1>2, <1>3
<1> QED BY <1>1, <1>4 DEF n

\* A cancellation refuses only the keys it strikes, whatever id it names.
LEMMA CancelStrikes ==
  ASSUME NEW ks, NEW kind \in Kinds, NEW id \in Nat, NEW k \in Kinds, NEW i \in 0..127,
         verify_kc_flag(ks, k, i),
         128 * Place(kind) + (id % 256) # 128 * Place(k) + i
  PROVE  verify_kc_flag(cancel_kc_flag(ks, kind, id), k, i)
<1> DEFINE o == get_cancellation_policy_offset(kind)
           p == get_cancellation_policy_offset(k)
           n == id % 256
           old == KeyBit(p + i \div 8, i)
           new == KeyBit(o + n \div 8, n)
<1>1. n \in 0..255 /\ i % 256 = i
  OBVIOUS
<1>2. o \in Nat /\ p \in Nat /\ 8 * o = 128 * Place(kind) /\ 8 * p = 128 * Place(k)
  <2>1. o = 16 * Place(kind) /\ p = 16 * Place(k) /\ Place(kind) \in 0..4 /\ Place(k) \in 0..4
    BY PlaceFacts
  <2> DEFINE x == Place(kind)
             y == Place(k)
  <2> HIDE DEF o, p, x, y
  <2>2. o = 16 * x /\ p = 16 * y /\ x \in 0..4 /\ y \in 0..4
    BY <2>1 DEF x, y
  <2>3. o \in Nat /\ p \in Nat /\ 8 * o = 128 * x /\ 8 * p = 128 * y
    BY <2>2
  <2> QED BY <2>3 DEF x, y
<1>3. 8 * o + n # 8 * p + i
  BY <1>2
<1> HIDE DEF o, p, n
<1>4. /\ n \div 8 \in Nat /\ n % 8 \in 0..7 /\ n = 8 * (n \div 8) + (n % 8)
      /\ i \div 8 \in 0..15 /\ i % 8 \in 0..7 /\ i = 8 * (i \div 8) + (i % 8)
  BY <1>1
<1>5. old # new
  <2> SUFFICES ASSUME old = new PROVE FALSE
    OBVIOUS
  <2> DEFINE x == i \div 8
             y == n \div 8
             u == i % 8
             w == n % 8
  <2>1. 8 * (p + x) + (7 - u) = 8 * (o + y) + (7 - w)
    BY DEF KeyBit
  <2>2. x \in Nat /\ y \in Nat /\ u \in 0..7 /\ w \in 0..7 /\ i = 8 * x + u /\ n = 8 * y + w
    BY <1>4
  <2> HIDE DEF x, y, u, w
  <2>3. p + x = o + y /\ u = w
    BY <2>1, <2>2, <1>2
  <2> QED BY <2>2, <2>3, <1>2, <1>3
<1>6. old \notin ks
  BY <1>1 DEF verify_kc_flag, verify_csk_key_id, p
<1>7. cancel_kc_flag(ks, kind, id) = ks \cup {new}
  BY DEF cancel_kc_flag, cancel_csk_key_id, o, n
<1> HIDE DEF new
<1>8. old \notin cancel_kc_flag(ks, kind, id) /\ i \div 8 <= 15
  BY <1>4, <1>5, <1>6, <1>7
<1> QED BY <1>1, <1>8 DEF verify_kc_flag, verify_csk_key_id, CSK_KEY_SIZE, p

\* The root key that a blob can match is the one that was provisioned.
LEMMA RootKey == ASSUME IInv, NEW b \in Blobs, b.rootKey = root PROVE root = "root"
  BY BlobFacts DEF IInv, TypeOK, Keys

LEMMA VerdictFacts ==
  ASSUME IInv, NEW type \in Types, NEW b \in Blobs,
         NEW v, v = intel_pfr_manifest_verify(m, type, b)
  PROVE  /\ v.m \in Manifests /\ v.ok \in BOOLEAN
         /\ v.ok => Authentic(type, b)
         /\ Authentic(type, b) /\ WellFormed(b) => v.ok \/ Struck(type, b)
<1> DEFINE k == validate_key_cancellation_flag(m, type, b)
           r == intel_block1_verify(k.m, type, b)
           h == intel_block0_verify(r.m, b)
<1>1. v = IF ~validate_pc_type(type, b) THEN Result(FALSE, m)
          ELSE IF ~k.ok THEN k
          ELSE IF ~r.ok THEN r
          ELSE Result(h, r.m)
  BY DEF intel_pfr_manifest_verify
<1>2. m \in Manifests
  BY DEF IInv, TypeOK
<1>3. /\ k.m \in Manifests /\ k.ok \in BOOLEAN
      /\ k.ok => (k.m.kc_flag <=> type \in Cancellations)
      /\ k.ok <=> \/ type \in Cancellations \cup {"SEAMLESS"}
                  \/ KindOf(type) # "none" /\ verify_kc_flag(keys, KindOf(type), b.cskId)
  BY <1>2, FlagFacts
<1> HIDE DEF k
<1>4. /\ r.m \in Manifests /\ r.ok \in BOOLEAN
      /\ r.ok => r.m.hash_curve = "secp256r1" /\ Block1Signed(type, b, k.m.kc_flag)
      /\ (/\ WellFormed(b) /\ (k.m.kc_flag <=> b.type \in Cancellations)
          /\ Block1Signed(type, b, k.m.kc_flag)) => r.ok
  BY <1>3, Block1Facts
<1>5. h \in BOOLEAN
  BY DEF intel_block0_verify
<1>6. h /\ r.m.hash_curve = "secp256r1" /\ b.type # "DECOMMISSION" => b.intact
  BY DEF intel_block0_verify, Curves
<1>7. WellFormed(b) /\ (b.type # "DECOMMISSION" => b.intact) /\ r.ok => h
  BY <1>4 DEF intel_block0_verify, WellFormed, Curves
<1> HIDE DEF r, h
<1>8. CASE ~validate_pc_type(type, b)
  <2>1. ~v.ok /\ v.m = m /\ v.ok \in BOOLEAN
    BY <1>1, <1>8, Refusal
  <2> QED BY <1>2, <1>8, <2>1 DEF validate_pc_type, Authentic
<1>9. CASE validate_pc_type(type, b) /\ ~k.ok
  <2>1. v = k
    BY <1>1, <1>9
  <2>2. ASSUME Authentic(type, b), WellFormed(b), ~Struck(type, b) PROVE FALSE
    <3>1. type \notin Cancellations /\ b.type = type /\ SignBit(type) \in b.cskUse
          /\ [kind |-> KindOf(type), id |-> b.cskId] \notin gone
      BY <1>3, <1>9, <2>2 DEF Authentic
    <3>2. KindOf(type) \in Kinds /\ KindOf(type) # "none" /\ b.cskId \in 0..127
      BY <2>2, <3>1, TypeFacts, BlobFacts DEF WellFormed
    <3>3. ASSUME NEW g \in gone PROVE ~Strikes(g, KindOf(type), b.cskId)
      <4>1. g \in [kind : Kinds, id : Nat]
        BY DEF IInv, Policy, PolicyType
      <4>2. CASE g.id >= 128
        BY <2>2, <3>1, <3>2, <4>2 DEF Struck, Strikes
      <4>3. CASE g.id < 128
        BY <3>1, <3>2, <3>3, <4>1, <4>3, StrikesItself
      <4> QED BY <4>1, <4>2, <4>3
    <3>4. verify_kc_flag(keys, KindOf(type), b.cskId)
      BY <3>2, <3>3 DEF IInv, Policy, KeysKept
    <3> QED BY <1>3, <1>9, <3>2, <3>4
  <2> QED BY <1>3, <1>9, <2>1, <2>2
<1>10. CASE validate_pc_type(type, b) /\ k.ok /\ ~r.ok
  <2>1. v = r
    BY <1>1, <1>10
  <2>2. ASSUME Authentic(type, b), WellFormed(b) PROVE FALSE
    <3>1. b.type = type /\ root = "root"
      BY <2>2, RootKey DEF Authentic
    <3>2. Block1Signed(type, b, k.m.kc_flag)
      BY <1>3, <1>10, <2>2, <3>1 DEF Authentic, Block1Signed
    <3> QED BY <1>3, <1>4, <1>10, <2>2, <3>1, <3>2
  <2> QED BY <1>4, <1>10, <2>1, <2>2
<1>11. CASE validate_pc_type(type, b) /\ k.ok /\ r.ok
  <2>1. (v.ok <=> h) /\ v.m = r.m /\ v.ok \in BOOLEAN
    <3>1. v = Result(h, r.m)
      BY <1>1, <1>11
    <3> QED BY <3>1, <1>5, Outcome
  <2>2. ASSUME Authentic(type, b), WellFormed(b) PROVE h
    BY <1>7, <1>11, <2>2 DEF Authentic
  <2>3. ASSUME h PROVE Authentic(type, b)
    <3>1. Block1Signed(type, b, type \in Cancellations)
      BY <1>3, <1>4, <1>11 DEF Block1Signed
    <3>2. root = "root" /\ b.rootKey = root
      BY <3>1, RootKey DEF Block1Signed
    <3>3. type # "SEAMLESS"
      <4>1. type = "SEAMLESS" => SignBit(type) \in b.cskUse
        BY <3>1 DEF Block1Signed, Cancellations
      <4> QED BY <4>1, TypeFacts, BlobFacts
    <3>4. b.type = type
      BY <1>11, <3>3 DEF validate_pc_type
    <3>5. b.type # "DECOMMISSION" => b.intact
      BY <1>4, <1>6, <1>11, <2>3
    <3>6. type \notin Cancellations => [kind |-> KindOf(type), id |-> b.cskId] \notin gone
      <4>1. type \notin Cancellations => verify_kc_flag(keys, KindOf(type), b.cskId)
        BY <1>3, <1>11, <3>3
      <4> QED BY <4>1 DEF IInv, Policy, KeysRefused
    <3> QED BY <3>1, <3>2, <3>4, <3>5, <3>6 DEF Authentic, Block1Signed
  <2> QED BY <1>4, <2>1, <2>2, <2>3
<1> QED BY <1>3, <1>4, <1>8, <1>9, <1>10, <1>11

-----------------------------------------------------------------------------
(* The invariant is kept                                                   *)

\* What a verification leaves behind, whatever is done with its verdict.
LEMMA VerifiedKept ==
  ASSUME IInv, NEW type \in Types, NEW b \in Blobs,
         NEW v, v = intel_pfr_manifest_verify(m, type, b), Verified(type, b, v)
  PROVE  /\ m' \in Manifests /\ last' \in Verdicts
         /\ AcceptedIsAuthentic' /\ AuthenticIsAccepted'
         /\ v.ok => last'.ok /\ last'.authentic
<1> DEFINE au == Authentic(type, b)
           wf == WellFormed(b)
           st == Struck(type, b)
<1>1. /\ v.m \in Manifests /\ v.ok \in BOOLEAN
      /\ v.ok => au
      /\ au /\ wf => v.ok \/ st
  BY VerdictFacts
<1>2. au \in BOOLEAN /\ wf \in BOOLEAN /\ st \in BOOLEAN
  BY DEF Authentic, WellFormed, Struck
<1>3. m' = v.m /\ last' = [ok |-> v.ok, authentic |-> au, formed |-> wf, struck |-> st]
  BY DEF Verified
<1> HIDE DEF au, wf, st
<1>4. last' \in Verdicts
  BY <1>1, <1>2, <1>3 DEF Verdicts
<1>5. /\ last'.ok <=> v.ok
      /\ last'.authentic <=> au
      /\ last'.formed <=> wf
      /\ last'.struck <=> st
  BY <1>1, <1>2, <1>3
<1> QED BY <1>1, <1>3, <1>4, <1>5 DEF AcceptedIsAuthentic, AuthenticIsAccepted

\* An erased UFM records version 0 and refuses no key.
LEMMA Erased ==
  /\ Recordable({})
  /\ \A kind \in Kinds, id \in 0..127 : verify_kc_flag({}, kind, id)
<1>1. Recordable({})
  <2>1. set_ufm_svn(0) = 0..(0 - 1) /\ 0 \in 0..SVN_MAX
    BY SvnBits DEF SVN_MAX
  <2>2. 0..(0 - 1) = {}
    OBVIOUS
  <2> QED BY <2>1, <2>2 DEF Recordable
<1>2. ASSUME NEW kind \in Kinds, NEW id \in 0..127 PROVE verify_kc_flag({}, kind, id)
  <2>1. id % 256 = id /\ id \div 8 <= 15
    OBVIOUS
  <2> QED BY <2>1 DEF verify_kc_flag, verify_csk_key_id, CSK_KEY_SIZE
<1> QED BY <1>1, <1>2

LEMMA ErasedKept ==
  ASSUME root' = "blank", keys' = {}, gone' = {}, rot' = {}, writing' = {}, installed' = << >>
  PROVE  Policy'
<1>1. KeysRefused' /\ KeysKept' /\ Recordable(rot')
  BY Erased DEF KeysKept, KeysRefused
<1>2. PolicyType'
  BY <1>1 DEF PolicyType
<1>3. Recording' /\ HrotOnlyNewer'
  BY DEF Recording, HrotOnlyNewer
<1> QED BY <1>1, <1>2, <1>3 DEF Policy

\* A cancellation refuses the key it names, and no other but the one it strikes.
LEMMA CancelledKept ==
  ASSUME IInv, NEW kind \in Kinds, NEW id \in Nat,
         keys' = cancel_kc_flag(keys, kind, id),
         gone' = gone \cup {[kind |-> kind, id |-> id]},
         UNCHANGED <<root, rot, writing, installed>>
  PROVE  Policy'
<1>1. keys' \in SUBSET KeyBits
  BY CancelBits DEF IInv, TypeOK
<1>2. gone' \in SUBSET [kind : Kinds, id : Nat]
  BY DEF IInv, TypeOK
<1>3. ASSUME NEW k \in gone' PROVE ~verify_kc_flag(keys', k.kind, k.id)
  <2>1. CASE k \in gone
    BY <2>1, CancelOnlyRefuses DEF IInv, Policy, KeysRefused
  <2>2. CASE k = [kind |-> kind, id |-> id]
    BY <2>2, CancelRefuses
  <2> QED BY <2>1, <2>2
<1>4. ASSUME NEW k \in Kinds, NEW i \in 0..127, \A g \in gone' : ~Strikes(g, k, i)
      PROVE  verify_kc_flag(keys', k, i)
  <2>1. \A g \in gone : ~Strikes(g, k, i)
    BY <1>4
  <2>2. verify_kc_flag(keys, k, i)
    BY <2>1 DEF IInv, Policy, KeysKept
  <2>3. ~Strikes([kind |-> kind, id |-> id], k, i)
    BY <1>4
  <2>4. 128 * Place(kind) + (id % 256) # 128 * Place(k) + i
    BY <2>3 DEF Strikes
  <2> QED BY <2>2, <2>4, CancelStrikes
<1>5. PolicyType'
  BY <1>1, <1>2 DEF IInv, Policy, PolicyType
<1>6. Recording' /\ HrotOnlyNewer'
  BY DEF IInv, Policy, Recording, HrotOnlyNewer
<1> QED BY <1>3, <1>4, <1>5, <1>6 DEF Policy, KeysRefused, KeysKept

\* The elements of a sequence.
LEMMA ElementInRange ==
  \A S : \A s \in Seq(S) : \A i \in 1..Len(s) : s[i] \in S
  OBVIOUS

\* rot_svn_policy_verify lets a version pass that is higher than all installed.
LEMMA BurntKept ==
  ASSUME IInv, NEW b \in Blobs, rot_svn_policy_verify(b),
         rot' = set_ufm_svn(b.word), writing' = {b.word},
         UNCHANGED <<root, keys, gone, installed>>
  PROVE  Policy'
<1> DEFINE c == get_ufm_svn(rot)
           n == b.word
<1>1. n \in 0..SVN_MAX /\ n > c
  BY BlobFacts DEF rot_svn_policy_verify, SVN_MAX
<1>2. get_ufm_svn(rot') = n /\ Recordable(rot')
  BY <1>1, SvnRoundTrip DEF Recordable
<1>3. c \in 0..SVN_MAX
  BY SvnRoundTrip DEF IInv, Policy, PolicyType, Recordable
<1>4. PolicyType'
  BY <1>1, <1>2 DEF IInv, Policy, PolicyType
<1>5. KeysRefused' /\ KeysKept'
  BY DEF IInv, Policy, KeysRefused, KeysKept
<1>6. \A i \in 1..Len(installed) : installed[i] \in 0..SVN_MAX
  <2>1. installed \in Seq(0..SVN_MAX)
    BY DEF IInv, Policy, PolicyType
  <2> QED BY <2>1, ElementInRange
<1>7. \A i \in 1..Len(installed) : installed[i] <= c
  BY DEF IInv, Policy, HrotOnlyNewer
<1>8. \A i, j \in 1..Len(installed) : i < j => installed[i] < installed[j]
  BY DEF IInv, Policy, HrotOnlyNewer
<1> HIDE DEF c, n
<1>9. ASSUME NEW i \in 1..Len(installed) PROVE installed[i] < n /\ installed[i] <= n
  <2> DEFINE x == installed[i]
  <2>1. x \in 0..SVN_MAX /\ x <= c
    BY <1>6, <1>7
  <2> HIDE DEF x
  <2>2. x < n /\ x <= n
    BY <1>1, <1>3, <2>1 DEF SVN_MAX
  <2> QED BY <2>2 DEF x
<1>10. n <= n
  BY <1>1 DEF SVN_MAX
<1>11. writing' = {n} /\ installed' = installed
  BY DEF n
<1>12. HrotOnlyNewer' /\ Recording'
  BY <1>2, <1>8, <1>9, <1>10, <1>11 DEF HrotOnlyNewer, Recording
<1> QED BY <1>4, <1>5, <1>12 DEF Policy

\* What update_rot_fw completes is recorded and higher than what was installed.
LEMMA InstalledKept ==
  ASSUME IInv, NEW v \in writing, writing' = {}, installed' = Append(installed, v),
         UNCHANGED <<root, keys, rot, gone>>
  PROVE  Policy'
<1> DEFINE c == get_ufm_svn(rot)
           s == installed
           t == installed'
<1>1. v \in 0..SVN_MAX /\ s \in Seq(0..SVN_MAX)
  BY DEF IInv, Policy, PolicyType
<1>2. /\ v <= c
      /\ \A i \in 1..Len(s) : s[i] < v
      /\ \A i \in 1..Len(s) : s[i] <= c
      /\ \A i, j \in 1..Len(s) : i < j => s[i] < s[j]
  BY DEF IInv, Policy, HrotOnlyNewer, Recording
<1>3. t = Append(s, v)
  OBVIOUS
<1> HIDE DEF c, s, t
<1>4. /\ t \in Seq(0..SVN_MAX) /\ Len(t) = Len(s) + 1 /\ Len(s) \in Nat
      /\ \A i \in 1..Len(s) : t[i] = s[i]
      /\ t[Len(s) + 1] = v
  BY <1>1, <1>3
<1>5. \A i \in 1..Len(t) : i \in 1..Len(s) \/ i = Len(s) + 1
  BY <1>4
<1>6. \A i \in 1..Len(t) : t[i] <= c
  BY <1>2, <1>4, <1>5
<1>7. ASSUME NEW i \in 1..Len(t), NEW j \in 1..Len(t), i < j PROVE t[i] < t[j]
  <2>1. i \in 1..Len(s)
    BY <1>4, <1>7
  <2>2. CASE j \in 1..Len(s)
    BY <1>2, <1>4, <1>7, <2>1, <2>2
  <2>3. CASE j = Len(s) + 1
    BY <1>2, <1>4, <2>1, <2>3
  <2> QED BY <1>5, <2>2, <2>3
<1>8. HrotOnlyNewer' /\ Recording'
  BY <1>6, <1>7 DEF HrotOnlyNewer, Recording, c, t
<1>9. PolicyType'
  BY <1>4 DEF IInv, Policy, PolicyType, t
<1>10. KeysRefused' /\ KeysKept'
  BY DEF IInv, Policy, KeysRefused, KeysKept
<1> QED BY <1>8, <1>9, <1>10 DEF Policy

\* What one step may do to the UFM.
Guarded ==
  root # "blank" /\ <<root, keys, rot>>' # <<root, keys, rot>> => last'.ok /\ last'.authentic

LEMMA UnchangedKept ==
  ASSUME Policy, UNCHANGED <<root, keys, rot, gone, installed>>,
         writing' = writing \/ writing' = {}
  PROVE  Policy' /\ Guarded
<1>1. PolicyType' /\ Recording' /\ HrotOnlyNewer'
  BY DEF Policy, PolicyType, Recording, HrotOnlyNewer
<1>2. KeysRefused' /\ KeysKept'
  BY DEF Policy, KeysRefused, KeysKept
<1> QED BY <1>1, <1>2 DEF Policy, Guarded

\* The type invariant is the policy's types and the manifest's.
LEMMA TypeKept ==
  (m \in Manifests /\ last \in Verdicts /\ Policy) => TypeOK
  BY DEF TypeOK, Policy, PolicyType, Verdicts

LEMMA TypeKeptNext ==
  ASSUME m' \in Manifests, last' \in Verdicts, Policy' PROVE TypeOK'
  BY DEF TypeOK, Policy, PolicyType, Verdicts

LEMMA VerifyAsKept ==
  ASSUME IInv, NEW type \in Types, NEW b \in Blobs, VerifyAs(type, b)
  PROVE  IInv' /\ Guarded
<1>1. UNCHANGED <<root, keys, rot, gone, installed>> /\ writing' = writing
  BY DEF VerifyAs, policyVars
<1>2. m' \in Manifests /\ last' \in Verdicts /\ AcceptedIsAuthentic' /\ AuthenticIsAccepted'
  BY VerifiedKept DEF VerifyAs
<1>3. Policy' /\ Guarded
  BY <1>1, UnchangedKept DEF IInv
<1>4. TypeOK'
  BY <1>2, <1>3, TypeKeptNext
<1> QED BY <1>2, <1>3, <1>4 DEF IInv

LEMMA hrot_updateKept ==
  ASSUME IInv, NEW b \in Blobs, hrot_update(b)
  PROVE  IInv' /\ Guarded
<1> DEFINE v == intel_pfr_manifest_verify(m, b.type, b)
           Kept == Policy' /\ Guarded
<1>1. b.type \in Types /\ b.word \in Nat
  BY BlobFacts
<1>2. Verified(b.type, b, v) /\ writing = {}
  BY DEF hrot_update
<1>3. /\ m' \in Manifests /\ last' \in Verdicts
      /\ AcceptedIsAuthentic' /\ AuthenticIsAccepted'
      /\ v.ok => last'.ok /\ last'.authentic
  BY <1>1, <1>2, VerifiedKept
<1>4. ASSUME UNCHANGED policyVars PROVE Kept
  BY <1>4, UnchangedKept DEF IInv, policyVars
<1>5. v.ok => Guarded
  BY <1>3 DEF Guarded
<1>6. ASSUME v.ok, root' = "blank", keys' = {}, rot' = {}, gone' = {}, installed' = << >>,
             UNCHANGED writing
      PROVE  Kept
  BY <1>2, <1>5, <1>6, ErasedKept
<1>7. ASSUME v.ok, b.type \in Cancellations,
             keys' = cancel_kc_flag(keys, KindOf(b.type), b.word),
             gone' = gone \cup {[kind |-> KindOf(b.type), id |-> b.word]},
             UNCHANGED <<root, rot, writing, installed>>
      PROVE  Kept
  <2>1. KindOf(b.type) \in Kinds
    BY <1>1, <1>7, TypeFacts
  <2> QED BY <1>1, <1>5, <1>7, <2>1, CancelledKept
<1>8. ASSUME v.ok, rot_svn_policy_verify(b), rot' = set_ufm_svn(b.word), writing' = {b.word},
             UNCHANGED <<root, keys, gone, installed>>
      PROVE  Kept
  BY <1>5, <1>8, BurntKept
<1>9. Kept
  <2> HIDE DEF Kept, v
  <2> QED BY <1>4, <1>6, <1>7, <1>8 DEF hrot_update, pfr_decommission, v
<1>10. TypeOK'
  BY <1>3, <1>9, TypeKeptNext
<1> QED BY <1>3, <1>9, <1>10 DEF IInv

\* The end of update_rot_fw, a provisioning and a reset verify nothing.
LEMMA OtherKept ==
  ASSUME IInv, update_rot_fw \/ Provision \/ Reset
  PROVE  IInv' /\ Guarded
<1>1. m' \in Manifests /\ last' = last
  <2>1. m \in Manifests
    BY DEF IInv, TypeOK
  <2>2. Fresh \in Manifests
    BY DEF Fresh, Manifests, Magics
  <2>3. (m' = m \/ m' = Fresh) /\ last' = last
    BY DEF update_rot_fw, Provision, Reset
  <2> QED BY <2>1, <2>2, <2>3
<1>2. last' \in Verdicts /\ AcceptedIsAuthentic' /\ AuthenticIsAccepted'
  BY <1>1 DEF IInv, TypeOK, Verdicts, AcceptedIsAuthentic, AuthenticIsAccepted
<1>3. Guarded
  BY DEF Guarded, update_rot_fw, Provision, Reset
<1>4. Policy'
  <2>1. CASE UNCHANGED <<root, keys, rot, gone, installed>> /\ writing' = {}
    BY <2>1, UnchangedKept DEF IInv
  <2>2. CASE update_rot_fw /\ installed' # installed
    <3>1. PICK x \in writing : installed' = Append(installed, x)
      BY <2>2 DEF update_rot_fw
    <3> QED BY <2>2, <3>1, InstalledKept DEF update_rot_fw
  <2>3. CASE Provision
    <3>1. PolicyType' /\ Recording' /\ HrotOnlyNewer'
      BY <2>3 DEF Provision, IInv, Policy, PolicyType, Recording, HrotOnlyNewer
    <3>2. KeysRefused' /\ KeysKept'
      BY <2>3 DEF Provision, IInv, Policy, KeysRefused, KeysKept
    <3> QED BY <3>1, <3>2 DEF Policy
  <2> QED BY <2>1, <2>2, <2>3 DEF update_rot_fw, Reset
<1>5. TypeOK'
  BY <1>1, <1>2, <1>4, TypeKeptNext
<1> QED BY <1>2, <1>3, <1>4, <1>5 DEF IInv

\* Every step keeps the invariant and is guarded.
LEMMA NextKept == ASSUME IInv, [Next]_vars PROVE IInv' /\ Guarded
<1>1. ASSUME NEW type \in PcTypes, NEW b \in Blobs, VerifyAs(type, b)
      PROVE  IInv' /\ Guarded
  <2>1. type \in Types
    BY ManifestAssumption
  <2> QED BY <1>1, <2>1, VerifyAsKept
<1>2. ASSUME NEW b \in Blobs, hrot_update(b) PROVE IInv' /\ Guarded
  BY <1>2, hrot_updateKept
<1>3. CASE update_rot_fw \/ Provision \/ Reset
  BY <1>3, OtherKept
<1>4. CASE UNCHANGED vars
  <2>1. Policy' /\ Guarded
    BY <1>4, UnchangedKept DEF vars, IInv
  <2>2. TypeOK' /\ AcceptedIsAuthentic' /\ AuthenticIsAccepted'
    BY <1>4 DEF vars, IInv, TypeOK, AcceptedIsAuthentic, AuthenticIsAccepted
  <2> QED BY <2>1, <2>2 DEF IInv
<1> QED BY <1>1, <1>2, <1>3, <1>4 DEF Next

LEMMA InitKept == ASSUME Init PROVE IInv
<1>1. /\ keys = {} /\ gone = {} /\ rot = {} /\ root = "root" /\ m \in Manifests
      /\ writing = {} /\ installed = << >>
  BY DEF Init, Fresh, Manifests, Magics
<1>2. Recordable({})
  BY Erased
<1>3. KeysKept /\ KeysRefused
  BY <1>1, Erased DEF KeysKept, KeysRefused
<1>4. last \in Verdicts /\ AcceptedIsAuthentic /\ AuthenticIsAccepted
  BY DEF Init, Verdicts, AcceptedIsAuthentic, AuthenticIsAccepted
<1>5. PolicyType
  BY <1>1, <1>2 DEF PolicyType
<1>6. Recording /\ HrotOnlyNewer
  BY <1>1 DEF Recording, HrotOnlyNewer
<1>7. Policy
  BY <1>3, <1>5, <1>6 DEF Policy
<1>8. TypeOK
  BY <1>1, <1>4, <1>7, TypeKept
<1> QED BY <1>4, <1>7, <1>8 DEF IInv

-----------------------------------------------------------------------------
(* Theorems                                                                *)

LEMMA AlwaysIInv == Spec => []IInv
<1>1. IInv /\ [Next]_vars => IInv'
  BY NextKept
<1> QED BY <1>1, InitKept, PTL DEF Spec

\* The verification chain keeps the shared manifest and the policy words in
\* their domains.
THEOREM ManifestTypeCorrect == Spec => []TypeOK
<1>1. IInv => TypeOK
  BY DEF IInv
<1> QED BY <1>1, AlwaysIInv, PTL

\* intel_pfr_manifest_verify accepts only what is authentic, whatever was
\* verified before.
THEOREM AcceptsOnlyAuthentic == Spec => []AcceptedIsAuthentic
<1>1. IInv => AcceptedIsAuthentic
  BY DEF IInv
<1> QED BY <1>1, AlwaysIInv, PTL

\* intel_pfr_manifest_verify refuses nothing that is authentic and well formed,
\* whatever was verified before, unless cancel_csk_key_id was given a key id of
\* 128 or more and has cleared the bit of the blob's own key with it.
THEOREM RefusesNothingAuthentic == Spec => []AuthenticIsAccepted
<1>1. IInv => AuthenticIsAccepted
  BY DEF IInv
<1> QED BY <1>1, AlwaysIInv, PTL

\* hrot_update changes the root key, the cancelled keys and the HRoT's version
\* for authentic capsules only.
THEOREM OnlyAuthenticChangesPolicy == Spec => PolicyGuarded
<1>1. IInv /\ [Next]_vars =>
        [root # "blank" /\ <<root, keys, rot>>' # <<root, keys, rot>>
           => last'.ok /\ last'.authentic]_vars
  BY NextKept DEF Guarded
<1> QED BY <1>1, AlwaysIInv, PTL DEF Spec, PolicyGuarded

\* update_rot_fw installs each version of the HRoT once at most and none after a
\* newer one, each recorded beforehand, however often a capsule is offered and
\* wherever an installation fails or is cut off.
THEOREM HrotVersionRises == Spec => []HrotOnlyNewer
<1>1. IInv => HrotOnlyNewer
  BY DEF IInv, Policy
<1> QED BY <1>1, AlwaysIInv, PTL
=============================================================================
