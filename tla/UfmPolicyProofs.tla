-------------------------- MODULE UfmPolicyProofs ---------------------------
(***************************************************************************)
(* Lemmas about the policy words of UfmPolicy: a version that is recorded  *)
(* is read back, and a cancellation refuses one key of one kind for good.  *)
(***************************************************************************)
EXTENDS UfmPolicy, TLAPS

-----------------------------------------------------------------------------
(* The policy words                                                        *)

\* set_ufm_svn clears exactly the bits below the version, whatever byte they
\* are in.
LEMMA SvnBits ==
  ASSUME NEW n \in 0..SVN_MAX
  PROVE  set_ufm_svn(n) = 0..(n - 1)
<1>1. ASSUME NEW i \in 0..SVN_MAX
      PROVE  (i \div 8 < n \div 8 \/ (i \div 8 = n \div 8 /\ i % 8 < n % 8)) <=> i < n
  BY <1>1 DEF SVN_MAX
<1>2. 0..(n - 1) \subseteq 0..SVN_MAX
  BY DEF SVN_MAX
<1> QED BY <1>1, <1>2 DEF set_ufm_svn, SVN_MAX

\* What set_ufm_svn writes, get_ufm_svn reads back.
LEMMA SvnRoundTrip ==
  ASSUME NEW n \in 0..SVN_MAX
  PROVE  get_ufm_svn(set_ufm_svn(n)) = n /\ set_ufm_svn(n) \in VersionWords
<1> DEFINE First(m) == m \notin 0..(n - 1) /\ \A i \in 0..(m - 1) : i \in 0..(n - 1)
<1>1. set_ufm_svn(n) = 0..(n - 1)
  BY SvnBits
<1>2. ~(0..SVN_MAX \subseteq 0..(n - 1))
  <2>1. n \in 0..SVN_MAX /\ n \notin 0..(n - 1)
    BY DEF SVN_MAX
  <2> QED BY <2>1
<1>3. First(n)
  BY DEF SVN_MAX
<1>4. ASSUME NEW m \in 0..SVN_MAX, First(m) PROVE m = n
  <2>1. m >= n
    BY <1>4 DEF SVN_MAX
  <2>2. m > n => n \in 0..(m - 1)
    BY DEF SVN_MAX
  <2>3. n \notin 0..(n - 1)
    BY DEF SVN_MAX
  <2> QED BY <1>4, <2>1, <2>2, <2>3 DEF SVN_MAX
<1>5. (CHOOSE m \in 0..SVN_MAX : First(m)) = n
  <2> HIDE DEF First
  <2> QED BY <1>3, <1>4
<1>6. get_ufm_svn(set_ufm_svn(n)) = CHOOSE m \in 0..SVN_MAX : First(m)
  BY <1>1, <1>2 DEF get_ufm_svn
<1>7. set_ufm_svn(n) \in VersionWords
  BY DEF set_ufm_svn, VersionWords
<1> QED BY <1>5, <1>6, <1>7

\* A version that was recorded reads as one.
LEMMA RecordableFacts ==
  ASSUME NEW w, Recordable(w)
  PROVE  get_ufm_svn(w) \in 0..SVN_MAX /\ w \in VersionWords
  BY SvnRoundTrip DEF Recordable

\* Cancelling a key keeps the words in their flash area.
LEMMA CancelBits ==
  ASSUME NEW ks \in SUBSET KeyBits, NEW kind \in Kinds, NEW id \in Nat
  PROVE  cancel_kc_flag(ks, kind, id) \in SUBSET KeyBits
<1> DEFINE off == get_cancellation_policy_offset(kind)
           n == id % 256
<1>1. off \in 0..64
  BY DEF get_cancellation_policy_offset, Kinds, CSK_KEY_SIZE
<1>2. n \in 0..255
  OBVIOUS
<1>3. KeyBit(off + n \div 8, n) \in KeyBits
  <2> HIDE DEF off, n
  <2>1. n \div 8 \in 0..31 /\ n % 8 \in 0..7
    BY <1>2
  <2> DEFINE byte == off + n \div 8
             bit == 7 - (n % 8)
  <2>2. byte \in 0..95 /\ bit \in 0..7
    BY <1>1, <2>1
  <2>3. KeyBit(off + n \div 8, n) = 8 * byte + bit
    BY DEF KeyBit
  <2> HIDE DEF byte, bit
  <2>4. 8 * byte + bit \in KeyBits
    BY <2>2 DEF KeyBits, CSK_KEY_SIZE
  <2> QED BY <2>3, <2>4
<1> QED BY <1>3 DEF cancel_kc_flag, cancel_csk_key_id

\* A key that was cancelled does not verify, an id that spills over into the
\* word of the next kind included.
LEMMA CancelRefuses ==
  ASSUME NEW ks, NEW kind \in Kinds, NEW id \in Nat
  PROVE  ~verify_kc_flag(cancel_kc_flag(ks, kind, id), kind, id)
  BY DEF verify_kc_flag, cancel_kc_flag, verify_csk_key_id, cancel_csk_key_id

\* No cancellation makes a key usable again.
LEMMA CancelOnlyRefuses ==
  ASSUME NEW ks, NEW kind, NEW id, NEW k, NEW i,
         verify_kc_flag(cancel_kc_flag(ks, kind, id), k, i)
  PROVE  verify_kc_flag(ks, k, i)
  BY DEF verify_kc_flag, cancel_kc_flag, verify_csk_key_id, cancel_csk_key_id

\* The words of two kinds do not overlap.
LEMMA WordsApart ==
  ASSUME NEW o \in {0, 16, 32, 48, 64}, NEW p \in {0, 16, 32, 48, 64},
         NEW a \in 0..15, NEW b \in 0..15, p + a = o + b
  PROVE  p = o /\ a = b
  OBVIOUS

\* A key id below 128 cancels the keys with these eight bits for that kind and
\* nothing else.
LEMMA CancelIsExact ==
  ASSUME NEW ks, NEW kind \in Kinds, NEW id \in 0..127, NEW k \in Kinds, NEW j \in Nat,
         verify_kc_flag(ks, k, j), k # kind \/ j % 256 # id
  PROVE  verify_kc_flag(cancel_kc_flag(ks, kind, id), k, j)
<1> DEFINE o == get_cancellation_policy_offset(kind)
           p == get_cancellation_policy_offset(k)
           i == j % 256
<1>1. o \in {0, 16, 32, 48, 64} /\ p \in {0, 16, 32, 48, 64} /\ (o = p => kind = k)
  BY DEF get_cancellation_policy_offset, Kinds, CSK_KEY_SIZE
<1>2. i \in 0..255 /\ i \div 8 <= 15 /\ KeyBit(p + i \div 8, i) \notin ks
  BY DEF verify_kc_flag, verify_csk_key_id, CSK_KEY_SIZE
<1>3. id \div 8 \in 0..15 /\ id % 256 = id /\ id = 8 * (id \div 8) + (id % 8)
      /\ id % 8 \in 0..7
  OBVIOUS
<1>d. i = j % 256
  OBVIOUS
<1> HIDE DEF i
<1>4. i \div 8 \in 0..15 /\ i = 8 * (i \div 8) + (i % 8) /\ i % 8 \in 0..7
  BY <1>2
<1>5. KeyBit(p + i \div 8, i) # KeyBit(o + id \div 8, id)
  <2> HIDE DEF o, p
  <2> SUFFICES ASSUME KeyBit(p + i \div 8, i) = KeyBit(o + id \div 8, id) PROVE FALSE
    OBVIOUS
  <2>1. 8 * (p + i \div 8) + (7 - (i % 8)) = 8 * (o + id \div 8) + (7 - (id % 8))
    BY DEF KeyBit
  <2>2. p + i \div 8 = o + id \div 8 /\ i % 8 = id % 8
    BY <2>1, <1>1, <1>3, <1>4
  <2>3. p = o /\ i \div 8 = id \div 8
    <3> DEFINE a == i \div 8
               b == id \div 8
    <3>1. a \in 0..15 /\ b \in 0..15 /\ p + a = o + b
      BY <2>2, <1>3, <1>4
    <3> HIDE DEF a, b
    <3>2. p = o /\ a = b
      BY <3>1, <1>1, WordsApart
    <3> QED BY <3>2 DEF a, b
  <2> QED BY <2>2, <2>3, <1>1, <1>3, <1>4, <1>d
<1>6. cancel_kc_flag(ks, kind, id) = ks \cup {KeyBit(o + id \div 8, id)}
  BY <1>3 DEF cancel_kc_flag, cancel_csk_key_id
<1>7. KeyBit(p + i \div 8, i) \notin cancel_kc_flag(ks, kind, id)
  <2> HIDE DEF o, p
  <2> QED BY <1>2, <1>5, <1>6
<1> QED BY <1>2, <1>7, <1>d DEF verify_kc_flag, verify_csk_key_id, CSK_KEY_SIZE
=============================================================================
