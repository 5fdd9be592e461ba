----------------------------- MODULE UfmPolicy ------------------------------
(***************************************************************************)
(* The policy words of the provisioning UFM: a security version kept as    *)
(* the number of bits cleared from the bottom of a 64 bit word             *)
(* (intel_pfr_update.c) and five words of cancelled key ids                *)
(* (intel_pfr_key_cancellation.c).  A word is modelled by the set of its   *)
(* bits that are clear; an erased word has none.                           *)
(***************************************************************************)
EXTENDS Integers

SVN_MAX == 63
CSK_KEY_SIZE == 16

VersionWords == SUBSET (0..SVN_MAX)

-----------------------------------------------------------------------------
(* Security versions                                                       *)

\* set_ufm_svn: whole bytes of zeros, then a byte shifted left.
set_ufm_svn(n) ==
  {i \in 0..SVN_MAX : \/ i \div 8 < n \div 8
                      \/ i \div 8 = n \div 8 /\ i % 8 < n % 8}

\* A word that set_ufm_svn has written.
Recordable(w) == \E n \in 0..SVN_MAX : w = set_ufm_svn(n)

\* get_ufm_svn: the first bit that is set, 64 if there is none.
get_ufm_svn(w) ==
  IF 0..SVN_MAX \subseteq w THEN SVN_MAX + 1
  ELSE CHOOSE n \in 0..SVN_MAX : n \notin w /\ \A i \in 0..(n - 1) : i \in w

-----------------------------------------------------------------------------
(* Cancelled keys                                                          *)

\* The five words in the order in which they lie in the UFM.
Kinds == {"PCH_PFM", "PCH_CAPSULE", "BMC_PFM", "BMC_CAPSULE", "CPLD_CAPSULE"}

\* Byte of the first word at which the word of a kind begins.
get_cancellation_policy_offset(kind) ==
  CASE kind = "PCH_PFM" -> 0
    [] kind = "PCH_CAPSULE" -> CSK_KEY_SIZE
    [] kind = "BMC_PFM" -> 2 * CSK_KEY_SIZE
    [] kind = "BMC_CAPSULE" -> 3 * CSK_KEY_SIZE
    [] kind = "CPLD_CAPSULE" -> 4 * CSK_KEY_SIZE

\* Key ids run from the top bit of a byte to the bottom one.
KeyBit(byte, id) == 8 * byte + (7 - (id % 8))

\* The bits cancel_csk_key_id can reach with a key id of eight bits.
KeyBits == 0..(8 * (4 * CSK_KEY_SIZE + 31) + 7)

\* Mutant: the key ids run the other way in a byte when they are looked up.
LookedUpFromBottom(keys, kind, id) ==
  /\ id \div 8 <= CSK_KEY_SIZE - 1
  /\ 8 * (get_cancellation_policy_offset(kind) + id \div 8) + (id % 8) \notin keys

\* verify_csk_key_id: whether a key may still be used for contents of a kind.
verify_csk_key_id(keys, kind, id) ==
  /\ id \div 8 <= CSK_KEY_SIZE - 1
  /\ KeyBit(get_cancellation_policy_offset(kind) + id \div 8, id) \notin keys

\* Mutant: a cancellation writes the whole byte and loses the ones before it.
CancelOverwritesByte(keys, kind, id) ==
  LET byte == get_cancellation_policy_offset(kind) + id \div 8
  IN {b \in keys : b \div 8 # byte} \cup {KeyBit(byte, id)}

\* cancel_csk_key_id.
cancel_csk_key_id(keys, kind, id) ==
  keys \cup {KeyBit(get_cancellation_policy_offset(kind) + id \div 8, id)}

\* Both are called through pointers to functions of an eight bit key id, which
\* cuts the id down.
verify_kc_flag(keys, kind, id) == verify_csk_key_id(keys, kind, id % 256)
cancel_kc_flag(keys, kind, id) == cancel_csk_key_id(keys, kind, id % 256)
=============================================================================
