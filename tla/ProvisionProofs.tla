-------------------------- MODULE ProvisionProofs ---------------------------
(***************************************************************************)
(* Proofs about Provision for every set of values and keys and any number  *)
(* of commands, resets and failures: type correctness; the refinement of   *)
(* UfmStore when reads do not fail; and, for sound flash, that the enabled *)
(* state is backed by the flash and what is reported as done was done.     *)
(***************************************************************************)
EXTENDS Provision, FiniteSetTheorems, TLAPS

-----------------------------------------------------------------------------
(* Types                                                                   *)

\* Use only lowers what is left of the bounds.
LEMMA UseType ==
  ASSUME TypeOK, NEW a \in Nat, NEW b \in Nat, NEW c \in Nat, Use(a, b, c)
  PROVE  left' \in [cmd : Nat, reset : Nat, fail : Nat]
  BY DEF Use, TypeOK

\* The items that could not be read at a reset are finitely many.
LEMMA UnreadType ==
  ASSUME NEW unread \in SUBSET Items
  PROVE  Cardinality(unread) \in Nat
<1>1. IsFiniteSet({}) BY FS_EmptySet
<1>2. IsFiniteSet({} \cup {"root"}) BY <1>1, FS_AddElement
<1>3. IsFiniteSet(({} \cup {"root"}) \cup {"pch"}) BY <1>2, FS_AddElement
<1>4. IsFiniteSet((({} \cup {"root"}) \cup {"pch"}) \cup {"bmc"}) BY <1>3, FS_AddElement
<1>5. Items = (({} \cup {"root"}) \cup {"pch"}) \cup {"bmc"} BY DEF Items
<1>6. IsFiniteSet(unread) BY <1>4, <1>5, FS_Subset
<1> QED BY <1>6, FS_CardinalityType

\* The erased sector, the empty policy and the empty job are well formed.
LEMMA BlankTypes ==
  /\ Erased \in Sector /\ Erased.word \in Words /\ NoJob \in Jobs
  /\ Erased.word.marked = {}
<1>1. NoPolicy \in Policies
  BY ProvisionAssumption DEF NoPolicy, Policies
<1>2. Erased \in Sector /\ Erased.word \in Words /\ Erased.word.marked = {}
  BY <1>1 DEF Erased, Sector, Words, Data
<1>3. NoJob \in Jobs
  BY <1>1 DEF NoJob, Jobs, Items
<1> QED BY <1>2, <1>3

\* The initial sector is erased or holds a complete provisioning.
LEMMA InitType == Init => TypeOK
<1> SUFFICES ASSUME Init PROVE TypeOK
  OBVIOUS
<1>1. sector \in Sector
  <2>1. CASE sector = Erased
    BY <2>1, BlankTypes
  <2>2. ASSUME NEW d \in [Items -> Values], NEW p \in Policies,
               sector = [data |-> d, word |-> [marked |-> Items, open |-> TRUE], policy |-> p]
        PROVE  sector \in Sector
    <3>1. d \in [Items -> Data]
      BY DEF Data
    <3> QED BY <2>2, <3>1 DEF Sector, Words
  <2> QED BY <2>1, <2>2 DEF Init
<1>2. status \in SUBSET StatusBits
  BY DEF Init, BootStatus, StatusBits
<1>3. left \in [cmd : Nat, reset : Nat, fail : Nat]
  BY ProvisionAssumption DEF Init
<1>4. ram \in [Items -> Data] /\ sent \in [Items -> Data]
  BY <1>1 DEF Init, Sector, Data
<1>5. buf \in Sector /\ word \in Words /\ job \in Jobs
  BY BlankTypes DEF Init
<1>6. count = 0 /\ fresh \in BOOLEAN /\ pc = "ready"
  BY Zenon DEF Init
<1> QED BY <1>1, <1>2, <1>3, <1>4, <1>5, <1>6 DEF TypeOK

\* The end of process_provision_command.
LEMMA FinishType ==
  ASSUME TypeOK, NEW st \in SUBSET StatusBits, NEW n \in 0..255, NEW f \in BOOLEAN,
         Finish(st, n, f)
  PROVE  /\ status' \in SUBSET StatusBits /\ count' \in 0..255 /\ fresh' \in BOOLEAN
         /\ pc' \in {"ready", "check"} /\ job' \in Jobs
<1>1. job' \in Jobs
  BY DEF Finish, TypeOK, Jobs, Items
<1> QED BY <1>1 DEF Finish, StatusBits

\* What follows a rewriting of the sector.
LEMMA ReturnType ==
  ASSUME TypeOK, NEW ok \in BOOLEAN, Return(ok)
  PROVE  /\ status' \in SUBSET StatusBits /\ count' \in 0..255 /\ fresh' \in BOOLEAN
         /\ pc' \in {"ready", "check", "wipe", "read"} /\ job' \in Jobs
<1>1. job.kind \in {"data", "flag", "lock", "policy"} /\ job.item \in Items
  BY DEF TypeOK, Jobs
<1>2. CASE job.kind = "flag"
  <2>1. NextItem(status)
    BY <1>2 DEF Return
  <2>2. job' \in Jobs
    BY <2>1 DEF NextItem, TypeOK, Jobs, Items
  <2> QED BY <2>1, <2>2, <1>2 DEF Return, NextItem, TypeOK, StatusBits
<1>3. CASE job.kind # "flag"
  <2>1. job' \in Jobs
    BY <1>1, <1>3 DEF Return, TypeOK, Jobs
  <2> QED BY <2>1, <1>1, <1>3 DEF Return, TypeOK, StatusBits
<1> QED BY <1>2, <1>3

\* The changed buffer is a sector.
LEMMA ChangedType ==
  ASSUME TypeOK
  PROVE  Changed \in Sector
  BY DEF TypeOK, Changed, Sector, Words, Jobs

\* Every step keeps every variable in its domain.
LEMMA TypeStep == TypeOK /\ [Next]_vars => TypeOK'
<1> SUFFICES ASSUME TypeOK, [Next]_vars PROVE TypeOK'
  OBVIOUS
<1>1. ASSUME NEW i \in Items, NEW v \in Values, Send(i, v) PROVE TypeOK'
  <2>1. ram' \in [Items -> Data] /\ sent' \in [Items -> Data]
    BY <1>1 DEF Send, TypeOK, Data
  <2>2. (count + 1) % 256 \in 0..255 /\ {"DONE"} \in SUBSET StatusBits
    BY DEF TypeOK, StatusBits
  <2>3. Finish({"DONE"}, (count + 1) % 256, TRUE) /\ Use(1, 0, 0)
    BY <1>1 DEF Send
  <2>4. left' \in [cmd : Nat, reset : Nat, fail : Nat]
    BY <2>3, UseType
  <2>5. /\ status' \in SUBSET StatusBits /\ count' \in 0..255 /\ fresh' \in BOOLEAN
        /\ pc' \in {"ready", "check"} /\ job' \in Jobs
    BY <2>2, <2>3, FinishType
  <2> QED BY <1>1, <2>1, <2>4, <2>5 DEF Send, TypeOK
<1>2. CASE EraseCurrent
  <2>1. left' \in [cmd : Nat, reset : Nat, fail : Nat]
    BY <1>2, UseType DEF EraseCurrent
  <2>2. \E st \in SUBSET StatusBits, n \in 0..255, f \in BOOLEAN : Finish(st, n, f)
    <3>1. {"DONE"} \in SUBSET StatusBits /\ {"ERROR"} \in SUBSET StatusBits
      BY DEF StatusBits
    <3>2. count \in 0..255 /\ 0 \in 0..255 /\ fresh \in BOOLEAN
      BY DEF TypeOK
    <3>3. Finish({"DONE"}, 0, fresh) \/ Finish({"ERROR"}, count, fresh)
      BY <1>2 DEF EraseCurrent
    <3> QED BY <3>1, <3>2, <3>3, Zenon
  <2>3. /\ status' \in SUBSET StatusBits /\ count' \in 0..255 /\ fresh' \in BOOLEAN
        /\ pc' \in {"ready", "check"} /\ job' \in Jobs
    BY <2>2, FinishType
  <2>4. sector' \in Sector
    BY <1>2, BlankTypes DEF EraseCurrent, TypeOK
  <2> QED BY <1>2, <2>1, <2>3, <2>4 DEF EraseCurrent, TypeOK
<1>3. ASSUME NEW i \in Items, ReadBack(i) PROVE TypeOK'
  <2>1. left' \in [cmd : Nat, reset : Nat, fail : Nat]
    BY <1>3, UseType DEF ReadBack
  <2>2. \E st \in SUBSET StatusBits, n \in 0..255, f \in BOOLEAN : Finish(st, n, f)
    <3>1. (IF i = "bmc" THEN {"DONE", "PROVISIONED"} ELSE {"DONE"}) \in SUBSET StatusBits
      BY DEF StatusBits
    <3>2. count \in 0..255 /\ fresh \in BOOLEAN
      BY DEF TypeOK
    <3>3. Finish(IF i = "bmc" THEN {"DONE", "PROVISIONED"} ELSE {"DONE"}, count, fresh)
      BY <1>3 DEF ReadBack
    <3> QED BY <3>1, <3>2, <3>3, Zenon
  <2>3. /\ status' \in SUBSET StatusBits /\ count' \in 0..255 /\ fresh' \in BOOLEAN
        /\ pc' \in {"ready", "check"} /\ job' \in Jobs
    BY <2>2, FinishType
  <2> QED BY <1>3, <2>1, <2>3 DEF ReadBack, TypeOK
<1>4. CASE LockUfm
  <2>1. left' \in [cmd : Nat, reset : Nat, fail : Nat]
    BY <1>4, UseType DEF LockUfm
  <2>2. job' \in Jobs
    BY <1>4 DEF LockUfm, TypeOK, Jobs
  <2> QED BY <1>4, <2>1, <2>2 DEF LockUfm, TypeOK
<1>5. ASSUME NEW p \in Policies, SetPolicy(p) PROVE TypeOK'
  <2>1. left' \in [cmd : Nat, reset : Nat, fail : Nat]
    BY <1>5, UseType DEF SetPolicy
  <2>2. job' \in Jobs
    BY <1>5 DEF SetPolicy, TypeOK, Jobs
  <2> QED BY <1>5, <2>1, <2>2 DEF SetPolicy, TypeOK
<1>6. CASE Check
  <2>1. left' \in [cmd : Nat, reset : Nat, fail : Nat]
    BY <1>6, UseType DEF Check
  <2>2. job' \in Jobs
    BY <1>6 DEF Check, TypeOK, Jobs
  <2> QED BY <1>6, <2>1, <2>2 DEF Check, TypeOK, StatusBits
<1>7. CASE WipeItem
  <2>1. left' \in [cmd : Nat, reset : Nat, fail : Nat]
    BY <1>7, UseType DEF WipeItem
  <2>2. job' \in Jobs
    BY <1>7 DEF WipeItem, NextItem, TypeOK, Jobs, Items
  <2>3. sector' \in Sector
    BY <1>7, BlankTypes DEF WipeItem, TypeOK
  <2> QED BY <1>7, <2>1, <2>2, <2>3 DEF WipeItem, NextItem, TypeOK, StatusBits
<1>8. CASE ReadSector
  <2>1. CASE buf' = sector /\ Use(0, 0, 0) /\ pc' = "erase"
             /\ UNCHANGED <<status, count, fresh, job>>
    <3>1. left' \in [cmd : Nat, reset : Nat, fail : Nat]
      BY <2>1, UseType
    <3> QED BY <1>8, <2>1, <3>1 DEF ReadSector, TypeOK
  <2>2. ASSUME NEW ok \in BOOLEAN, NEW fails \in 0..1,
               Use(0, 0, 1 + fails), Return(ok), UNCHANGED buf
        PROVE  TypeOK'
    <3>1. left' \in [cmd : Nat, reset : Nat, fail : Nat]
      BY <2>2, UseType
    <3> QED BY <1>8, <2>2, <3>1, ReturnType DEF ReadSector, TypeOK
  <2> QED BY <1>8, <2>1, <2>2 DEF ReadSector
<1>9. CASE EraseSector
  <2>0. sector' \in Sector
    BY <1>9, BlankTypes DEF EraseSector, TypeOK
  <2>1. CASE Use(0, 0, 0) /\ pc' = "write" /\ UNCHANGED <<status, count, fresh, job>>
    <3>1. left' \in [cmd : Nat, reset : Nat, fail : Nat]
      BY <2>1, UseType
    <3> QED BY <1>9, <2>0, <2>1, <3>1 DEF EraseSector, TypeOK
  <2>2. ASSUME NEW ok \in BOOLEAN, NEW fails \in 0..1, Use(0, 0, 1 + fails), Return(ok)
        PROVE  TypeOK'
    <3>1. left' \in [cmd : Nat, reset : Nat, fail : Nat]
      BY <2>2, UseType
    <3> QED BY <1>9, <2>0, <2>2, <3>1, ReturnType DEF EraseSector, TypeOK
  <2> QED BY <1>9, <2>1, <2>2 DEF EraseSector
<1>10. CASE WriteSector
  <2>0. sector' \in Sector
    BY <1>10, ChangedType DEF WriteSector, TypeOK
  <2>1. PICK ok \in BOOLEAN, fails \in 0..1 : Use(0, 0, fails) /\ Return(ok)
    <3>1. 1 \in 0..1 /\ FALSE \in BOOLEAN
      OBVIOUS
    <3> QED BY <1>10, <3>1, Zenon DEF WriteSector
  <2>2. left' \in [cmd : Nat, reset : Nat, fail : Nat]
    BY <2>1, UseType
  <2> QED BY <1>10, <2>0, <2>1, <2>2, ReturnType DEF WriteSector, TypeOK
<1>11. CASE Reset
  <2>1. PICK w \in Words, fails \in 0..1, unread \in SUBSET Items :
          /\ Use(0, 1, fails + Cardinality(unread))
          /\ status' = BootStatus(w)
          /\ ram' = [i \in Items |-> IF i \in unread THEN Blank ELSE sector.data[i]]
    BY <1>11 DEF Reset
  <2>2. fails + Cardinality(unread) \in Nat
    BY UnreadType
  <2>3. left' \in [cmd : Nat, reset : Nat, fail : Nat]
    BY <2>1, <2>2, UseType
  <2>4. ram' \in [Items -> Data] /\ sent' \in [Items -> Data]
    BY <1>11, <2>1 DEF Reset, TypeOK, Sector, Data
  <2>5. status' \in SUBSET StatusBits
    BY <2>1 DEF BootStatus, StatusBits
  <2>6. sector' \in Sector /\ buf' \in Sector /\ word' \in Words /\ job' \in Jobs
    BY <1>11, BlankTypes DEF Reset, TypeOK
  <2>7. count' = 0 /\ fresh' \in BOOLEAN /\ pc' = "ready"
    BY <1>11, Zenon DEF Reset
  <2> QED BY <2>3, <2>4, <2>5, <2>6, <2>7 DEF TypeOK
<1>12. CASE UNCHANGED vars
  BY <1>12 DEF vars, TypeOK
<1> QED
  BY <1>1, <1>2, <1>3, <1>4, <1>5, <1>6, <1>7, <1>8, <1>9, <1>10, <1>11, <1>12
     DEF Next, Command, Step

\* Every reachable state of the provisioning is well typed, for every value of
\* the bounds.
THEOREM ProvisionTypeCorrect == Spec => []TypeOK
  BY InitType, TypeStep, PTL DEF Spec

-----------------------------------------------------------------------------
(* The refinement of UfmStore                                              *)

\* While the sector is rewritten: the buffer is the sector that was read; the
\* status word that will be written has every mark of the sector; an item that
\* is written is not marked; a policy that is written does not fall behind.
Rewriting ==
  /\ pc = "erase" => buf = sector
  /\ pc = "write" => sector = Erased
  /\ pc \in {"read", "erase", "write"} =>
       /\ job.kind # "policy" => View.word.marked \subseteq word.marked
       /\ job.kind = "data" => job.item \notin View.word.marked
       /\ job.kind = "policy" => /\ job.policy.svn >= View.policy.svn
                                /\ View.policy.cancelled \subseteq job.policy.cancelled

\* A step of the store, or none.
StoreStep == Store!Next \/ UNCHANGED Store!vars

\* Wiping is a step of the store.
LEMMA WipeStep ==
  ASSUME View' = Erased
  PROVE  StoreStep
  BY DEF StoreStep, Store!Next, Store!Wipe, Erased

\* A view that stays the same is no step of the store.
LEMMA SameStep ==
  ASSUME View' = View
  PROVE  StoreStep
  BY DEF StoreStep, Store!vars

\* Writing the changed buffer is one step of the store.
LEMMA ChangedStep ==
  ASSUME TypeOK, Rewriting, pc = "write", View' = Changed
  PROVE  StoreStep
<1>0. View = buf /\ job.kind \in {"data", "flag", "lock", "policy"}
  BY DEF View, TypeOK, Jobs
<1>1. CASE job.kind = "data"
  <2>1. View' = [buf EXCEPT !.data[job.item] = ram[job.item]]
    BY <1>1 DEF Changed
  <2>2. job.item \in Items /\ ram[job.item] \in Data /\ job.item \notin View.word.marked
    BY <1>1 DEF TypeOK, Jobs, Rewriting
  <2>3. Store!Store(job.item, ram[job.item])
    BY <1>0, <2>1, <2>2 DEF Store!Store, TypeOK, Sector
  <2> QED BY <2>2, <2>3 DEF StoreStep, Store!Next
<1>2. CASE job.kind \in {"flag", "lock"}
  <2>1. PICK w \in Words : /\ View' = [buf EXCEPT !.word = w]
                           /\ word.marked \subseteq w.marked
    <3>1. CASE job.kind = "flag"
      <4>1. [word EXCEPT !.marked = @ \cup {job.item}] \in Words
        BY DEF TypeOK, Words, Jobs
      <4>2. word.marked \subseteq [word EXCEPT !.marked = @ \cup {job.item}].marked
        BY DEF TypeOK, Words
      <4> QED BY <3>1, <4>1, <4>2 DEF Changed
    <3>2. CASE job.kind = "lock"
      <4>1. [word EXCEPT !.open = TRUE] \in Words
        BY DEF TypeOK, Words
      <4>2. word.marked \subseteq [word EXCEPT !.open = TRUE].marked
        BY DEF TypeOK, Words
      <4> QED BY <3>2, <4>1, <4>2 DEF Changed
    <3> QED BY <1>2, <3>1, <3>2
  <2>2. View.word.marked \subseteq word.marked
    BY <1>2 DEF Rewriting
  <2>3. Store!Mark(w.marked) /\ w.marked \in SUBSET Items
    BY <1>0, <2>1, <2>2 DEF Store!Mark, TypeOK, Sector, Words
  <2> QED BY <2>3 DEF StoreStep, Store!Next
<1>3. CASE job.kind = "policy"
  <2>1. View' = [buf EXCEPT !.policy = job.policy]
    BY <1>3 DEF Changed
  <2>2. /\ job.policy.svn >= View.policy.svn
        /\ View.policy.cancelled \subseteq job.policy.cancelled
    BY <1>3 DEF Rewriting
  <2>3. Store!Raise(job.policy) /\ job.policy \in Policies
    BY <1>0, <2>1, <2>2 DEF Store!Raise, TypeOK, Sector, Jobs
  <2> QED BY <2>3 DEF StoreStep, Store!Next
<1> QED BY <1>0, <1>1, <1>2, <1>3

\* What follows a rewriting whose sector lost marks, or has those of the new
\* status word, keeps the invariant.
LEMMA ReturnRewriting ==
  ASSUME TypeOK, NEW ok \in BOOLEAN, Return(ok), UNCHANGED word,
         job.kind = "data" => sector'.word.marked \subseteq word.marked
  PROVE  Rewriting' /\ View' = sector'
<1>1. pc' \notin {"erase", "write"}
  BY ReturnType
<1>2. View' = sector'
  BY <1>1 DEF View
<1>3. pc' = "read" => job.kind = "data" /\ job'.kind = "flag"
  BY DEF Return, NextItem, TypeOK, Jobs
<1> QED BY <1>1, <1>2, <1>3 DEF Rewriting

\* When reads do not fail, every step keeps Rewriting and is a step of the
\* store or none.
LEMMA StoreNext ==
  ASSUME "read" \notin Faulty, TypeOK, TypeOK', Rewriting, [Next]_vars
  PROVE  Rewriting' /\ StoreStep
<1>0. \A w \in Words, fails \in 0..1 : ReadWord(w, fails) => w = sector.word
  BY DEF ReadWord
<1>1. ASSUME NEW i \in Items, NEW v \in Values, Send(i, v) PROVE Rewriting' /\ StoreStep
  <2>1. pc = "ready" /\ pc' \in {"ready", "check"} /\ sector' = sector
    BY <1>1 DEF Send, Accepts, Finish
  <2>2. View' = View
    BY <2>1 DEF View
  <2> QED BY <2>1, <2>2, SameStep DEF Rewriting
<1>2. CASE EraseCurrent
  <2>1. pc = "ready" /\ pc' \in {"ready", "check"} /\ sector' \in {sector, Erased}
    BY <1>2 DEF EraseCurrent, Accepts, Finish
  <2>2. View' = View \/ View' = Erased
    BY <2>1 DEF View
  <2> QED BY <2>1, <2>2, SameStep, WipeStep DEF Rewriting
<1>3. ASSUME NEW i \in Items, ReadBack(i) PROVE Rewriting' /\ StoreStep
  <2>1. pc = "ready" /\ pc' \in {"ready", "check"} /\ sector' = sector
    BY <1>3 DEF ReadBack, Accepts, Finish
  <2>2. View' = View
    BY <2>1 DEF View
  <2> QED BY <2>1, <2>2, SameStep DEF Rewriting
<1>4. CASE LockUfm
  <2>1. /\ pc = "ready" /\ pc' = "read" /\ sector' = sector /\ word' = sector.word
        /\ job' = [job EXCEPT !.kind = "lock"]
    BY <1>0, <1>4 DEF LockUfm, Accepts
  <2>2. View' = View /\ View' = sector'
    BY <2>1 DEF View
  <2>3. job'.kind = "lock"
    BY <2>1 DEF TypeOK, Jobs
  <2> QED BY <2>1, <2>2, <2>3, SameStep DEF Rewriting
<1>5. ASSUME NEW p \in Policies, SetPolicy(p) PROVE Rewriting' /\ StoreStep
  <2>1. /\ pc = "ready" /\ pc' = "read" /\ sector' = sector
        /\ job' = [job EXCEPT !.kind = "policy", !.policy = p]
        /\ p.svn >= sector.policy.svn /\ sector.policy.cancelled \subseteq p.cancelled
    BY <1>5 DEF SetPolicy, TypeOK, Sector, Policies
  <2>2. View' = View /\ View' = sector'
    BY <2>1 DEF View
  <2>3. job'.kind = "policy" /\ job'.policy = p
    BY <2>1 DEF TypeOK, Jobs
  <2> QED BY <2>1, <2>2, <2>3, SameStep DEF Rewriting
<1>6. CASE Check
  <2>1. pc = "check" /\ pc' \in {"read", "ready"} /\ sector' = sector /\ word' = sector.word
    BY <1>0, <1>6 DEF Check
  <2>2. pc' = "read" => job' = [job EXCEPT !.kind = "data"] /\ job.item \notin sector.word.marked
    BY <1>0, <1>6 DEF Check
  <2>3. View' = View /\ View' = sector'
    BY <2>1 DEF View
  <2>4. pc' = "read" => job'.kind = "data" /\ job'.item = job.item
    BY <2>2 DEF TypeOK, Jobs
  <2> QED BY <2>1, <2>2, <2>3, <2>4, SameStep DEF Rewriting
<1>7. CASE WipeItem
  <2>1. pc = "wipe" /\ pc' \in {"ready", "check"} /\ sector' \in {sector, Erased}
    BY <1>7 DEF WipeItem, NextItem
  <2>2. View' = View \/ View' = Erased
    BY <2>1 DEF View
  <2> QED BY <2>1, <2>2, SameStep, WipeStep DEF Rewriting
<1>8. CASE ReadSector
  <2>1. /\ pc = "read" /\ pc' = "erase" /\ buf' = sector /\ sector' = sector
        /\ UNCHANGED <<job, word>>
    BY <1>8 DEF ReadSector
  <2>2. View' = View
    BY <2>1 DEF View
  <2> QED BY <2>1, <2>2, SameStep DEF Rewriting
<1>9. CASE EraseSector
  <2>1. CASE sector' = Erased /\ pc' = "write" /\ UNCHANGED <<status, count, fresh, job>>
    <3>1. pc = "erase" /\ UNCHANGED <<buf, word>>
      BY <1>9 DEF EraseSector
    <3>2. View' = View
      BY <2>1, <3>1 DEF View, Rewriting
    <3> QED BY <2>1, <3>1, <3>2, SameStep DEF Rewriting
  <2>2. ASSUME NEW ok \in BOOLEAN, Return(ok), sector' \in {sector, Erased}
        PROVE  Rewriting' /\ StoreStep
    <3>1. pc = "erase" /\ UNCHANGED word
      BY <1>9 DEF EraseSector
    <3>2. job.kind = "data" => sector'.word.marked \subseteq word.marked
      BY <2>2, <3>1, BlankTypes DEF Rewriting, View
    <3>3. Rewriting' /\ View' = sector'
      BY <2>2, <3>1, <3>2, ReturnRewriting
    <3>4. View' = View \/ View' = Erased
      BY <2>2, <3>1, <3>3 DEF View
    <3> QED BY <3>3, <3>4, SameStep, WipeStep
  <2> QED BY <1>9, <2>1, <2>2 DEF EraseSector
<1>10. CASE WriteSector
  <2>1. pc = "write" /\ UNCHANGED word /\ sector' \in {Erased, Changed}
    BY <1>10 DEF WriteSector, Rewriting
  <2>2. \E ok \in BOOLEAN : Return(ok)
    BY <1>10, Zenon DEF WriteSector
  <2>3. job.kind = "data" => Changed.word = buf.word
    BY DEF Changed, TypeOK, Sector
  <2>4. job.kind = "data" => sector'.word.marked \subseteq word.marked
    BY <2>1, <2>3, BlankTypes DEF Rewriting, View
  <2>5. Rewriting' /\ View' = sector'
    BY <2>1, <2>2, <2>4, ReturnRewriting
  <2> QED BY <2>1, <2>5, WipeStep, ChangedStep
<1>11. CASE Reset
  <2>1. pc' = "ready" /\ sector' = sector
    BY <1>11 DEF Reset
  <2>2. View' = View \/ View' = Erased
    BY <2>1 DEF View, Rewriting
  <2> QED BY <2>1, <2>2, SameStep, WipeStep DEF Rewriting
<1>12. CASE UNCHANGED vars
  <2>1. View' = View
    BY <1>12 DEF vars, View
  <2> QED BY <1>12, <2>1, SameStep DEF vars, Rewriting
<1> QED
  BY <1>1, <1>2, <1>3, <1>4, <1>5, <1>6, <1>7, <1>8, <1>9, <1>10, <1>11, <1>12
     DEF Next, Command, Step

\* The sector the program starts with is one the store starts with.
LEMMA StoreInit == Init => Rewriting /\ Store!Init
<1> SUFFICES ASSUME Init PROVE Rewriting /\ Store!Init
  OBVIOUS
<1>1. pc = "ready" /\ View = sector
  BY DEF Init, View
<1>2. CASE sector = Erased
  BY <1>1, <1>2 DEF Rewriting, Store!Init, Store!Wiped, Erased
<1>3. ASSUME NEW d \in [Items -> Values], NEW p \in Policies,
             sector = [data |-> d, word |-> [marked |-> Items, open |-> TRUE], policy |-> p]
      PROVE  Rewriting /\ Store!Init
  <2>1. d \in [Items -> Data]
    BY DEF Data
  <2> QED BY <1>1, <1>3, <2>1 DEF Rewriting, Store!Init
<1> QED BY <1>2, <1>3 DEF Init

\* When reads do not fail, the read-erase-write of the UFM sector implements
\* UfmStore, whatever erase or write fails and wherever a reset falls.
THEOREM ImplementsStore == "read" \notin Faulty => (Spec => StoreSpec)
<1> SUFFICES ASSUME "read" \notin Faulty PROVE Spec => StoreSpec
  OBVIOUS
<1>1. TypeOK /\ TypeOK' /\ Rewriting /\ [Next]_vars => Rewriting' /\ [Store!Next]_(Store!vars)
  BY StoreNext DEF StoreStep
<1> QED BY <1>1, StoreInit, ProvisionTypeCorrect, PTL DEF Spec, StoreSpec, Store!Spec

-----------------------------------------------------------------------------
(* Sound flash                                                             *)

\* The items that are provisioned before item i.
Earlier(i) == IF i = "root" THEN {} ELSE IF i = "pch" THEN {"root"} ELSE {"root", "pch"}

\* The main thread is in ProvisionRootKeyHash, ProvisionPchOffsets or
\* ProvisionBmcOffsets.
Provisioning ==
  pc = "check" \/ (pc \in {"read", "erase", "write"} /\ job.kind \in {"data", "flag"})

\* When nothing fails: an item is never wiped, what is marked is what was read, an
\* item whose flag is being written and the items before it are stored as RAM has
\* them, and RAM has what was sent.
Sound ==
  /\ pc # "wipe"
  /\ status = {"PROVISIONED"} => View.word.marked = Items
  /\ pc \in {"read", "erase", "write"} =>
       /\ job.kind # "policy" => word = View.word
       /\ job.kind = "flag" => View.data[job.item] = ram[job.item]
  /\ "BUSY" \in status => status = {"BUSY"} /\ Provisioning
  /\ Provisioning => \A i \in Earlier(job.item) :
                       i \in View.word.marked /\ View.data[i] = ram[i]
  /\ \A i \in Items : sent[i] # Blank => ram[i] = sent[i]

\* A step of ProvisionedAsSent.
SentStep ==
  {"DONE", "PROVISIONED"} \subseteq status' /\ "BUSY" \in status =>
    /\ sector'.word.marked = Items
    /\ \A i \in Items : sent[i] # Blank => sector'.data[i] = sent[i]

\* When nothing fails, every step keeps Sound, and one that reports the end of a
\* provisioning has made it as it was asked for.
LEMMA SoundNext ==
  ASSUME Faulty = {}, TypeOK, TypeOK', Rewriting, Sound, [Next]_vars
  PROVE  Sound' /\ SentStep
<1>0. \A w \in Words, fails \in 0..1 : ReadWord(w, fails) => w = sector.word
  BY DEF ReadWord
<1>a. Items = {"root", "pch", "bmc"} /\ Earlier("root") = {}
  BY DEF Items, Earlier
<1>1. ASSUME pc = "ready", pc' \in {"ready", "check"}, sector' \in {sector, Erased},
             status' # {"PROVISIONED"}, "BUSY" \in status' => pc' = "check" /\ status' = {"BUSY"},
             pc' = "check" => job'.item = "root",
             \A i \in Items : sent'[i] # Blank => ram'[i] = sent'[i]
      PROVE  Sound' /\ SentStep
  <2>1. "BUSY" \notin status
    BY <1>1 DEF Sound, Provisioning
  <2>2. SentStep
    BY <2>1 DEF SentStep
  <2>3. "BUSY" \in status' => status' = {"BUSY"} /\ Provisioning'
    BY <1>1 DEF Provisioning
  <2>4. Provisioning' => Earlier(job'.item) = {}
    BY <1>1, <1>a DEF Provisioning
  <2> QED BY <1>1, <2>2, <2>3, <2>4 DEF Sound
<1>2. ASSUME NEW i \in Items, NEW v \in Values, Send(i, v) PROVE Sound' /\ SentStep
  <2>1. /\ pc = "ready" /\ pc' \in {"ready", "check"} /\ sector' = sector
        /\ status' # {"PROVISIONED"} /\ ("BUSY" \in status' => pc' = "check" /\ status' = {"BUSY"})
    BY <1>2 DEF Send, Accepts, Finish
  <2>2. pc' = "check" => job'.item = "root"
    BY <1>2 DEF Send, Finish, TypeOK, Jobs
  <2>3. \A j \in Items : sent'[j] # Blank => ram'[j] = sent'[j]
    BY <1>2 DEF Send, TypeOK, Sound
  <2> QED BY <1>1, <2>1, <2>2, <2>3
<1>3. CASE EraseCurrent
  <2>1. /\ pc = "ready" /\ pc' \in {"ready", "check"} /\ sector' = Erased
        /\ status' # {"PROVISIONED"} /\ ("BUSY" \in status' => pc' = "check" /\ status' = {"BUSY"})
        /\ UNCHANGED <<ram, sent>>
    BY <1>3 DEF EraseCurrent, Accepts, Finish
  <2>2. pc' = "check" => job'.item = "root"
    BY <1>3 DEF EraseCurrent, Finish, TypeOK, Jobs
  <2> QED BY <1>1, <2>1, <2>2 DEF Sound
<1>4. ASSUME NEW i \in Items, ReadBack(i) PROVE Sound' /\ SentStep
  <2>1. /\ pc = "ready" /\ pc' \in {"ready", "check"} /\ sector' = sector
        /\ status' # {"PROVISIONED"} /\ ("BUSY" \in status' => pc' = "check" /\ status' = {"BUSY"})
        /\ UNCHANGED <<ram, sent>>
    BY <1>4 DEF ReadBack, Accepts, Finish
  <2>2. pc' = "check" => job'.item = "root"
    BY <1>4 DEF ReadBack, Finish, TypeOK, Jobs
  <2> QED BY <1>1, <2>1, <2>2 DEF Sound
<1>5. CASE LockUfm
  <2>1. /\ pc = "ready" /\ pc' = "read" /\ sector' = sector /\ word' = sector.word
        /\ job' = [job EXCEPT !.kind = "lock"] /\ UNCHANGED <<status, ram, sent>>
    BY <1>0, <1>5 DEF LockUfm, Accepts
  <2>2. job'.kind = "lock" /\ View' = View /\ View = sector
    BY <2>1 DEF TypeOK, Jobs, View
  <2>3. "BUSY" \notin status
    BY <2>1 DEF Sound, Provisioning
  <2> QED BY <2>1, <2>2, <2>3 DEF Sound, SentStep, Provisioning
<1>6. ASSUME NEW p \in Policies, SetPolicy(p) PROVE Sound' /\ SentStep
  <2>1. /\ pc = "ready" /\ pc' = "read" /\ sector' = sector
        /\ job' = [job EXCEPT !.kind = "policy", !.policy = p] /\ UNCHANGED <<status, ram, sent>>
    BY <1>6 DEF SetPolicy
  <2>2. job'.kind = "policy" /\ View' = View
    BY <2>1 DEF TypeOK, Jobs, View
  <2>3. "BUSY" \notin status
    BY <2>1 DEF Sound, Provisioning
  <2> QED BY <2>1, <2>2, <2>3 DEF Sound, SentStep, Provisioning
<1>7. CASE Check
  <2>1. /\ pc = "check" /\ pc' \in {"read", "ready"} /\ sector' = sector
        /\ word' = sector.word /\ UNCHANGED <<ram, sent>>
        /\ (pc' = "read" /\ status' = status) \/ (pc' = "ready" /\ status' = {"ERROR"})
    BY <1>0, <1>7 DEF Check
  <2>2. pc' = "read" => job' = [job EXCEPT !.kind = "data"]
    BY <1>7 DEF Check
  <2>3. View' = View /\ View = sector
        /\ (pc' = "read" => job'.kind = "data" /\ job'.item = job.item)
    BY <2>1, <2>2 DEF View, TypeOK, Jobs
  <2>4. SentStep
    BY <2>1, <1>7 DEF SentStep, Sound, Provisioning, Check
  <2> QED BY <2>1, <2>3, <2>4 DEF Sound, Provisioning
<1>8. CASE WipeItem
  BY <1>8 DEF WipeItem, Sound
<1>9. CASE ReadSector
  <2>1. /\ pc = "read" /\ pc' = "erase" /\ buf' = sector /\ sector' = sector
        /\ UNCHANGED <<job, word, ram, sent, status>>
    BY <1>9 DEF ReadSector
  <2>2. View' = View
    BY <2>1 DEF View
  <2> QED BY <2>1, <2>2 DEF Sound, SentStep, Provisioning
<1>10. CASE EraseSector
  <2>1. /\ pc = "erase" /\ pc' = "write" /\ sector' = Erased
        /\ UNCHANGED <<buf, job, word, ram, sent, status>>
    BY <1>10 DEF EraseSector
  <2>2. View' = View
    BY <2>1 DEF View, Rewriting
  <2> QED BY <2>1, <2>2 DEF Sound, SentStep, Provisioning
<1>11. CASE WriteSector
  <2>1. pc = "write" /\ sector' = Changed /\ Return(TRUE) /\ UNCHANGED <<ram, sent, buf, word>>
    BY <1>11 DEF WriteSector, LastRead
  <2>2. View = buf /\ View' = sector' /\ pc' \notin {"erase", "write"}
    BY <2>1, ReturnType DEF View
  <2>3. job.kind \in {"data", "flag", "lock", "policy"} /\ job.item \in Items
    BY DEF TypeOK, Jobs
  <2>4. CASE job.kind = "data"
    <3>1. /\ View'.word = View.word /\ View'.data[job.item] = ram[job.item]
          /\ \A i \in Items : i # job.item => View'.data[i] = View.data[i]
      BY <2>1, <2>2, <2>3, <2>4 DEF Changed, TypeOK, Sector
    <3>2. pc' = "read" /\ job' = [job EXCEPT !.kind = "flag"] /\ UNCHANGED status
      BY <2>1, <2>4 DEF Return
    <3>3. job'.item = job.item /\ job'.kind = "flag"
      BY <3>2 DEF TypeOK, Jobs
    <3>4. SentStep
      BY <3>2 DEF SentStep, Sound
    <3>5. \A i \in Earlier(job.item) : i \in Items /\ i # job.item
      BY <2>3, <1>a DEF Earlier
    <3>6. \A i \in Earlier(job.item) : i \in View.word.marked /\ View.data[i] = ram[i]
      BY <2>1, <2>4 DEF Sound, Provisioning
    <3>7. Provisioning'
      BY <3>2, <3>3 DEF Provisioning
    <3> QED BY <2>1, <2>2, <2>4, <3>1, <3>2, <3>3, <3>4, <3>5, <3>6, <3>7 DEF Sound
  <2>5. CASE job.kind = "flag"
    <3>1. View'.word.marked = View.word.marked \cup {job.item} /\ View'.data = View.data
      BY <2>1, <2>2, <2>5 DEF Changed, TypeOK, Sector, Words, Sound
    <3>2. View.data[job.item] = ram[job.item]
      BY <2>1, <2>5 DEF Sound
    <3>3. \A i \in Earlier(job.item) : i \in View.word.marked /\ View.data[i] = ram[i]
      BY <2>1, <2>5 DEF Sound, Provisioning
    <3>4. \A i \in Earlier(job.item) \cup {job.item} :
             i \in View'.word.marked /\ View'.data[i] = ram'[i]
      BY <2>1, <3>1, <3>2, <3>3
    <3>5. CASE job.item = "bmc"
      <4>1. pc' = "ready" /\ status' = {"DONE", "PROVISIONED"}
        BY <2>1, <2>5, <3>5 DEF Return, NextItem
      <4>2. Earlier(job.item) \cup {job.item} = Items
        BY <3>5, <1>a DEF Earlier
      <4>3. View'.word.marked \subseteq Items
        BY <2>2 DEF TypeOK, Sector, Words
      <4>4. View'.word.marked = Items /\ \A i \in Items : View'.data[i] = ram[i]
        BY <2>1, <3>4, <4>2, <4>3
      <4>5. SentStep
        BY <2>2, <4>4 DEF SentStep, Sound
      <4> QED BY <2>1, <4>1, <4>5 DEF Sound, Provisioning
    <3>6. CASE job.item # "bmc"
      <4>1. /\ pc' = "check" /\ status' = status
            /\ job' = [job EXCEPT !.item = IF @ = "root" THEN "pch" ELSE "bmc"]
        BY <2>1, <2>5, <3>6 DEF Return, NextItem
      <4>2. Earlier(job'.item) = Earlier(job.item) \cup {job.item}
        BY <2>3, <3>6, <4>1, <1>a DEF Earlier, TypeOK, Jobs
      <4>3. SentStep
        BY <4>1 DEF SentStep, Sound
      <4>4. status = {"PROVISIONED"} => View'.word.marked = Items
        BY <2>3, <3>1 DEF Sound
      <4> QED BY <2>1, <3>4, <4>1, <4>2, <4>3, <4>4 DEF Sound, Provisioning
    <3> QED BY <3>5, <3>6
  <2>6. CASE job.kind = "lock"
    <3>1. View'.word.marked = View.word.marked
      BY <2>1, <2>2, <2>6 DEF Changed, TypeOK, Sector, Words, Sound
    <3>2. pc' = "ready" /\ status' = {"DONE", "LOCKED"}
      BY <2>1, <2>6 DEF Return
    <3> QED BY <2>1, <3>1, <3>2 DEF Sound, SentStep, Provisioning
  <2>7. CASE job.kind = "policy"
    <3>1. View'.word = View.word
      BY <2>1, <2>2, <2>7 DEF Changed, TypeOK, Sector
    <3>2. pc' = "ready" /\ UNCHANGED status
      BY <2>1, <2>7 DEF Return
    <3>3. "BUSY" \notin status
      BY <2>1, <2>7 DEF Sound, Provisioning
    <3> QED BY <2>1, <3>1, <3>2, <3>3 DEF Sound, SentStep, Provisioning
  <2> QED BY <2>3, <2>4, <2>5, <2>6, <2>7
<1>12. CASE Reset
  <2>1. pc' = "ready" /\ sector' = sector /\ status' = BootStatus(sector.word)
    BY <1>0, <1>12 DEF Reset
  <2>2. View' = sector
    BY <2>1 DEF View
  <2>3. \A i \in Items : sent'[i] = Blank
    BY <1>12 DEF Reset
  <2> QED BY <2>1, <2>2, <2>3 DEF Sound, SentStep, BootStatus, Provisioning
<1>13. CASE UNCHANGED vars
  <2>1. View' = View
    BY <1>13 DEF vars, View
  <2> QED BY <1>13, <2>1 DEF vars, Sound, SentStep, Provisioning
<1> QED
  BY <1>2, <1>3, <1>4, <1>5, <1>6, <1>7, <1>8, <1>9, <1>10, <1>11, <1>12, <1>13
     DEF Next, Command, Step

\* The program starts in a sound state.
LEMMA SoundInit == Init => Sound
<1> SUFFICES ASSUME Init PROVE Sound
  OBVIOUS
<1>1. pc = "ready" /\ View = sector /\ status = BootStatus(sector.word)
  BY DEF Init, View
<1>2. \A i \in Items : sent[i] = Blank
  BY DEF Init
<1> QED BY <1>1, <1>2 DEF Sound, BootStatus, Provisioning

\* With sound flash the inductive invariant holds in every reachable state.
LEMMA SoundAlways ==
  ASSUME Faulty = {}
  PROVE  Spec => [](TypeOK /\ Rewriting /\ Sound)
<1>1. "read" \notin Faulty
  OBVIOUS
<1>2. TypeOK /\ Rewriting /\ Sound /\ [Next]_vars => (TypeOK /\ Rewriting /\ Sound)'
  BY <1>1, TypeStep, StoreNext, SoundNext
<1>3. Init => TypeOK /\ Rewriting /\ Sound
  BY InitType, StoreInit, SoundInit
<1> QED BY <1>2, <1>3, PTL DEF Spec

\* With sound flash, the register value that enables PFR at a start is backed by
\* a sector with all its provision flags.
THEOREM EnabledIsBacked == Faulty = {} => (Spec => []EnabledIsProvisioned)
<1> SUFFICES ASSUME Faulty = {} PROVE Spec => []EnabledIsProvisioned
  OBVIOUS
<1>1. Sound => EnabledIsProvisioned
  BY DEF Sound, EnabledIsProvisioned, View
<1> QED BY <1>1, SoundAlways, PTL

\* With sound flash, a provisioning that is reported as done has marked every item
\* and stored what was sent for it, for any number of commands and resets.
THEOREM ProvisionsWhatWasSent == Faulty = {} => (Spec => ProvisionedAsSent)
<1> SUFFICES ASSUME Faulty = {} PROVE Spec => ProvisionedAsSent
  OBVIOUS
<1>1. TypeOK /\ TypeOK' /\ Rewriting /\ Sound /\ [Next]_vars =>
        [{"DONE", "PROVISIONED"} \subseteq status' /\ "BUSY" \in status =>
           /\ sector'.word.marked = Items
           /\ \A i \in Items : sent[i] # Blank => sector'.data[i] = sent[i]]_vars
  BY SoundNext DEF SentStep
<1> QED BY <1>1, SoundAlways, PTL DEF Spec, ProvisionedAsSent
=============================================================================
