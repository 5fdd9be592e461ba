----------------------------- MODULE Provision ------------------------------
(***************************************************************************)
(* The provisioning of the UFM: the commands of process_provision_command  *)
(* in Smbus_mailbox.c, and the read-erase-write by which every change of   *)
(* the UFM sector is made, the security versions and cancelled keys of     *)
(* the update path included.                                               *)
(*                                                                         *)
(* All of it runs in the main thread.  Each access to the flash is a step, *)
(* so that a reset or a failure may come between any two.  Everything that *)
(* is stored lies in the first page of the sector: it is programmed at     *)
(* once or not at all.                                                     *)
(***************************************************************************)
EXTENDS Integers, FiniteSets

CONSTANTS Values,    \* contents a provisioning command may carry
          Keys,      \* key ids that may be cancelled
          MaxSvn,    \* bound: largest security version
          MaxCmd,    \* bound: commands and policy changes
          MaxReset,  \* bound: resets of the HRoT
          MaxFail,   \* bound: flash accesses that fail
          Faulty,    \* bound: the kinds of access that may fail
          Allowed    \* bound: the kinds of command that are sent

Blank == "blank"
Accesses == {"read", "erase", "write"}
CommandKinds == {"erase", "send", "lock", "read", "policy"}

ASSUME ProvisionAssumption ==
  /\ Blank \notin Values
  /\ MaxSvn \in Nat /\ MaxCmd \in Nat /\ MaxReset \in Nat /\ MaxFail \in Nat
  /\ Faulty \subseteq Accesses /\ Allowed \subseteq CommandKinds

Items == {"root", "pch", "bmc"}
Data == Values \cup {Blank}
Policies == [svn : 0..MaxSvn, cancelled : SUBSET Keys]
NoPolicy == [svn |-> 0, cancelled |-> {}]

\* The UFM_STATUS word: the provision flags, which are cleared bits, and bit 0,
\* which must be set for an item to be provisioned.
Words == [marked : SUBSET Items, open : BOOLEAN]

Sector == [data : [Items -> Data], word : Words, policy : Policies]

\* Mutant: the bits of an erased version word are taken for spent ones.
ErasedIsSpent == [data |-> [i \in Items |-> Blank], word |-> [marked |-> {}, open |-> TRUE],
                  policy |-> [svn |-> MaxSvn + 1, cancelled |-> {}]]

Erased == [data |-> [i \in Items |-> Blank], word |-> [marked |-> {}, open |-> TRUE],
           policy |-> NoPolicy]

\* Bits of the provision status register.
StatusBits == {"BUSY", "DONE", "ERROR", "LOCKED", "PROVISIONED"}

\* What set_provision_data_in_flash is called for.
Jobs == [kind : {"data", "flag", "lock", "policy"}, item : Items, policy : Policies]
NoJob == [kind |-> "data", item |-> "root", policy |-> NoPolicy]

VARIABLES
  sector,  \* the UFM sector (persistent)
  ram,     \* gRootKeyHash, gPchOffsets, gBmcOffsets
  status,  \* provision status register
  count,   \* gProvisionCount
  fresh,   \* gProvisionData
  pc,      \* where the main thread is
  job,     \* the change that is being made
  buf,     \* buffer: the sector as it was read
  word,    \* UfmStatus: the status word as it was read
  sent,    \* history: what was sent for each item since the last start
  left     \* what is left of the bounds

vars == <<sector, ram, status, count, fresh, pc, job, buf, word, sent, left>>

-----------------------------------------------------------------------------
(* Start                                                                   *)

\* Mutant: one provision flag is enough.
BootStatusAnyFlag(w) == IF w.marked # {} THEN {"PROVISIONED"} ELSE {"DONE"}

\* ResetMailBox and InitializeSmbusMailbox, the status word having been read
\* as w.
BootStatus(w) == IF w.marked = Items THEN {"PROVISIONED"} ELSE {"DONE"}

Init ==
  /\ sector \in {Erased} \cup {[data |-> d, word |-> [marked |-> Items, open |-> TRUE], policy |-> p]
                               : d \in [Items -> Values], p \in Policies}
  /\ ram = sector.data
  /\ status = BootStatus(sector.word)
  /\ count = 0 /\ fresh = FALSE
  /\ pc = "ready" /\ job = NoJob /\ buf = Erased /\ word = Erased.word
  /\ sent = [i \in Items |-> Blank]
  /\ left = [cmd |-> MaxCmd, reset |-> MaxReset, fail |-> MaxFail]

Use(cmds, resets, fails) ==
  /\ left.cmd >= cmds /\ left.reset >= resets /\ left.fail >= fails
  /\ left' = [cmd |-> left.cmd - cmds, reset |-> left.reset - resets,
              fail |-> left.fail - fails]

\* The status word read from flash; when the read fails the local variable is
\* not written.  fails is the number of failures this takes.
ReadWord(w, fails) ==
  \/ w = sector.word /\ fails = 0
  \/ w \in Words /\ fails = 1 /\ "read" \in Faulty

-----------------------------------------------------------------------------
(* Commands                                                                *)

Accepts(kind) == pc = "ready" /\ "LOCKED" \notin status /\ kind \in Allowed

\* The end of process_provision_command: the third item that was sent starts
\* the provisioning, whichever items they were.
Finish(st, n, f) ==
  /\ count' = n
  /\ IF n = 3 /\ f
     THEN /\ status' = {"BUSY"} /\ fresh' = FALSE
          /\ pc' = "check" /\ job' = [job EXCEPT !.item = "root"]
     ELSE status' = st /\ fresh' = f /\ pc' = "ready" /\ UNCHANGED job

\* PROVISION_ROOT_KEY, PROVISION_PCH_OFFSET and PROVISION_BMC_OFFSET.
Send(i, v) ==
  /\ Accepts("send") /\ Use(1, 0, 0)
  /\ ram' = [ram EXCEPT ![i] = v] /\ sent' = [sent EXCEPT ![i] = v]
  /\ Finish({"DONE"}, (count + 1) % 256, TRUE)
  /\ UNCHANGED <<sector, buf, word>>

\* ERASE_CURRENT.  An erase that fails may have erased.
EraseCurrent ==
  /\ Accepts("erase")
  /\ \/ /\ Use(1, 0, 0)
        /\ sector' = Erased /\ Finish({"DONE"}, 0, fresh)
     \/ /\ "erase" \in Faulty /\ Use(1, 0, 1)
        /\ sector' \in {sector, Erased} /\ Finish({"ERROR"}, count, fresh)
  /\ UNCHANGED <<ram, sent, buf, word>>

\* READ_ROOT_KEY and READ_PCH_OFFSET; READ_BMC_OFFSET reports UFM_PROVISIONED.
ReadBack(i) ==
  /\ Accepts("read") /\ Use(1, 0, 0)
  /\ Finish(IF i = "bmc" THEN {"DONE", "PROVISIONED"} ELSE {"DONE"}, count, fresh)
  /\ UNCHANGED <<sector, ram, sent, buf, word>>

\* LOCK_UFM up to the rewriting of the status word.
LockUfm ==
  /\ Accepts("lock")
  /\ \E w \in Words, fails \in 0..1 : ReadWord(w, fails) /\ Use(1, 0, fails) /\ word' = w
  /\ pc' = "read" /\ job' = [job EXCEPT !.kind = "lock"]
  /\ UNCHANGED <<sector, ram, sent, status, count, fresh, buf>>

\* set_ufm_svn after check_svn_number or rot_svn_policy_verify, and
\* cancel_csk_key_id: an update raises a version or cancels a key.  Only a
\* capsule that authenticates against the stored root key gets here.
SetPolicy(p) ==
  /\ pc = "ready" /\ "policy" \in Allowed
  /\ sector.data["root"] # Blank
  /\ \/ /\ Use(1, 0, 0)
        /\ \/ p.svn >= sector.policy.svn /\ p.cancelled = sector.policy.cancelled
           \/ /\ p.svn = sector.policy.svn
              /\ \E k \in Keys : p.cancelled = sector.policy.cancelled \cup {k}
     \/ "read" \in Faulty /\ Use(1, 0, 1)
  /\ pc' = "read" /\ job' = [job EXCEPT !.kind = "policy", !.policy = p]
  /\ UNCHANGED <<sector, ram, sent, status, count, fresh, buf, word>>

-----------------------------------------------------------------------------
(* ProvisionRootKeyHash, ProvisionPchOffsets, ProvisionBmcOffsets          *)

\* Mutant: the item's own provision flag is not looked at.
CheckBitZeroOnly ==
  /\ pc = "check"
  /\ \E w \in Words, fails \in 0..1 :
       /\ ReadWord(w, fails) /\ Use(0, 0, fails)
       /\ word' = w
       /\ IF w.open
          THEN pc' = "read" /\ job' = [job EXCEPT !.kind = "data"] /\ UNCHANGED status
          ELSE pc' = "ready" /\ status' = {"ERROR"} /\ UNCHANGED job
  /\ UNCHANGED <<sector, ram, sent, count, fresh, buf>>

\* An item is provisioned once, and only while bit 0 is set.
Check ==
  /\ pc = "check"
  /\ \E w \in Words, fails \in 0..1 :
       /\ ReadWord(w, fails) /\ Use(0, 0, fails)
       /\ word' = w
       /\ IF w.open /\ job.item \notin w.marked
          THEN pc' = "read" /\ job' = [job EXCEPT !.kind = "data"] /\ UNCHANGED status
          ELSE pc' = "ready" /\ status' = {"ERROR"} /\ UNCHANGED job
  /\ UNCHANGED <<sector, ram, sent, count, fresh, buf>>

\* Mutant: the end of the provisioning is not reported.
NextItemSilent(st) ==
  IF job.item = "bmc"
  THEN pc' = "ready" /\ status' = st /\ UNCHANGED job
  ELSE /\ pc' = "check" /\ status' = st
       /\ job' = [job EXCEPT !.item = IF @ = "root" THEN "pch" ELSE "bmc"]

\* On to the next item, or to the end, with the status register at st.
NextItem(st) ==
  IF job.item = "bmc"
  THEN pc' = "ready" /\ status' = {"DONE", "PROVISIONED"} /\ UNCHANGED job
  ELSE /\ pc' = "check" /\ status' = st
       /\ job' = [job EXCEPT !.item = IF @ = "root" THEN "pch" ELSE "bmc"]

\* What is done when set_provision_data_in_flash has returned: the result of
\* writing a flag is ignored, and only the root key makes a failed write the
\* failure of the command.
Return(ok) ==
  /\ UNCHANGED <<count, fresh>>
  /\ CASE job.kind = "data" /\ ok ->
            pc' = "read" /\ job' = [job EXCEPT !.kind = "flag"] /\ UNCHANGED status
       [] job.kind = "data" /\ ~ok /\ job.item = "root" ->
            pc' = "ready" /\ status' = {"ERROR"} /\ UNCHANGED job
       [] job.kind = "data" /\ ~ok /\ job.item # "root" ->
            pc' = "wipe" /\ UNCHANGED <<status, job>>
       [] job.kind = "flag" -> NextItem(status)
       [] job.kind = "lock" ->
            pc' = "ready" /\ status' = {"DONE", "LOCKED"} /\ UNCHANGED job
       [] job.kind = "policy" -> pc' = "ready" /\ UNCHANGED <<status, job>>

\* The erase after a failed write, whose caller goes on as after a success.
WipeItem ==
  /\ pc = "wipe"
  /\ \/ sector' = Erased /\ Use(0, 0, 0)
     \/ sector' \in {sector, Erased} /\ "erase" \in Faulty /\ Use(0, 0, 1)
  /\ NextItem({"ERROR"})
  /\ UNCHANGED <<ram, sent, count, fresh, buf, word>>

-----------------------------------------------------------------------------
(* set_provision_data_in_flash: read, erase, write, read again             *)

\* The last read decides the result when the first read or the erase failed.
LastRead(ok, fails) == (ok /\ fails = 0) \/ (~ok /\ fails = 1 /\ "read" \in Faulty)

ReadSector ==
  /\ pc = "read"
  /\ \/ /\ buf' = sector /\ Use(0, 0, 0)
        /\ pc' = "erase" /\ UNCHANGED <<status, count, fresh, job>>
     \/ /\ "read" \in Faulty
        /\ \E ok \in BOOLEAN, fails \in 0..1 :
             LastRead(ok, fails) /\ Use(0, 0, 1 + fails) /\ Return(ok)
        /\ UNCHANGED buf
  /\ UNCHANGED <<sector, ram, sent, word>>

EraseSector ==
  /\ pc = "erase"
  /\ \/ /\ sector' = Erased /\ Use(0, 0, 0)
        /\ pc' = "write" /\ UNCHANGED <<status, count, fresh, job>>
     \/ /\ "erase" \in Faulty
        /\ sector' \in {sector, Erased}
        /\ \E ok \in BOOLEAN, fails \in 0..1 :
             LastRead(ok, fails) /\ Use(0, 0, 1 + fails) /\ Return(ok)
  /\ UNCHANGED <<ram, sent, buf, word>>

\* Mutant: the offsets of the PCH are written for the BMC.
ChangedSwapped ==
  CASE job.kind = "data" ->
         [buf EXCEPT !.data[job.item] = ram[IF job.item = "bmc" THEN "pch" ELSE job.item]]
    [] job.kind = "flag" -> [buf EXCEPT !.word = [word EXCEPT !.marked = @ \cup {job.item}]]
    [] job.kind = "lock" -> [buf EXCEPT !.word = [word EXCEPT !.open = TRUE]]
    [] job.kind = "policy" -> [buf EXCEPT !.policy = job.policy]

\* The buffer with the change made in it.  Locking sets bit 0, which is set
\* already.
Changed ==
  CASE job.kind = "data" -> [buf EXCEPT !.data[job.item] = ram[job.item]]
    [] job.kind = "flag" -> [buf EXCEPT !.word = [word EXCEPT !.marked = @ \cup {job.item}]]
    [] job.kind = "lock" -> [buf EXCEPT !.word = [word EXCEPT !.open = TRUE]]
    [] job.kind = "policy" -> [buf EXCEPT !.policy = job.policy]

WriteSector ==
  /\ pc = "write"
  /\ \/ /\ sector' = Changed
        /\ \E ok \in BOOLEAN, fails \in 0..1 :
             LastRead(ok, fails) /\ Use(0, 0, fails) /\ Return(ok)
     \/ /\ "write" \in Faulty /\ Use(0, 0, 1)
        /\ sector' \in {sector, Changed}
        /\ Return(FALSE)
  /\ UNCHANGED <<ram, sent, buf, word>>

-----------------------------------------------------------------------------
(* A reset of the HRoT                                                     *)

\* The items in unread could not be read from the flash.
Reset ==
  /\ \E w \in Words, fails \in 0..1, unread \in SUBSET Items :
       /\ ReadWord(w, fails) /\ Use(0, 1, fails + Cardinality(unread))
       /\ status' = BootStatus(w)
       /\ unread = {} \/ "read" \in Faulty
       /\ ram' = [i \in Items |-> IF i \in unread THEN Blank ELSE sector.data[i]]
  /\ count' = 0 /\ fresh' = FALSE
  /\ pc' = "ready" /\ job' = NoJob /\ buf' = Erased /\ word' = Erased.word
  /\ sent' = [i \in Items |-> Blank]
  /\ UNCHANGED sector

-----------------------------------------------------------------------------
Command ==
  \/ \E i \in Items, v \in Values : Send(i, v)
  \/ EraseCurrent \/ LockUfm
  \/ \E i \in Items : ReadBack(i)
  \/ \E p \in Policies : SetPolicy(p)

Step == Check \/ WipeItem \/ ReadSector \/ EraseSector \/ WriteSector

Next == Command \/ Step \/ Reset

Spec == Init /\ [][Next]_vars

\* A command that has begun is carried through by the main thread.
FairSpec == Spec /\ WF_vars(Step)

-----------------------------------------------------------------------------
(* Properties                                                              *)

\* Every variable stays in its domain.
TypeOK ==
  /\ sector \in Sector /\ buf \in Sector /\ word \in Words
  /\ ram \in [Items -> Data] /\ sent \in [Items -> Data]
  /\ status \in SUBSET StatusBits
  /\ count \in 0..255 /\ fresh \in BOOLEAN
  /\ pc \in {"ready", "check", "wipe", "read", "erase", "write"}
  /\ job \in Jobs
  /\ left \in [cmd : Nat, reset : Nat, fail : Nat]

\* The UFM as its users see it: between erase and write its content is in the
\* buffer.
View == IF pc = "write" THEN buf ELSE sector

Store == INSTANCE UfmStore WITH data <- View.data, marked <- View.word.marked,
                                policy <- View.policy

\* As long as reads do not fail, every rewriting of the sector changes one thing
\* atomically or wipes all of it, wherever a reset falls: an item is written once,
\* versions do not fall, cancelled keys stay cancelled.
StoreSpec == Store!Spec

\* With sound flash, the register value that enables PFR at the next
\* PublishInitialEvents is backed by a sector with all its flags, across every
\* rewriting and every reset.
EnabledIsProvisioned == pc = "ready" /\ status = {"PROVISIONED"} => sector.word.marked = Items

\* With sound flash, a provisioning that is reported as done has marked every item,
\* and whatever was sent for an item since the last start is what the flash holds
\* for it, wherever resets cut earlier provisionings short.  (gProvisionCount does
\* not tell items apart: nothing is said of an item that no command sent.)
ProvisionedAsSent ==
  [][{"DONE", "PROVISIONED"} \subseteq status' /\ "BUSY" \in status =>
       /\ sector'.word.marked = Items
       /\ \A i \in Items : sent[i] # Blank => sector'.data[i] = sent[i]]_vars

\* A provisioning that is reported busy comes to an end, whichever accesses to
\* the flash fail.
BusyEnds == "BUSY" \in status ~> "BUSY" \notin status

\* Without an erase command the security version never falls.
NoRollback == [][left'.cmd = left.cmd => View'.policy.svn >= View.policy.svn]_vars
=============================================================================
