-------------------------------- MODULE Hrot --------------------------------
(***************************************************************************)
(* The HRoT state machine of Tektagon OE: the run loop and event queue of  *)
(* state_machine.c, the handlers of StateMachineActions.c, the image       *)
(* authentication and recovery they call, and the three interrupt sources  *)
(* (BMC reset indication, watchdogs, SMBus mailbox) that post events while *)
(* the single main thread is running a handler.                            *)
(*                                                                         *)
(* Flash content is abstracted to whether a region would authenticate:     *)
(* "good" or "bad".  An authentication, a recovery or an update takes      *)
(* seconds of flash time, so it is two steps (begin, end) and interrupts   *)
(* fall between them; everything else a handler does is one step.          *)
(***************************************************************************)
EXTENDS Integers, Sequences, FiniteSets

CONSTANTS QMax,         \* events the k_malloc heap can hold
          MaxBmcReset,  \* bound: BMC reset indications
          MaxTimeout,   \* bound: watchdog expiries
          MaxFault,     \* bound: flash writes that go wrong
          MaxCorrupt,   \* bound: regions damaged by a running processor
          MaxReset,     \* bound: resets of the HRoT itself
          MaxCmd,       \* bound: mailbox commands
          Damaged,      \* bound: regions that may be bad at the start
          Requested,    \* bound: CPLD_STATUS flags that may be set at the start
          Intents       \* bound: update intents the mailbox may carry

Images  == {"BMC", "PCH"}
\* "pchstaging" is the PCH capsule kept in BMC flash behind the BMC's own.
Regions == {"active", "recovery", "staging", "pchstaging"}
Content == {"good", "bad"}
Flash   == [Images -> [Regions -> Content]]

\* CPLD_STATUS: the updates to make at the next start.  Which region each one
\* is for is left open.
Flags == {"CpldStatus", "BmcStatus", "PchStatus", "BmcToPchStatus"}

\* UPDATE_INTENT bits of the update intent registers.
IntentBits == {"PchActiveUpdate", "PchRecoveryUpdate", "PlatfireActiveUpdte",
               "BmcActiveUpdate", "BmcRecoveryUpdate", "UpdateAtReset"}

ASSUME BoundsAssumption ==
  /\ QMax \in Nat \ {0}
  /\ MaxBmcReset \in Nat /\ MaxTimeout \in Nat /\ MaxFault \in Nat
  /\ MaxCorrupt \in Nat /\ MaxReset \in Nat /\ MaxCmd \in Nat
  /\ Damaged \subseteq Images \X Regions
  /\ Requested \subseteq Flags
  /\ Intents \subseteq SUBSET IntentBits

States  == {"IDLE", "I2C", "VERIFY", "RECOVERY", "UPDATE", "LOCKDOWN"}
Events  == {"INITIALIZE", "I2C", "VERIFY", "RECOVERY", "UPDATE"}

\* The global AO_DATA and EVENT_CONTEXT objects, which events point at.
AOs == {"Bmc", "Wdt", "Update", "I2c"}
Evs == {"Bmc0", "Bmc1", "Wdt", "Update", "I2c"}

Status == {"Success", "Failure"}
AoData == [type : {"NONE", "BMC", "PCH", "HROT", "I2C"}, active : Status, recovery : Status,
           prev : {"NONE", "Initial", "Verify", "Recovery"},
           pnc : {0, 1}, lockdown : {0, 1}]
EventContext == [op : {"NONE", "VERIFY_ACTIVE", "VERIFY_BACKUP", "RECOVER_ACTIVE",
                       "UPDATE_BACKUP", "I2C_HANDLE"},
                 image : {"NONE", "BMC", "PCH", "HROT"},
                 flash : {"NONE", "PRIMARY", "SECONDARY"}]
SmcEvent == [state : Events, ao : AOs \cup {"NULL"}, ev : Evs \cup {"NULL"}]

\* What a mailbox command asks of the state machine.
Commands ==
     [kind : {"Intent"}, source : Images, bits : Intents]
  \cup [kind : {"Paused", "Resumed", "Completed"}, image : Images]
  \cup [kind : {"Provision"}]
NoCommand == [kind |-> "None"]

PlatformStates == {"ENTER_T_MINUS_1", "BMC_FLASH_AUTH", "PCH_FLASH_AUTH",
                   "T_MINUS_1_FW_RECOVERY", "BMC_FW_UPDATE", "PCH_FW_UPDATE",
                   "ENTER_T0", "T0_BOOTED", "LOCKDOWN_ON_AUTH_FAIL"}

\* A flash operation: its status, the regions it rewrites, the flash when it
\* is done, whether a write went wrong, the CPLD_STATUS flags it clears and
\* whether it erases the provisioning.
Operation == [status : {"Success", "Failure", "VerifyActive", "VerifyRecovery"},
              writes : SUBSET (Images \X Regions), after : Flash, fault : BOOLEAN,
              clears : SUBSET Flags, decommissions : BOOLEAN]

VARIABLES
  cur,       \* current smf state
  ctx,       \* [ao, ev]: objects of the event being handled
  pc,        \* where the main thread is inside smf_run_state
  res,       \* the flash operation begun last
  evq,       \* the event FIFO
  ao, ev,    \* the shared objects
  cmd,       \* the mailbox command buffer
  bmc, pch,  \* reset lines: "held" or "released"
  wdt,       \* which watchdogs are running
  monitor,   \* BMC reset interrupt enabled
  platform,  \* PlatformState mailbox register
  prov,      \* provision status register = UFM_PROVISIONED
  ufm,       \* UFM flash holds a complete provisioning (persistent)
  flash,     \* flash content (persistent)
  cpld,      \* CPLD_STATUS flags (persistent)
  left       \* what is left of the bounds

linesVars == <<bmc, pch, wdt, monitor, platform>>
vars == <<cur, ctx, pc, res, evq, ao, ev, cmd, bmc, pch, wdt, monitor, platform,
          prov, ufm, flash, cpld, left>>

-----------------------------------------------------------------------------
(* Boot: main() and the static objects                                     *)

BlankAO == [type |-> "NONE", active |-> "Success", recovery |-> "Success",
            prev |-> "NONE", pnc |-> 0, lockdown |-> 0]
\* Mutant: the event contexts are not cleared.
UninitialisedEv == [op |-> "GARBAGE", image |-> "NONE", flash |-> "NONE"]

BlankEv == [op |-> "NONE", image |-> "NONE", flash |-> "NONE"]
NoContext == [ao |-> "NULL", ev |-> "NULL"]
InitialEvent == [state |-> "INITIALIZE", ao |-> "NULL", ev |-> "NULL"]
NoOperation == [status |-> "Success", writes |-> {},
                after |-> [i \in Images |-> [r \in Regions |-> "bad"]],
                fault |-> FALSE, clears |-> {}, decommissions |-> FALSE]

\* RAM as main() leaves it when it enters StartHrotStateMachine: both
\* processors held, objects zero (Success = 0), the INITIALIZE event queued,
\* the status register set from the provisioning flags in flash.
Boot ==
  /\ cur = "IDLE" /\ ctx = NoContext
  /\ pc = "run" /\ res = NoOperation
  /\ evq = <<InitialEvent>>
  /\ ao = [a \in AOs |-> BlankAO] /\ ev = [e \in Evs |-> BlankEv]
  /\ cmd = NoCommand
  /\ bmc = "held" /\ pch = "held"
  /\ wdt = [i \in Images |-> FALSE] /\ monitor = FALSE
  /\ platform = "ENTER_T_MINUS_1"
  /\ prov = ufm

\* The same for a restart, with what is in flash after it.
Reboot ==
  /\ cur' = "IDLE" /\ ctx' = NoContext
  /\ pc' = "run" /\ res' = NoOperation
  /\ evq' = <<InitialEvent>>
  /\ ao' = [a \in AOs |-> BlankAO] /\ ev' = [e \in Evs |-> BlankEv]
  /\ cmd' = NoCommand
  /\ bmc' = "held" /\ pch' = "held"
  /\ wdt' = [i \in Images |-> FALSE] /\ monitor' = FALSE
  /\ platform' = "ENTER_T_MINUS_1"
  /\ prov' = ufm'

Init ==
  /\ ufm \in BOOLEAN
  /\ flash \in {f \in Flash : \A i \in Images, r \in Regions :
                               f[i][r] = "bad" => <<i, r>> \in Damaged}
  /\ cpld \in SUBSET Requested
  /\ left = [bmcReset |-> MaxBmcReset, timeout |-> MaxTimeout, fault |-> MaxFault,
             corrupt |-> MaxCorrupt, reset |-> MaxReset, cmd |-> MaxCmd]
  /\ Boot

-----------------------------------------------------------------------------
(* Event queue: post_smc_action drops the event when k_malloc fails        *)

\* Mutant: a failed verification posts no recovery.
RecoveryNotPosted(q, state, a, e) ==
  IF state # "RECOVERY" /\ Len(q) < QMax
  THEN Append(q, [state |-> state, ao |-> a, ev |-> e]) ELSE q

\* Mutant: the event is posted without its context.
PostedWithoutContext(q, state, a, e) ==
  IF Len(q) < QMax THEN Append(q, [state |-> state, ao |-> a, ev |-> "NULL"]) ELSE q

post_smc_action(q, state, a, e) ==
  IF Len(q) < QMax THEN Append(q, [state |-> state, ao |-> a, ev |-> e]) ELSE q

-----------------------------------------------------------------------------
(* Platform lines                                                          *)

\* Mutant: only the PCH is held.
HoldsPchOnly == pch' = "held" /\ UNCHANGED bmc

BootHold == bmc' = "held" /\ pch' = "held"

\* Releases the selected processors; only a provisioned platform gets its
\* reset monitor and watchdogs.
T0Transition(releaseBmc, releasePCH) ==
  /\ platform' = "ENTER_T0"
  /\ monitor' = (monitor \/ prov)
  /\ wdt' = [i \in Images |->
               wdt[i] \/ (prov /\ IF i = "BMC" THEN releaseBmc ELSE releasePCH)]
  /\ bmc' = IF releaseBmc THEN "released" ELSE bmc
  /\ pch' = IF releasePCH THEN "released" ELSE pch

\* A BMC event releases the BMC; a PCH event releases nothing.  (The caller
\* clears ProcessNewCommand.)
CheckAndReleasePlatform(e) ==
  IF ev[e].image = "BMC" THEN T0Transition(TRUE, FALSE) ELSE UNCHANGED linesVars

-----------------------------------------------------------------------------
(* Flash operations                                                        *)

\* Flash f becomes g, regions rewritten being erased and written on the way.
Outcome(status, f, g, rewritten, fault) ==
  [status |-> status, after |-> g, fault |-> fault, clears |-> {}, decommissions |-> FALSE,
   writes |-> rewritten \cup {w \in Images \X Regions : f[w[1]][w[2]] # g[w[1]][w[2]]}]

Untouched(status, f) == Outcome(status, f, f, {}, FALSE)

\* Flash f with region r of image i holding c.
Put(f, i, r, c) == [f EXCEPT ![i][r] = c]

\* Flash f while operation o runs: what it rewrites is erased.
Erased(f, o) ==
  [i \in Images |-> [r \in Regions |-> IF <<i, r>> \in o.writes THEN "bad" ELSE f[i][r]]]

Written(f, o) ==
  [i \in Images |-> [r \in Regions |-> IF <<i, r>> \in o.writes THEN o.after[i][r] ELSE f[i][r]]]

\* pfr_staging_pch_staging on behalf of image i: the PCH capsule kept in BMC
\* flash, if it authenticates, is copied to the PCH staging area.  The area
\* is erased in the flash of i, so that on behalf of the BMC whatever BMC
\* regions the provisioned PCH offset falls on are lost, and the PCH staging
\* area is written without an erase.
pfr_staging_pch_staging(f, i) ==
  IF ~ufm \/ f["BMC"]["pchstaging"] = "bad" THEN {}
  ELSE IF i = "PCH" THEN {Put(f, "PCH", "staging", "good")}
  ELSE {[g EXCEPT !["BMC"] = [r \in Regions |-> IF r \in hit THEN "bad" ELSE @[r]]] :
          hit \in SUBSET Regions, g \in {Put(f, "PCH", "staging", c) : c \in Content}}

\* The ways update_firmware_image can end for a capsule aimed at region r of
\* image i.  Refused (corrupt staging, SVN, recovery region not intact) and
\* key cancellation leave the region alone; an accepted capsule rewrites it.
\* A faulty write is silent in the active region, detected in the recovery one.
update_firmware_image(f, flags, i, r) ==
  LET toPch == flags \cap {"BmcToPchStatus"}
      sources == IF toPch = {} THEN {f} ELSE pfr_staging_pch_staging(f, i)
      accepted(s) == ufm /\ s[i]["staging"] = "good" /\ (r = "active" => s[i]["recovery"] = "good")
      refused(s) == {Outcome(st, f, s, {}, FALSE) : st \in Status}
      done(s) == {Outcome("Success", f, Put(s, i, r, "good"), {<<i, r>>}, FALSE),
                  Outcome(IF r = "active" THEN "Success" ELSE "Failure", f,
                          Put(s, i, r, "bad"), {<<i, r>>}, TRUE),
                  Outcome("Failure", f, Put(s, i, r, "bad"), {<<i, r>>}, TRUE)}
      ends == {Untouched("Failure", f)}
              \cup (UNION {refused(s) : s \in sources})
              \cup (UNION {done(s) : s \in {x \in sources : accepted(x)}})
  IN {[o EXCEPT !.clears = toPch] : o \in ends}

\* hrot_update: refused, done (HRoT firmware or key cancellation), or a
\* decommissioning, which erases the UFM and every CPLD_STATUS flag.
hrot_update(f) ==
  {Untouched(s, f) : s \in Status} \cup
  {[Untouched("Success", f) EXCEPT !.clears = Flags, !.decommissions = TRUE]}

RegionOf(flashRegion) == IF flashRegion = "PRIMARY" THEN "active" ELSE "recovery"

Spend(faults) ==
  /\ Cardinality(faults) <= left.fault
  /\ left' = [left EXCEPT !.fault = @ - Cardinality(faults)]

\* One entry of check_staging_area: the update its flag asks for, if it is
\* set; flags is what CPLD_STATUS holds at that moment.
Deferred(f, flags, flag) ==
  CASE flag \notin cpld -> {Untouched("Success", f)}
    [] flag = "CpldStatus" -> hrot_update(f)
    [] flag = "BmcStatus" -> UNION {update_firmware_image(f, flags, "BMC", r) :
                                      r \in {"active", "recovery"}}
    [] flag = "PchStatus" -> UNION {update_firmware_image(f, flags, "PCH", r) :
                                      r \in {"active", "recovery"}}

\* check_staging_area: the updates recorded in CPLD_STATUS, HRoT, BMC, PCH in
\* this order, both processors held for each.  A flag may be cleared or stay,
\* and BmcToPchStatus, once served, may come back with the snapshot that is
\* written back.  After a decommissioning the others find no addresses.
check_staging_area ==
  /\ \E h \in Deferred(flash, cpld, "CpldStatus") :
       \E b \in Deferred(flash, cpld, "BmcStatus") :
         \E flags \in {cpld, cpld \ b.clears} :
           \E p \in Deferred(Written(flash, b), flags, "PchStatus") :
             /\ h.decommissions => b.writes = {} /\ p.writes = {}
             /\ Spend({o \in {b, p} : o.fault})
             /\ flash' = Written(Written(flash, b), p)
             /\ ufm' = (ufm /\ ~h.decommissions)
  /\ IF cpld \ {"BmcToPchStatus"} = {}
     THEN UNCHANGED <<bmc, pch, cpld, platform>>
     ELSE /\ BootHold
          /\ cpld' \in SUBSET cpld
          /\ platform' = IF "PchStatus" \notin cpld /\ "BmcStatus" \in cpld
                         THEN "BMC_FW_UPDATE" ELSE "PCH_FW_UPDATE"

\* Mutant: the statuses keep the zero (Success) they have at power on.
PublishKeepsStatus(q) ==
  /\ ao' = [ao EXCEPT !["Bmc"] = [@ EXCEPT !.type = "BMC", !.prev = "Initial", !.pnc = 1]]
  /\ ev' = [ev EXCEPT
       !["Bmc0"] = [op |-> "VERIFY_BACKUP", image |-> "BMC", flash |-> "SECONDARY"],
       !["Bmc1"] = [op |-> "VERIFY_ACTIVE", image |-> "BMC", flash |-> "PRIMARY"]]
  /\ evq' = post_smc_action(post_smc_action(q, "VERIFY", "Bmc", "Bmc0"),
                            "VERIFY", "Bmc", "Bmc1")

\* PublishBmcEvents on the queue q.
PublishBmcEvents(q) ==
  /\ ao' = [ao EXCEPT !["Bmc"] = [type |-> "BMC", active |-> "Failure",
              recovery |-> "Failure", prev |-> "Initial", pnc |-> 1,
              lockdown |-> @.lockdown]]
  /\ ev' = [ev EXCEPT
       !["Bmc0"] = [op |-> "VERIFY_BACKUP", image |-> "BMC", flash |-> "SECONDARY"],
       !["Bmc1"] = [op |-> "VERIFY_ACTIVE", image |-> "BMC", flash |-> "PRIMARY"]]
  /\ evq' = post_smc_action(post_smc_action(q, "VERIFY", "Bmc", "Bmc0"),
                            "VERIFY", "Bmc", "Bmc1")

\* PublishInitialEvents with queue q.
PublishInitialEvents(q) ==
  \/ /\ prov
     /\ check_staging_area
     /\ PublishBmcEvents(q)
     /\ UNCHANGED <<wdt, monitor>>
  \/ /\ ~prov
     /\ T0Transition(TRUE, TRUE)
     /\ evq' = q
     /\ UNCHANGED <<ao, ev, ufm, flash, cpld, left>>

-----------------------------------------------------------------------------
(* VERIFY                                                                  *)

\* Mutant: an operation other than the two verifications reports Failure.
UnknownOperationFails(e) ==
  LET i == IF ev[e].image = "BMC" THEN "BMC" ELSE "PCH"
      passes == CASE ev[e].op = "VERIFY_BACKUP" -> ufm /\ flash[i]["recovery"] = "good"
                  [] ev[e].op = "VERIFY_ACTIVE" -> ufm /\ flash[i]["active"] = "good"
                  [] OTHER -> FALSE
  IN Untouched(IF passes THEN "Success" ELSE "Failure", flash)

\* authentication_image: an erased UFM holds neither addresses nor root key, so
\* nothing authenticates; any operation other than the two verifications
\* reports Success without looking at the flash.
authentication_image(e) ==
  LET i == IF ev[e].image = "BMC" THEN "BMC" ELSE "PCH"
      passes == CASE ev[e].op = "VERIFY_BACKUP" -> ufm /\ flash[i]["recovery"] = "good"
                  [] ev[e].op = "VERIFY_ACTIVE" -> ufm /\ flash[i]["active"] = "good"
                  [] OTHER -> TRUE
  IN Untouched(IF passes THEN "Success" ELSE "Failure", flash)

\* run_verify / handleImageVerification up to the authentication.
VerifyBegin ==
  /\ pc = "run" /\ cur = "VERIFY"
  /\ IF ao[ctx.ao].pnc = 0
     THEN pc' = "parent" /\ UNCHANGED <<res, bmc, pch>>
     ELSE /\ pc' = "auth"
          /\ res' = authentication_image(ctx.ev)
          /\ IF ao[ctx.ao].prev = "Initial" /\ ev[ctx.ev].op = "VERIFY_ACTIVE"
             THEN BootHold ELSE UNCHANGED <<bmc, pch>>
  /\ UNCHANGED <<cur, ctx, evq, ao, ev, cmd, wdt, monitor, platform, prov, ufm, flash,
                 cpld, left>>

\* Mutant: the two status fields are swapped.
VerifiedSwapped(d, e, status) ==
  IF ev[e].op = "VERIFY_ACTIVE" THEN [d EXCEPT !.recovery = status]
  ELSE [d EXCEPT !.active = status]

\* The status goes to the region the operation names now, which an interrupt
\* may have changed during the authentication.
Verified(d, e, status) ==
  IF ev[e].op = "VERIFY_ACTIVE" THEN [d EXCEPT !.active = status]
  ELSE [d EXCEPT !.recovery = status]

VerifySucceeds ==
  LET d == Verified(ao[ctx.ao], ctx.ev, "Success")
      done == d.active = "Success" /\ d.recovery = "Success"
  IN /\ pc = "auth" /\ res.status = "Success"
     /\ pc' = "parent"
     /\ ao' = [ao EXCEPT ![ctx.ao] = IF done THEN [d EXCEPT !.pnc = 0] ELSE d]
     /\ IF done THEN CheckAndReleasePlatform(ctx.ev) ELSE UNCHANGED linesVars
     /\ UNCHANGED <<cur, ctx, res, evq, ev, cmd, prov, ufm, flash, cpld, left>>

VerifyFails ==
  LET d == Verified(ao[ctx.ao], ctx.ev, "Failure")
  IN /\ pc = "auth" /\ res.status = "Failure"
     /\ pc' = "parent"
     /\ IF d.pnc = 1
        THEN /\ ao' = [ao EXCEPT ![ctx.ao] = [d EXCEPT !.prev = "Verify"]]
             /\ ev' = [ev EXCEPT ![ctx.ev].op = "RECOVER_ACTIVE"]
             /\ evq' = post_smc_action(evq, "RECOVERY", ctx.ao, ctx.ev)
        ELSE ao' = [ao EXCEPT ![ctx.ao] = d] /\ UNCHANGED <<ev, evq>>
     /\ UNCHANGED <<cur, ctx, res, cmd, bmc, pch, wdt, monitor, platform, prov, ufm,
                    flash, cpld, left>>

-----------------------------------------------------------------------------
(* RECOVERY                                                                *)

\* The flashes recover_image may restore the recovery region in: staging must
\* authenticate, or for a PCH without a usable active image the copy kept in
\* BMC flash.
RecoverySources(d, i) ==
  IF ufm /\ flash[i]["staging"] = "good" THEN {flash}
  ELSE IF i = "PCH" /\ d.active # "Success" THEN pfr_staging_pch_staging(flash, i) ELSE {}

\* The ways recover_image can end for image i with object d.  The staged SVN
\* is compared with the active image's only while that image is intact.  The
\* active region is restored from a recovery region nobody checks here: a bad
\* one stops the decompression before or after the erase, or is copied.
recover_image(d, i) ==
  IF d.recovery # "Success"
  THEN (UNION {{Outcome("VerifyRecovery", flash, Put(s, i, "recovery", "good"),
                        {<<i, "recovery">>}, FALSE),
                Outcome("Failure", flash, Put(s, i, "recovery", "bad"),
                        {<<i, "recovery">>}, TRUE)} : s \in RecoverySources(d, i)})
       \cup {o \in {Untouched("Failure", flash)} :
               d.active = "Success" \/ RecoverySources(d, i) = {}}
  ELSE IF d.active = "Success" THEN {Untouched("Success", flash)}
  ELSE LET damaged == Put(flash, i, "active", "bad")
           intact == ufm /\ flash[i]["recovery"] = "good"
       IN {Outcome(st, flash, damaged, {<<i, "active">>}, intact)
             : st \in {"VerifyActive", "Failure"}}
          \cup (IF intact
                THEN {Outcome("VerifyActive", flash, Put(flash, i, "active", "good"),
                              {<<i, "active">>}, FALSE)}
                ELSE {Untouched("Failure", flash)})

\* run_recovery / handleRecoveryAction up to the flash work.
RecoverBegin ==
  LET d == ao[ctx.ao]
      i == IF ev[ctx.ev].image = "BMC" THEN "BMC" ELSE "PCH"
  IN /\ pc = "run" /\ cur = "RECOVERY"
     /\ pc' = "recover"
     /\ IF d.pnc = 0
        THEN /\ res' = Untouched("Success", flash)
             /\ UNCHANGED <<bmc, pch, flash, left>>
        ELSE /\ \E o \in recover_image(d, i) :
                  /\ Spend({x \in {o} : x.fault})
                  /\ res' = o
                  /\ flash' = Erased(flash, o)
             /\ IF d.prev = "Initial" /\ ev[ctx.ev].op = "RECOVER_ACTIVE"
                THEN BootHold ELSE UNCHANGED <<bmc, pch>>
     /\ UNCHANGED <<cur, ctx, evq, ao, ev, cmd, wdt, monitor, platform, prov, ufm, cpld>>

\* recover_image marks the region it restored as Success, handleRecoveryAction
\* posts a verification of it, and handlePostRecoverySuccess posts it again.
RecoverSucceeds ==
  LET d == ao[ctx.ao]
      fl == CASE res.status = "VerifyActive" -> "PRIMARY"
              [] res.status = "VerifyRecovery" -> "SECONDARY"
              [] OTHER -> ev[ctx.ev].flash
      once == IF res.status = "Success" THEN evq
              ELSE post_smc_action(evq, "VERIFY", ctx.ao, ctx.ev)
  IN /\ pc = "recover" /\ res.status # "Failure"
     /\ pc' = "parent"
     /\ flash' = Written(flash, res)
     /\ ao' = [ao EXCEPT ![ctx.ao] =
                [d EXCEPT !.prev = "Recovery",
                          !.active = IF res.status = "VerifyActive" THEN "Success" ELSE @,
                          !.recovery = IF res.status = "VerifyRecovery" THEN "Success" ELSE @]]
     /\ ev' = [ev EXCEPT ![ctx.ev] =
                [@ EXCEPT !.flash = fl,
                          !.op = IF fl = "SECONDARY" THEN "VERIFY_BACKUP" ELSE "VERIFY_ACTIVE"]]
     /\ evq' = post_smc_action(once, "VERIFY", ctx.ao, ctx.ev)
     /\ UNCHANGED <<cur, ctx, res, cmd, bmc, pch, wdt, monitor, platform, prov, ufm,
                    cpld, left>>

\* handlePostRecoveryFailure: no usable active image locks a BMC down for good
\* and releases the BMC when the image is the PCH's; an intact active image is
\* released without its recovery region.
RecoverFails ==
  LET d == ao[ctx.ao]
  IN /\ pc = "recover" /\ res.status = "Failure"
     /\ flash' = Written(flash, res)
     /\ \/ /\ d.active # "Success" /\ d.type = "BMC"
           /\ ao' = [ao EXCEPT ![ctx.ao] = [d EXCEPT !.lockdown = 1, !.pnc = 0]]
           /\ cur' = "LOCKDOWN" /\ ctx' = [ctx EXCEPT !.ev = "NULL"] /\ pc' = "run"
           /\ UNCHANGED linesVars
        \/ /\ d.active # "Success" /\ d.type # "BMC"
           /\ ao' = [ao EXCEPT ![ctx.ao] = [d EXCEPT !.lockdown = 1, !.pnc = 0]]
           /\ T0Transition(TRUE, FALSE)
           /\ pc' = "parent" /\ UNCHANGED <<cur, ctx>>
        \/ /\ d.active = "Success"
           /\ IF d.recovery = "Success" THEN UNCHANGED ao /\ UNCHANGED linesVars
              ELSE /\ ao' = [ao EXCEPT ![ctx.ao] = [d EXCEPT !.pnc = 0]]
                   /\ CheckAndReleasePlatform(ctx.ev)
           /\ pc' = "parent" /\ UNCHANGED <<cur, ctx>>
     /\ UNCHANGED <<res, evq, ev, cmd, prov, ufm, cpld, left>>

-----------------------------------------------------------------------------
(* UPDATE                                                                  *)

\* handle_update_image_action holds both processors and updates the image.
UpdateBegin ==
  LET e == ev[ctx.ev]
  IN /\ pc = "run" /\ cur = "UPDATE"
     /\ pc' = "update"
     /\ IF ao[ctx.ao].pnc = 0
        THEN /\ res' = Untouched("Success", flash)
             /\ UNCHANGED <<bmc, pch, platform, flash, left>>
        ELSE /\ BootHold
             /\ platform' = IF e.image = "BMC" THEN "BMC_FW_UPDATE" ELSE "PCH_FW_UPDATE"
             /\ \E o \in IF e.image = "HROT" THEN hrot_update(flash)
                         ELSE update_firmware_image(flash, cpld, e.image, RegionOf(e.flash)) :
                  /\ Spend({x \in {o} : x.fault})
                  /\ res' = o
                  /\ flash' = Erased(flash, o)
     /\ UNCHANGED <<cur, ctx, evq, ao, ev, cmd, wdt, monitor, prov, ufm, cpld>>

\* A finished HRoT update reboots; every other ending publishes the initial
\* events again.
Reboots == ao[ctx.ao].type = "HROT" /\ res.status = "Success"

\* What the operation persisted when it ended.
Persisted ==
  /\ flash' = Written(flash, res)
  /\ cpld' = cpld \ res.clears
  /\ ufm' = (ufm /\ ~res.decommissions)

\* Mutant: only an update that succeeded is taken as done.
UpdateEndKeepsFailed ==
  /\ pc = "update" /\ ~Reboots
  /\ pc' = "publish"
  /\ Persisted
  /\ ao' = IF res.status = "Failure" THEN ao ELSE [ao EXCEPT ![ctx.ao].pnc = 0]
  /\ UNCHANGED <<cur, ctx, res, evq, ev, cmd, bmc, pch, wdt, monitor, platform, prov, left>>

UpdateEnd ==
  /\ pc = "update" /\ ~Reboots
  /\ pc' = "publish"
  /\ Persisted
  /\ ao' = [ao EXCEPT ![ctx.ao].pnc = 0]
  /\ UNCHANGED <<cur, ctx, res, evq, ev, cmd, bmc, pch, wdt, monitor, platform, prov, left>>

UpdatePublish ==
  /\ pc = "publish"
  /\ pc' = "parent"
  /\ PublishInitialEvents(evq)
  /\ UNCHANGED <<cur, ctx, res, cmd, prov>>

UpdateReboot ==
  /\ pc = "update" /\ Reboots
  /\ Persisted
  /\ UNCHANGED left
  /\ Reboot

-----------------------------------------------------------------------------
(* I2C: a mailbox command handed to the main thread                        *)

\* The PublishUpdateEvent calls UpdateIntentHandle makes, in its order; active
\* and recovery together are one call, and for the PCH the last one.
UpdateEvents(bits) ==
  LET call(made, i, f) == IF made THEN <<[image |-> i, flash |-> f]>> ELSE <<>>
      rest == ~({"PchActiveUpdate", "PchRecoveryUpdate"} \subseteq bits)
      pchs == call("PchActiveUpdate" \in bits, "PCH", "PRIMARY")
              \o call("PchRecoveryUpdate" \in bits /\ rest, "PCH", "SECONDARY")
      hrot == call("PlatfireActiveUpdte" \in bits /\ rest, "HROT", "PRIMARY")
      bmcs == call("BmcActiveUpdate" \in bits /\ rest, "BMC", "PRIMARY")
              \o call("BmcRecoveryUpdate" \in bits /\ "BmcActiveUpdate" \notin bits /\ rest,
                      "BMC", "SECONDARY")
  IN IF "UpdateAtReset" \in bits THEN <<>> ELSE pchs \o hrot \o bmcs

\* The CPLD_STATUS flags UpdateIntentHandle sets.
UpdateFlags(bits, source) ==
  IF "UpdateAtReset" \in bits
  THEN {f \in Flags : \/ f = "PchStatus" /\ bits \cap {"PchActiveUpdate", "PchRecoveryUpdate"} # {}
                      \/ f = "CpldStatus" /\ "PlatfireActiveUpdte" \in bits
                      \/ f = "BmcStatus" /\ bits \cap {"BmcActiveUpdate", "BmcRecoveryUpdate"} # {}}
  ELSE {f \in Flags :
          /\ "PchActiveUpdate" \in bits
          /\ \/ f = "PchStatus" /\ "PchRecoveryUpdate" \in bits
             \/ f = "BmcToPchStatus" /\ "PchRecoveryUpdate" \notin bits /\ source = "BMC"}

\* One object and one event context serve all updates: each of the n
\* PublishUpdateEvent calls overwrites them and posts one more event.
PublishUpdateEvents(q, n) ==
  LET room == IF Len(q) < QMax THEN QMax - Len(q) ELSE 0
  IN q \o [k \in 1..(IF n < room THEN n ELSE room) |->
             [state |-> "UPDATE", ao |-> "Update", ev |-> "Update"]]

UpdateIntentHandle(bits, source) ==
  LET calls == UpdateEvents(bits)
      n == Len(calls)
  IN /\ cpld' = cpld \cup UpdateFlags(bits, source)
     /\ evq' = PublishUpdateEvents(evq, n)
     /\ ao' = IF n = 0 THEN [ao EXCEPT !["I2c"].pnc = 0]
              ELSE [ao EXCEPT !["I2c"].pnc = 0,
                              !["Update"] = [@ EXCEPT !.type = calls[n].image, !.pnc = 1]]
     /\ ev' = IF n = 0 THEN ev
              ELSE [ev EXCEPT !["Update"] = [op |-> "UPDATE_BACKUP", image |-> calls[n].image,
                                             flash |-> calls[n].flash]]

\* process_i2c_command / PchBmcCommands.  Once both processors have reported
\* the end of their boot, any checkpoint reports a booted platform.  A
\* provisioning command that is not refused leaves the status register
\* different from UFM_PROVISIONED, and may erase or complete the provisioning
\* in flash.
RunI2c ==
  /\ pc = "run" /\ cur = "I2C"
  /\ pc' = "parent"
  /\ \/ /\ ao[ctx.ao].pnc = 0
        /\ UNCHANGED <<ao, ev, evq, wdt, platform, prov, ufm, cpld>>
     \/ /\ ao[ctx.ao].pnc = 1 /\ cmd.kind = "Intent"
        /\ UpdateIntentHandle(cmd.bits, cmd.source)
        /\ UNCHANGED <<wdt, platform, prov, ufm>>
     \/ /\ ao[ctx.ao].pnc = 1 /\ cmd.kind \in {"Paused", "Resumed", "Completed"}
        /\ wdt' = [wdt EXCEPT ![cmd.image] = (cmd.kind = "Resumed")]
        /\ \/ platform' = "T0_BOOTED"
           \/ cmd.kind # "Completed" /\ UNCHANGED platform
        /\ ao' = [ao EXCEPT !["I2c"].pnc = 0]
        /\ UNCHANGED <<ev, evq, prov, ufm, cpld>>
     \/ /\ ao[ctx.ao].pnc = 1 /\ cmd.kind = "Provision"
        /\ \/ prov' = FALSE /\ ufm' \in BOOLEAN
           \/ UNCHANGED <<prov, ufm>>
        /\ ao' = [ao EXCEPT !["I2c"].pnc = 0]
        /\ UNCHANGED <<ev, evq, wdt, platform, cpld>>
  /\ UNCHANGED <<cur, ctx, res, cmd, bmc, pch, monitor, flash, left>>

-----------------------------------------------------------------------------
(* LOCKDOWN has no parent state: run_idle is never reached again           *)

RunLockdown ==
  /\ pc = "run" /\ cur = "LOCKDOWN"
  /\ ao' = [ao EXCEPT ![ctx.ao].lockdown = 1]
  /\ platform' = "LOCKDOWN_ON_AUTH_FAIL"
  /\ UNCHANGED <<cur, ctx, pc, res, evq, ev, cmd, bmc, pch, wdt, monitor, prov, ufm,
                 flash, cpld, left>>

-----------------------------------------------------------------------------
(* run_idle: the run action of IDLE and of the parent of the other states  *)

\* Mutant: LOCKDOWN has IDLE as its parent, as the other states have.
LockdownHasParent == (pc = "run" /\ cur \in {"IDLE", "LOCKDOWN"}) \/ pc = "parent"

AtIdle == (pc = "run" /\ cur = "IDLE") \/ pc = "parent"

IdleEmpty ==
  /\ AtIdle /\ evq = <<>>
  /\ pc' = "run"
  /\ UNCHANGED <<cur, ctx, res, evq, ao, ev, cmd, bmc, pch, wdt, monitor, platform,
                 prov, ufm, flash, cpld, left>>

IdleInitialize ==
  /\ AtIdle /\ evq # <<>>
  /\ Head(evq).state = "INITIALIZE"
  /\ pc' = "run"
  /\ ctx' = NoContext
  /\ PublishInitialEvents(Tail(evq))
  /\ UNCHANGED <<cur, res, cmd, prov>>

\* The entry actions.  update_entry passes the image number where
\* handleUpdateEntryState expects the object, so the state it reports is
\* either update state.
Entry(state, a) ==
  CASE state = "VERIFY" ->
         platform' = IF ao[a].type = "BMC" THEN "BMC_FLASH_AUTH" ELSE "PCH_FLASH_AUTH"
    [] state = "RECOVERY" -> platform' = "T_MINUS_1_FW_RECOVERY"
    [] state = "UPDATE" -> platform' \in {"BMC_FW_UPDATE", "PCH_FW_UPDATE"}
    [] OTHER -> UNCHANGED platform

IdleDispatch ==
  LET e == Head(evq)
  IN /\ AtIdle /\ evq # <<>>
     /\ e.state # "INITIALIZE"
     /\ pc' = "run"
     /\ cur' = e.state /\ ctx' = [ao |-> e.ao, ev |-> e.ev]
     /\ evq' = Tail(evq)
     /\ Entry(e.state, e.ao)
     /\ UNCHANGED <<res, ao, ev, cmd, bmc, pch, wdt, monitor, prov, ufm, flash,
                    cpld, left>>

-----------------------------------------------------------------------------
(* Interrupts                                                              *)

\* Mutant: the object is not marked as having a command to process.
BmcResetNoCommand ==
  /\ monitor /\ bmc = "released" /\ left.bmcReset > 0
  /\ left' = [left EXCEPT !.bmcReset = @ - 1]
  /\ monitor' = FALSE
  /\ platform' = "T_MINUS_1_FW_RECOVERY"
  /\ ao' = [ao EXCEPT !["Bmc"] = [@ EXCEPT !.active = "Failure", !.prev = "Initial",
                                           !.type = "BMC"]]
  /\ ev' = [ev EXCEPT !["Bmc1"] = [@ EXCEPT !.op = "VERIFY_ACTIVE", !.image = "BMC"]]
  /\ evq' = post_smc_action(evq, "VERIFY", "Bmc", "Bmc1")
  /\ UNCHANGED <<cur, ctx, pc, res, cmd, bmc, pch, wdt, prov, ufm, flash, cpld>>

\* bmc_rstind_handler: a released BMC reset itself.
BmcReset ==
  /\ monitor /\ bmc = "released" /\ left.bmcReset > 0
  /\ left' = [left EXCEPT !.bmcReset = @ - 1]
  /\ monitor' = FALSE
  /\ platform' = "T_MINUS_1_FW_RECOVERY"
  /\ ao' = [ao EXCEPT !["Bmc"] = [@ EXCEPT !.active = "Failure", !.prev = "Initial",
                                           !.pnc = 1, !.type = "BMC"]]
  /\ ev' = [ev EXCEPT !["Bmc1"] = [@ EXCEPT !.op = "VERIFY_ACTIVE", !.image = "BMC"]]
  /\ evq' = post_smc_action(evq, "VERIFY", "Bmc", "Bmc1")
  /\ UNCHANGED <<cur, ctx, pc, res, cmd, bmc, pch, wdt, prov, ufm, flash, cpld>>

\* wdt_callback_bmc_timeout, wdt_callback_pch_timeout and handlePowerOnFailure:
\* one object for both watchdogs, whose recovery status nobody sets.  The
\* timer keeps running.
WdtTimeout(i) ==
  /\ wdt[i] /\ left.timeout > 0
  /\ left' = [left EXCEPT !.timeout = @ - 1]
  /\ platform' = "T_MINUS_1_FW_RECOVERY"
  /\ ao' = [ao EXCEPT !["Wdt"] = [@ EXCEPT !.active = "Failure", !.prev = "Initial",
                                           !.pnc = 1, !.type = i]]
  /\ ev' = [ev EXCEPT !["Wdt"] = [@ EXCEPT !.op = "RECOVER_ACTIVE", !.image = i]]
  /\ evq' = post_smc_action(evq, "RECOVERY", "Wdt", "Wdt")
  /\ UNCHANGED <<cur, ctx, pc, res, cmd, bmc, pch, wdt, monitor, prov, ufm, flash, cpld>>

\* Mutant: a command that comes while an event waits is marked but not posted.
I2cWriteWhenBusy(c) ==
  /\ bmc = "released" /\ left.cmd > 0
  /\ left' = [left EXCEPT !.cmd = @ - 1]
  /\ cmd' = c
  /\ ao' = [ao EXCEPT !["I2c"] = [@ EXCEPT !.pnc = 1, !.type = "I2C"]]
  /\ ev' = [ev EXCEPT !["I2c"].op = "I2C_HANDLE"]
  /\ evq' = IF evq = <<>> THEN post_smc_action(evq, "I2C", "I2c", "I2c") ELSE evq
  /\ UNCHANGED <<cur, ctx, pc, res, bmc, pch, wdt, monitor, platform, prov, ufm, flash,
                 cpld>>

\* A complete mailbox write from the BMC: it overwrites the one command buffer.
I2cWrite(c) ==
  /\ bmc = "released" /\ left.cmd > 0
  /\ left' = [left EXCEPT !.cmd = @ - 1]
  /\ cmd' = c
  /\ ao' = [ao EXCEPT !["I2c"] = [@ EXCEPT !.pnc = 1, !.type = "I2C"]]
  /\ ev' = [ev EXCEPT !["I2c"].op = "I2C_HANDLE"]
  /\ evq' = post_smc_action(evq, "I2C", "I2c", "I2c")
  /\ UNCHANGED <<cur, ctx, pc, res, bmc, pch, wdt, monitor, platform, prov, ufm, flash,
                 cpld>>

-----------------------------------------------------------------------------
(* Environment                                                             *)

\* Software running on a released processor damages its flash.
Corrupt(i, r) ==
  /\ IF i = "BMC" THEN bmc = "released" ELSE pch = "released"
  /\ flash[i][r] = "good" /\ <<i, r>> # <<"PCH", "pchstaging">>
  /\ left.corrupt > 0
  /\ left' = [left EXCEPT !.corrupt = @ - 1]
  /\ flash' = [flash EXCEPT ![i][r] = "bad"]
  /\ UNCHANGED <<cur, ctx, pc, res, evq, ao, ev, cmd, bmc, pch, wdt, monitor, platform,
                 prov, ufm, cpld>>

\* The HRoT itself is reset, possibly in the middle of a flash operation.  An
\* update rewrites the UFM (security version, cancelled key) and CPLD_STATUS by
\* erasing their sector first: a reset in between loses them.
Reset ==
  /\ left.reset > 0
  /\ left' = [left EXCEPT !.reset = @ - 1]
  /\ UNCHANGED flash
  /\ \/ UNCHANGED <<ufm, cpld>>
     \/ /\ pc = "update" /\ ao[ctx.ao].pnc = 1
        /\ cpld' \in {cpld, cpld \ res.clears, {}} /\ ufm' \in {ufm, FALSE}
  /\ Reboot

-----------------------------------------------------------------------------
MainThread ==
  \/ IdleEmpty \/ IdleInitialize \/ IdleDispatch
  \/ VerifyBegin \/ VerifySucceeds \/ VerifyFails
  \/ RecoverBegin \/ RecoverSucceeds \/ RecoverFails
  \/ UpdateBegin \/ UpdateEnd \/ UpdatePublish \/ UpdateReboot
  \/ RunI2c \/ RunLockdown

Interrupt ==
  \/ BmcReset
  \/ \E i \in Images : WdtTimeout(i)
  \/ \E c \in Commands : I2cWrite(c)

Environment == Reset \/ \E i \in Images, r \in Regions : Corrupt(i, r)

Next == MainThread \/ Interrupt \/ Environment

Spec == Init /\ [][Next]_vars

\* The main loop never blocks: it runs, sleeps 10 ms and runs again.
FairSpec == Spec /\ WF_vars(MainThread)

-----------------------------------------------------------------------------
(* Properties                                                              *)

\* Every variable stays in its domain.
TypeOK ==
  /\ cur \in States
  /\ ctx \in [ao : AOs \cup {"NULL"}, ev : Evs \cup {"NULL"}]
  /\ pc \in {"run", "auth", "recover", "update", "publish", "parent"}
  /\ res \in Operation
  /\ evq \in Seq(SmcEvent)
  /\ ao \in [AOs -> AoData] /\ ev \in [Evs -> EventContext]
  /\ cmd \in Commands \cup {NoCommand}
  /\ bmc \in {"held", "released"} /\ pch \in {"held", "released"}
  /\ wdt \in [Images -> BOOLEAN] /\ monitor \in BOOLEAN
  /\ platform \in PlatformStates
  /\ prov \in BOOLEAN /\ ufm \in BOOLEAN
  /\ flash \in Flash
  /\ cpld \in SUBSET Flags
  /\ left \in [bmcReset : Nat, timeout : Nat, fault : Nat, corrupt : Nat, reset : Nat, cmd : Nat]

\* No handler is given the NULL objects of the INITIALIZE event, or the NULL
\* event LockDownPlatform leaves: run_verify, run_recovery, run_update and
\* run_i2c dereference both pointers, run_lockdown the first.
NoNullDereference ==
  /\ cur # "IDLE" => ctx.ao # "NULL"
  /\ cur \notin {"IDLE", "LOCKDOWN"} => ctx.ev # "NULL"

\* LOCKDOWN ends only with a reset of the HRoT, and until then no handler or
\* interrupt moves a reset line: run_lockdown has no parent state, so nothing
\* posted afterwards is dispatched.
LockdownFinal ==
  [][cur = "LOCKDOWN" => \/ cur' = "LOCKDOWN" /\ UNCHANGED <<bmc, pch>>
                         \/ left'.reset < left.reset]_vars

\* Whoever reaches LOCKDOWN does so with the BMC held: handlePostRecoveryFailure
\* itself moves no line and relies on an earlier BMCBootHold.
LockdownHoldsBmc == cur = "LOCKDOWN" => bmc = "held"

\* The BMC's active region is only rewritten, by recover_image or by
\* update_firmware_image, while the BMC is held.
RewriteHoldsBmc ==
  pc \in {"recover", "update"} /\ <<"BMC", "active">> \in res.writes => bmc = "held"

\* An update object UpdateIntentHandle has armed has an UPDATE event that waits
\* or is being handled: no intent is left behind in the one object for the event
\* of a later command to carry out, however many commands overwrite it and
\* whatever fills the FIFO meanwhile.
UpdateNotStranded ==
  ao["Update"].pnc = 1 =>
    \/ \E k \in 1..Len(evq) : evq[k].state = "UPDATE"
    \/ cur = "UPDATE" /\ pc \in {"run", "update"}

\* A provisioned BMC is released only with an active region that authenticates:
\* CheckAndReleasePlatform acts on the flags in AO_DATA, not on the flash.
ReleasesIntactBmc ==
  [][bmc = "held" /\ bmc' = "released" /\ prov => ufm /\ flash["BMC"]["active"] = "good"]_vars

\* A provisioned BMC that runs is watched: its reset interrupt is enabled
\* unless the object bmc_rstind_handler activates is still active.
Monitored ==
  prov /\ bmc = "released" /\ cur # "LOCKDOWN" => monitor \/ ao["Bmc"].pnc = 1

\* The duplicate events of the recovery path do not pile up: what waits in the
\* FIFO is bounded by a constant and what each interrupt and command adds.
QueueBounded ==
  Len(evq) <= 4 + 2 * ((MaxBmcReset - left.bmcReset) + (MaxTimeout - left.timeout))
                + 5 * (MaxCmd - left.cmd)

\* What an authentication of the BMC's active region would find.
BmcImage == IF ufm /\ flash["BMC"]["active"] = "good" THEN "good" ELSE "bad"

Guard == INSTANCE Platform WITH image <- BmcImage, enabled <- prov,
                                locked <- cur = "LOCKDOWN", resets <- left.reset

\* Whatever waits in the FIFO and whichever object a handler works on, each step
\* moves the BMC's reset line and rewrites its active region only as Platform
\* allows: rewritten while held, released intact, frozen in LOCKDOWN.
PlatformSpec == Guard!Spec

\* A provisioned BMC is locked down only when its active region does not
\* authenticate: handlePostRecoveryFailure takes the status field for it, which
\* PublishBmcEvents and the interrupts set to Failure before anything is verified.
LocksBrokenBmc ==
  [][cur # "LOCKDOWN" /\ cur' = "LOCKDOWN" /\ prov => BmcImage = "bad"]_vars

\* Every BMC that is held gets released or locked down: no sequence of
\* verifications and recoveries goes on for ever.
BmcDecided == bmc = "held" ~> (bmc = "released" \/ cur = "LOCKDOWN")

\* A command accepted by the I2C slave is processed, or overtaken by a lockdown.
CommandServed == ao["I2c"].pnc = 1 ~> (ao["I2c"].pnc = 0 \/ cur = "LOCKDOWN")
=============================================================================
